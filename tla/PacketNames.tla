----------------------------- MODULE PacketNames -----------------------------
(***************************************************************************)
(* detfm::rename() in src/detfm.cpp: what the classes analyze() found are  *)
(* called, the readers and writers, the packets and their packages, and    *)
(* the codes of clientbound packets, read off the code that dispatches     *)
(* them (find_clientbound_packets).                                        *)
(*                                                                         *)
(* Classes are positions, their names multinames.  An instruction has an   *)
(* opcode, one argument (of a pushdouble, its value) and the positions it  *)
(* may jump to.  Packet names known from packets/ are left out.            *)
(***************************************************************************)
EXTENDS Renaming

VARIABLES cleared,   \* the classes whose traits are gone
          bases      \* the texts by which packets are recognised

packetVars == <<cleared, bases>>
PacketInit == cleared = {} /\ bases = <<>>

Null == 0
Name(c) == file.classes[c].name
Traits(c, side) == IF c \in cleared THEN <<>> ELSE file.classes[c][side]
MethodOf(trait) == file.methods[trait.index]
Role(r) == file.roles[r]

Titled(p, m, text) == Rename(p, m, Fixed(text))
\* rename() and set_class_ns() of one class.
Known(p, c, text, package) == Place(Rename(p, Name(c), text), Name(c), package)

\* std::find_if and its like: the first position that passes, or Null.
First(s, from, Test(_)) ==
  LET found == {i \in DOMAIN s : i >= from /\ Test(s[i])}
  IN IF found = {} THEN Null ELSE CHOOSE i \in found : \A j \in found : i <= j

FindClass(name) == First(file.classes, 1, LAMBDA c : c.name = name)

Go(from, to) == stage = from /\ stage' = to /\ next' = 1
Loop(at, s) == stage = at /\ next \in DOMAIN s /\ next' = next + 1 /\ UNCHANGED stage
Leave(at, s, to) == stage = at /\ next \notin DOMAIN s /\ stage' = to /\ next' = 1
Rest == UNCHANGED <<file, symbolVars, packetVars>>
Same == Rest /\ UNCHANGED counters

-----------------------------------------------------------------------------
\* A base class, and its instance traits from the first-th on.
Base(p, role, text, first, texts) ==
  LET itrait(k) == file.classes[Role(role)].itraits[first + k - 1]
  IN IF Role(role) = Null THEN p
     ELSE RenameAll(Known(p, Role(role), Fixed(text), "packets"),
                    [k \in DOMAIN texts |-> <<itrait(k).name, Fixed(texts[k])>>])

\* itraits[2] of the serverbound base is there only if the class has three.
NameBases ==
  /\ IF Role("base_spkt") # Null /\ Len(file.classes[Role("base_spkt")].itraits) < 3
     THEN Go("rename", "crashed") /\ UNCHANGED pool
     ELSE /\ Go("rename", "writers")
          /\ LET p == Base(pool, "base_spkt", "SPacketBase", 3, <<"pcode">>)
                 q == Base(p, "base_cpkt", "CPacketBase", 1, <<"pcode0", "pcode1", "buffer">>)
             IN pool' = Base(q, "varint_reader", "VarIntReader", 1, <<"buffer">>)
  /\ Same

RoleTraits(role) == IF Role(role) = Null THEN <<>> ELSE Traits(Role(role), "itraits")

\* The one method that the code calls on the buffer, up to where it does
\* anything else.
Written(code, buffer) ==
  LET other(i) == \/ i.op = "getproperty" /\ i.arg # buffer
                  \/ i.op \notin {"getproperty", "callpropvoid", "getlocal0", "getlocal1",
                                  "pushscope", "returnvalue"}
      stop == First(code, 1, other)
      calls == {i \in DOMAIN code : code[i].op = "callpropvoid" /\ (stop # Null => i < stop)}
  IN IF Cardinality(calls) = 1 THEN code[CHOOSE i \in calls : TRUE].arg ELSE Null

NameWriter ==
  /\ Loop("writers", RoleTraits("base_spkt"))
  /\ LET traits == RoleTraits("base_spkt")
         trait == traits[next]
         m == MethodOf(trait)
         fits == m.small /\ m.returnType = Name(Role("base_spkt"))
         call == Written(m.code, traits[1].name)
     IN pool' = IF trait.kind = "Method" /\ fits /\ call # Null
                THEN Rename(pool, trait.name, Text(pool, call)) ELSE pool
  /\ Same

WritersDone ==
  Leave("writers", RoleTraits("base_spkt"), "readers") /\ UNCHANGED pool /\ Same

\* A method of the reader is called as what it calls on the buffer; the first
\* that does not have the shape is readVarInt.
NameReader ==
  /\ Loop("readers", RoleTraits("varint_reader"))
  /\ LET traits == RoleTraits("varint_reader")
         trait == traits[next]
         m == MethodOf(trait)
         get == First(m.code, 1, LAMBDA i : i.op = "getproperty")
         reads == /\ get # Null /\ m.code[get].arg = traits[1].name
                  /\ get + 1 \in DOMAIN m.code /\ m.code[get + 1].op = "callproperty"
         text == IF m.returnType # 0 /\ Text(pool, m.returnType) = Fixed("Boolean")
                 THEN Fixed("readBoolean") ELSE Text(pool, m.code[get + 1].arg)
     IN CASE trait.kind = "Method" /\ m.small /\ reads ->
               pool' = Rename(pool, trait.name, text) /\ UNCHANGED counters
          [] trait.kind = "Method" /\ ~m.small /\ counters["readVarInt"] = 0 ->
               /\ pool' = Titled(pool, trait.name, "readVarInt")
               /\ counters' = [counters EXCEPT !["readVarInt"] = 1]
          [] OTHER -> UNCHANGED <<pool, counters>>
  /\ Rest

ReadersDone ==
  /\ Leave("readers", RoleTraits("varint_reader"), "proxied")
  /\ pool' = IF Role("interface_proxy") = Null THEN pool
             ELSE Titled(pool, Name(Role("interface_proxy")), "InterfaceProxy")
  /\ Same

ProxyCode ==
  IF Role("interface_proxy") = Null THEN <<>>
  ELSE file.methods[file.classes[Role("interface_proxy")].iinit].code
NextKey == First(ProxyCode, next, LAMBDA i : i.op = "pushstring")
NextGet ==
  IF NextKey = Null THEN Null ELSE First(ProxyCode, NextKey, LAMBDA i : i.op = "getproperty")

\* The property read after a key takes over the string of the key.
NameProxied ==
  /\ stage = "proxied" /\ NextGet # Null /\ next' = NextGet
  /\ LET m == ProxyCode[NextGet].arg
     IN pool' = IF Text(pool, m)[1] \in {"method_", "name_", "const_"}
                THEN [pool EXCEPT !.multinames[m].str = ProxyCode[NextKey].arg] ELSE pool
  /\ UNCHANGED stage /\ Same

BaseRoles == {"base_spkt", "base_cpkt"}
BothBases == \A role \in BaseRoles : Role(role) # Null

\* What the bases are called by now.
ProxiedDone ==
  /\ stage = "proxied" /\ NextGet = Null /\ stage' = "packets" /\ next' = 1
  /\ bases' = IF BothBases THEN [role \in BaseRoles |-> Text(pool, Name(Role(role)))] ELSE <<>>
  /\ UNCHANGED <<file, symbolVars, counters, pool, cleared>>

-----------------------------------------------------------------------------
\* What the constructor pushes before it calls super(), byte after byte; more
\* than three are left out.
Pushed(code) ==
  LET super == First(code, 1, LAMBDA i : i.op = "constructsuper")
      before == IF super = Null THEN Len(code) ELSE super - 1
      pushed[k \in 0..Len(code)] ==
        IF k = 0 THEN 0
        ELSE IF code[k].op = "pushdouble" THEN 256 * pushed[k - 1] + code[k].arg
        ELSE pushed[k - 1]
  IN pushed[before]
SPacket(code) == <<"SPacket", <<(code \div 256) % 256, code % 256>>>>

\* Subclasses are recognised by the text of their super's name.
Extends(c, role) ==
  LET super == file.classes[c].super
  IN super # 0 /\ Text(pool, super) = bases[role]

NamePacket ==
  /\ Loop("packets", file.classes)
  /\ LET count == counters["CPacket_u"] + 1
         code == Pushed(file.methods[file.classes[next].iinit].code)
     IN CASE BothBases /\ Extends(next, "base_spkt") ->
               /\ pool' = Known(pool, next, SPacket(code), "packets.serverbound")
               /\ UNCHANGED counters
          [] BothBases /\ ~Extends(next, "base_spkt") /\ Extends(next, "base_cpkt") ->
               /\ pool' = Known(pool, next, <<"CPacket_u", count>>, "packets.clientbound")
               /\ counters' = [counters EXCEPT !["CPacket_u"] = count]
          [] OTHER -> UNCHANGED <<pool, counters>>
  /\ Rest

PacketsDone ==
  Leave("packets", file.classes, "statics") /\ UNCHANGED pool /\ Same

\* The static classes, a map, come in any order.
NameStatic ==
  /\ stage = "statics"
  /\ \E c \in file.statics \ cleared :
       /\ pool' = Known(pool, c, <<"$StaticClass_", next>>, "com.obfuscate")
       /\ cleared' = cleared \cup {c}
  /\ next' = next + 1
  /\ UNCHANGED <<file, symbolVars, counters, stage, bases>>

\* wrap_class is used without a check.
NameWrapper ==
  /\ stage = "statics" /\ file.statics \subseteq cleared
  /\ LET game == file.classes[1]
         i == First(Traits(1, "ctraits"), 1,
                    LAMBDA t : t.kind = "Slot" /\ t.type = game.name)
         p == Known(pool, Role("wrap_class"), Fixed("$WrapperClass"), "com.obfuscate")
     IN IF Role("wrap_class") = Null THEN stage' = "crashed" /\ UNCHANGED <<pool, cleared>>
        ELSE /\ cleared' = cleared \cup {Role("wrap_class")}
             /\ pool' = IF i = Null THEN p ELSE Titled(p, game.ctraits[i].name, "instance")
             /\ stage' = "handler"
  /\ next' = 1
  /\ UNCHANGED <<file, symbolVars, counters, bases>>

PacketNext ==
  \/ NameBases \/ NameWriter \/ WritersDone \/ NameReader \/ ReadersDone
  \/ NameProxied \/ ProxiedDone \/ NamePacket \/ PacketsDone
  \/ NameStatic \/ NameWrapper
=============================================================================
