------------------------------ MODULE Dispatch ------------------------------
(***************************************************************************)
(* find_clientbound_packets in src/detfm.cpp: the walk over the code that  *)
(* dispatches clientbound packets.  It compares the category and then the  *)
(* code of a message with constants; what it constructs after a match is   *)
(* the class of that packet.  A category may have a handler of its own,    *)
(* and one packet leads to Tribulle's code (module Tribulle).              *)
(***************************************************************************)
EXTENDS PacketNames

VARIABLE scan   \* the walk over the handler

\* Where it is, what it looks for, and the class, the methods and the place in
\* them that it was led to.
Start == [ins |-> 1, category |-> 0, target |-> 0, found |-> FALSE,
          sub |-> Null, method |-> Null, ids |-> Null, subIns |-> 1]
DispatchInit == scan = Start

TribulleCode == <<60, 3>>
NewClass   == <<"findpropstrict", "getlocal1", "constructprop">>
SubHandler == <<"getlex", "getlocal1", "getlex", "getproperty", "callpropvoid", "returnvoid">>

\* is_sequence()
Is(code, i, ops) ==
  \A k \in DOMAIN ops : i + k - 1 \in DOMAIN code /\ code[i + k - 1].op = ops[k]

Op(code, i) == IF i \in DOMAIN code THEN code[i].op ELSE ""

IsBuffer(t) ==
  t.kind = "Slot" /\ t.type = file.byteArray /\ Text(pool, t.name) = Fixed("buffer")
IsReader(c) == Traits(c, "itraits") # <<>> /\ IsBuffer(Traits(c, "itraits")[1])

\* The methods of a message handler are match_packet_handler's.
HandleTrait ==
  First(Traits(Role("pkt_hdlr"), "ctraits"), 1,
        LAMBDA t : /\ t.kind = "Method" /\ MethodOf(t).big
                   /\ MethodOf(t).params = <<file.byteArray>>)
Handle == Traits(Role("pkt_hdlr"), "ctraits")[HandleTrait]
Code == MethodOf(Handle).code

\* get_packet_code(): the constant comes after the property it is compared
\* with, or before.  Where the comparison is none the walk may be ahead.
PacketCode(i) ==
  LET read(value, at) == [ok |-> Op(Code, at) = "ifne", value |-> value % 256, ins |-> at]
      none == [ok |-> FALSE, value |-> 0, ins |-> i]
  IN IF Op(Code, i) # "getlex" \/ Code[i].arg # Name(Role("pkt_hdlr"))
        \/ Op(Code, i + 1) # "getproperty" THEN none
     ELSE IF Op(Code, i + 2) = "pushdouble" THEN read(Code[i + 2].arg, i + 3)
     ELSE IF Op(Code, i - 1) = "pushdouble" THEN read(Code[i - 1].arg, i + 2)
     ELSE none

PastConstant(i) == IF Op(Code, i) = "pushdouble" THEN i + 1 ELSE i

\* Mutant: the scan does not stop where the code returns.
ConstructedAfter(code, i, end) ==
  LET news == {k \in i..end : k \in DOMAIN code /\ Is(code, k, NewClass)}
  IN IF news = {} THEN Null ELSE FindClass(code[CHOOSE k \in news : \A j \in news : k <= j].arg)

\* The first class constructed from i on, before the code returns or passes
\* the position end; Null if there is none.
Constructed(code, i, end) ==
  LET stops == {k \in i..(IF end < i THEN Len(code) ELSE end) :
                  /\ k \in DOMAIN code
                  /\ code[k].op = "returnvoid" \/ Is(code, k, NewClass)}
  IN IF stops = {} THEN Null
     ELSE LET k == CHOOSE k \in stops : \A j \in stops : k <= j
          IN IF Op(code, k) = "returnvoid" THEN Null ELSE FindClass(code[k].arg)

CPacket(category, code) == <<"CPacket", <<category, code>>>>
Clientbound(c, category, code) ==
  IF c = Null THEN pool ELSE Known(pool, c, CPacket(category, code), "packets.clientbound")

Walk == Same /\ UNCHANGED next

\* The walk goes on behind target->prev, and the first instruction has none.
Resumed(target) == IF target = 1 THEN "crashed" ELSE "walk"

-----------------------------------------------------------------------------
NameHandler ==
  /\ stage = "handler"
  /\ IF Role("pkt_hdlr") = Null THEN stage' = "sets" /\ UNCHANGED pool
     ELSE /\ stage' = "walk"
          /\ pool' = Titled(Known(pool, Role("pkt_hdlr"), Fixed("PacketHandler"), "packets"),
                            Handle.name, "handle_packet")
  /\ scan' = Start /\ Walk

WalkOn ==
  /\ stage = "walk" /\ scan.ins \in DOMAIN Code /\ ~PacketCode(scan.ins).ok
  /\ PacketCode(scan.ins).ins \in DOMAIN Code
  /\ scan' = [scan EXCEPT !.ins = PacketCode(scan.ins).ins + 1]
  /\ UNCHANGED <<stage, pool>> /\ Walk

EnterCategory ==
  /\ stage = "walk" /\ scan.ins \in DOMAIN Code /\ PacketCode(scan.ins).ok
  /\ LET test == PacketCode(scan.ins)
     IN scan' = [scan EXCEPT !.category = test.value, !.target = Code[test.ins].to[1],
                             !.found = FALSE, !.ins = PastConstant(test.ins + 1)]
  /\ stage' = "codes" /\ UNCHANGED pool /\ Walk

\* One code of the category: the first class constructed gets its name,
\* unless that is the reader of varints.
NameCode ==
  LET test == PacketCode(scan.ins)
      goal == Code[test.ins].to[1]
      c == Constructed(Code, test.ins, Len(Code))
  IN /\ stage = "codes" /\ test.ok /\ <<scan.category, test.value>> # TribulleCode
     /\ pool' = IF c # Null /\ ~IsReader(c) THEN Clientbound(c, scan.category, test.value)
                ELSE pool
     /\ IF goal = scan.target
        THEN /\ stage' = Resumed(scan.target)
             /\ scan' = [scan EXCEPT !.found = TRUE, !.ins = goal]
        ELSE /\ scan' = [scan EXCEPT !.found = TRUE, !.ins = PastConstant(goal)]
             /\ UNCHANGED stage
     /\ Walk

EnterTribulle ==
  LET test == PacketCode(scan.ins)
  IN /\ stage = "codes" /\ test.ok /\ <<scan.category, test.value>> = TribulleCode
     /\ stage' = "tribulle" /\ scan' = [scan EXCEPT !.ins = test.ins]
     /\ UNCHANGED pool /\ Walk

\* find_ctrait_by_name() and find_itrait_by_name(): the class that has the
\* trait, from c on up; no class is its own super.
Own(c, side, name) == First(file.classes[c][side], 1, LAMBDA t : t.name = name)
Upwards(c, side, name) ==
  LET up[n \in 0..Len(file.classes)] ==
        IF n = 0 THEN c
        ELSE IF up[n - 1] = Null THEN Null ELSE FindClass(file.classes[up[n - 1]].super)
      owners == {n \in 0..Len(file.classes) :
                   up[n] \in DOMAIN file.classes /\ Own(up[n], side, name) # Null}
  IN IF owners = {} THEN Null ELSE up[CHOOSE n \in owners : \A k \in owners : n <= k]

Heir(c) == Upwards(c, "ctraits", Handle.name)

\* The category is done with; when none of its codes was found its own
\* handler may be called here.
LeaveCategory ==
  LET test == PacketCode(scan.ins)
      i == test.ins
      sub == IF /\ ~scan.found /\ Is(Code, i, SubHandler)
                /\ Code[i + 2].arg = Name(Role("pkt_hdlr"))
             THEN FindClass(Code[i].arg) ELSE Null
  IN /\ stage = "left" \/ (stage = "codes" /\ scan.ins \in DOMAIN Code /\ ~test.ok)
     /\ IF sub = Null THEN stage' = Resumed(scan.target) /\ UNCHANGED pool
        ELSE IF Heir(sub) = Null THEN stage' = "crashed" /\ UNCHANGED pool
        ELSE /\ stage' = "sub"
             /\ pool' = Known(pool, sub, <<"PacketSubHandler_", scan.category>>, "packets")
     /\ scan' = [scan EXCEPT !.ins = scan.target, !.sub = sub, !.subIns = 1]
     /\ Walk

-----------------------------------------------------------------------------
(***************************************************************************)
(* The handler of one category: its code compares a local with constants,  *)
(* which come after the local or before.  lost: the code ends within what  *)
(* is compared, or begins with it.                                         *)
(***************************************************************************)
SubCode ==
  LET heir == Heir(scan.sub)
  IN MethodOf(file.classes[heir].ctraits[Own(heir, "ctraits", Handle.name)]).code

SubTest(i) ==
  LET after == Op(SubCode, i + 1) = "pushdouble"
      at    == IF after THEN i + 1 ELSE i
      const == IF after THEN i + 1 ELSE i - 1
  IN [ok |-> Op(SubCode, i) = "getlocal2" /\ Op(SubCode, const) = "pushdouble"
             /\ Op(SubCode, at + 1) = "ifne",
      lost |-> Op(SubCode, i) = "getlocal2" /\ ~({const, at + 1} \subseteq DOMAIN SubCode),
      value |-> IF Op(SubCode, const) = "pushdouble" THEN SubCode[const].arg % 256 ELSE 0,
      ins |-> at]

SubOn ==
  /\ stage = "sub" /\ scan.subIns \in DOMAIN SubCode
  /\ LET test == SubTest(scan.subIns)
         goal == SubCode[test.ins + 1].to[1]
     IN /\ ~test.lost
        /\ IF test.ok
           THEN /\ pool' = Clientbound(Constructed(SubCode, test.ins + 2, goal),
                                       scan.category, test.value)
                /\ scan' = [scan EXCEPT !.subIns = goal]
                /\ stage' = IF goal = 1 THEN "crashed" ELSE stage
           ELSE /\ scan' = [scan EXCEPT !.subIns =
                              IF Op(SubCode, @) = "getlocal2" THEN test.ins + 1 ELSE @ + 1]
                /\ UNCHANGED <<stage, pool>>
  /\ Walk

SubDone ==
  /\ stage = "sub" /\ scan.subIns \notin DOMAIN SubCode
  /\ stage' = Resumed(scan.target) /\ UNCHANGED <<pool, scan>> /\ Walk

\* In code that ends within a comparison a null pointer is dereferenced: behind
\* what get_packet_code() has read, in get_packet_code() itself behind a branch,
\* or around a local of the handler of a category.
ReadNull ==
  /\ \/ /\ stage = "walk" /\ scan.ins \in DOMAIN Code
        /\ ~PacketCode(scan.ins).ok /\ PacketCode(scan.ins).ins \notin DOMAIN Code
     \/ stage = "codes" /\ scan.ins \notin DOMAIN Code
     \/ stage = "sub" /\ scan.subIns \in DOMAIN SubCode /\ SubTest(scan.subIns).lost
  /\ stage' = "crashed" /\ UNCHANGED <<pool, scan>> /\ Walk

\* Then create_missing_sets() goes over the multinames.
WalkDone ==
  /\ stage = "walk" /\ scan.ins \notin DOMAIN Code
  /\ stage' = "sets" /\ next' = 1 /\ UNCHANGED <<pool, scan>> /\ Same

FixSet ==
  /\ Loop("sets", pool.multinames)
  /\ pool' = WithSet(pool, next)
  /\ UNCHANGED scan /\ Same

SetsDone ==
  /\ Leave("sets", pool.multinames, "classdef")
  /\ UNCHANGED <<pool, scan>> /\ Same

DispatchNext ==
  \/ NameHandler \/ WalkOn \/ EnterCategory \/ NameCode \/ EnterTribulle
  \/ LeaveCategory \/ SubOn \/ SubDone \/ WalkDone \/ ReadNull
  \/ FixSet \/ SetsDone
=============================================================================
