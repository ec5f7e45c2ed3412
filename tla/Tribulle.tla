------------------------------ MODULE Tribulle ------------------------------
(***************************************************************************)
(* find_clientbound_tribulle and find_serverbound_tribulle in              *)
(* src/detfm.cpp: from the packet 3c:03 a chain of calls and properties    *)
(* leads to the class that makes Tribulle's packets from their ids, and    *)
(* that knows the ids of the ones it sends.                                *)
(***************************************************************************)
EXTENDS Dispatch

VARIABLE named   \* the indices of getPacketId's switch that are done with

Getter   == <<"getlex", "getlex", "getproperty", "callproperty", "coerce">>
ReturnId == <<"label", "pushdouble", "returnvalue">>

OpAt(code, from, op) == First(code, from, LAMBDA i : i.op = op)

\* find_trait(), which looks at the class alone.
Member(c, name) ==
  LET sides == {side \in {"ctraits", "itraits"} : Own(c, side, name) # Null}
      side == IF "ctraits" \in sides THEN "ctraits" ELSE "itraits"
  IN IF sides = {} THEN [kind |-> "none"] ELSE file.classes[c][side][Own(c, side, name)]

Trait(c, side, name) ==
  LET holder == IF c = Null THEN Null ELSE Upwards(c, side, name)
  IN IF holder = Null THEN [kind |-> "none"]
     ELSE file.classes[holder][side][Own(holder, side, name)]

\* The ids of Tribulle's packets have two bytes.
Id(value) == value % 65536

Fail == stage' = "left" /\ scan' = [scan EXCEPT !.found = FALSE]
Unnamed == UNCHANGED <<pool, named>> /\ Walk

\* From the call in the handler to the static method that is called, and the
\* class its code starts with.  There is no call in code that just ends.
FindCaller ==
  /\ stage = "tribulle"
  /\ LET stops == {i \in DOMAIN Code : /\ i >= scan.ins
                                       /\ Code[i].op = "returnvoid" \/ Is(Code, i, Getter)}
         i == CHOOSE i \in stops : \A j \in stops : i <= j
         caller == IF Code[i].op = "returnvoid" THEN [kind |-> "none"]
                   ELSE Trait(FindClass(Code[i].arg), "ctraits", Code[i + 3].arg)
         path == MethodOf(caller).code
         start == OpAt(path, 1, "getlex")
         c == IF caller.kind # "Method" \/ start = Null THEN Null ELSE FindClass(path[start].arg)
     IN IF stops = {} THEN stage' = "crashed" /\ UNCHANGED scan
        ELSE IF c = Null THEN Fail
        ELSE /\ stage' = "path"
             /\ scan' = [scan EXCEPT !.method = caller.index, !.sub = c, !.subIns = start + 1]
  /\ Unnamed

Method == file.methods[scan.method]

\* The properties of it lead from class to class.
FollowPath ==
  /\ stage = "path" /\ Op(Method.code, scan.subIns) = "getproperty"
  /\ LET t == Member(scan.sub, Method.code[scan.subIns].arg)
         c == IF t.kind = "Slot" THEN FindClass(t.type) ELSE Null
     IN IF c = Null THEN Fail
        ELSE /\ scan' = [scan EXCEPT !.sub = c, !.subIns = @ + 1]
             /\ UNCHANGED stage
  /\ Unnamed

\* The method of the last class that is called then makes the packets.
FindMaker ==
  /\ stage = "path" /\ Op(Method.code, scan.subIns) # "getproperty"
  /\ LET call == OpAt(Method.code, scan.subIns, "callproperty")
         name == Method.code[call].arg
         maker == IF call = Null THEN [kind |-> "none"] ELSE Trait(scan.sub, "itraits", name)
     IN IF maker.kind # "Method" THEN Fail
        ELSE /\ stage' = "community"
             /\ scan' = [scan EXCEPT !.sub = Upwards(@, "itraits", name), !.method = maker.index]
  /\ Unnamed

-----------------------------------------------------------------------------
\* getIdPaquet: the method from one parameter to int.
IdTrait ==
  First(file.classes[scan.sub].itraits, 1,
        LAMBDA t : /\ t.kind = "Method" /\ Len(MethodOf(t).params) = 1
                   /\ MethodOf(t).returnType # 0
                   /\ Text(pool, MethodOf(t).returnType) = Fixed("int"))
IdCode == file.methods[scan.ids].code

\* addr2id: the answers, at their positions, one after the other.
FirstId ==
  LET at == {i \in DOMAIN IdCode : Is(IdCode, i, ReturnId)}
  IN IF at = {} THEN Len(IdCode) + 1 ELSE CHOOSE i \in at : \A j \in at : i <= j
PastIds ==
  LET past[i \in Nat] == IF Is(IdCode, i, ReturnId) THEN past[i + 3] ELSE i
  IN past[FirstId]
AnswerAt(i) ==
  i \in DOMAIN IdCode /\ FirstId <= i /\ i < PastIds /\ Is(IdCode, i, ReturnId)

\* The turns of the loop that reads a class and then its index; from each to
\* the next one the code jumps and takes the parameter again.
Turns ==
  LET turn[i \in Nat] ==
        LET g == OpAt(IdCode, i, "getlex")
            b == IF g = Null THEN Null ELSE OpAt(IdCode, g, "pushbyte")
        IN IF b = Null THEN <<[class |-> Null, at |-> Null]>>
           ELSE <<[class |-> IdCode[g].arg, at |-> b]>>
                \o (IF Is(IdCode, b + 1, <<"jump", "getlocal1">>) THEN turn[b] ELSE <<>>)
  IN turn[PastIds]
Switch ==
  IF Last(Turns).at = Null THEN Null ELSE OpAt(IdCode, Last(Turns).at, "lookupswitch")

\* index2name: what a later turn says of an index counts.
Indices == {IdCode[t.at].arg : t \in {t \in Range(Turns) : t.at # Null}}
ClassOf(index) ==
  LET turns == {k \in DOMAIN Turns : Turns[k].at # Null /\ IdCode[Turns[k].at].arg = index}
  IN FindClass(Turns[CHOOSE k \in turns : \A j \in turns : j <= k].class)

\* Mutant: as if targets[0] were the one of the first index.
TargetsFromFirst == <<1>> \o IdCode[Switch].to

\* targets[0] is the default; whether the index has a target is compared with
\* the number of all of them.
Targets == IdCode[Switch].to

FindIds ==
  /\ stage = "community"
  /\ IF IdTrait = Null
     THEN stage' = "client base" /\ UNCHANGED <<pool, scan>>
     ELSE LET trait == file.classes[scan.sub].itraits[IdTrait]
          IN /\ pool' = Titled(pool, trait.name, "getPacketId")
             /\ stage' = "server" /\ scan' = [scan EXCEPT !.ids = trait.index]
  /\ named' = {} /\ Walk

\* The map is gone over in any order.
NameServer ==
  /\ stage = "server" /\ Switch # Null
  /\ \E index \in Indices \ named :
       LET c == ClassOf(index)
           goal == Targets[index + 2]
       IN /\ named' = named \cup {index}
          /\ IF c = Null \/ index >= Len(Targets) THEN UNCHANGED <<pool, stage>>
             ELSE IF index + 2 > Len(Targets) THEN stage' = "crashed" /\ UNCHANGED pool
             ELSE /\ pool' = IF AnswerAt(goal)
                             THEN Known(pool, c, <<"TSPacket_", Id(IdCode[goal + 1].arg)>>,
                                        "packets.tribulle.serverbound")
                             ELSE pool
                  /\ UNCHANGED stage
  /\ UNCHANGED scan /\ Walk

ServerDone ==
  /\ stage = "server" /\ (Switch = Null \/ Indices \subseteq named)
  /\ stage' = "client base" /\ UNCHANGED <<pool, scan, named>> /\ Walk

-----------------------------------------------------------------------------
NameClientBase ==
  /\ stage = "client base"
  /\ LET c == FindClass(Method.returnType)
     IN pool' = IF c = Null THEN pool
                ELSE Known(pool, c, Fixed("TCPacketBase"), "packets.tribulle")
  /\ stage' = "client" /\ scan' = [scan EXCEPT !.subIns = 1]
  /\ UNCHANGED named /\ Walk

\* The class looked up next belongs to the constant; when no lookup follows,
\* the walk goes on from nowhere.
NameClient ==
  /\ stage = "client" /\ scan.subIns \in DOMAIN Method.code
  /\ LET i == scan.subIns
         at == OpAt(Method.code, i, "findpropstrict")
         c == FindClass(Method.code[at].arg)
     IN CASE Method.code[i].op # "pushdouble" ->
               scan' = [scan EXCEPT !.subIns = i + 1] /\ UNCHANGED <<pool, stage>>
          [] Method.code[i].op = "pushdouble" /\ at = Null ->
               stage' = "crashed" /\ UNCHANGED <<pool, scan>>
          [] Method.code[i].op = "pushdouble" /\ at # Null ->
               /\ pool' = IF c = Null THEN pool
                          ELSE Known(pool, c, <<"TCPacket_", Id(Method.code[i].arg)>>,
                                     "packets.tribulle.clientbound")
               /\ scan' = [scan EXCEPT !.subIns = at + 1] /\ UNCHANGED stage
  /\ UNCHANGED named /\ Walk

ClientDone ==
  /\ stage = "client" /\ scan.subIns \notin DOMAIN Method.code
  /\ stage' = "left" /\ scan' = [scan EXCEPT !.found = Method.code # <<>>]
  /\ UNCHANGED <<pool, named>> /\ Walk

TribulleInit == named = {}
TribulleNext ==
  \/ FindCaller \/ FollowPath \/ FindMaker
  \/ FindIds \/ NameServer \/ ServerDone
  \/ NameClientBase \/ NameClient \/ ClientDone
=============================================================================
