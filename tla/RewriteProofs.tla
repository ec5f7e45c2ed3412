--------------------------- MODULE RewriteProofs ----------------------------
(***************************************************************************)
(* The list, for methods of every length, with any jumps and any exception *)
(* tables.                                                                 *)
(*                                                                         *)
(* The conjunction of the invariants of Rewrite is inductive: that a jump  *)
(* follows its target needs that the target knows the jump, and both need  *)
(* the chain.  The instructions met by following the chain are those that  *)
(* are left, in the order of the method.  It follows that the list         *)
(* implements the sequence of CodeEdit and that the offsets written back   *)
(* are right.                                                              *)
(*                                                                         *)
(* Walk and Position are recursive functions over the instructions.  That  *)
(* they exist, and what they return, is proved by induction on a SET of    *)
(* numbers (Induction below): the library's rule takes an operator.        *)
(***************************************************************************)
EXTENDS Pass, TLAPS, WellFoundedInduction

ListInv == ListOK /\ Chained /\ JumpsKnown /\ JumpsFollow /\ ErrorsFollow

-----------------------------------------------------------------------------
(***************************************************************************)
(* Lemmas about the operators.                                             *)
(***************************************************************************)
\* The first and the last instruction exist and nullptr is none of them.
LEMMA InsFacts == 1 \in Ins /\ N \in Ins /\ Null \notin Ins /\ Ins \subseteq Nat
  BY SizeAssumption DEF Ins, Null

\* Setting one pointer keeps the type of the pointers.
LEMMA BypassType ==
  ASSUME NEW ptr \in [Ins -> 0..N], NEW x, NEW new \in Ins \cup {Null}
  PROVE  Bypass(ptr, x, new) \in [Ins -> 0..N]
  BY SizeAssumption DEF Bypass, Ins, Null

\* A jump whose offset is invalid has an instruction after it to go to.
LEMMA ResolveType ==
  ASSUME NEW a \in JumpTables, NEW j \in Ins, NEW i \in DOMAIN a[j]
  PROVE  ResolveOffset(j, a[j][i]) \in Ins
<1>1. a[j] \in Seq(0..N)
  BY JumpTablesAssumption
<1>2. CASE a[j][i] \in Ins
  BY <1>2 DEF ResolveOffset
<1>3. CASE a[j][i] \notin Ins
  <2>1. j # N
    BY <1>3, JumpTablesAssumption
  <2> QED BY <1>3, <2>1, SizeAssumption DEF ResolveOffset, Ins
<1> QED BY <1>2, <1>3

\* ReplaceFirst keeps the length and the type of the targets.
LEMMA ReplaceFirstType ==
  ASSUME NEW s \in Seq(Ins), NEW o, NEW n \in Ins
  PROVE  /\ ReplaceFirst(s, o, n) \in Seq(Ins)
         /\ DOMAIN ReplaceFirst(s, o, n) = DOMAIN s
  BY DEF ReplaceFirst

\* The first position with the value o gets the new value.
LEMMA ReplaceFirstHit ==
  ASSUME NEW s \in Seq(Ins), NEW o, NEW n, NEW i \in DOMAIN s,
         s[i] = o, \A k \in 1..(i-1) : s[k] # o
  PROVE  ReplaceFirst(s, o, n)[i] = n
  BY DEF ReplaceFirst

\* The first instruction left is unique, and positions that lead to the same
\* one are not separated by an instruction left.
LEMMA SurvivorUnique ==
  ASSUME NEW S \in SUBSET Ins, NEW t \in Nat, NEW u \in Nat, NEW x,
         Survivor(S, t, x), Survivor(S, u, x)
  PROVE  Together(S, t, u)
  BY DEF Survivor, Together, Ins

\* When o goes, what led to o leads to the first instruction left after it.
LEMMA SurvivorMoves ==
  ASSUME NEW S \in SUBSET Ins, NEW t \in Nat, NEW o \in S, NEW n,
         Survivor(S, t, o), Survivor(S, o + 1, n)
  PROVE  Survivor(S \ {o}, t, n)
  BY DEF Survivor, Ins

\* When another instruction goes, x stays the first one.
LEMMA SurvivorStays ==
  ASSUME NEW S \in SUBSET Ins, NEW t \in Nat, NEW o, NEW x,
         Survivor(S, t, x), x # o
  PROVE  Survivor(S \ {o}, t, x)
  BY DEF Survivor, Ins
-----------------------------------------------------------------------------
(***************************************************************************)
(* The pointers of an instruction that is left.                            *)
(***************************************************************************)
\* remove() acts on every instruction left but the last.
LEMMA RemovedLast ==
  ASSUME Chained, NEW o \in kept, ListOK
  PROVE  Removed(list, o) <=> o = N
  BY InsFacts DEF Chained, Removed, Survivor, Null, ListOK, Ins

LEMMA NextFacts ==
  ASSUME ListOK, Chained, NEW o \in kept, o # N, NEW n, n = list.opnext[o]
  PROVE  /\ n \in kept /\ n \in Ins
         /\ n = list.next[o]
         /\ Survivor(kept, o + 1, n)
         /\ o < n
<1>1. n = list.next[o] /\ Survivor(kept, o + 1, n)
  BY DEF Chained
<1>2. n \in kept /\ o + 1 <= n
  BY <1>1 DEF Survivor
<1>3. n \in Ins /\ o \in Ins
  BY <1>2 DEF ListOK
<1> QED BY <1>1, <1>2, <1>3, InsFacts

-----------------------------------------------------------------------------
(***************************************************************************)
(* The initial list.                                                       *)
(***************************************************************************)
LEMMA ListInitOK == ListInit => ListOK
<1> SUFFICES ASSUME ListInit PROVE ListOK
  OBVIOUS
<1> DEFINE jumpsTo == [j \in Ins |-> Resolve(j, args[j])]
<1>1. jumpsTo \in [Ins -> Seq(Ins)]
  <2> SUFFICES ASSUME NEW j \in Ins PROVE Resolve(j, args[j]) \in Seq(Ins)
    OBVIOUS
  <2>1. args[j] \in Seq(0..N) /\ args \in JumpTables
    BY JumpTablesAssumption DEF ListInit
  <2>2. \A i \in DOMAIN args[j] : ResolveOffset(j, args[j][i]) \in Ins
    BY <2>1, ResolveType
  <2> QED BY <2>1, <2>2 DEF Resolve
<1>2. table \in [Errs -> [ErrorField -> Ins]]
  BY ErrorTablesAssumption DEF ListInit
<1>3. list = [ begin     |-> 1,
               next      |-> [o \in Ins |-> IF o = N THEN Null ELSE o + 1],
               prev      |-> [o \in Ins |-> o - 1],
               opnext    |-> [o \in Ins |-> IF o = N THEN Null ELSE o + 1],
               jumpsTo   |-> jumpsTo,
               jumpsHere |-> [o \in Ins |-> JumpsInto(jumpsTo, o)],
               exc       |-> table,
               errors    |-> [o \in Ins |->
                       {x \in ErrorField \X Errs : table[x[2]][x[1]] = o}] ]
  BY DEF ListInit, Register
<1>4. [o \in Ins |-> IF o = N THEN Null ELSE o + 1] \in [Ins -> 0..N]
  BY SizeAssumption DEF Ins, Null
<1>5. [o \in Ins |-> o - 1] \in [Ins -> 0..N]
  BY SizeAssumption DEF Ins
<1>6. [o \in Ins |-> JumpsInto(jumpsTo, o)] \in [Ins -> SUBSET Ins]
  BY DEF JumpsInto
<1> HIDE DEF jumpsTo
<1>7. list \in ListType
  BY <1>1, <1>2, <1>3, <1>4, <1>5, <1>6, InsFacts DEF ListType
<1> QED BY <1>7 DEF ListInit, ListOK

LEMMA ListInitInv == ListInit => ListInv
<1> SUFFICES ASSUME ListInit PROVE ListInv
  OBVIOUS
<1>1. ListOK
  BY ListInitOK
<1>2. Chained
  <2>1. /\ kept = Ins
        /\ list.begin = 1
        /\ \A o \in Ins :
             /\ list.next[o] = (IF o = N THEN Null ELSE o + 1)
             /\ list.opnext[o] = (IF o = N THEN Null ELSE o + 1)
             /\ list.prev[o] = o - 1
    BY DEF ListInit, Register
  <2>2. Survivor(Ins, 1, 1)
    BY InsFacts DEF Survivor, Ins
  <2>3. \A o \in Ins : o # N => Survivor(Ins, o + 1, o + 1)
    BY SizeAssumption DEF Survivor, Ins
  <2>4. ASSUME NEW o \in Ins
        PROVE  \/ o - 1 = Null /\ \A m \in Ins : o <= m
               \/ /\ o - 1 \in Ins
                  /\ o - 1 < o
                  /\ \A m \in Ins : m < o => m <= o - 1
    BY SizeAssumption DEF Ins, Null
  <2>5. N \in kept /\ Survivor(kept, 1, list.begin)
    BY <2>1, <2>2, InsFacts
  <2>6. ASSUME NEW o \in kept
        PROVE  /\ o = N => list.next[o] = Null
               /\ o # N => Survivor(kept, o + 1, list.next[o])
               /\ list.opnext[o] = list.next[o]
    BY <2>1, <2>3
  <2>7. ASSUME NEW o \in kept
        PROVE  \/ list.prev[o] = Null /\ \A m \in kept : o <= m
               \/ /\ list.prev[o] \in kept
                  /\ list.prev[o] < o
                  /\ \A m \in kept : m < o => m <= list.prev[o]
    BY <2>1, <2>4
  <2> QED BY <2>5, <2>6, <2>7 DEF Chained
<1>3. \A j \in Ins : \A i \in DOMAIN args[j] :
        /\ ResolveOffset(j, args[j][i]) \in Ins
        /\ list.jumpsTo[j][i] = ResolveOffset(j, args[j][i])
        /\ Survivor(kept, list.jumpsTo[j][i], list.jumpsTo[j][i])
  <2>1. TAKE j \in Ins
  <2>2. TAKE i \in DOMAIN args[j]
  <2>3. ResolveOffset(j, args[j][i]) \in Ins
    BY ResolveType DEF ListInit
  <2>4. list.jumpsTo[j][i] = ResolveOffset(j, args[j][i])
    BY DEF ListInit, Register, Resolve
  <2> QED BY <2>3, <2>4 DEF ListInit, Survivor, Ins
<1>4. \A j \in Ins : DOMAIN list.jumpsTo[j] = DOMAIN args[j]
  BY DEF ListInit, Register, Resolve
<1>5. JumpsKnown
  <2> SUFFICES ASSUME NEW j \in Ins, NEW i \in DOMAIN list.jumpsTo[j]
               PROVE  /\ j \in list.jumpsHere[list.jumpsTo[j][i]]
                      /\ Survivor(kept, ResolveOffset(j, args[j][i]), list.jumpsTo[j][i])
    BY DEF JumpsKnown
  <2>1. list.jumpsTo[j][i] \in Ins
    BY <1>3, <1>4
  <2>2. list.jumpsHere[list.jumpsTo[j][i]] = JumpsInto(list.jumpsTo, list.jumpsTo[j][i])
    BY <2>1 DEF ListInit, Register
  <2> QED BY <1>3, <1>4, <2>2 DEF JumpsInto
<1>6. JumpsFollow
  BY <1>3, <1>4 DEF JumpsFollow
<1>7. ErrorsFollow
  <2>1. table \in [Errs -> [ErrorField -> Ins]]
    BY ErrorTablesAssumption DEF ListInit
  <2> SUFFICES ASSUME NEW e \in Errs \ Dangling, NEW f \in ErrorField
               PROVE  /\ Survivor(kept, table[e][f], list.exc[e][f])
                      /\ \A o \in kept : <<f, e>> \in list.errors[o] <=> o = list.exc[e][f]
    BY DEF ErrorsFollow
  <2>2. list.exc[e][f] = table[e][f] /\ table[e][f] \in Ins
    BY <2>1 DEF ListInit, Register
  <2>3. Survivor(kept, table[e][f], list.exc[e][f])
    BY <2>2 DEF ListInit, Survivor, Ins
  <2>4. ASSUME NEW o \in kept
        PROVE  <<f, e>> \in list.errors[o] <=> o = list.exc[e][f]
    BY <2>2 DEF ListInit, Register
  <2> QED BY <2>3, <2>4
<1> QED BY <1>1, <1>2, <1>5, <1>6, <1>7 DEF ListInv
-----------------------------------------------------------------------------
(***************************************************************************)
(* One removal.  RealRemoval is what the lemmas below assume of the step.  *)
(***************************************************************************)
RealRemoval(o) ==
  /\ ListInv
  /\ o \in kept /\ o # N
  /\ list' = Unlink(list, o)
  /\ kept' = kept \ {o}
  /\ UNCHANGED <<args, table>>

LEMMA RemovalListOK == ASSUME NEW o, RealRemoval(o) PROVE ListOK'
<1> DEFINE n == list.opnext[o]
           p == list.prev[o]
<1>1. /\ o \in Ins /\ n \in Ins /\ n = list.next[o]
      /\ p \in Ins \cup {Null}
  <2>1. o \in Ins /\ list.prev \in [Ins -> 0..N]
    BY DEF RealRemoval, ListInv, ListOK, ListType
  <2>2. p \in 0..N
    BY <2>1
  <2> QED BY <2>1, <2>2, NextFacts DEF RealRemoval, ListInv, Ins, Null
<1>2. /\ list.begin \in Ins
      /\ list.next \in [Ins -> 0..N]
      /\ list.prev \in [Ins -> 0..N]
      /\ list.opnext \in [Ins -> 0..N]
      /\ list.jumpsTo \in [Ins -> Seq(Ins)]
      /\ list.jumpsHere \in [Ins -> SUBSET Ins]
      /\ list.exc \in [Errs -> [ErrorField -> Ins]]
      /\ list.errors \in [Ins -> SUBSET (ErrorField \X Errs)]
  BY DEF RealRemoval, ListInv, ListOK, ListType
<1>3. BeginWithout(list, o) \in Ins
  BY <1>1, <1>2 DEF BeginWithout
<1>4. Bypass(list.next, p, list.next[o]) \in [Ins -> 0..N]
  BY <1>1, <1>2, InsFacts, BypassType
<1>5. Bypass(Bypass(list.prev, list.next[o], p), o, Null) \in [Ins -> 0..N]
  BY <1>1, <1>2, InsFacts, BypassType
<1>6. OpNextWithout(list, o) \in [Ins -> 0..N]
  BY <1>1, <1>2, InsFacts, BypassType DEF OpNextWithout
<1>7. [j \in Ins |-> IF j \in list.jumpsHere[o]
                      THEN ReplaceFirst(list.jumpsTo[j], o, n)
                      ELSE list.jumpsTo[j]] \in [Ins -> Seq(Ins)]
  BY <1>1, <1>2, ReplaceFirstType
<1>8. HandOver(list.jumpsHere, o, n) \in [Ins -> SUBSET Ins]
  BY <1>1, <1>2 DEF HandOver
<1>9. Reattach(list, o, n) \in [Errs -> [ErrorField -> Ins]]
  BY <1>1, <1>2 DEF Reattach
<1>10. HandOver(list.errors, o, n) \in [Ins -> SUBSET (ErrorField \X Errs)]
  BY <1>1, <1>2 DEF HandOver
<1>11. list' = [ begin     |-> BeginWithout(list, o),
                 next      |-> Bypass(list.next, p, list.next[o]),
                 prev      |-> Bypass(Bypass(list.prev, list.next[o], p), o, Null),
                 opnext    |-> OpNextWithout(list, o),
                 jumpsTo   |-> [j \in Ins |-> IF j \in list.jumpsHere[o]
                                              THEN ReplaceFirst(list.jumpsTo[j], o, n)
                                              ELSE list.jumpsTo[j]],
                 jumpsHere |-> HandOver(list.jumpsHere, o, n),
                 exc       |-> Reattach(list, o, n),
                 errors    |-> HandOver(list.errors, o, n) ]
  BY DEF RealRemoval, Unlink
<1> HIDE DEF n, p
<1>12. list' \in ListType
  BY <1>3, <1>4, <1>5, <1>6, <1>7, <1>8, <1>9, <1>10, <1>11 DEF ListType
<1> QED BY <1>12 DEF RealRemoval, ListInv, ListOK

\* The chain closes over the instruction removed.
LEMMA RemovalChained == ASSUME NEW o, RealRemoval(o) PROVE Chained'
<1> DEFINE n == list.next[o]
           p == list.prev[o]
<1>1. /\ ListOK /\ Chained /\ o \in kept /\ o # N
      /\ list' = Unlink(list, o) /\ kept' = kept \ {o}
  BY DEF RealRemoval, ListInv
<1>2. /\ n \in kept /\ n \in Ins /\ n = list.opnext[o]
      /\ Survivor(kept, o + 1, n) /\ o < n
  BY <1>1, NextFacts
<1>3. /\ kept \subseteq Ins /\ o \in Ins /\ kept \subseteq Nat
  BY <1>1, InsFacts DEF ListOK
<1>4. \/ p = Null /\ \A m \in kept : o <= m
      \/ /\ p \in kept /\ p < o /\ p \in Ins
         /\ \A m \in kept : m < o => m <= p
  BY <1>1, <1>3 DEF Chained
<1>5. /\ list'.begin = IF o = list.begin THEN n ELSE list.begin
      /\ \A x \in Ins :
           /\ list'.next[x] = (IF x = p THEN n ELSE list.next[x])
           /\ list'.opnext[x] = (IF x = o THEN Null ELSE IF x = p THEN n ELSE list.opnext[x])
           /\ list'.prev[x] = (IF x = o THEN Null ELSE IF x = n THEN p ELSE list.prev[x])
  BY <1>1, <1>2 DEF Unlink, BeginWithout, OpNextWithout, Bypass
<1> HIDE DEF n, p
<1>6. Survivor(kept', 1, list'.begin)
  <2>1. Survivor(kept, 1, list.begin)
    BY <1>1 DEF Chained
  <2>2. CASE o = list.begin
    BY <1>1, <1>2, <1>3, <1>5, <2>1, <2>2, SurvivorMoves DEF Survivor
  <2>3. CASE o # list.begin
    BY <1>1, <1>3, <1>5, <2>1, <2>3, SurvivorStays
  <2> QED BY <2>2, <2>3
<1>7. ASSUME NEW x \in kept'
      PROVE  /\ x = N => list'.next[x] = Null
             /\ x # N => Survivor(kept', x + 1, list'.next[x])
             /\ list'.opnext[x] = list'.next[x]
  <2>1. x \in kept /\ x # o /\ x \in Ins /\ x + 1 \in Nat
    BY <1>1, <1>3
  <2>2. /\ x = N => list.next[x] = Null
        /\ x # N => Survivor(kept, x + 1, list.next[x])
        /\ list.opnext[x] = list.next[x]
    BY <1>1, <2>1 DEF Chained
  <2>3. CASE x = p
    <3>1. x < o /\ \A m \in kept : m < o => m <= x
      <4>1. p # Null
        BY <2>1, <2>3, InsFacts
      <4> QED BY <1>4, <2>3, <4>1
    <3>2. x # N
      BY <1>3, <2>1, <3>1, SizeAssumption DEF Ins
    <3>3. list.next[x] = o
      <4> DEFINE y == list.next[x]
      <4>1. y \in kept /\ x + 1 <= y /\ \A m \in kept : x + 1 <= m => y <= m
        BY <2>2, <3>2 DEF Survivor
      <4>2. o \in kept /\ o \in Ins /\ y \in Ins
        BY <1>1, <1>3, <4>1
      <4> HIDE DEF y
      <4>3. x \in Int /\ y \in Int /\ o \in Int
        BY <2>1, <4>2, SizeAssumption DEF Ins
      <4>4. y <= o
        BY <3>1, <4>1, <4>2, <4>3
      <4>5. ~(y < o)
        BY <3>1, <4>1, <4>3
      <4>6. y = o
        BY <4>3, <4>4, <4>5
      <4> QED BY <4>6 DEF y
    <3>4. Survivor(kept', x + 1, n)
      BY <1>1, <1>2, <1>3, <2>1, <2>2, <3>2, <3>3, SurvivorMoves
    <3> QED BY <1>5, <2>1, <2>3, <3>2, <3>4
  <2>4. CASE x # p
    <3>1. list'.next[x] = list.next[x] /\ list'.opnext[x] = list.opnext[x]
      BY <1>5, <2>1, <2>4
    <3>2. list.next[x] # o
      <4>1. CASE x = N
        BY <2>2, <4>1, <1>3, InsFacts
      <4>2. CASE x # N /\ x < o
        <5>1. p \in kept /\ p < o /\ x <= p /\ p \in Ins
          BY <1>3, <1>4, <2>1, <4>2
        <5>2. x + 1 <= p
          BY <5>1, <2>1, <2>4 DEF Ins
        <5> QED BY <2>2, <4>2, <5>1, <5>2, <1>3 DEF Survivor, Ins
      <4>3. CASE x # N /\ o < x
        BY <2>2, <4>3, <2>1, <1>3 DEF Survivor, Ins
      <4> QED BY <4>1, <4>2, <4>3, <2>1, <1>3 DEF Ins
    <3> QED BY <1>1, <1>3, <2>1, <2>2, <3>1, <3>2, SurvivorStays
  <2> QED BY <2>3, <2>4
<1>8. ASSUME NEW x \in kept'
      PROVE  \/ list'.prev[x] = Null /\ \A m \in kept' : x <= m
             \/ /\ list'.prev[x] \in kept'
                /\ list'.prev[x] < x
                /\ \A m \in kept' : m < x => m <= list'.prev[x]
  <2>1. x \in kept /\ x # o /\ x \in Ins
    BY <1>1, <1>3
  <2>2. \/ list.prev[x] = Null /\ \A m \in kept : x <= m
        \/ /\ list.prev[x] \in kept
           /\ list.prev[x] < x
           /\ \A m \in kept : m < x => m <= list.prev[x]
    BY <1>1, <2>1 DEF Chained
  <2>3. CASE x = n
    <3>1. list'.prev[x] = p
      BY <1>5, <2>1, <2>3
    <3>2. \A m \in kept' : m < x => m < o
      BY <1>1, <1>2, <1>3, <2>1, <2>3 DEF Survivor, Ins
    <3>3. CASE p = Null /\ \A m \in kept : o <= m
      BY <1>1, <1>3, <2>1, <3>1, <3>2, <3>3 DEF Ins
    <3>4. CASE p \in kept /\ p < o /\ p \in Ins /\ \A m \in kept : m < o => m <= p
      BY <1>1, <1>2, <1>3, <2>1, <2>3, <3>1, <3>2, <3>4 DEF Ins
    <3> QED BY <1>4, <3>3, <3>4
  <2>4. CASE x # n
    <3>1. list'.prev[x] = list.prev[x]
      BY <1>5, <2>1, <2>4
    <3>2. list.prev[x] # o
      BY <1>2, <1>3, <2>1, <2>2, <2>4, InsFacts DEF Survivor, Ins
    <3> QED BY <1>1, <2>1, <2>2, <3>1, <3>2
  <2> QED BY <2>3, <2>4
<1>9. N \in kept'
  BY <1>1 DEF Chained
<1> QED BY <1>6, <1>7, <1>8, <1>9 DEF Chained

\* Of the targets that lead to the same instruction left, the first one is
\* the one that remove() moves on.
LEMMA RemovalTargets ==
  ASSUME NEW o, RealRemoval(o), NEW j \in Ins, NEW i \in DOMAIN args[j]
  PROVE  LET t == ResolveOffset(j, args[j][i])
             n == list.opnext[o]
         IN /\ DOMAIN list'.jumpsTo[j] = DOMAIN args[j]
            /\ t \in Ins
            /\ \/ list'.jumpsTo[j][i] = list.jumpsTo[j][i]
                  /\ list.jumpsTo[j][i] # o
               \/ list'.jumpsTo[j][i] = list.jumpsTo[j][i]
                  /\ \E k \in 1..(i-1) :
                       Together(kept', ResolveOffset(j, args[j][k]), t)
               \/ list.jumpsTo[j][i] = o /\ list'.jumpsTo[j][i] = n
<1> DEFINE s == list.jumpsTo[j]
           n == list.opnext[o]
<1>1. /\ ListOK /\ Chained /\ JumpsKnown /\ JumpsFollow /\ o \in kept /\ o # N
      /\ list' = Unlink(list, o) /\ kept' = kept \ {o}
  BY DEF RealRemoval, ListInv
<1>2. n \in Ins /\ o \in Ins /\ kept \subseteq Ins
  BY <1>1, NextFacts DEF ListOK
<1>3. s \in Seq(Ins) /\ DOMAIN s = DOMAIN args[j]
  BY <1>1 DEF ListOK, ListType, JumpsFollow
<1>4. list'.jumpsTo[j] = IF j \in list.jumpsHere[o] THEN ReplaceFirst(s, o, n) ELSE s
  BY <1>1 DEF Unlink
<1>5. \A k \in DOMAIN args[j] : ResolveOffset(j, args[j][k]) \in Ins
  BY <1>1, ResolveType DEF ListOK
<1>6. DOMAIN list'.jumpsTo[j] = DOMAIN args[j]
  BY <1>2, <1>3, <1>4, ReplaceFirstType
<1> HIDE DEF s, n
<1>7. CASE s[i] # o
  BY <1>3, <1>4, <1>5, <1>6, <1>7 DEF ReplaceFirst, s
<1>8. CASE s[i] = o /\ \A k \in 1..(i-1) : s[k] # o
  <2>1. j \in list.jumpsHere[o]
    BY <1>1, <1>3, <1>8 DEF JumpsKnown, s
  <2>2. ReplaceFirst(s, o, n)[i] = n
    BY <1>3, <1>8, ReplaceFirstHit
  <2> QED BY <1>4, <1>5, <1>6, <1>8, <2>1, <2>2 DEF s, n
<1>9. CASE s[i] = o /\ \E k \in 1..(i-1) : s[k] = o
  <2>1. PICK k \in 1..(i-1) : s[k] = o
    BY <1>9
  <2>2. k \in DOMAIN s /\ k < i /\ i \in Nat
    BY <1>3, <2>1
  <2>3. /\ Survivor(kept, ResolveOffset(j, args[j][k]), o)
        /\ Survivor(kept, ResolveOffset(j, args[j][i]), o)
    BY <1>1, <1>3, <1>9, <2>1, <2>2 DEF JumpsKnown, s
  <2>4. Together(kept, ResolveOffset(j, args[j][k]), ResolveOffset(j, args[j][i]))
    BY <1>2, <1>3, <1>5, <2>2, <2>3, SurvivorUnique, InsFacts
  <2>5. Together(kept', ResolveOffset(j, args[j][k]), ResolveOffset(j, args[j][i]))
    BY <1>1, <2>4 DEF Together
  <2>6. list'.jumpsTo[j][i] = s[i]
    BY <1>3, <1>4, <1>9, <2>1, <2>2 DEF ReplaceFirst
  <2> QED BY <1>5, <1>6, <2>1, <2>5, <2>6 DEF s
<1> QED BY <1>7, <1>8, <1>9

LEMMA RemovalJumpsFollow == ASSUME NEW o, RealRemoval(o) PROVE JumpsFollow'
<1>1. /\ ListOK /\ Chained /\ JumpsFollow /\ o \in kept /\ o # N
      /\ list' = Unlink(list, o) /\ kept' = kept \ {o} /\ args' = args
  BY DEF RealRemoval, ListInv
<1>2. /\ kept \subseteq Ins
      /\ Survivor(kept, o + 1, list.opnext[o])
  BY <1>1, NextFacts DEF ListOK
<1>3. ASSUME NEW j \in Ins, NEW i \in DOMAIN args[j],
             \A k \in 1..(i-1) : ~Together(kept', ResolveOffset(j, args[j][k]),
                                                  ResolveOffset(j, args[j][i]))
      PROVE  Survivor(kept', ResolveOffset(j, args[j][i]), list'.jumpsTo[j][i])
  <2> DEFINE t == ResolveOffset(j, args[j][i])
  <2>1. \A k \in 1..(i-1) : ~Together(kept, ResolveOffset(j, args[j][k]), t)
    BY <1>1, <1>3 DEF Together
  <2>2. Survivor(kept, t, list.jumpsTo[j][i])
    BY <1>1, <2>1 DEF JumpsFollow
  <2>3. t \in Nat
    BY RemovalTargets, InsFacts
  <2>4. CASE list'.jumpsTo[j][i] = list.jumpsTo[j][i] /\ list.jumpsTo[j][i] # o
    BY <1>1, <1>2, <2>2, <2>3, <2>4, SurvivorStays
  <2>5. CASE list.jumpsTo[j][i] = o /\ list'.jumpsTo[j][i] = list.opnext[o]
    BY <1>1, <1>2, <2>2, <2>3, <2>5, SurvivorMoves
  <2> QED BY <1>3, <2>4, <2>5, RemovalTargets
<1>4. ASSUME NEW j \in Ins
      PROVE  DOMAIN list'.jumpsTo[j] = DOMAIN args[j]
  <2>1. /\ list.opnext[o] \in Ins
        /\ list.jumpsTo[j] \in Seq(Ins) /\ DOMAIN list.jumpsTo[j] = DOMAIN args[j]
    BY <1>1, NextFacts DEF ListOK, ListType, JumpsFollow
  <2> QED BY <1>1, <2>1, ReplaceFirstType DEF Unlink
<1> QED BY <1>1, <1>3, <1>4 DEF JumpsFollow

LEMMA RemovalJumpsKnown == ASSUME NEW o, RealRemoval(o) PROVE JumpsKnown'
<1> DEFINE n == list.opnext[o]
<1>1. /\ ListOK /\ Chained /\ JumpsKnown /\ JumpsFollow /\ o \in kept /\ o # N
      /\ list' = Unlink(list, o) /\ kept' = kept \ {o} /\ args' = args
  BY DEF RealRemoval, ListInv
<1>2. /\ kept \subseteq Ins /\ n \in kept /\ n \in Ins /\ n # o /\ o \in Ins
      /\ Survivor(kept, o + 1, n)
  BY <1>1, NextFacts, InsFacts DEF ListOK
<1>3. \A x \in Ins : list'.jumpsHere[x] =
        (IF x = o THEN {} ELSE IF x = n THEN list.jumpsHere[n] \cup list.jumpsHere[o]
         ELSE list.jumpsHere[x])
  BY <1>1 DEF Unlink, HandOver
<1> HIDE DEF n
<1> SUFFICES ASSUME NEW j \in Ins, NEW i \in DOMAIN list'.jumpsTo[j],
                    list'.jumpsTo[j][i] \in kept'
             PROVE  /\ j \in list'.jumpsHere[list'.jumpsTo[j][i]]
                    /\ Survivor(kept', ResolveOffset(j, args[j][i]), list'.jumpsTo[j][i])
  BY <1>1 DEF JumpsKnown
<1>4. DOMAIN list'.jumpsTo[j] = DOMAIN args[j] /\ DOMAIN list.jumpsTo[j] = DOMAIN args[j]
  <2>1. /\ list.jumpsTo[j] \in Seq(Ins) /\ DOMAIN list.jumpsTo[j] = DOMAIN args[j]
    BY <1>1 DEF ListOK, ListType, JumpsFollow
  <2> QED BY <1>1, <1>2, <2>1, ReplaceFirstType DEF Unlink, n
<1>5. ResolveOffset(j, args[j][i]) \in Nat
  BY <1>4, RemovalTargets, InsFacts
<1>6. CASE list'.jumpsTo[j][i] = list.jumpsTo[j][i]
  <2>1. /\ list.jumpsTo[j][i] \in kept /\ list.jumpsTo[j][i] # o
        /\ list.jumpsTo[j][i] \in Ins
    BY <1>1, <1>2, <1>6
  <2>2. /\ j \in list.jumpsHere[list.jumpsTo[j][i]]
        /\ Survivor(kept, ResolveOffset(j, args[j][i]), list.jumpsTo[j][i])
    BY <1>1, <1>4, <2>1 DEF JumpsKnown
  <2> QED BY <1>1, <1>2, <1>3, <1>5, <1>6, <2>1, <2>2, SurvivorStays
<1>7. CASE list.jumpsTo[j][i] = o /\ list'.jumpsTo[j][i] = n
  <2>1. /\ j \in list.jumpsHere[o]
        /\ Survivor(kept, ResolveOffset(j, args[j][i]), o)
    BY <1>1, <1>4, <1>7 DEF JumpsKnown
  <2> QED BY <1>1, <1>2, <1>3, <1>5, <1>7, <2>1, SurvivorMoves
<1> QED BY <1>4, <1>6, <1>7, RemovalTargets DEF n

LEMMA RemovalErrorsFollow == ASSUME NEW o, RealRemoval(o) PROVE ErrorsFollow'
<1> DEFINE n == list.opnext[o]
<1>1. /\ ListOK /\ Chained /\ ErrorsFollow /\ o \in kept /\ o # N
      /\ list' = Unlink(list, o) /\ kept' = kept \ {o} /\ table' = table
  BY DEF RealRemoval, ListInv
<1>2. /\ kept \subseteq Ins /\ n \in kept /\ n \in Ins /\ n # o /\ o \in Ins
      /\ Survivor(kept, o + 1, n)
  BY <1>1, NextFacts, InsFacts DEF ListOK
<1>3. \A x \in Ins : list'.errors[x] =
        (IF x = o THEN {} ELSE IF x = n THEN list.errors[n] \cup list.errors[o]
         ELSE list.errors[x])
  BY <1>1 DEF Unlink, HandOver
<1> SUFFICES ASSUME NEW e \in Errs \ Dangling, NEW f \in ErrorField
             PROVE  /\ Survivor(kept', table'[e][f], list'.exc[e][f])
                    /\ \A x \in kept' : <<f, e>> \in list'.errors[x] <=> x = list'.exc[e][f]
  BY Zenon DEF ErrorsFollow
<1>4. list'.exc[e][f] = IF <<f, e>> \in list.errors[o] THEN n ELSE list.exc[e][f]
  BY <1>1 DEF Unlink, Reattach
<1>5. /\ Survivor(kept, table[e][f], list.exc[e][f])
      /\ \A x \in kept : <<f, e>> \in list.errors[x] <=> x = list.exc[e][f]
  BY <1>1 DEF ErrorsFollow
<1>6. table[e][f] \in Nat
  <2>1. table \in [Errs -> [ErrorField -> Ins]]
    BY <1>1, ErrorTablesAssumption DEF ListOK
  <2> QED BY <2>1, InsFacts
<1> HIDE DEF n
<1>7. CASE list.exc[e][f] = o
  <2>1. list'.exc[e][f] = n
    BY <1>1, <1>4, <1>5, <1>7
  <2>2. Survivor(kept', table[e][f], n)
    BY <1>1, <1>2, <1>5, <1>6, <1>7, SurvivorMoves
  <2>3. \A x \in kept' : <<f, e>> \in list'.errors[x] <=> x = n
    BY <1>1, <1>2, <1>3, <1>5, <1>7
  <2> QED BY <1>1, <2>1, <2>2, <2>3
<1>8. CASE list.exc[e][f] # o
  <2>1. list'.exc[e][f] = list.exc[e][f]
    BY <1>1, <1>4, <1>5, <1>8
  <2>2. Survivor(kept', table[e][f], list.exc[e][f])
    BY <1>1, <1>2, <1>5, <1>6, <1>8, SurvivorStays
  <2>3. \A x \in kept' : <<f, e>> \in list'.errors[x] <=> x = list.exc[e][f]
    BY <1>1, <1>2, <1>3, <1>5, <1>8
  <2> QED BY <1>1, <2>1, <2>2, <2>3
<1> QED BY <1>7, <1>8

-----------------------------------------------------------------------------
(***************************************************************************)
(* The invariants.                                                         *)
(***************************************************************************)
\* No sequence of removals breaks any of the invariants of the list.
LEMMA ListStepInv == ListInv /\ [ListNext]_listVars => ListInv'
<1> SUFFICES ASSUME ListInv, [ListNext]_listVars PROVE ListInv'
  OBVIOUS
<1>1. ASSUME NEW o \in kept, RemoveIns(o) PROVE ListInv'
  <2>1. Removed(list, o) <=> o = N
    BY RemovedLast DEF ListInv
  <2>2. CASE o = N
    <3>1. UNCHANGED listVars
      BY <1>1, <2>1, <2>2 DEF RemoveIns, Remove, listVars
    <3> QED BY <3>1 DEF ListInv, ListOK, Chained, JumpsKnown, JumpsFollow, ErrorsFollow, listVars
  <2>3. CASE o # N
    <3>1. RealRemoval(o)
      BY <1>1, <2>1, <2>3 DEF RealRemoval, RemoveIns, Remove
    <3> QED BY <3>1, RemovalListOK, RemovalChained, RemovalJumpsKnown,
               RemovalJumpsFollow, RemovalErrorsFollow DEF ListInv
  <2> QED BY <2>2, <2>3
<1>2. CASE UNCHANGED listVars
  BY <1>2 DEF ListInv, ListOK, Chained, JumpsKnown, JumpsFollow, ErrorsFollow, listVars
<1> QED BY <1>1, <1>2 DEF ListNext

\* The conjunction of the invariants of an edited list is itself invariant.
THEOREM ListInvariance == ListSpec => []ListInv
  BY ListInitInv, ListStepInv, PTL DEF ListSpec

\* The pointers stay well typed: no removal dereferences nullptr.
THEOREM ListTyping == ListSpec => []ListOK
<1>1. ListInv => ListOK
  BY DEF ListInv
<1> QED BY <1>1, ListInvariance, PTL

\* The chain of the instructions left is intact after any removals.
THEOREM ChainIntact == ListSpec => []Chained
<1>1. ListInv => Chained
  BY DEF ListInv
<1> QED BY <1>1, ListInvariance, PTL

\* An instruction left knows the jumps that lead to it.
THEOREM JumpsAreKnown == ListSpec => []JumpsKnown
<1>1. ListInv => JumpsKnown
  BY DEF ListInv
<1> QED BY <1>1, ListInvariance, PTL

\* Every jump leads to the first instruction left at or after its target.
THEOREM JumpsFollowTargets == ListSpec => []JumpsFollow
<1>1. ListInv => JumpsFollow
  BY DEF ListInv
<1> QED BY <1>1, ListInvariance, PTL

\* Try blocks keep their bounds and handlers.
THEOREM ErrorsFollowCode == ListSpec => []ErrorsFollow
<1>1. ListInv => ErrorsFollow
  BY DEF ListInv
<1> QED BY <1>1, ListInvariance, PTL

-----------------------------------------------------------------------------
(***************************************************************************)
(* What the passes that edit the list rely on.                             *)
(***************************************************************************)
\* From an instruction left the cursor moves to one left, or past the end.
LEMMA Forward ==
  ASSUME ListInv, NEW o \in kept
  PROVE  /\ o # Null
         /\ list.next[o] \in kept \cup {Null}
         /\ list.next[o] # o
         /\ list.next[o] = Null <=> o = N
<1>1. o \in Ins /\ Null \notin Ins /\ o \in Nat
  BY InsFacts DEF ListInv, ListOK
<1>2. CASE o = N
  BY <1>1, <1>2 DEF ListInv, Chained
<1>3. CASE o # N
  <2>1. /\ list.next[o] \in kept /\ list.next[o] \in Ins
        /\ o < list.next[o]
    BY <1>3, NextFacts DEF ListInv
  <2> QED BY <1>1, <1>3, <2>1
<1> QED BY <1>2, <1>3

\* A removal takes out the instruction it is called on, or nothing.
LEMMA Removal ==
  ASSUME ListInv, NEW o \in kept, RemoveIns(o)
  PROVE  /\ ListInv'
         /\ kept' = IF o = N THEN kept ELSE kept \ {o}
<1>1. ListInv'
  BY ListStepInv DEF ListNext
<1>2. Removed(list, o) <=> o = N
  BY RemovedLast DEF ListInv
<1> QED BY <1>1, <1>2 DEF RemoveIns

LEMMA Untouched == ListInv /\ UNCHANGED listVars => ListInv'
  BY ListStepInv DEF listVars

-----------------------------------------------------------------------------
(***************************************************************************)
(* Induction, and sequences that list a set of numbers in order.           *)
(***************************************************************************)
\* A set of numbers that is not empty has a least member.
LEMMA Smallest ==
  ASSUME NEW T, T \subseteq Nat, T # {}
  PROVE  \E x \in T : \A y \in T : x <= y
<1> DEFINE R == OpToRel(<, Nat)
<1>1. IsWellFoundedOn(R, Nat)
  BY NatLessThanWellFounded
<1>2. \A i \in Nat, j \in Nat : i < j => <<i, j>> \in R
  BY DEF OpToRel
<1> HIDE DEF R
<1>3. PICK x \in T : \A y \in T : ~ (<<y, x>> \in R)
  BY <1>1, WFMin
<1>4. ASSUME NEW y \in T PROVE x <= y
  <2>1. ~(y < x)
    BY <1>2, <1>3
  <2> QED BY <2>1
<1> QED BY <1>4

\* A set that holds 0 and the successor of each member holds every number.
LEMMA Induction ==
  ASSUME NEW S, 0 \in S, \A n \in Nat : n \in S => n + 1 \in S
  PROVE  Nat \subseteq S
<1> SUFFICES ASSUME Nat \ S # {} PROVE FALSE
  OBVIOUS
<1>1. PICK x \in Nat \ S : \A y \in Nat \ S : x <= y
  BY Smallest
<1>2. x - 1 \in Nat /\ x - 1 \notin Nat \ S
  BY <1>1
<1> QED BY <1>1, <1>2

\* The sequence s lists the numbers of S, each once and in order.
Enumerates(s, S) ==
  /\ s \in Seq(S)
  /\ \A i, j \in DOMAIN s : i < j => s[i] < s[j]
  /\ \A x \in S : \E i \in DOMAIN s : s[i] = x

\* The parts of Enumerates, by the positions 1..Len(s).
LEMMA EnumerationFacts ==
  ASSUME NEW S, S \subseteq Nat, NEW s, Enumerates(s, S)
  PROVE  /\ s \in Seq(S) /\ Len(s) \in Nat /\ DOMAIN s = 1..Len(s)
         /\ \A i \in 1..Len(s) : s[i] \in S /\ s[i] \in Nat
         /\ \A i, j \in 1..Len(s) : i < j => s[i] < s[j]
         /\ \A x \in S : \E i \in 1..Len(s) : s[i] = x
<1>1. s \in Seq(S) /\ Len(s) \in Nat /\ DOMAIN s = 1..Len(s)
  BY DEF Enumerates
<1>2. ASSUME NEW i \in 1..Len(s) PROVE s[i] \in S /\ s[i] \in Nat
  <2>1. s[i] \in S
    BY <1>1
  <2> QED BY <2>1
<1>3. /\ \A i, j \in DOMAIN s : i < j => s[i] < s[j]
      /\ \A x \in S : \E i \in DOMAIN s : s[i] = x
  BY DEF Enumerates
<1> HIDE DEF Enumerates
<1> QED BY <1>1, <1>2, <1>3

\* There is one way only to list a set of numbers in order: at the first
\* position where two lists differ, the smaller number is missing in one.
LEMMA EnumerationUnique ==
  ASSUME NEW S, S \subseteq Nat, NEW s, NEW t, Enumerates(s, S), Enumerates(t, S)
  PROVE  s = t
<1>1. ASSUME NEW u, NEW v, Enumerates(u, S), Enumerates(v, S)
      PROVE  Len(u) <= Len(v) /\ \A i \in 1..Len(u) : i <= Len(v) => u[i] = v[i]
  <2>1. /\ Len(u) \in Nat /\ \A i \in 1..Len(u) : u[i] \in S /\ u[i] \in Nat
        /\ \A i, j \in 1..Len(u) : i < j => u[i] < u[j]
        /\ \A x \in S : \E i \in 1..Len(u) : u[i] = x
    BY <1>1, EnumerationFacts
  <2>2. /\ Len(v) \in Nat /\ \A i \in 1..Len(v) : v[i] \in S /\ v[i] \in Nat
        /\ \A i, j \in 1..Len(v) : i < j => v[i] < v[j]
        /\ \A x \in S : \E i \in 1..Len(v) : v[i] = x
    BY <1>1, EnumerationFacts
  <2> DEFINE D == {i \in Nat : i \in 1..Len(u) /\ i \in 1..Len(v) /\ u[i] # v[i]}
  <2>3. D = {}
    <3> SUFFICES ASSUME D # {} PROVE FALSE
      OBVIOUS
    <3>1. PICK i \in D : \A y \in D : i <= y
      <4>1. D \subseteq Nat
        OBVIOUS
      <4> HIDE DEF D
      <4> QED BY <4>1, Smallest
    <3>2. i \in 1..Len(u) /\ i \in 1..Len(v) /\ u[i] \in S /\ v[i] \in S /\ u[i] # v[i] /\ u[i] \in Nat /\ v[i] \in Nat
      BY <2>2, <2>1, <3>1
    <3>3. ASSUME NEW h \in 1..(i-1) PROVE u[h] = v[h]
      <4>1. h \in 1..Len(u) /\ h \in 1..Len(v) /\ ~(i <= h)
        BY <2>2, <2>1, <3>1
      <4> QED BY <3>1, <4>1
    <3>4. CASE u[i] < v[i]
      <4>1. PICK j \in 1..Len(v) : v[j] = u[i]
        BY <2>2, <2>1, <3>2
      <4>2. ~(i < j) /\ i # j
        <5>1. i \in Nat /\ j \in Nat
          BY <2>1, <2>2, <3>2, <4>1
        <5>2. i # j
          BY <3>2, <4>1
        <5>3. i < j => v[i] < v[j]
          BY <2>2, <3>2, <4>1
        <5> QED BY <3>2, <3>4, <4>1, <5>1, <5>2, <5>3
      <4>3. j \in 1..(i-1) /\ j \in 1..Len(u)
        BY <2>2, <2>1, <3>1, <4>1, <4>2
      <4> QED BY <2>2, <2>1, <3>1, <3>2, <3>3, <4>1, <4>3
    <3>5. CASE v[i] < u[i]
      <4>1. PICK j \in 1..Len(u) : u[j] = v[i]
        BY <2>2, <2>1, <3>2
      <4>2. ~(i < j) /\ i # j
        <5>1. i \in Nat /\ j \in Nat
          BY <2>1, <2>2, <3>2, <4>1
        <5>2. i # j
          BY <3>2, <4>1
        <5>3. i < j => u[i] < u[j]
          BY <2>1, <3>2, <4>1
        <5> QED BY <3>2, <3>5, <4>1, <5>1, <5>2, <5>3
      <4>3. j \in 1..(i-1) /\ j \in 1..Len(v)
        BY <2>2, <2>1, <3>1, <4>1, <4>2
      <4> QED BY <2>2, <2>1, <3>1, <3>2, <3>3, <4>1, <4>3
    <3> QED BY <3>2, <3>4, <3>5
  <2>4. Len(u) <= Len(v)
    <3> SUFFICES ASSUME ~(Len(u) <= Len(v)) PROVE FALSE
      OBVIOUS
    <3>1. Len(u) \in Nat /\ Len(v) \in Nat /\ Len(v) + 1 \in 1..Len(u)
      BY <2>2, <2>1
    <3>2. PICK j \in 1..Len(v) : v[j] = u[Len(v) + 1]
      BY <2>2, <2>1, <3>1
    <3>3. j < Len(v) + 1 /\ j \in 1..Len(u) /\ j \in Nat
      BY <2>2, <2>1, <3>1
    <3>4. u[j] = v[j] /\ u[j] \in Nat
      BY <2>2, <2>1, <2>3, <3>3
    <3> QED BY <2>2, <2>1, <3>1, <3>2, <3>3, <3>4
  <2>5. ASSUME NEW i \in 1..Len(u), i <= Len(v) PROVE u[i] = v[i]
    <3>1. i \in Nat /\ i \in 1..Len(v)
      BY <2>2, <2>1, <2>5
    <3> QED BY <2>3, <3>1
  <2> QED BY <2>4, <2>5
<1>2. s \in Seq(S) /\ t \in Seq(S)
  BY DEF Enumerates
<1>3. Len(s) = Len(t) /\ Len(s) \in Nat
  <2>1. Len(s) <= Len(t) /\ Len(t) <= Len(s)
    BY <1>1
  <2> QED BY <1>2, <2>1
<1>4. \A i \in 1..Len(s) : s[i] = t[i]
  BY <1>1, <1>3
<1> QED BY <1>2, <1>3, <1>4

-----------------------------------------------------------------------------
(***************************************************************************)
(* Walk.                                                                   *)
(***************************************************************************)
\* Every pointer is null or leads towards the end of the method.
Ahead(ptr) == ptr \in [Ins -> 0..N] /\ \A o \in Ins : ptr[o] = Null \/ o < ptr[o]

\* The equation of Walk's recursion at o.
Follows(from, ptr, o) == from[o] = <<o>> \o from[ptr[o]]

\* Over pointers that lead ahead the recursion of Walk has a solution: it is
\* built from the last instruction backwards.
LEMMA WalkExists ==
  ASSUME NEW ptr, Ahead(ptr)
  PROVE  \E from : from = [o \in 0..N |-> IF o = Null THEN <<>> ELSE <<o>> \o from[ptr[o]]]
<1> DEFINE Done(from, k) ==
             /\ from \in [0..N -> Seq(Ins)] /\ from[Null] = <<>>
             /\ \A o \in Ins : N - k < o => Follows(from, ptr, o)
           S == {k \in Nat : k <= N => \E from : Done(from, k)}
<1>1. 0 \in S
  <2>1. Done([o \in 0..N |-> <<>>], 0)
    BY SizeAssumption DEF Ins, Null
  <2> QED BY <2>1
<1>2. ASSUME NEW k \in Nat, k \in S PROVE k + 1 \in S
  <2> SUFFICES ASSUME k + 1 <= N PROVE \E from : Done(from, k + 1)
    OBVIOUS
  <2>1. PICK from : Done(from, k)
    BY <1>2, SizeAssumption
  <2> DEFINE x == N - k
             longer == [from EXCEPT ![x] = <<x>> \o from[ptr[x]]]
  <2>2. x \in Ins /\ x \in 0..N /\ x # Null /\ ptr[x] \in 0..N
    BY SizeAssumption DEF Ins, Null, Ahead
  <2>3. <<x>> \o from[ptr[x]] \in Seq(Ins)
    <3>1. <<x>> \in Seq(Ins) /\ from[ptr[x]] \in Seq(Ins)
      BY <2>1, <2>2
    <3> HIDE DEF x
    <3> QED BY <3>1
  <2>4. longer \in [0..N -> Seq(Ins)] /\ longer[Null] = <<>>
    BY <2>1, <2>2, <2>3
  <2>5. ASSUME NEW o \in Ins, N - (k + 1) < o PROVE Follows(longer, ptr, o)
    <3>1. o \in 0..N /\ ptr[o] \in 0..N /\ ptr[o] # x
      <4>1. ptr[o] = Null \/ o < ptr[o]
        BY DEF Ahead
      <4> QED BY <2>2, <2>5, <4>1, SizeAssumption DEF Ahead, Ins, Null
    <3>2. longer[ptr[o]] = from[ptr[o]]
      BY <2>1, <3>1
    <3>3. CASE o = x
      BY <2>1, <2>2, <3>2, <3>3 DEF Follows
    <3>4. CASE o # x
      <4>1. N - k < o
        BY <2>2, <2>5, <3>4, SizeAssumption DEF Ins
      <4> QED BY <2>1, <3>1, <3>2, <3>4, <4>1 DEF Follows
    <3> QED BY <3>3, <3>4
  <2> HIDE DEF longer
  <2> QED BY <2>4, <2>5
<1>3. N \in S
  <2> HIDE DEF S
  <2> QED BY <1>1, <1>2, Induction, SizeAssumption
<1>4. PICK from : Done(from, N)
  <2>1. N <= N
    BY SizeAssumption
  <2> HIDE DEF Done
  <2> QED BY <1>3, <2>1
<1>5. ASSUME NEW o \in 0..N
      PROVE  from[o] = IF o = Null THEN <<>> ELSE <<o>> \o from[ptr[o]]
  BY <1>4, SizeAssumption DEF Ins, Null, Follows
<1>6. from = [o \in 0..N |-> IF o = Null THEN <<>> ELSE <<o>> \o from[ptr[o]]]
  BY <1>4, <1>5
<1> QED BY <1>6

\* Walk is the value of such a solution at the first instruction.
LEMMA WalkEquation ==
  ASSUME NEW L, Ahead(L.next)
  PROVE  \E from : /\ from[Null] = <<>> /\ \A o \in Ins : Follows(from, L.next, o)
                   /\ Walk(L) = from[L.begin]
<1> DEFINE F == CHOOSE from : from = [o \in 0..N |-> IF o = Null THEN <<>> ELSE <<o>> \o from[L.next[o]]]
<1>1. \E from : from = [o \in 0..N |-> IF o = Null THEN <<>> ELSE <<o>> \o from[L.next[o]]]
  BY WalkExists
<1>2. F = [o \in 0..N |-> IF o = Null THEN <<>> ELSE <<o>> \o F[L.next[o]]]
  BY <1>1
<1>3. Walk(L) = F[L.begin]
  BY DEF Walk
<1> HIDE DEF F
<1>4. ASSUME NEW o \in 0..N
      PROVE  F[o] = IF o = Null THEN <<>> ELSE <<o>> \o F[L.next[o]]
  BY <1>2, Zenon
<1>5. Null \in 0..N /\ Null \notin Ins /\ Ins \subseteq 0..N
  BY SizeAssumption DEF Ins, Null
<1>6. F[Null] = <<>>
  BY <1>4, <1>5
<1>7. ASSUME NEW o \in Ins PROVE Follows(F, L.next, o)
  BY <1>4, <1>5 DEF Follows
<1> QED BY <1>3, <1>6, <1>7

\* A smaller number goes in front of a list.
LEMMA PrependEnumerates ==
  ASSUME NEW S, S \subseteq Nat, NEW s, Enumerates(s, S),
         NEW o \in Nat, \A m \in S : o < m
  PROVE  Enumerates(<<o>> \o s, S \cup {o})
<1> DEFINE t == <<o>> \o s
<1>1. /\ s \in Seq(S) /\ Len(s) \in Nat
      /\ \A i \in 1..Len(s) : s[i] \in S /\ s[i] \in Nat
      /\ \A i, j \in 1..Len(s) : i < j => s[i] < s[j]
      /\ \A x \in S : \E i \in 1..Len(s) : s[i] = x
  BY EnumerationFacts
<1>2. /\ t \in Seq(S \cup {o}) /\ DOMAIN t = 1..(Len(s) + 1)
      /\ t[1] = o /\ \A i \in 2..(Len(s) + 1) : t[i] = s[i - 1]
  <2>1. <<o>> \in Seq(S \cup {o}) /\ s \in Seq(S \cup {o})
    BY <1>1
  <2> QED BY <1>1, <2>1
<1> HIDE DEF t
<1>3. ASSUME NEW i \in DOMAIN t, NEW j \in DOMAIN t, i < j PROVE t[i] < t[j]
  <2>1. j \in 2..(Len(s) + 1) /\ t[j] = s[j - 1] /\ j - 1 \in 1..Len(s)
    BY <1>1, <1>2, <1>3
  <2>2. CASE i = 1
    BY <1>1, <1>2, <2>1, <2>2
  <2>3. CASE i # 1
    <3>1. t[i] = s[i - 1] /\ i - 1 \in 1..Len(s) /\ i - 1 < j - 1
      BY <1>1, <1>2, <1>3, <2>3
    <3> QED BY <1>1, <2>1, <3>1
  <2> QED BY <2>2, <2>3
<1>4. ASSUME NEW x \in S \cup {o} PROVE \E i \in DOMAIN t : t[i] = x
  <2>1. CASE x = o
    BY <1>1, <1>2, <2>1
  <2>2. CASE x \in S
    <3>1. PICK i \in 1..Len(s) : s[i] = x
      BY <1>1, <2>2
    <3>2. i + 1 \in 2..(Len(s) + 1) /\ (i + 1) - 1 = i
      BY <1>1
    <3>3. t[i + 1] = s[i] /\ i + 1 \in DOMAIN t
      BY <1>1, <1>2, <3>2
    <3> QED BY <3>1, <3>3
  <2> QED BY <2>1, <2>2
<1> QED BY <1>2, <1>3, <1>4 DEF Enumerates, t

\* The back of a concatenation.
LEMMA ConcatAt ==
  ASSUME NEW S, NEW a \in Seq(S), NEW b \in Seq(S), NEW i \in Nat,
         Len(a) < i, i <= Len(a) + Len(b)
  PROVE  (a \o b)[i] = b[i - Len(a)]
OBVIOUS

\* A list without its k-th entry lists the set without that member.
LEMMA RemoveAtEnumerates ==
  ASSUME NEW S, S \subseteq Nat, NEW s, Enumerates(s, S), NEW k \in DOMAIN s
  PROVE  Enumerates(Edit!RemoveAt(s, k), S \ {s[k]})
<1> DEFINE t == Edit!RemoveAt(s, k)
<1>1. /\ s \in Seq(S) /\ Len(s) \in Nat /\ k \in 1..Len(s)
      /\ \A i \in 1..Len(s) : s[i] \in S /\ s[i] \in Nat
      /\ \A i, j \in 1..Len(s) : i < j => s[i] < s[j]
      /\ \A x \in S : \E i \in 1..Len(s) : s[i] = x
  BY EnumerationFacts
<1>2. /\ t \in Seq(S) /\ DOMAIN t = 1..(Len(s) - 1)
      /\ \A i \in 1..(Len(s) - 1) : t[i] = IF i < k THEN s[i] ELSE s[i + 1]
  <2> DEFINE a == SubSeq(s, 1, k - 1)
             b == SubSeq(s, k + 1, Len(s))
  <2>1. a \in Seq(S) /\ Len(a) = k - 1 /\ \A i \in 1..(k - 1) : a[i] = s[i]
    BY <1>1
  <2>2. /\ b \in Seq(S) /\ Len(b) = Len(s) - k
        /\ \A i \in 1..(Len(s) - k) : b[i] = s[k + i]
    BY <1>1
  <2>3. t = a \o b
    BY DEF Edit!RemoveAt
  <2> HIDE DEF a, b
  <2>4. t \in Seq(S) /\ Len(t) = Len(s) - 1
    BY <1>1, <2>1, <2>2, <2>3
  <2>5. ASSUME NEW i \in 1..(Len(s) - 1) PROVE t[i] = IF i < k THEN s[i] ELSE s[i + 1]
    <3>1. CASE i < k
      BY <1>1, <2>1, <2>2, <2>3, <3>1
    <3>2. CASE ~(i < k)
      <4>1. i - (k - 1) \in 1..(Len(s) - k) /\ k + (i - (k - 1)) = i + 1
        BY <1>1, <3>2
      <4>2. i \in Nat /\ Len(a) < i /\ i <= Len(a) + Len(b)
        BY <1>1, <2>1, <2>2, <3>2
      <4>3. (a \o b)[i] = b[i - Len(a)]
        BY <2>1, <2>2, <4>2, ConcatAt
      <4>4. t[i] = b[i - (k - 1)]
        BY <2>1, <2>3, <4>3
      <4> QED BY <2>2, <3>2, <4>1, <4>4
    <3> QED BY <3>1, <3>2
  <2> QED BY <2>4, <2>5
<1> HIDE DEF t
<1>3. ASSUME NEW i \in DOMAIN t, NEW j \in DOMAIN t, i < j PROVE t[i] < t[j]
  <2> DEFINE old(h) == IF h < k THEN h ELSE h + 1
  <2>1. /\ old(i) \in 1..Len(s) /\ old(j) \in 1..Len(s) /\ old(i) < old(j)
        /\ t[i] = s[old(i)] /\ t[j] = s[old(j)]
    <3>1. /\ i \in 1..(Len(s) - 1) /\ j \in 1..(Len(s) - 1)
          /\ Len(s) \in Nat /\ k \in Nat
      BY <1>1, <1>2
    <3>2. t[i] = s[old(i)] /\ t[j] = s[old(j)]
      BY <1>2, <3>1
    <3> HIDE DEF t
    <3> QED BY <1>3, <3>1, <3>2
  <2> HIDE DEF old
  <2> QED BY <1>1, <2>1
<1>4. ASSUME NEW i \in DOMAIN t PROVE t[i] \in S \ {s[k]}
  <2>1. CASE i < k
    <3>1. t[i] = s[i] /\ i \in 1..Len(s)
      BY <1>1, <1>2, <2>1
    <3> QED BY <1>1, <2>1, <3>1
  <2>2. CASE ~(i < k)
    <3>1. t[i] = s[i + 1] /\ i + 1 \in 1..Len(s) /\ k < i + 1
      BY <1>1, <1>2, <2>2
    <3> QED BY <1>1, <3>1
  <2> QED BY <2>1, <2>2
<1>5. ASSUME NEW x \in S \ {s[k]} PROVE \E i \in DOMAIN t : t[i] = x
  <2>1. PICK h \in 1..Len(s) : s[h] = x
    BY <1>1
  <2>2. CASE h < k
    <3>1. h \in DOMAIN t /\ t[h] = s[h]
      BY <1>1, <1>2, <2>1, <2>2
    <3> QED BY <2>1, <3>1
  <2>3. CASE h > k
    <3>1. h - 1 \in DOMAIN t /\ ~(h - 1 < k) /\ (h - 1) + 1 = h
      BY <1>1, <1>2, <2>1, <2>3
    <3>2. t[h - 1] = s[h]
      BY <1>2, <3>1
    <3> QED BY <2>1, <3>1, <3>2
  <2> QED BY <1>1, <2>1, <2>2, <2>3
<1>6. t \in Seq(S \ {s[k]})
  <2>1. t \in [1..(Len(s) - 1) -> S \ {s[k]}] /\ Len(s) - 1 \in Nat
    BY <1>1, <1>2, <1>4
  <2> QED BY <2>1
<1> QED BY <1>3, <1>5, <1>6 DEF Enumerates, t

\* The next pointers of L lead through S: what Chained says of the list.
ChainOf(L, S) ==
  /\ S \subseteq Ins /\ N \in S
  /\ Ahead(L.next)
  /\ Survivor(S, 1, L.begin)
  /\ L.next[N] = Null
  /\ \A o \in S \ {N} : Survivor(S, o + 1, L.next[o])

\* Walking over a chain through S lists S, by induction from the end.
LEMMA WalkEnumerates ==
  ASSUME NEW L, NEW S, ChainOf(L, S)
  PROVE  Enumerates(Walk(L), S)
<1>1. PICK from : /\ from[Null] = <<>> /\ \A o \in Ins : Follows(from, L.next, o)
                  /\ Walk(L) = from[L.begin]
  BY WalkEquation DEF ChainOf
<1>2. /\ from[Null] = <<>>
      /\ \A o \in Ins : from[o] = <<o>> \o from[L.next[o]]
  BY <1>1 DEF Follows
<1>3. S \subseteq Ins /\ S \subseteq Nat /\ N \in S
  BY InsFacts DEF ChainOf
<1> DEFINE Rest(o) == {m \in S : o <= m}
           T == {k \in Nat : \A o \in S : N - k <= o => Enumerates(from[o], Rest(o))}
<1>4. Enumerates(from[N], Rest(N))
  <2>1. L.next[N] = Null
    BY DEF ChainOf
  <2>2. from[N] = <<N>> \o <<>>
    BY <1>2, <2>1, InsFacts
  <2>3. Enumerates(<<>>, {})
    BY DEF Enumerates
  <2>4. Enumerates(<<N>> \o <<>>, {} \cup {N})
    <3>1. {} \subseteq Nat /\ \A m \in {} : N < m
      OBVIOUS
    <3>2. N \in Nat
      BY SizeAssumption
    <3> HIDE DEF Rest, T
    <3> QED BY <2>3, <3>1, <3>2, PrependEnumerates
  <2>5. Rest(N) = {} \cup {N}
    <3>1. \A m \in S : N <= m <=> m = N
      BY <1>3, SizeAssumption DEF Ins
    <3> QED BY <1>3, <3>1
  <2> QED BY <2>2, <2>4, <2>5
<1>5. 0 \in T
  <2> SUFFICES ASSUME NEW o \in S, N - 0 <= o PROVE o = N
    BY <1>4
  <2> QED BY <1>3, SizeAssumption DEF Ins
<1>6. ASSUME NEW k \in Nat, k \in T PROVE k + 1 \in T
  <2> SUFFICES ASSUME NEW o \in S, N - (k + 1) <= o, o # N
               PROVE  Enumerates(from[o], Rest(o))
    BY <1>4
  <2> DEFINE n == L.next[o]
  <2>1. o \in Ins /\ o \in Nat /\ n \in S /\ n \in Nat /\ o < n /\ Survivor(S, o + 1, n)
    <3>1. Survivor(S, o + 1, n) /\ o \in Ins
      BY <1>3 DEF ChainOf
    <3>2. n \in S /\ o + 1 <= n
      BY <3>1 DEF Survivor
    <3>3. o \in Nat /\ n \in Nat
      BY <1>3, <3>2
    <3> HIDE DEF n
    <3> QED BY <3>1, <3>2, <3>3
  <2>2. N - k <= n
    BY <2>1, SizeAssumption
  <2>3. Enumerates(from[n], Rest(n))
    BY <1>6, <2>1, <2>2
  <2>4. Rest(o) = Rest(n) \cup {o}
    <3>1. \A m \in S : o + 1 <= m => n <= m
      BY <2>1 DEF Survivor
    <3>2. \A m \in S : o <= m <=> n <= m \/ m = o
      BY <1>3, <2>1, <3>1
    <3> HIDE DEF n
    <3> QED BY <2>1, <3>2
  <2>5. Rest(n) \subseteq Nat /\ \A m \in Rest(n) : o < m
    <3> SUFFICES ASSUME NEW m \in S, n <= m PROVE m \in Nat /\ o < m
      OBVIOUS
    <3> HIDE DEF n
    <3> QED BY <1>3, <2>1
  <2>6. from[o] = <<o>> \o from[n]
    BY <1>2, <2>1
  <2> HIDE DEF Rest, n
  <2> QED BY <2>1, <2>3, <2>4, <2>5, <2>6, PrependEnumerates
<1>7. N \in T
  <2> HIDE DEF T
  <2> QED BY <1>5, <1>6, Induction, SizeAssumption
<1>8. L.begin \in S /\ 1 <= L.begin /\ Rest(L.begin) = S
  <2>1. L.begin \in S /\ 1 <= L.begin /\ \A m \in S : 1 <= m => L.begin <= m
    BY DEF ChainOf, Survivor
  <2>2. \A m \in S : L.begin <= m
    BY <1>3, <2>1 DEF Ins
  <2> QED BY <2>1, <2>2
<1>9. Enumerates(from[L.begin], Rest(L.begin))
  <2>1. N - N <= L.begin
    <3>1. L.begin \in Nat
      BY <1>3, <1>8
    <3> QED BY <3>1, SizeAssumption
  <2> HIDE DEF Rest
  <2> QED BY <1>7, <1>8, <2>1
<1> QED BY <1>1, <1>8, <1>9

-----------------------------------------------------------------------------
(***************************************************************************)
(* The pointers lead ahead, also those of instructions removed before.     *)
(***************************************************************************)
\* OpInfo::remove writes a pointer only over a gap, never backwards.
PointsAhead == Ahead(list.next)

\* Parser::parse links each instruction to the one after it.
LEMMA InitAhead == ListInit => PointsAhead
<1> SUFFICES ASSUME ListInit PROVE PointsAhead
  OBVIOUS
<1>1. list.next = [o \in Ins |-> IF o = N THEN Null ELSE o + 1]
  BY DEF ListInit, Register
<1>2. ASSUME NEW o \in Ins
      PROVE  list.next[o] \in 0..N /\ (list.next[o] = Null \/ o < list.next[o])
  BY <1>1, SizeAssumption DEF Ins, Null
<1> QED BY <1>1, <1>2 DEF PointsAhead, Ahead

\* The list is a chain through the instructions kept.
LEMMA ListIsChain == ListInv /\ PointsAhead => ChainOf(list, kept)
  BY DEF ListInv, ListOK, Chained, PointsAhead, ChainOf

\* The predecessor's pointer goes to the successor, which is further ahead.
LEMMA RemovalAhead ==
  ASSUME NEW o, RealRemoval(o), PointsAhead
  PROVE  PointsAhead'
<1> DEFINE p == list.prev[o]
           n == list.next[o]
<1>1. /\ ListOK /\ Chained /\ o \in kept /\ o # N /\ list' = Unlink(list, o)
      /\ o \in Ins /\ o \in Nat
  BY InsFacts DEF RealRemoval, ListInv, ListOK
<1>2. n \in Ins /\ o < n /\ n \in Nat
  BY <1>1, NextFacts, InsFacts
<1>3. p = Null \/ (p \in Ins /\ p < o /\ p \in Nat)
  BY <1>1, InsFacts DEF Chained, ListOK
<1>4. list'.next = Bypass(list.next, p, n)
  BY <1>1 DEF Unlink
<1>5. list'.next \in [Ins -> 0..N]
  BY <1>2, <1>4, BypassType DEF PointsAhead, Ahead
<1> HIDE DEF p, n
<1>6. ASSUME NEW x \in Ins PROVE list'.next[x] = Null \/ x < list'.next[x]
  <2>1. CASE x = p
    <3>1. list'.next[x] = n /\ x \in Nat
      BY <1>4, <2>1, InsFacts DEF Bypass
    <3>2. x < o
      BY <1>3, <2>1, InsFacts
    <3> QED BY <1>1, <1>2, <3>1, <3>2
  <2>2. CASE x # p
    BY <1>4, <2>2 DEF Bypass, PointsAhead, Ahead
  <2> QED BY <2>1, <2>2
<1> QED BY <1>5, <1>6 DEF PointsAhead, Ahead

\* A removal, or the call that removes nothing, keeps the pointers ahead.
LEMMA StepAhead == ListInv /\ PointsAhead /\ [ListNext]_listVars => PointsAhead'
<1> SUFFICES ASSUME ListInv, PointsAhead, [ListNext]_listVars PROVE PointsAhead'
  OBVIOUS
<1>1. ASSUME NEW o \in kept, RemoveIns(o) PROVE PointsAhead'
  <2>1. Removed(list, o) <=> o = N
    BY RemovedLast DEF ListInv
  <2>2. CASE o = N
    BY <1>1, <2>1, <2>2 DEF RemoveIns, Remove, PointsAhead
  <2>3. CASE o # N
    <3>1. RealRemoval(o)
      BY <1>1, <2>1, <2>3 DEF RealRemoval, RemoveIns, Remove
    <3> QED BY <3>1, RemovalAhead
  <2> QED BY <2>2, <2>3
<1>2. CASE UNCHANGED listVars
  BY <1>2 DEF PointsAhead, listVars
<1> QED BY <1>1, <1>2 DEF ListNext

\* The pointers of the chain, those that removed instructions keep included,
\* lead towards the end of the method: the loops over it come to an end.
THEOREM ChainAhead == ListSpec => []PointsAhead
  BY InitAhead, StepAhead, ListInvariance, ListInitInv, PTL DEF ListSpec

-----------------------------------------------------------------------------
(***************************************************************************)
(* The list implements CodeEdit.                                           *)
(***************************************************************************)
\* The jumps whose first target is removed go to its successor, the others
\* stay: ReplaceFirst cannot miss the first target.
LEMMA FirstTargetMoves ==
  ASSUME NEW o, RealRemoval(o)
  PROVE  FirstTarget(list') = [j \in DOMAIN FirstTarget(list) |->
           IF FirstTarget(list)[j] = o THEN list.next[o] ELSE FirstTarget(list)[j]]
<1>1. /\ ListInv /\ ListOK /\ Chained /\ o \in kept /\ o # N
  BY DEF RealRemoval, ListInv
<1>2. ListInv'
  BY RemovalListOK, RemovalChained, RemovalJumpsKnown, RemovalJumpsFollow,
     RemovalErrorsFollow DEF ListInv
<1>3. list.opnext[o] = list.next[o] /\ args' = args
  BY <1>1, NextFacts DEF RealRemoval
<1>4. ASSUME NEW j \in Ins
      PROVE  /\ list.jumpsTo[j] \in Seq(Ins) /\ DOMAIN list.jumpsTo[j] = DOMAIN args[j]
             /\ list'.jumpsTo[j] \in Seq(Ins) /\ DOMAIN list'.jumpsTo[j] = DOMAIN args[j]
  BY <1>1, <1>2, <1>3 DEF ListInv, ListOK, ListType, JumpsFollow
<1>5. ASSUME NEW j \in Ins PROVE list'.jumpsTo[j] # <<>> <=> list.jumpsTo[j] # <<>>
  BY <1>4
<1>6. ASSUME NEW j \in Ins, list.jumpsTo[j] # <<>>
      PROVE  list'.jumpsTo[j][1] =
               IF list.jumpsTo[j][1] = o THEN list.next[o] ELSE list.jumpsTo[j][1]
  <2>1. 1 \in DOMAIN args[j]
    BY <1>4, <1>6
  <2>2. ~\E k \in 1..(1-1) : TRUE
    OBVIOUS
  <2> QED BY <1>3, <2>1, <2>2, RemovalTargets
<1> QED BY <1>5, <1>6 DEF FirstTarget

\* One removal is one step of CodeEdit.
LEMMA RemovalTakes ==
  ASSUME NEW o, RealRemoval(o), PointsAhead
  PROVE  Edit!Next
<1> DEFINE code == Walk(list)
<1>1. /\ ListInv /\ o \in kept /\ o # N /\ kept' = kept \ {o}
      /\ kept \subseteq Nat /\ N \in kept /\ kept \subseteq Ins
  BY InsFacts DEF RealRemoval, ListInv, ListOK, Chained
<1>2. ListInv' /\ PointsAhead'
  BY RemovalListOK, RemovalChained, RemovalJumpsKnown, RemovalJumpsFollow,
     RemovalErrorsFollow, RemovalAhead DEF ListInv
<1>3. Enumerates(code, kept)
  BY <1>1, ListIsChain, WalkEnumerates
<1>4. Enumerates(Walk(list'), kept')
  <2>1. ChainOf(list', kept')
    BY <1>2 DEF ListInv, ListOK, Chained, PointsAhead, ChainOf
  <2> QED BY <2>1, WalkEnumerates
<1> HIDE DEF code
<1>5. /\ Len(code) \in Nat /\ DOMAIN code = 1..Len(code)
      /\ \A i \in 1..Len(code) : code[i] \in kept /\ code[i] \in Nat
      /\ \A i, j \in 1..Len(code) : i < j => code[i] < code[j]
      /\ \A x \in kept : \E i \in 1..Len(code) : code[i] = x
  <2>1. kept \subseteq Nat
    BY <1>1
  <2> QED BY <1>3, <2>1, EnumerationFacts
<1>6. PICK k \in 1..Len(code) : code[k] = o
  BY <1>1, <1>5
<1>7. Walk(list') = Edit!RemoveAt(code, k)
  <2>1. Enumerates(Edit!RemoveAt(code, k), kept \ {o})
    BY <1>1, <1>3, <1>5, <1>6, RemoveAtEnumerates
  <2>2. kept \ {o} \subseteq Nat
    BY <1>1
  <2> QED BY <1>1, <1>4, <2>1, <2>2, EnumerationUnique
<1>8. /\ list.next[o] \in kept /\ list.next[o] \in Nat /\ o < list.next[o]
      /\ \A m \in kept : o + 1 <= m => list.next[o] <= m
      /\ o \in Nat
  BY <1>1, NextFacts DEF ListInv, Survivor
<1>9. k \in 1..(Len(code) - 1) /\ code[k + 1] = list.next[o]
  <2>1. PICK h \in 1..Len(code) : code[h] = list.next[o]
    BY <1>5, <1>8
  <2>2. k < h
    BY <1>5, <1>6, <1>8, <2>1
  <2>3. k + 1 \in 1..Len(code) /\ k < k + 1
    BY <1>5, <2>2
  <2>4. o < code[k + 1] /\ code[k + 1] \in kept /\ code[k + 1] \in Nat
    BY <1>5, <1>6, <2>3
  <2>5. list.next[o] <= code[k + 1]
    BY <1>8, <2>4
  <2>6. ~(k + 1 < h)
    BY <1>5, <1>8, <2>1, <2>3, <2>4, <2>5
  <2>7. h = k + 1
    BY <2>2, <2>6
  <2> QED BY <1>5, <2>1, <2>7
<1>10. FirstTarget(list') = [j \in DOMAIN FirstTarget(list) |->
          IF FirstTarget(list)[j] = code[k] THEN code[k + 1] ELSE FirstTarget(list)[j]]
  BY <1>6, <1>9, FirstTargetMoves
<1>11. Edit!Take(k)
  BY <1>7, <1>10 DEF Edit!Take, code
<1> QED BY <1>9, <1>11 DEF Edit!Next, code

\* Every removal takes one instruction out of the code, which the chain
\* stands for, and sends the jumps that led to it to its successor.
THEOREM Refinement == ListSpec => Implements
<1>1. ListInv /\ PointsAhead /\ [ListNext]_listVars => [Edit!Next]_(Edit!vars)
  <2> SUFFICES ASSUME ListInv, PointsAhead, [ListNext]_listVars
               PROVE  [Edit!Next]_(Edit!vars)
    OBVIOUS
  <2>1. ASSUME NEW o \in kept, RemoveIns(o), o # N PROVE Edit!Next
    <3>1. RealRemoval(o)
      BY <2>1, RemovedLast DEF RealRemoval, RemoveIns, Remove, ListInv
    <3> QED BY <3>1, RemovalTakes
  <2>2. ASSUME NEW o \in kept, RemoveIns(o), o = N PROVE UNCHANGED list
    BY <2>2, RemovedLast DEF RemoveIns, Remove, ListInv
  <2>3. ASSUME UNCHANGED list PROVE UNCHANGED Edit!vars
    BY <2>3 DEF Edit!vars
  <2> QED BY <2>1, <2>2, <2>3 DEF ListNext, listVars
<1> QED BY <1>1, ListInvariance, ChainAhead, PTL DEF ListSpec, Implements, Edit!Spec

-----------------------------------------------------------------------------
(***************************************************************************)
(* Position, and the offsets written.                                      *)
(***************************************************************************)
\* pos at i, from pos at the instruction before it.
After(pos, code, S, i) ==
  IF i - 1 \in S THEN pos[i - 1] + OpSize[code[i - 1].op] ELSE pos[i - 1]

\* The equation of Position's recursion.
Adds(pos, code, S) ==
  pos = [i \in Ins |-> IF i = 1 THEN 0 ELSE After(pos, code, S, i)]

\* It has a solution, built from the first instruction on.
LEMMA PositionExists ==
  ASSUME NEW code, NEW S
  PROVE  \E pos : Adds(pos, code, S)
<1> DEFINE Done(pos, k) ==
             /\ DOMAIN pos = Ins /\ pos = [i \in Ins |-> pos[i]] /\ pos[1] = 0
             /\ \A i \in Ins \ {1} : i <= k => pos[i] = After(pos, code, S, i)
           T == {k \in Nat : k <= N => \E pos : Done(pos, k)}
<1>1. 0 \in T
  <2>1. Done([i \in Ins |-> 0], 0)
    BY SizeAssumption DEF Ins
  <2> QED BY <2>1
<1>2. ASSUME NEW k \in Nat, k \in T PROVE k + 1 \in T
  <2> SUFFICES ASSUME k + 1 <= N PROVE \E pos : Done(pos, k + 1)
    OBVIOUS
  <2>1. PICK pos : Done(pos, k)
    BY <1>2, SizeAssumption
  <2> DEFINE longer == [pos EXCEPT ![k + 1] = After(pos, code, S, k + 1)]
  <2>2. CASE k = 0
    <3>1. \A i \in Ins \ {1} : ~(i <= k + 1)
      BY <2>2, SizeAssumption DEF Ins
    <3>2. Done(pos, k + 1)
      BY <2>1, <3>1
    <3> QED BY <3>2
  <2>3. CASE k # 0
    <3>1. k + 1 \in Ins /\ k + 1 # 1 /\ 1 \in Ins
      BY <2>3, SizeAssumption DEF Ins
    <3>2. /\ DOMAIN longer = Ins /\ longer = [i \in Ins |-> longer[i]] /\ longer[1] = 0
          /\ longer[k + 1] = After(pos, code, S, k + 1)
          /\ \A i \in Ins : i # k + 1 => longer[i] = pos[i]
      BY <2>1, <3>1
    <3> HIDE DEF longer
    <3>3. ASSUME NEW i \in Ins \ {1}, i <= k + 1
          PROVE  longer[i] = After(longer, code, S, i)
      <4>1. i - 1 \in Ins /\ i - 1 # k + 1
        BY <3>3, SizeAssumption DEF Ins
      <4>2. After(longer, code, S, i) = After(pos, code, S, i)
        BY <3>2, <4>1 DEF After
      <4>3. CASE i = k + 1
        BY <3>2, <4>2, <4>3
      <4>4. CASE i # k + 1
        <5>1. i <= k
          BY <3>3, <4>4 DEF Ins
        <5> QED BY <2>1, <3>2, <4>2, <4>4, <5>1
      <4> QED BY <4>3, <4>4
    <3>4. Done(longer, k + 1)
      BY <3>2, <3>3
    <3> QED BY <3>4
  <2> QED BY <2>2, <2>3
<1>3. N \in T
  <2> HIDE DEF T
  <2> QED BY <1>1, <1>2, Induction, SizeAssumption
<1>4. PICK pos : Done(pos, N)
  <2>1. N <= N
    BY SizeAssumption
  <2> HIDE DEF Done
  <2> QED BY <1>3, <2>1
<1>5. ASSUME NEW i \in Ins PROVE pos[i] = IF i = 1 THEN 0 ELSE After(pos, code, S, i)
  <2>1. i <= N
    BY SizeAssumption DEF Ins
  <2> QED BY <1>4, <2>1
<1>6. pos = [i \in Ins |-> IF i = 1 THEN 0 ELSE After(pos, code, S, i)]
  BY <1>4, <1>5
<1> QED BY <1>6 DEF Adds

\* pos starts at 0 and grows by the size of each instruction left.
LEMMA PositionEquation ==
  ASSUME NEW code, NEW S
  PROVE  /\ Position(code, S, 1) = 0
         /\ \A i \in Ins : i + 1 \in Ins =>
              Position(code, S, i + 1) = IF i \in S THEN Position(code, S, i) + OpSize[code[i].op]
                                                  ELSE Position(code, S, i)
<1> DEFINE F == CHOOSE pos : pos = [i \in Ins |-> IF i = 1 THEN 0 ELSE
                  IF i - 1 \in S THEN pos[i - 1] + OpSize[code[i - 1].op] ELSE pos[i - 1]]
<1>1. F = [i \in Ins |-> IF i = 1 THEN 0 ELSE
                  IF i - 1 \in S THEN F[i - 1] + OpSize[code[i - 1].op] ELSE F[i - 1]]
  <2>1. PICK pos : Adds(pos, code, S)
    BY PositionExists
  <2>2. pos = [i \in Ins |-> IF i = 1 THEN 0 ELSE
                 IF i - 1 \in S THEN pos[i - 1] + OpSize[code[i - 1].op] ELSE pos[i - 1]]
    BY <2>1, Zenon DEF Adds, After
  <2> QED BY <2>2, Zenon
<1>2. \A x : Position(code, S, x) = F[x]
  BY DEF Position
<1> HIDE DEF F
<1>3. ASSUME NEW i \in Ins
      PROVE  F[i] = IF i = 1 THEN 0 ELSE
                    IF i - 1 \in S THEN F[i - 1] + OpSize[code[i - 1].op] ELSE F[i - 1]
  BY <1>1, Zenon
<1>4. F[1] = 0
  BY <1>3, InsFacts
<1>5. ASSUME NEW i \in Ins, i + 1 \in Ins
      PROVE  F[i + 1] = IF i \in S THEN F[i] + OpSize[code[i].op] ELSE F[i]
  <2>1. i + 1 # 1 /\ (i + 1) - 1 = i
    BY InsFacts, SizeAssumption DEF Ins
  <2> QED BY <1>3, <1>5, <2>1
<1> QED BY <1>2, <1>4, <1>5

\* pos does not grow over instructions that are gone.
LEMMA PositionGap ==
  ASSUME NEW code, NEW S, NEW a \in Ins, NEW b \in Ins, a <= b,
         \A m \in Ins : a <= m /\ m < b => m \notin S
  PROVE  Position(code, S, b) = Position(code, S, a)
<1> DEFINE P(x) == Position(code, S, x)
           T == {d \in Nat : a + d <= b => P(a + d) = P(a)}
<1>1. a \in Nat /\ b \in Nat /\ b <= N /\ 1 <= a
  BY SizeAssumption DEF Ins
<1>2. ASSUME NEW i \in Ins, i + 1 \in Ins, i \notin S PROVE P(i + 1) = P(i)
  <2>1. Position(code, S, i + 1) =
          IF i \in S THEN Position(code, S, i) + OpSize[code[i].op] ELSE Position(code, S, i)
    <3>1. \A j \in Ins : j + 1 \in Ins => Position(code, S, j + 1) =
             IF j \in S THEN Position(code, S, j) + OpSize[code[j].op] ELSE Position(code, S, j)
      BY PositionEquation, Zenon
    <3> QED BY <1>2, <3>1, Zenon
  <2> QED BY <1>2, <2>1
<1> HIDE DEF P
<1>3. 0 \in T
  <2>1. a + 0 = a
    BY <1>1
  <2> QED BY <2>1
<1>4. ASSUME NEW d \in Nat, d \in T PROVE d + 1 \in T
  <2> SUFFICES ASSUME a + (d + 1) <= b PROVE P(a + (d + 1)) = P(a)
    OBVIOUS
  <2>1. /\ a + d \in Ins /\ (a + d) + 1 \in Ins /\ a <= a + d /\ a + d < b
        /\ a + (d + 1) = (a + d) + 1 /\ a + d <= b
    BY <1>1, SizeAssumption DEF Ins
  <2>2. a + d \notin S
    BY <2>1
  <2>3. P((a + d) + 1) = P(a + d)
    BY <1>2, <2>1, <2>2
  <2> QED BY <1>4, <2>1, <2>3
<1>5. b - a \in Nat /\ a + (b - a) = b
  BY <1>1
<1>6. b - a \in T
  <2> HIDE DEF T
  <2> QED BY <1>3, <1>4, <1>5, Induction
<1>7. P(b) = P(a)
  BY <1>1, <1>5, <1>6
<1> QED BY <1>7 DEF P

\* The k-th of the instructions listed is not before instruction k, so the
\* positions of the list are instruction numbers too.
LEMMA EnumerationFits ==
  ASSUME NEW S, S \subseteq Ins, NEW w, Enumerates(w, S), NEW k \in DOMAIN w
  PROVE  k <= w[k] /\ k \in Ins
<1>1. S \subseteq Nat
  BY InsFacts
<1>2. /\ Len(w) \in Nat /\ DOMAIN w = 1..Len(w)
      /\ \A i \in 1..Len(w) : w[i] \in S /\ w[i] \in Nat
      /\ \A i, j \in 1..Len(w) : i < j => w[i] < w[j]
  BY <1>1, EnumerationFacts
<1> DEFINE T == {i \in Nat : i \in 1..Len(w) => i <= w[i]}
<1>3. 0 \in T
  BY <1>2
<1>4. ASSUME NEW i \in Nat, i \in T PROVE i + 1 \in T
  <2> SUFFICES ASSUME i + 1 \in 1..Len(w) PROVE i + 1 <= w[i + 1]
    OBVIOUS
  <2>1. CASE i = 0
    <3>1. w[i + 1] \in Ins
      BY <1>2
    <3> QED BY <2>1, <3>1 DEF Ins
  <2>2. CASE i # 0
    <3>1. i \in 1..Len(w) /\ i < i + 1
      BY <1>2, <2>2
    <3>2. i <= w[i] /\ w[i] < w[i + 1] /\ w[i] \in Nat /\ w[i + 1] \in Nat
      BY <1>2, <1>4, <3>1
    <3> QED BY <3>2
  <2> QED BY <2>1, <2>2
<1>5. k \in Nat /\ k \in 1..Len(w)
  BY <1>2
<1>6. k \in T
  <2> HIDE DEF T
  <2> QED BY <1>3, <1>4, <1>5, Induction
<1>7. k <= w[k] /\ w[k] \in Ins
  BY <1>2, <1>5, <1>6
<1> QED BY <1>5, <1>7, SizeAssumption DEF Ins

\* Enumerates, for a set of instructions, by positions and with the types.
InsInOrder(w, S) ==
  /\ Len(w) \in Nat /\ DOMAIN w = 1..Len(w)
  /\ \A i \in 1..Len(w) : w[i] \in S /\ w[i] \in Nat /\ w[i] \in Ins /\ i \in Ins
  /\ \A i, j \in 1..Len(w) : i < j => w[i] < w[j]
  /\ \A x \in S : \E i \in 1..Len(w) : w[i] = x

\* A list of instructions has these parts.
LEMMA EnumerationIns ==
  ASSUME NEW S, S \subseteq Ins, NEW w, Enumerates(w, S)
  PROVE  InsInOrder(w, S)
<1>1. S \subseteq Nat
  BY InsFacts
<1>2. /\ Len(w) \in Nat /\ DOMAIN w = 1..Len(w)
      /\ \A i \in 1..Len(w) : w[i] \in S /\ w[i] \in Nat
      /\ \A i, j \in 1..Len(w) : i < j => w[i] < w[j]
      /\ \A x \in S : \E i \in 1..Len(w) : w[i] = x
  BY <1>1, EnumerationFacts
<1>3. \A i \in DOMAIN w : i \in Ins
  BY EnumerationFits
<1> QED BY <1>2, <1>3 DEF InsInOrder

\* An instruction has the position in the code written that it has among the
\* instructions left in the method.
LEMMA PositionKept ==
  ASSUME NEW S, S \subseteq Ins, NEW w, Enumerates(w, S), NEW code, NEW written,
         \A h \in DOMAIN w : written[h] = code[w[h]],
         NEW k \in DOMAIN w
  PROVE  Position(written, DOMAIN w, k) = Position(code, S, w[k])
<1>1. S \subseteq Nat
  BY InsFacts
<1>2. /\ Len(w) \in Nat /\ DOMAIN w = 1..Len(w)
      /\ \A i \in 1..Len(w) : w[i] \in S /\ w[i] \in Nat /\ w[i] \in Ins /\ i \in Ins
      /\ \A i, j \in 1..Len(w) : i < j => w[i] < w[j]
      /\ \A x \in S : \E i \in 1..Len(w) : w[i] = x
  <2>1. InsInOrder(w, S)
    BY EnumerationIns
  <2> QED BY <2>1 DEF InsInOrder
<1> DEFINE P(x) == Position(code, S, x)
           Q(x) == Position(written, DOMAIN w, x)
           T == {i \in Nat : i \in 1..Len(w) => Q(i) = P(w[i])}
<1>3. P(1) = 0 /\ Q(1) = 0
  BY PositionEquation
<1>4. \A i \in Ins : i + 1 \in Ins =>
        /\ i \in S => P(i + 1) = P(i) + OpSize[code[i].op]
        /\ i \in DOMAIN w => Q(i + 1) = Q(i) + OpSize[written[i].op]
  BY PositionEquation
<1>5. ASSUME NEW a \in Ins, NEW b \in Ins, a <= b,
             \A m \in Ins : a <= m /\ m < b => m \notin S
      PROVE  P(a) = P(b)
  BY <1>5, PositionGap
<1> HIDE DEF P, Q
<1>6. 0 \in T
  BY <1>2
<1>7. ASSUME NEW i \in Nat, i \in T PROVE i + 1 \in T
  <2> SUFFICES ASSUME i + 1 \in 1..Len(w) PROVE Q(i + 1) = P(w[i + 1])
    OBVIOUS
  <2>1. CASE i = 0
    <3>1. ASSUME NEW m \in Ins, 1 <= m, m < w[1] PROVE m \notin S
      <4> SUFFICES ASSUME m \in S PROVE FALSE
        OBVIOUS
      <4>1. PICK h \in 1..Len(w) : w[h] = m
        BY <1>2
      <4>2. 1 \in 1..Len(w) /\ w[1] \in Nat /\ m \in Nat
        BY <1>1, <1>2
      <4> QED BY <1>2, <3>1, <4>1, <4>2
    <3>2. 1 \in Ins /\ w[1] \in Ins /\ 1 <= w[1]
      BY <1>2, <2>1, InsFacts DEF Ins
    <3>3. P(1) = P(w[1])
      BY <1>5, <3>1, <3>2
    <3> QED BY <1>3, <2>1, <3>3
  <2>2. CASE i # 0
    <3>1. i \in 1..Len(w) /\ i < i + 1 /\ i \in Ins /\ i + 1 \in Ins
      BY <1>2, <2>2
    <3>2. w[i] < w[i + 1] /\ w[i] \in Ins /\ w[i + 1] \in Ins /\ w[i] \in S
      BY <1>2, <3>1
    <3>3. w[i] + 1 \in Ins /\ w[i] + 1 <= w[i + 1]
      BY <3>2, SizeAssumption DEF Ins
    <3>4. ASSUME NEW m \in Ins, w[i] + 1 <= m, m < w[i + 1] PROVE m \notin S
      <4> SUFFICES ASSUME m \in S PROVE FALSE
        OBVIOUS
      <4>1. PICK h \in 1..Len(w) : w[h] = m
        BY <1>2
      <4>2. w[i] < w[h] /\ w[h] < w[i + 1] /\ w[h] \in Nat /\ w[i] \in Nat /\ w[i + 1] \in Nat
        BY <1>2, <3>1, <3>4, <4>1
      <4>3. ~(h <= i)
        BY <1>2, <3>1, <4>2
      <4>4. ~(i + 1 <= h)
        BY <1>2, <3>1, <4>2
      <4> QED BY <4>3, <4>4
    <3>5. P(w[i + 1]) = P(w[i] + 1)
      BY <1>5, <3>2, <3>3, <3>4
    <3>6. P(w[i] + 1) = P(w[i]) + OpSize[code[w[i]].op]
      BY <1>4, <3>2, <3>3
    <3>7. Q(i + 1) = Q(i) + OpSize[written[i].op]
      BY <1>2, <1>4, <3>1
    <3>8. written[i] = code[w[i]] /\ Q(i) = P(w[i])
      BY <1>2, <1>7, <3>1
    <3> QED BY <3>5, <3>6, <3>7, <3>8
  <2> QED BY <2>1, <2>2
<1>8. k \in Nat /\ k \in 1..Len(w)
  BY <1>2
<1>9. k \in T
  <2> HIDE DEF T
  <2> QED BY <1>6, <1>7, <1>8, Induction
<1>10. Q(k) = P(w[k])
  BY <1>8, <1>9
<1> QED BY <1>10 DEF P, Q

\* What was written stays what the list, as it is, would be written as.
OutputKept == stage = "written" => out = Output

\* It depends on the list and on the instructions before and after.
LEMMA OutputSame ==
  ASSUME list' = list, prog' = prog, orig' = orig
  PROVE  Output' = Output
  BY DEF Output, Walk, NewAddr, Position

\* WriteBack writes it.
LEMMA OutputWritten == WriteBack => OutputKept'
<1> SUFFICES ASSUME WriteBack PROVE OutputKept'
  OBVIOUS
<1>1. out' = Output /\ list' = list /\ prog' = prog /\ orig' = orig
  BY DEF WriteBack, listVars
<1>2. Output' = Output
  BY <1>1, OutputSame
<1> QED BY <1>1, <1>2 DEF OutputKept

\* A step that moves nothing keeps it.
LEMMA OutputUntouched ==
  OutputKept /\ UNCHANGED <<list, prog, orig, stage, out>> => OutputKept'
  BY OutputSame DEF OutputKept

\* The addresses computed for the instructions left are their positions in
\* the code written, and the list sends jumps and try blocks to the right ones.
LEMMA OutputOffsets ==
  ASSUME ListInv, PointsAhead, OutputKept
  PROVE  OffsetsWritten
<1> SUFFICES ASSUME stage = "written" PROVE OffsetsWritten
  BY DEF OffsetsWritten
<1> DEFINE left == Walk(list)
           addr == NewAddr(left)
           At(t, a) == \E k \in DOMAIN left :
                         /\ Survivor(kept, t, left[k])
                         /\ a = Position(out.code, DOMAIN left, k)
           target(j, i) == ResolveOffset(j, args[j][i])
<1>1. /\ ListOK /\ JumpsFollow /\ ErrorsFollow /\ kept \subseteq Ins
  BY DEF ListInv, ListOK
<1>2. Enumerates(left, kept)
  BY ListIsChain, WalkEnumerates
<1>3. InsInOrder(left, kept)
  BY <1>1, <1>2, EnumerationIns
<1>4. /\ out.code = [k \in DOMAIN left |-> prog[left[k]]]
      /\ \A k \in DOMAIN left : \A i \in DOMAIN list.jumpsTo[left[k]] :
           out.jumps[k][i] = addr[list.jumpsTo[left[k]][i]]
      /\ \A e \in Errs : \A f \in ErrorField : out.exc[e][f] = addr[list.exc[e][f]]
  BY DEF OutputKept, Output
<1>5. \A x \in kept : addr[x] = Position(prog, kept, x)
  <2>1. {left[k] : k \in DOMAIN left} = kept
    BY <1>3 DEF InsInOrder
  <2> HIDE DEF left
  <2> QED BY <1>1, <2>1 DEF NewAddr
<1> HIDE DEF left, addr
<1>6. ASSUME NEW t, NEW x, Survivor(kept, t, x) PROVE At(t, addr[x])
  <2>1. x \in kept
    BY <1>6 DEF Survivor
  <2>2. PICK k \in DOMAIN left : left[k] = x
    BY <1>3, <2>1 DEF InsInOrder
  <2>3. Position(out.code, DOMAIN left, k) = Position(prog, kept, left[k])
    BY <1>1, <1>2, <1>4, PositionKept
  <2> QED BY <1>5, <1>6, <2>1, <2>2, <2>3
<1> HIDE DEF At
<1>7. ASSUME NEW k \in DOMAIN left, NEW i \in DOMAIN args[left[k]],
             ~\E h \in 1..(i-1) : Together(kept, target(left[k], h), target(left[k], i))
      PROVE  At(target(left[k], i), out.jumps[k][i])
  <2>1. left[k] \in Ins
    BY <1>3 DEF InsInOrder
  <2>2. /\ DOMAIN list.jumpsTo[left[k]] = DOMAIN args[left[k]]
        /\ Survivor(kept, target(left[k], i), list.jumpsTo[left[k]][i])
    BY <1>1, <1>7, <2>1 DEF JumpsFollow
  <2> QED BY <1>4, <1>6, <2>2
<1>8. ASSUME NEW e \in Errs \ Dangling, NEW f \in ErrorField
      PROVE  At(table[e][f], out.exc[e][f])
  <2>1. Survivor(kept, table[e][f], list.exc[e][f])
    BY <1>1 DEF ErrorsFollow
  <2>2. out.exc[e][f] = addr[list.exc[e][f]]
    BY <1>4
  <2> QED BY <1>6, <2>1, <2>2
<1> QED BY <1>7, <1>8 DEF OffsetsWritten, At, left
=============================================================================
