------------------------------- MODULE OpInfo -------------------------------
(***************************************************************************)
(* The editable instruction list of one method: the Parser's doubly linked *)
(* chain of Instructions, the OpInfo kept beside each of them in the       *)
(* OpRegister, and the ErrorInfo kept for each entry of the exception      *)
(* table (include/detfm/opinfo.hpp, src/detfm/opinfo.cpp).                 *)
(*                                                                         *)
(* An instruction, its OpInfo and its original address are one number, its *)
(* position in the method as parsed.  The list is a value, so that a       *)
(* client may remove several instructions in one of its steps; the state   *)
(* machines that edit a list are Rewrite and Unscramble.                   *)
(***************************************************************************)
EXTENDS Integers, Sequences

CONSTANTS N,   \* number of instructions the parser finds in the method
          E    \* number of entries in the method's exception table

ASSUME SizeAssumption == N \in Nat \ {0} /\ E \in Nat

Ins  == 1..N
Errs == 1..E
Null == 0      \* nullptr; also an offset at which no instruction starts

ErrorField == {"from", "to", "target"}

(***************************************************************************)
(* OpInfo::errors holds raw pointers to elements of the vector the         *)
(* ErrorInfos are emplaced into, one after the other and without reserve.  *)
(* The vector doubles its capacity, so element e is moved away from under  *)
(* those pointers when some power of two c with e <= c is outgrown.        *)
(***************************************************************************)
Dangling == {e \in Errs : \E k \in 0..E : e <= 2^k /\ 2^k < E}

-----------------------------------------------------------------------------
(***************************************************************************)
(* Populating the register and resolving the jumps.                        *)
(***************************************************************************)
ResolveOffset(j, offset) == IF offset \in Ins THEN offset ELSE j + 1

Resolve(j, offsets) ==
  [i \in DOMAIN offsets |-> ResolveOffset(j, offsets[i])]

\* Mutant: only the first target of a jump is told of it.
JumpsIntoFirst(jumpsTo, o) == {j \in Ins : jumpsTo[j] # <<>> /\ jumpsTo[j][1] = o}

\* jumpsTo and jumpsHere are filled together, one target at a time.
JumpsInto(jumpsTo, o) == {j \in Ins : \E i \in DOMAIN jumpsTo[j] : jumpsTo[j][i] = o}

Register(args, table) ==
  LET jumpsTo == [j \in Ins |-> Resolve(j, args[j])]
  IN [ begin     |-> 1,
       next      |-> [o \in Ins |-> IF o = N THEN Null ELSE o + 1],
       prev      |-> [o \in Ins |-> o - 1],
       opnext    |-> [o \in Ins |-> IF o = N THEN Null ELSE o + 1],
       jumpsTo   |-> jumpsTo,
       jumpsHere |-> [o \in Ins |-> JumpsInto(jumpsTo, o)],
       exc       |-> table,
       errors    |-> [o \in Ins |->
                       {x \in ErrorField \X Errs : table[x[2]][x[1]] = o}] ]

-----------------------------------------------------------------------------
(***************************************************************************)
(* OpInfo::removed and OpInfo::remove.  remove leaves ins->next in place,  *)
(* so that an iterator standing on the instruction can still move on, and  *)
(* removed() is therefore true of the last instruction only.               *)
(***************************************************************************)
\* Mutant: no guard, the last instruction can go too.
RemovedNever(L, o) == FALSE

Removed(L, o) == L.next[o] = Null

\* The inner loop over jumpsTo: it stops at the first target that matches.
ReplaceFirst(s, o, n) ==
  [i \in DOMAIN s |->
     IF s[i] = o /\ \A k \in DOMAIN s : s[k] = o => i <= k THEN n ELSE s[i]]

\* Mutant: the case for "from" falls through to the next ones.
ReattachFallsThrough(L, o, n) ==
  [e \in Errs |-> [f \in ErrorField |->
     IF <<"from", e>> \in L.errors[o] \/ <<f, e>> \in L.errors[o]
     THEN n ELSE L.exc[e][f]]]

\* ErrorInfo::replace through the pointers of o; a write through a dangling
\* pointer does not reach the ErrorInfo.
Reattach(L, o, n) ==
  [e \in Errs |-> [f \in ErrorField |->
     IF <<f, e>> \in L.errors[o] /\ e \notin Dangling THEN n ELSE L.exc[e][f]]]

\* Mutant: cleared without being merged into the next instruction's.
HandOverLost(s, o, n) == [s EXCEPT ![o] = {}]

\* next->errors.merge(errors), next->jumpsHere.merge(jumpsHere), and clear.
HandOver(s, o, n) ==
  [x \in Ins |-> IF x = o THEN {} ELSE IF x = n THEN s[n] \cup s[o] ELSE s[x]]

\* The pointer of x is set.
Bypass(ptr, x, new) == [y \in Ins |-> IF y = x THEN new ELSE ptr[y]]

\* Mutant: parser.begin is not moved.
BeginStays(L, o) == L.begin

BeginWithout(L, o) == IF o = L.begin THEN L.next[o] ELSE L.begin

\* Mutant: reg[prev->addr]->next is not updated.
OpNextStale(L, o) == Bypass(L.opnext, o, Null)

OpNextWithout(L, o) == Bypass(Bypass(L.opnext, L.prev[o], L.opnext[o]), o, Null)

Unlink(L, o) ==
  LET n == L.opnext[o]
  IN [ begin     |-> BeginWithout(L, o),
       next      |-> Bypass(L.next, L.prev[o], L.next[o]),
       prev      |-> Bypass(Bypass(L.prev, L.next[o], L.prev[o]), o, Null),
       opnext    |-> OpNextWithout(L, o),
       jumpsTo   |-> [j \in Ins |-> IF j \in L.jumpsHere[o]
                                    THEN ReplaceFirst(L.jumpsTo[j], o, n)
                                    ELSE L.jumpsTo[j]],
       jumpsHere |-> HandOver(L.jumpsHere, o, n),
       exc       |-> Reattach(L, o, n),
       errors    |-> HandOver(L.errors, o, n) ]

Remove(L, o) == IF Removed(L, o) THEN L ELSE Unlink(L, o)

-----------------------------------------------------------------------------
(***************************************************************************)
(* Where a position of the original method has gone once only the          *)
(* instructions of S are left: x is the first of them at or after t.       *)
(***************************************************************************)
Survivor(S, t, x) == x \in S /\ t <= x /\ \A m \in S : t <= m => x <= m

\* No instruction of S separates the positions t and u.
Together(S, t, u) == \A m \in S : t <= m <=> u <= m
=============================================================================
