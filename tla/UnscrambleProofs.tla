-------------------------- MODULE UnscrambleProofs --------------------------
(***************************************************************************)
(* unscramble() edits the list as Rewrite allows, whatever the method:     *)
(* what is proved of the list in RewriteProofs therefore holds of it, and  *)
(* no edit is lost.  Which edits it makes is decided by the method as      *)
(* parsed (FatesDecided), and a method that is made as the pass takes for  *)
(* granted means the same when it is written (MeaningIsKept): the code     *)
(* written runs on a stack that is the stack of the code read without the  *)
(* values that Shape marks, and the two agree after every instruction.     *)
(***************************************************************************)
EXTENDS UnscrambleMeaning, RewriteProofs, SequenceTheorems

-----------------------------------------------------------------------------
(***************************************************************************)
(* The invariant.                                                          *)
(***************************************************************************)
\* remove() leaves ins->next in place and would unlink an instruction a
\* second time: the cursor has to stand on one that is still in the list.
CursorLive == ins \in kept \cup {Null}

\* An announced call was announced by an edit.
NothingUnmarked ==
  /\ pending \in Nat /\ modified \in BOOLEAN
  /\ pending > 0 => modified
  /\ ~modified => kept = Ins /\ prog = orig
  /\ stage = "left" => ~modified

\* The pass makes no getlex, so that the last instruction stays none.
LastIsNoLex == DOMAIN prog = Ins /\ prog[N].op # "getlex"

Inv == ListInv /\ CursorLive /\ NothingUnmarked /\ LastIsNoLex

\* The getlex of a static class has an instruction after it.
LEMMA StaticIsNotLast == Inv /\ IsStatic(ins) => ins # N
  BY DEF Inv, LastIsNoLex, IsStatic, Op

\* What takes the place of a member of a static class is no getlex.
LEMMA LoadIsNoLex ==
  ASSUME Inv, ResolveSlot \/ ResolveMethod
  PROVE  LastIsNoLex'
<1> DEFINE next == list.next[ins]
<1>1. /\ Op(next) # "getlex"
      /\ \E i : i.op # "getlex" /\ prog' = [prog EXCEPT ![next] = i]
  <2>1. CASE ResolveSlot
    <3>1. Op(next) = "getproperty"
      BY <2>1 DEF ResolveSlot, IsSlot
    <3>2. ASSUME NEW slot PROVE SlotLoad(slot, prog[next]).op # "getlex"
      <4>1. prog[next].op # "getlex"
        BY <3>1 DEF Op
      <4> HIDE DEF next
      <4> QED BY <4>1 DEF SlotLoad
    <3> QED BY <2>1, <3>1, <3>2 DEF ResolveSlot
  <2>2. CASE ResolveMethod
    <3>1. Op(next) = "callproperty"
      BY <2>2 DEF ResolveMethod, IsMethod
    <3> DEFINE i == IF Consts[Arg(ins)][Arg(next)].double
                    THEN [op |-> "pushdouble", arg |-> PoolIndex(doubles), argc |-> 0]
                    ELSE [op |-> "pushint", arg |-> PoolIndex(ints), argc |-> 0]
    <3>2. prog' = [prog EXCEPT ![next] = i]
      BY <2>2 DEF ResolveMethod
    <3>3. i.op # "getlex"
      OBVIOUS
    <3> QED BY <3>1, <3>2, <3>3
  <2> QED BY <2>1, <2>2
<1> HIDE DEF next
<1>2. PICK i : i.op # "getlex" /\ prog' = [prog EXCEPT ![next] = i]
  BY <1>1
<1>3. DOMAIN prog = Ins /\ prog[N].op # "getlex" /\ N \in Ins
  BY InsFacts DEF Inv, LastIsNoLex
<1>4. DOMAIN prog' = Ins
  BY <1>2, <1>3
<1>5. prog'[N] = IF N = next THEN i ELSE prog[N]
  BY <1>2, <1>3
<1> QED BY <1>2, <1>3, <1>4, <1>5 DEF LastIsNoLex

LEMMA InitInv == Init => Inv
<1> SUFFICES ASSUME Init PROVE Inv
  OBVIOUS
<1>1. ListInv
  BY ListInitInv DEF Init, PassInit
<1>2. kept = Ins /\ list.begin \in kept
  BY <1>1 DEF Init, PassInit, ListInit, ListInv, Chained, Survivor
<1>3. LastIsNoLex
  BY MethodsAssumption DEF Init, PassInit, LastIsNoLex, Ins
<1>4. NothingUnmarked
  <2>1. pending \in Nat /\ ~(pending > 0) /\ stage # "left"
    BY DEF Init, PassInit
  <2>2. modified \in BOOLEAN /\ kept = Ins /\ prog = orig
    BY <1>2, Zenon DEF Init, PassInit
  <2> QED BY <2>1, <2>2, Zenon DEF NothingUnmarked
<1>5. CursorLive
  BY <1>2 DEF Init, PassInit, CursorLive
<1> QED BY <1>1, <1>3, <1>4, <1>5 DEF Inv

\* The steps that remove the instruction under the cursor and go on to the
\* next one, or to the one after it.
LEMMA RemovalStep ==
  ASSUME Inv, AtIns, RemoveIns(ins), modified',
         pending' \in Nat, UNCHANGED stage,
         LastIsNoLex',
         \/ ins' = list.next[ins]
         \/ ins # N /\ ins' = list.next[list.next[ins]]
  PROVE  Inv'
<1>1. ins \in kept /\ ListInv /\ stage = "edit"
  BY DEF Inv, AtIns, CursorLive
<1>2. ListInv' /\ kept' = IF ins = N THEN kept ELSE kept \ {ins}
  BY <1>1, Removal
<1>3. CursorLive'
  <2>1. CASE ins' = list.next[ins]
    BY <1>1, <1>2, <2>1, Forward DEF CursorLive
  <2>2. CASE ins # N /\ ins' = list.next[list.next[ins]]
    <3>1. /\ list.next[ins] \in kept /\ list.next[ins] \in Ins
          /\ ins < list.next[ins] /\ ins \in Ins
      BY <1>1, <2>2, NextFacts DEF ListInv, ListOK
    <3>2. CASE list.next[ins] = N
      BY <1>1, <2>2, <3>1, <3>2, Forward DEF CursorLive
    <3>3. CASE list.next[ins] # N
      <4>1. /\ list.next[list.next[ins]] \in kept
            /\ list.next[ins] < list.next[list.next[ins]]
            /\ list.next[list.next[ins]] \in Ins
        BY <1>1, <3>1, <3>3, NextFacts DEF ListInv
      <4>2. ins < list.next[list.next[ins]]
        BY <3>1, <4>1, InsFacts
      <4>3. ins # list.next[list.next[ins]]
        BY <3>1, <4>1, <4>2, InsFacts
      <4> QED BY <1>2, <2>2, <4>1, <4>3 DEF CursorLive
    <3> QED BY <3>2, <3>3
  <2> QED BY <2>1, <2>2
<1>4. NothingUnmarked'
  BY <1>1 DEF NothingUnmarked
<1> QED BY <1>2, <1>3, <1>4 DEF Inv

\* One step of the cursor keeps the invariant, whichever branch it takes.
LEMMA StepInv == Inv /\ [Next]_vars => Inv'
<1> SUFFICES ASSUME Inv, [Next]_vars PROVE Inv'
  OBVIOUS
<1>1. CASE DropWrap
  <2>1. pending' \in Nat
    BY <1>1 DEF DropWrap, Inv, NothingUnmarked
  <2> QED BY <1>1, <2>1, RemovalStep DEF DropWrap, Inv, LastIsNoLex
<1>2. CASE DropCall
  <2>1. pending' \in Nat /\ modified'
    BY <1>2 DEF DropCall, Announced, Inv, NothingUnmarked
  <2> QED BY <1>2, <2>1, RemovalStep DEF DropCall, Inv, LastIsNoLex
<1>3. CASE ResolveSlot
  <2>1. ins # N
    BY <1>3, StaticIsNotLast DEF ResolveSlot
  <2> QED BY <1>3, <2>1, RemovalStep, LoadIsNoLex DEF ResolveSlot, Inv, NothingUnmarked
<1>4. CASE ResolveMethod
  <2>1. ins # N
    BY <1>4, StaticIsNotLast DEF ResolveMethod
  <2> QED BY <1>4, <2>1, RemovalStep, LoadIsNoLex DEF ResolveMethod, Inv, NothingUnmarked
<1>5. CASE DropWrapClass
  BY <1>5, RemovalStep DEF DropWrapClass, Inv, NothingUnmarked, LastIsNoLex
<1>6. CASE Skip
  <2>1. ins \in kept
    BY <1>6 DEF Skip, AtIns, Inv, CursorLive
  <2>2. ListInv' /\ ins' \in kept \cup {Null}
    BY <1>6, <2>1, Forward, Untouched DEF Skip, Inv
  <2> QED BY <1>6, <2>2 DEF Skip, Inv, CursorLive, NothingUnmarked, LastIsNoLex, listVars
<1>7. CASE Write
  BY <1>7, Untouched DEF Write, WriteBack, Inv, CursorLive, NothingUnmarked, LastIsNoLex, listVars
<1>8. CASE Leave
  BY <1>8, Untouched DEF Leave, LeaveAlone, Inv, CursorLive, NothingUnmarked, LastIsNoLex, listVars
<1>9. CASE UNCHANGED vars
  BY <1>9, Untouched DEF vars, passVars, listVars, Inv, CursorLive, NothingUnmarked, LastIsNoLex
<1> QED BY <1>1, <1>2, <1>3, <1>4, <1>5, <1>6, <1>7, <1>8, <1>9 DEF Next

\* Every step removes an instruction that is in the list, or none.
LEMMA StepList == Inv /\ [Next]_vars => [ListNext]_listVars
<1> SUFFICES ASSUME Inv, [Next]_vars PROVE [ListNext]_listVars
  OBVIOUS
<1>1. ASSUME AtIns, RemoveIns(ins) PROVE ListNext
  BY <1>1 DEF ListNext, AtIns, Inv, CursorLive
<1>2. ASSUME DropWrap \/ DropCall \/ ResolveSlot \/ ResolveMethod \/ DropWrapClass
      PROVE  ListNext
  BY <1>1, <1>2 DEF DropWrap, DropCall, ResolveSlot, ResolveMethod, DropWrapClass
<1>3. ASSUME Skip \/ Write \/ Leave \/ UNCHANGED vars
      PROVE  UNCHANGED listVars
  BY <1>3 DEF Skip, Write, WriteBack, Leave, LeaveAlone, vars
<1> QED BY <1>2, <1>3 DEF Next

\* The cursor is live and every edit is marked, all along the pass.
THEOREM Invariance == Spec => []Inv
  BY InitInv, StepInv, PTL DEF Spec

\* unscramble() implements the removal of instructions that are in the list.
THEOREM Implementation == Spec => ListSpec
<1>1. Init => ListInit
  BY DEF Init, PassInit
<1> QED BY <1>1, Invariance, StepList, PTL DEF Spec, ListSpec

\* Whatever it does to a method, the method's jumps follow their targets.
THEOREM JumpsSurvive == Spec => []JumpsFollow
  BY Implementation, JumpsFollowTargets, PTL

\* And so do its try blocks and handlers.
THEOREM ErrorsSurvive == Spec => []ErrorsFollow
  BY Implementation, ErrorsFollowCode, PTL

\* What it does to a method's instructions is a sequence of removals.
THEOREM CodeShrinks == Spec => Implements
  BY Implementation, Refinement, PTL

\* Nothing moves once the method is written, and only Write writes it.
LEMMA OutputStep == OutputKept /\ [Next]_vars => OutputKept'
<1> SUFFICES ASSUME OutputKept, [Next]_vars PROVE OutputKept'
  OBVIOUS
<1>1. CASE DropWrap \/ DropCall \/ ResolveSlot \/ ResolveMethod \/ DropWrapClass \/ Skip
  <2>1. stage = "edit" /\ stage' = stage
    BY <1>1 DEF DropWrap, DropCall, ResolveSlot, ResolveMethod, DropWrapClass, Skip, AtIns
  <2> QED BY <2>1 DEF OutputKept
<1>2. CASE Write
  BY <1>2, OutputWritten DEF Write
<1>3. CASE Leave
  BY <1>3 DEF Leave, LeaveAlone, OutputKept
<1>4. CASE UNCHANGED vars
  BY <1>4, OutputUntouched DEF vars, passVars, listVars
<1> QED BY <1>1, <1>2, <1>3, <1>4 DEF Next

\* Every offset that unscramble() writes leads to the first instruction
\* written at or after the original target.
THEOREM OffsetsRight == Spec => []OffsetsWritten
<1>1. Init => OutputKept
  BY DEF Init, PassInit, OutputKept
<1>2. Spec => []OutputKept
  BY <1>1, OutputStep, PTL DEF Spec
<1> QED BY <1>2, Implementation, ListInvariance, ChainAhead, OutputOffsets, PTL

\* A method that is not written again was not edited.
THEOREM NoEditLost == Spec => []EditsWritten
<1>1. Inv => EditsWritten
  BY DEF Inv, NothingUnmarked, EditsWritten
<1> QED BY <1>1, Invariance, PTL

\* The cursor stands on an instruction of the method or is at its end, and
\* remove_next_call is never below zero.
THEOREM Typing == Spec => []TypeOK
<1> DEFINE Staged == stage \in {"edit", "written", "left"}
<1>1. Init => Staged
  BY DEF Init, PassInit
<1>2. Staged /\ [Next]_vars => Staged'
  BY DEF Next, DropWrap, DropCall, ResolveSlot, ResolveMethod, DropWrapClass, Skip,
         Write, WriteBack, Leave, LeaveAlone, vars, passVars
<1>3. Spec => []Staged
  BY <1>1, <1>2, PTL DEF Spec
<1>4. Inv /\ Staged => TypeOK
  BY DEF Inv, TypeOK, ListInv, ListOK, CursorLive, NothingUnmarked
<1> QED BY <1>3, <1>4, Invariance, PTL

-----------------------------------------------------------------------------
(***************************************************************************)
(* Finite sequences: the stacks of the machine and the pools of the file.  *)
(***************************************************************************)
\* A finite sequence, whatever it holds.
IsList(s) == Len(s) \in Nat /\ s = [k \in 1..Len(s) |-> s[k]]

\* A function on 1..n is a list of length n.
LEMMA ListMade ==
  ASSUME NEW n \in Nat, NEW s, DOMAIN s = 1..n, s = [k \in 1..n |-> s[k]]
  PROVE  IsList(s) /\ Len(s) = n
<1> DEFINE V == {s[k] : k \in 1..n}
<1>1. s \in Seq(V)
  OBVIOUS
<1>2. Len(s) \in Nat /\ DOMAIN s = 1..Len(s)
  BY <1>1
<1>3. Len(s) = n
  BY <1>2
<1> QED BY <1>3 DEF IsList

\* A list of things of V is one of Seq(V), which the facts about sequences ask for.
LEMMA ListTyped ==
  ASSUME NEW s, IsList(s), NEW V, \A k \in 1..Len(s) : s[k] \in V
  PROVE  s \in Seq(V) /\ DOMAIN s = 1..Len(s)
<1> DEFINE n == Len(s)
<1>1. s = [k \in 1..n |-> s[k]] /\ n \in Nat
  BY DEF IsList
<1> HIDE DEF n
<1>2. s \in [1..n -> V]
  BY <1>1 DEF n
<1> QED BY <1>1, <1>2

\* A part of a list.
LEMMA ListPart ==
  ASSUME NEW s, IsList(s), NEW a \in Nat \ {0}, NEW b \in Nat, a <= b + 1, b <= Len(s)
  PROVE  LET p == SubSeq(s, a, b)
         IN /\ IsList(p) /\ Len(p) = b - a + 1
            /\ \A k \in 1..(b - a + 1) : p[k] = s[k + a - 1]
<1> DEFINE V == {s[k] : k \in 1..Len(s)}
<1>1. s \in Seq(V) /\ Len(s) \in Nat
  BY ListTyped DEF IsList
<1> HIDE DEF V
<1> DEFINE p == SubSeq(s, a, b)
<1>2. p \in Seq(V) /\ Len(p) = b - a + 1 /\ \A k \in 1..(b - a + 1) : p[k] = s[k + a - 1]
  BY <1>1
<1>3. p = [k \in 1..Len(p) |-> p[k]]
  BY <1>2
<1> QED BY <1>2, <1>3 DEF IsList

\* Two lists, one behind the other.
LEMMA ListConcat ==
  ASSUME NEW s, IsList(s), NEW t, IsList(t)
  PROVE  /\ IsList(s \o t) /\ Len(s \o t) = Len(s) + Len(t)
         /\ \A k \in 1..Len(s) : (s \o t)[k] = s[k]
         /\ \A k \in 1..Len(t) : (s \o t)[Len(s) + k] = t[k]
<1> DEFINE V == {s[k] : k \in 1..Len(s)} \cup {t[k] : k \in 1..Len(t)}
<1>1. s \in Seq(V) /\ t \in Seq(V) /\ Len(s) \in Nat /\ Len(t) \in Nat
  BY ListTyped DEF IsList
<1> HIDE DEF V
<1> DEFINE p == s \o t
<1>2. p \in Seq(V) /\ Len(p) = Len(s) + Len(t)
  BY <1>1
<1>3. p = [k \in 1..Len(p) |-> p[k]]
  <2> HIDE DEF p
  <2> QED BY <1>2
<1>4. \A k \in 1..Len(s) : (s \o t)[k] = s[k]
  BY <1>1
<1>5. \A k \in 1..Len(t) : (s \o t)[Len(s) + k] = t[k]
  BY <1>1
<1> QED BY <1>1, <1>2, <1>3, <1>4, <1>5 DEF IsList

\* Lists are equal when they hold the same.
LEMMA ListEqual ==
  ASSUME NEW s, IsList(s), NEW t, IsList(t), Len(s) = Len(t),
         \A k \in 1..Len(s) : s[k] = t[k]
  PROVE  s = t
  BY DEF IsList

\* The lists of no entry and of one.
LEMMA ListSmall ==
  /\ IsList(<<>>) /\ Len(<<>>) = 0
  /\ \A x : IsList(<<x>>) /\ Len(<<x>>) = 1 /\ <<x>>[1] = x
<1>1. ASSUME NEW x PROVE IsList(<<x>>) /\ Len(<<x>>) = 1 /\ <<x>>[1] = x
  <2>1. <<x>> \in Seq({x}) /\ Len(<<x>>) = 1 /\ <<x>>[1] = x
    OBVIOUS
  <2>2. <<x>> = [k \in 1..1 |-> <<x>>[k]]
    BY <2>1
  <2> QED BY <2>1, <2>2 DEF IsList
<1>2. IsList(<<>>) /\ Len(<<>>) = 0
  BY DEF IsList
<1> QED BY <1>1, <1>2

\* What is pushed is on top, and the rest where it was.
LEMMA ListPush ==
  ASSUME NEW s, IsList(s), NEW v
  PROVE  /\ IsList(s \o <<v>>) /\ Len(s \o <<v>>) = Len(s) + 1
         /\ (s \o <<v>>)[Len(s) + 1] = v
         /\ \A k \in 1..Len(s) : (s \o <<v>>)[k] = s[k]
<1>1. IsList(<<v>>) /\ Len(<<v>>) = 1 /\ <<v>>[1] = v
  BY ListSmall
<1>2. 1 \in 1..Len(<<v>>)
  BY <1>1
<1>3. /\ IsList(s \o <<v>>) /\ Len(s \o <<v>>) = Len(s) + Len(<<v>>)
      /\ \A k \in 1..Len(s) : (s \o <<v>>)[k] = s[k]
      /\ \A k \in 1..Len(<<v>>) : (s \o <<v>>)[Len(s) + k] = <<v>>[k]
  BY <1>1, ListConcat
<1>4. (s \o <<v>>)[Len(s) + 1] = <<v>>[1]
  BY <1>2, <1>3
<1> QED BY <1>1, <1>3, <1>4

\* The whole of a list, and nothing behind it.
LEMMA ListWhole ==
  ASSUME NEW s, IsList(s)
  PROVE  /\ SubSeq(s, 1, Len(s)) = s
         /\ s \o <<>> = s
<1>1. s \in Seq({s[k] : k \in 1..Len(s)})
  BY ListTyped
<1>2. SubSeq(s, 1, Len(s)) = s
  <2> DEFINE p == SubSeq(s, 1, Len(s))
  <2>0. Len(s) \in Nat
    BY DEF IsList
  <2>1. IsList(p) /\ Len(p) = Len(s) - 1 + 1 /\ \A k \in 1..(Len(s) - 1 + 1) : p[k] = s[k + 1 - 1]
    BY <2>0, ListPart
  <2> HIDE DEF p
  <2>2. Len(p) = Len(s) /\ \A k \in 1..Len(p) : p[k] = s[k]
    BY <2>0, <2>1
  <2> QED BY <2>1, <2>2, ListEqual DEF p
<1>3. s \o <<>> = s
  <2>1. /\ IsList(s \o <<>>) /\ Len(s \o <<>>) = Len(s) + Len(<<>>)
        /\ \A k \in 1..Len(s) : (s \o <<>>)[k] = s[k]
    BY ListConcat, ListSmall
  <2> DEFINE p == s \o <<>>
  <2>2. IsList(p) /\ Len(p) = Len(s) /\ \A k \in 1..Len(p) : p[k] = s[k]
    BY <2>1, ListSmall DEF IsList
  <2> HIDE DEF p
  <2> QED BY <2>2, ListEqual DEF p
<1> QED BY <1>2, <1>3

-----------------------------------------------------------------------------
(***************************************************************************)
(* The stacks of the code read and of the code written.  Both hold the     *)
(* values that the code written still computes, in the same order; the     *)
(* code read has the marked ones too.                                      *)
(***************************************************************************)
\* The stack m of the code read and r of the code written: the marks k say which
\* entries of m are in r, c[j] how many of the first j entries are.
Aligned(c, m, r, k) ==
  /\ IsList(m) /\ IsList(r) /\ IsList(k) /\ Len(m) = Len(k)
  /\ c \in [0..Len(k) -> Nat] /\ c[0] = 0 /\ Len(r) = c[Len(k)]
  /\ \A j \in 1..Len(k) : c[j] = IF k[j] = "kept" THEN c[j - 1] + 1 ELSE c[j - 1]
  /\ \A i, j \in 0..Len(k) : i <= j => c[i] <= c[j]
  /\ \A j \in 1..Len(k) : k[j] = "kept" => r[c[j]] = m[j]
  /\ \A j \in 1..Len(k) : /\ k[j] = "class" => m[j] = <<"class", WrapName, <<>>>>
                          /\ k[j] = "wrapper" => m[j][1] = "wrapper"

\* Some c fits.
Stacks(m, r, k) == \E c : Aligned(c, m, r, k)

\* The stacks a machine starts with.
LEMMA StacksEmpty == Stacks(<<>>, <<>>, <<>>)
<1>1. Aligned([j \in 0..0 |-> 0], <<>>, <<>>, <<>>)
  BY ListSmall DEF Aligned
<1> QED BY <1>1 DEF Stacks

\* A value that both push, or a marked one that only the code read pushes.
LEMMA StacksPush ==
  ASSUME NEW m, NEW r, NEW k, Stacks(m, r, k), NEW x, NEW v,
         x = "class" => v = <<"class", WrapName, <<>>>>,
         x = "wrapper" => v[1] = "wrapper"
  PROVE  Stacks(m \o <<v>>, IF x = "kept" THEN r \o <<v>> ELSE r, k \o <<x>>)
<1> DEFINE n == Len(k)
           m1 == m \o <<v>>
           k1 == k \o <<x>>
           r1 == IF x = "kept" THEN r \o <<v>> ELSE r
<1>1. PICK c : Aligned(c, m, r, k)
  BY DEF Stacks
<1> DEFINE top == IF x = "kept" THEN c[n] + 1 ELSE c[n]
           c1 == [j \in 0..(n + 1) |-> IF j <= n THEN c[j] ELSE top]
<1>2. /\ IsList(m) /\ IsList(r) /\ IsList(k) /\ Len(m) = n /\ n \in Nat
      /\ c \in [0..n -> Nat] /\ c[0] = 0 /\ Len(r) = c[n]
      /\ \A j \in 1..n : c[j] = IF k[j] = "kept" THEN c[j - 1] + 1 ELSE c[j - 1]
      /\ \A i, j \in 0..n : i <= j => c[i] <= c[j]
      /\ \A j \in 1..n : k[j] = "kept" => r[c[j]] = m[j]
      /\ \A j \in 1..n : /\ k[j] = "class" => m[j] = <<"class", WrapName, <<>>>>
                         /\ k[j] = "wrapper" => m[j][1] = "wrapper"
  BY <1>1 DEF Aligned, IsList
<1>3. /\ IsList(m1) /\ Len(m1) = n + 1 /\ m1[n + 1] = v
      /\ \A j \in 1..n : m1[j] = m[j]
  BY <1>2, ListPush
<1>4. /\ IsList(k1) /\ Len(k1) = n + 1 /\ k1[n + 1] = x
      /\ \A j \in 1..n : k1[j] = k[j]
  BY <1>2, ListPush
<1>5. /\ IsList(r1) /\ Len(r1) = top
      /\ x = "kept" => r1[top] = v
      /\ \A j \in 1..c[n] : r1[j] = r[j]
  <2>1. CASE x = "kept"
    BY <1>2, <2>1, ListPush
  <2>2. CASE x # "kept"
    BY <1>2, <2>2
  <2> QED BY <2>1, <2>2
<1>6. n \in 0..n /\ c[n] \in Nat /\ top \in Nat /\ c[n] <= top
  BY <1>2
<1>7. /\ c1 \in [0..(n + 1) -> Nat] /\ c1[0] = 0 /\ c1[n + 1] = top
      /\ \A j \in 0..n : c1[j] = c[j]
  BY <1>2, <1>6
<1> HIDE DEF m1, k1, r1, top, c1, n
<1>8. \A j \in 1..(n + 1) : c1[j] = IF k1[j] = "kept" THEN c1[j - 1] + 1 ELSE c1[j - 1]
  <2> TAKE j \in 1..(n + 1)
  <2>1. CASE j = n + 1
    BY <1>2, <1>4, <1>7, <2>1 DEF top
  <2>2. CASE j # n + 1
    <3>1. j \in 1..n /\ j \in 0..n /\ j - 1 \in 0..n
      BY <1>2, <2>2
    <3> QED BY <1>2, <1>4, <1>7, <3>1
  <2> QED BY <2>1, <2>2
<1>9. \A i, j \in 0..(n + 1) : i <= j => c1[i] <= c1[j]
  <2> TAKE i, j \in 0..(n + 1)
  <2> HAVE i <= j
  <2>1. CASE j # n + 1
    BY <1>2, <1>7, <2>1
  <2>2. CASE j = n + 1
    <3>1. CASE i = n + 1
      BY <1>6, <1>7, <2>2, <3>1
    <3>2. CASE i # n + 1
      <4>1. i \in 0..n /\ n \in 0..n /\ i <= n
        BY <1>2, <3>2
      <4>2. c[i] <= c[n] /\ c[i] \in Nat
        BY <1>2, <4>1
      <4> QED BY <1>6, <1>7, <2>2, <4>1, <4>2
    <3> QED BY <3>1, <3>2
  <2> QED BY <2>1, <2>2
<1>10. \A j \in 1..(n + 1) : k1[j] = "kept" => r1[c1[j]] = m1[j]
  <2> TAKE j \in 1..(n + 1)
  <2> HAVE k1[j] = "kept"
  <2>1. CASE j = n + 1
    BY <1>3, <1>4, <1>5, <1>7, <2>1
  <2>2. CASE j # n + 1
    <3>1. j \in 1..n /\ j \in 0..n /\ n \in 0..n /\ j <= n /\ j - 1 \in 0..n
      BY <1>2, <2>2
    <3>2. k[j] = "kept" /\ c[j] = c[j - 1] + 1 /\ c[j] <= c[n] /\ c[j - 1] \in Nat
      BY <1>2, <1>4, <3>1
    <3>3. c[j] \in 1..c[n]
      BY <1>6, <3>2
    <3>4. r1[c[j]] = r[c[j]] /\ m1[j] = m[j] /\ c1[j] = c[j]
      BY <1>3, <1>5, <1>7, <3>1, <3>3
    <3> QED BY <1>2, <3>1, <3>2, <3>4
  <2> QED BY <2>1, <2>2
<1>11. \A j \in 1..(n + 1) : /\ k1[j] = "class" => m1[j] = <<"class", WrapName, <<>>>>
                             /\ k1[j] = "wrapper" => m1[j][1] = "wrapper"
  <2> TAKE j \in 1..(n + 1)
  <2>1. CASE j = n + 1
    <3>1. k1[j] = x /\ m1[j] = v
      BY <1>3, <1>4, <2>1
    <3> QED BY <3>1, Zenon
  <2>2. CASE j # n + 1
    <3>1. k1[j] = k[j] /\ m1[j] = m[j] /\ j \in 1..n
      BY <1>2, <1>3, <1>4, <2>2
    <3>2. /\ k[j] = "class" => m[j] = <<"class", WrapName, <<>>>>
          /\ k[j] = "wrapper" => m[j][1] = "wrapper"
      BY <1>2, <3>1, Zenon
    <3> QED BY <3>1, <3>2, Zenon
  <2> QED BY <2>1, <2>2
<1>12. Aligned(c1, m1, r1, k1)
  BY <1>2, <1>3, <1>4, <1>5, <1>7, <1>8, <1>9, <1>10, <1>11 DEF Aligned
<1> QED BY <1>12 DEF Stacks, m1, r1, k1

\* Where the t entries on top are kept, they are the t entries on top of both.
LEMMA AlignedTop ==
  ASSUME NEW c, NEW m, NEW r, NEW k, Aligned(c, m, r, k), NEW t \in Nat, t <= Len(k),
         \A j \in (Len(k) - t + 1)..Len(k) : k[j] = "kept"
  PROVE  \A d \in 0..t : c[Len(k) - d] = c[Len(k)] - d
<1> DEFINE n == Len(k)
           S == {d \in Nat : d <= t => c[n - d] = c[n] - d}
<1>1. /\ n \in Nat /\ c \in [0..n -> Nat] /\ t <= n
      /\ \A j \in 1..n : c[j] = IF k[j] = "kept" THEN c[j - 1] + 1 ELSE c[j - 1]
      /\ \A j \in (n - t + 1)..n : k[j] = "kept"
  BY DEF Aligned, IsList
<1> HIDE DEF n
<1>2. 0 \in S
  BY <1>1
<1>3. ASSUME NEW d \in Nat, d \in S PROVE d + 1 \in S
  <2> SUFFICES ASSUME d + 1 <= t PROVE c[n - (d + 1)] = c[n] - (d + 1)
    OBVIOUS
  <2>1. n - d \in 1..n /\ n - d \in (n - t + 1)..n /\ n - (d + 1) \in 0..n /\ n \in 0..n
    BY <1>1
  <2>2. c[n - d] = c[(n - d) - 1] + 1 /\ c[n - d] = c[n] - d
    BY <1>1, <1>3, <2>1
  <2>3. (n - d) - 1 = n - (d + 1) /\ c[n - (d + 1)] \in Nat /\ c[n] \in Nat
    BY <1>1, <2>1
  <2> QED BY <2>2, <2>3
<1>4. Nat \subseteq S
  <2> HIDE DEF S
  <2> QED BY <1>2, <1>3, Induction
<1> QED BY <1>4 DEF n

\* What is below the operands twice.
LEMMA SliceOfSlice ==
  ASSUME NEW s, IsList(s), NEW a \in Nat, a <= Len(s), NEW b \in Nat, b <= a
  PROVE  SubSeq(SubSeq(s, 1, a), 1, b) = SubSeq(s, 1, b)
<1> DEFINE p == SubSeq(s, 1, a)
           q == SubSeq(p, 1, b)
           u == SubSeq(s, 1, b)
<1>1. Len(s) \in Nat /\ 1 \in Nat \ {0}
  BY DEF IsList
<1>2. IsList(p) /\ Len(p) = a - 1 + 1 /\ \A k \in 1..(a - 1 + 1) : p[k] = s[k + 1 - 1]
  BY <1>1, ListPart
<1>3. IsList(u) /\ Len(u) = b - 1 + 1 /\ \A k \in 1..(b - 1 + 1) : u[k] = s[k + 1 - 1]
  BY <1>1, ListPart
<1> HIDE DEF p, u
<1>4. IsList(q) /\ Len(q) = b - 1 + 1 /\ \A k \in 1..(b - 1 + 1) : q[k] = p[k + 1 - 1]
  <2>1. Len(p) = a
    BY <1>2
  <2> QED BY <1>1, <1>2, <2>1, ListPart
<1> HIDE DEF q
<1>5. Len(q) = Len(u) /\ \A k \in 1..Len(q) : q[k] = u[k]
  BY <1>2, <1>3, <1>4
<1>6. q = u
  BY <1>3, <1>4, <1>5, ListEqual
<1> QED BY <1>6 DEF p, q, u

\* What is below the operands, when none of them or all of them are kept.
LEMMA AlignedBelow ==
  ASSUME NEW c, NEW m, NEW r, NEW k, Aligned(c, m, r, k), NEW n \in 0..Len(k)
  PROVE  /\ c[n] \in Nat /\ c[n] <= Len(r)
         /\ Stacks(SubSeq(m, 1, n), SubSeq(r, 1, c[n]), SubSeq(k, 1, n))
<1> DEFINE w == Len(k)
           m1 == SubSeq(m, 1, n)
           r1 == SubSeq(r, 1, c[n])
           k1 == SubSeq(k, 1, n)
           c1 == [j \in 0..n |-> c[j]]
<1>1. /\ IsList(m) /\ IsList(r) /\ IsList(k) /\ Len(m) = w /\ w \in Nat
      /\ c \in [0..w -> Nat] /\ c[0] = 0 /\ Len(r) = c[w]
      /\ \A j \in 1..w : c[j] = IF k[j] = "kept" THEN c[j - 1] + 1 ELSE c[j - 1]
      /\ \A i, j \in 0..w : i <= j => c[i] <= c[j]
      /\ \A j \in 1..w : k[j] = "kept" => r[c[j]] = m[j]
      /\ \A j \in 1..w : /\ k[j] = "class" => m[j] = <<"class", WrapName, <<>>>>
                         /\ k[j] = "wrapper" => m[j][1] = "wrapper"
      /\ n \in Nat /\ n <= w
  BY DEF Aligned, IsList
<1>2. c[n] \in Nat /\ c[n] <= Len(r) /\ Len(r) \in Nat /\ 1 \in Nat \ {0}
  BY <1>1
<1>3. /\ IsList(m1) /\ Len(m1) = n
      /\ \A j \in 1..n : m1[j] = m[j]
  <2>1. IsList(m1) /\ Len(m1) = n - 1 + 1 /\ \A j \in 1..(n - 1 + 1) : m1[j] = m[j + 1 - 1]
    BY <1>1, <1>2, ListPart
  <2> HIDE DEF m1
  <2> QED BY <1>1, <2>1
<1>4. /\ IsList(k1) /\ Len(k1) = n
      /\ \A j \in 1..n : k1[j] = k[j]
  <2>1. IsList(k1) /\ Len(k1) = n - 1 + 1 /\ \A j \in 1..(n - 1 + 1) : k1[j] = k[j + 1 - 1]
    BY <1>1, <1>2, ListPart
  <2> HIDE DEF k1
  <2> QED BY <1>1, <2>1
<1>5. /\ IsList(r1) /\ Len(r1) = c[n]
      /\ \A j \in 1..c[n] : r1[j] = r[j]
  <2> DEFINE l == c[n]
  <2> HIDE DEF l
  <2>1. IsList(SubSeq(r, 1, l)) /\ Len(SubSeq(r, 1, l)) = l - 1 + 1
        /\ \A j \in 1..(l - 1 + 1) : SubSeq(r, 1, l)[j] = r[j + 1 - 1]
    BY <1>1, <1>2, ListPart DEF l
  <2>2. l \in Nat
    BY <1>2 DEF l
  <2> HIDE DEF r1
  <2>3. r1 = SubSeq(r, 1, l)
    BY DEF r1, l
  <2>4. IsList(r1) /\ Len(r1) = l - 1 + 1 /\ \A j \in 1..(l - 1 + 1) : r1[j] = r[j + 1 - 1]
    BY <2>1, <2>3
  <2>5. IsList(r1) /\ Len(r1) = l /\ \A j \in 1..l : r1[j] = r[j]
    BY <2>2, <2>4
  <2> QED BY <2>5 DEF l
<1>6. /\ c1 \in [0..n -> Nat] /\ c1[0] = 0 /\ c1[n] = c[n]
      /\ \A j \in 0..n : c1[j] = c[j]
  BY <1>1
<1> HIDE DEF m1, r1, k1, c1, w
<1>7. ASSUME NEW j \in 1..n
      PROVE  c1[j] = IF k1[j] = "kept" THEN c1[j - 1] + 1 ELSE c1[j - 1]
  <2>1. j \in 0..n /\ j - 1 \in 0..n /\ j \in 1..Len(k)
    BY <1>1
  <2>2. c1[j] = c[j] /\ c1[j - 1] = c[j - 1] /\ k1[j] = k[j]
    BY <1>4, <1>6, <2>1
  <2>3. c[j] = IF k[j] = "kept" THEN c[j - 1] + 1 ELSE c[j - 1]
    BY <1>1, <2>1 DEF Aligned
  <2> QED BY <2>2, <2>3
<1>8. \A i, j \in 0..n : i <= j => c1[i] <= c1[j]
  <2> TAKE i, j \in 0..n
  <2> HAVE i <= j
  <2>1. i \in 0..Len(k) /\ j \in 0..Len(k)
    BY <1>1
  <2>2. c[i] <= c[j]
    BY <1>1, <2>1 DEF Aligned
  <2>3. c1[i] = c[i] /\ c1[j] = c[j]
    BY <1>6
  <2> QED BY <2>2, <2>3
<1>9. \A j \in 1..n : k1[j] = "kept" => r1[c1[j]] = m1[j]
  <2> TAKE j \in 1..n
  <2> HAVE k1[j] = "kept"
  <2>1. j \in 1..w /\ j \in 0..w /\ n \in 0..w /\ j - 1 \in 0..w /\ j \in 0..n /\ j <= n
    BY <1>1
  <2>2. k[j] = "kept" /\ c[j] = c[j - 1] + 1 /\ c[j] <= c[n] /\ c[j - 1] \in Nat
    BY <1>1, <1>4, <2>1
  <2>3. c[j] \in 1..c[n]
    BY <1>2, <2>2
  <2> QED BY <1>1, <1>3, <1>5, <1>6, <2>1, <2>2, <2>3
<1>10. \A j \in 1..n : /\ k1[j] = "class" => m1[j] = <<"class", WrapName, <<>>>>
                       /\ k1[j] = "wrapper" => m1[j][1] = "wrapper"
  <2> TAKE j \in 1..n
  <2>1. k1[j] = k[j] /\ m1[j] = m[j] /\ j \in 1..w
    BY <1>1, <1>3, <1>4
  <2>2. /\ k[j] = "class" => m[j] = <<"class", WrapName, <<>>>>
        /\ k[j] = "wrapper" => m[j][1] = "wrapper"
    BY <1>1, <2>1, Zenon
  <2> QED BY <2>1, <2>2, Zenon
<1>11. Aligned(c1, m1, r1, k1)
  BY <1>1, <1>3, <1>4, <1>5, <1>6, <1>7, <1>8, <1>9, <1>10 DEF Aligned
<1> QED BY <1>2, <1>11 DEF Stacks, m1, r1, k1

\* Operands that are all kept are the same on both stacks.
LEMMA StacksPop ==
  ASSUME NEW m, NEW r, NEW k, Stacks(m, r, k), NEW t \in Nat, t <= Len(k),
         \A j \in (Len(k) - t + 1)..Len(k) : k[j] = "kept"
  PROVE  /\ t <= Len(r) /\ Len(r) \in Nat /\ Len(m) = Len(k) /\ Len(m) \in Nat
         /\ Stacks(SubSeq(m, 1, Len(m) - t), SubSeq(r, 1, Len(r) - t), SubSeq(k, 1, Len(k) - t))
         /\ SubSeq(r, Len(r) - t + 1, Len(r)) = SubSeq(m, Len(m) - t + 1, Len(m))
<1>1. PICK c : Aligned(c, m, r, k)
  BY DEF Stacks
<1> DEFINE n == Len(k)
           l == Len(r)
<1>2. /\ IsList(m) /\ IsList(r) /\ IsList(k) /\ Len(m) = n /\ n \in Nat
      /\ c \in [0..n -> Nat] /\ c[0] = 0 /\ l = c[n]
      /\ \A j \in 1..n : k[j] = "kept" => r[c[j]] = m[j]
      /\ \A j \in (n - t + 1)..n : k[j] = "kept"
      /\ t <= n
  BY <1>1 DEF Aligned, IsList
<1>3. \A d \in 0..t : c[n - d] = c[n] - d
  BY <1>1, AlignedTop
<1> HIDE DEF n, l
<1>4. t \in 0..t /\ n - t \in 0..n /\ n \in 0..n
  BY <1>2
<1>5. c[n - t] = l - t /\ l \in Nat /\ c[n - t] \in Nat /\ t <= l
  BY <1>2, <1>3, <1>4
<1>6. Stacks(SubSeq(m, 1, n - t), SubSeq(r, 1, c[n - t]), SubSeq(k, 1, n - t))
  BY <1>1, <1>4, AlignedBelow DEF n
<1>7. SubSeq(r, l - t + 1, l) = SubSeq(m, n - t + 1, n)
  <2> DEFINE p == SubSeq(r, l - t + 1, l)
             q == SubSeq(m, n - t + 1, n)
             a == l - t + 1
             b == n - t + 1
  <2>1. a \in Nat \ {0} /\ b \in Nat \ {0} /\ a <= l + 1 /\ b <= n + 1 /\ l <= Len(r) /\ n <= Len(m)
    BY <1>2, <1>5 DEF l
  <2>2. IsList(p) /\ Len(p) = l - a + 1 /\ \A j \in 1..(l - a + 1) : p[j] = r[j + a - 1]
    <3> HIDE DEF a
    <3>1. p = SubSeq(r, a, l)
      BY DEF a
    <3> HIDE DEF p
    <3>2. IsList(SubSeq(r, a, l)) /\ Len(SubSeq(r, a, l)) = l - a + 1
          /\ \A j \in 1..(l - a + 1) : SubSeq(r, a, l)[j] = r[j + a - 1]
      BY <1>2, <1>5, <2>1, ListPart
    <3> QED BY <3>1, <3>2
  <2>3. IsList(q) /\ Len(q) = n - b + 1 /\ \A j \in 1..(n - b + 1) : q[j] = m[j + b - 1]
    <3> HIDE DEF b
    <3>1. q = SubSeq(m, b, n)
      BY DEF b
    <3> HIDE DEF q
    <3>2. IsList(SubSeq(m, b, n)) /\ Len(SubSeq(m, b, n)) = n - b + 1
          /\ \A j \in 1..(n - b + 1) : SubSeq(m, b, n)[j] = m[j + b - 1]
      BY <1>2, <2>1, ListPart
    <3> QED BY <3>1, <3>2
  <2> HIDE DEF p, q
  <2>4. Len(p) = t /\ Len(q) = t
    BY <1>2, <1>5, <2>2, <2>3
  <2>5. ASSUME NEW j \in 1..t PROVE p[j] = q[j]
    <3>1. t - j \in 0..t /\ n - (t - j) \in 1..n /\ n - (t - j) \in (n - t + 1)..n
      BY <1>2
    <3>2. r[c[n - (t - j)]] = m[n - (t - j)] /\ c[n - (t - j)] = c[n] - (t - j)
      BY <1>2, <1>3, <3>1
    <3>3. r[l - (t - j)] = m[n - (t - j)]
      BY <1>2, <3>2
    <3>4. j + a - 1 = l - (t - j) /\ j + b - 1 = n - (t - j) /\ j \in 1..(l - a + 1) /\ j \in 1..(n - b + 1)
      <4>1. l \in Nat /\ n \in Nat /\ t \in Nat
        BY <1>2, <1>5
      <4> QED BY <4>1
    <3> HIDE DEF a, b
    <3> QED BY <2>2, <2>3, <3>3, <3>4
  <2>6. p = q
    BY <2>2, <2>3, <2>4, <2>5, ListEqual
  <2> QED BY <2>6 DEF p, q
<1> QED BY <1>2, <1>5, <1>6, <1>7 DEF n, l

\* An operand that is not kept is on the stack of the code read only.
LEMMA StacksPopMark ==
  ASSUME NEW m, NEW r, NEW k, Stacks(m, r, k), NEW n \in Nat, Len(k) = n + 1, k[n + 1] # "kept"
  PROVE  /\ Stacks(SubSeq(m, 1, n), r, SubSeq(k, 1, n))
         /\ k[n + 1] = "class" => m[n + 1] = <<"class", WrapName, <<>>>>
         /\ k[n + 1] = "wrapper" => m[n + 1][1] = "wrapper"
<1>1. PICK c : Aligned(c, m, r, k)
  BY DEF Stacks
<1>2. n + 1 \in 1..Len(k) /\ n \in 0..Len(k) /\ (n + 1) - 1 = n
  OBVIOUS
<1>3. /\ IsList(r) /\ Len(r) = c[n + 1] /\ c[n + 1] = c[(n + 1) - 1]
      /\ k[n + 1] = "class" => m[n + 1] = <<"class", WrapName, <<>>>>
      /\ k[n + 1] = "wrapper" => m[n + 1][1] = "wrapper"
  BY <1>1, <1>2 DEF Aligned
<1>4. Stacks(SubSeq(m, 1, n), SubSeq(r, 1, c[n]), SubSeq(k, 1, n))
  BY <1>1, <1>2, AlignedBelow
<1>5. SubSeq(r, 1, c[n]) = r
  BY <1>2, <1>3, ListWhole
<1> QED BY <1>3, <1>4, <1>5

-----------------------------------------------------------------------------
(***************************************************************************)
(* One instruction, executed on both sides.                                *)
(***************************************************************************)
\* What each opcode leaves, one implication per opcode.
LEMMA ProductOf ==
  ASSUME NEW i, NEW top, NEW pools
  PROVE  LET p == Machine!Product(i, top, pools)
         IN /\ i.op = "getlex"         => p = <<"class", i.arg, <<>>>>
            /\ i.op = "getlocal"       => p = <<"local", i.arg, <<>>>>
            /\ i.op = "getglobalscope" => p = <<"global", "", <<>>>>
            /\ i.op = "pushint"        => p = Machine!Pooled(FALSE, pools.ints, i.arg)
            /\ i.op = "pushdouble"     => p = Machine!Pooled(TRUE, pools.doubles, i.arg)
            /\ i.op = "pushstring"     => p = <<"value", "string", i.arg>>
            /\ i.op = "pushtrue"       => p = <<"value", "true", 0>>
            /\ i.op = "pushfalse"      => p = <<"value", "false", 0>>
            /\ i.op = "getproperty"    => p = Machine!Get(top[1], i.arg, pools)
            /\ i.op = "callproperty"   => p = Machine!CallProperty(top[1], i.arg, Tail(top))
            /\ i.op = "call"           => p = Machine!Call(top[1], top[2], SubSeq(top, 3, Len(top)))
  BY DEF Machine!Product

\* What a getlex leaves.
LEMMA LexProduct ==
  ASSUME NEW i, i.op = "getlex", NEW top, NEW pools
  PROVE  Machine!Product(i, top, pools) = <<"class", i.arg, <<>>>>
  BY ProductOf

\* What a getproperty leaves.
LEMMA GetProduct ==
  ASSUME NEW i, i.op = "getproperty", NEW top, NEW pools
  PROVE  Machine!Product(i, top, pools) = Machine!Get(top[1], i.arg, pools)
  BY ProductOf

\* What a callproperty leaves.
LEMMA CallProduct ==
  ASSUME NEW i, i.op = "callproperty", NEW top, NEW pools
  PROVE  Machine!Product(i, top, pools) = Machine!CallProperty(top[1], i.arg, Tail(top))
  BY ProductOf

\* What a pushint and a pushdouble leave.
LEMMA PushProduct ==
  ASSUME NEW i, NEW top, NEW pools
  PROVE  /\ i.op = "pushint" =>
              Machine!Product(i, top, pools) = Machine!Pooled(FALSE, pools.ints, i.arg)
         /\ i.op = "pushdouble" =>
              Machine!Product(i, top, pools) = Machine!Pooled(TRUE, pools.doubles, i.arg)
  BY ProductOf

\* What a slot is initialised with, one implication per kind.
LEMMA SlotValueOf ==
  ASSUME NEW c, NEW n, NEW pools
  PROVE  LET slot == Slots[c][n]
             v == Machine!SlotValue(c, n, pools)
         IN /\ slot.kind = 1  => v = <<"value", "string", slot.index>>
            /\ slot.kind = 6  => v = Machine!Pooled(TRUE, pools.doubles, slot.index)
            /\ slot.kind = 10 => v = <<"value", "false", 0>>
            /\ slot.kind = 11 => v = <<"value", "true", 0>>
<1> DEFINE slot == Slots[c][n]
           v == Machine!SlotValue(c, n, pools)
<1>1. v = CASE slot.kind = 1 -> <<"value", "string", slot.index>>
            [] slot.kind = 6 -> Machine!Pooled(TRUE, pools.doubles, slot.index)
            [] slot.kind = 10 -> <<"value", "false", 0>>
            [] slot.kind = 11 -> <<"value", "true", 0>>
            [] OTHER -> <<"slot", c, n>>
  BY DEF Machine!SlotValue
<1> HIDE DEF slot, v
<1>2. ASSUME slot.kind = 1 PROVE v = <<"value", "string", slot.index>>
  BY <1>1, <1>2
<1>3. ASSUME slot.kind = 6 PROVE v = Machine!Pooled(TRUE, pools.doubles, slot.index)
  BY <1>1, <1>3
<1>4. ASSUME slot.kind = 10 PROVE v = <<"value", "false", 0>>
  BY <1>1, <1>4
<1>5. ASSUME slot.kind = 11 PROVE v = <<"value", "true", 0>>
  BY <1>1, <1>5
<1> QED BY <1>2, <1>3, <1>4, <1>5 DEF slot, v

\* add() only ever appends to a pool of the file: what was at an index still is.
PoolsGrown ==
  /\ DOMAIN IntPool \subseteq DOMAIN ints /\ \A k \in DOMAIN IntPool : ints[k] = IntPool[k]
  /\ DOMAIN DoublePool \subseteq DOMAIN doubles
  /\ \A k \in DOMAIN DoublePool : doubles[k] = DoublePool[k]

\* An index that was in a pool stands for the same value.
LEMMA PooledSame ==
  ASSUME PoolsGrown, NEW x
  PROVE  /\ x + 1 \in DOMAIN IntPool =>
              Machine!Pooled(FALSE, PoolsBefore.ints, x) = Machine!Pooled(FALSE, PoolsAfter.ints, x)
         /\ x + 1 \in DOMAIN DoublePool =>
              Machine!Pooled(TRUE, PoolsBefore.doubles, x) = Machine!Pooled(TRUE, PoolsAfter.doubles, x)
<1> DEFINE y == x + 1
<1> HIDE DEF y
<1>1. /\ PoolsBefore.ints = IntPool /\ PoolsAfter.ints = ints
      /\ PoolsBefore.doubles = DoublePool /\ PoolsAfter.doubles = doubles
  BY DEF PoolsBefore, PoolsAfter
<1>2. ASSUME NEW b, NEW pool
      PROVE  Machine!Pooled(b, pool, x) = IF y \in DOMAIN pool THEN Machine!Const(b, pool[y])
                                          ELSE <<"invalid", "index", x>>
  BY DEF Machine!Pooled, y
<1>3. ASSUME NEW b, NEW old, NEW new, y \in DOMAIN old, DOMAIN old \subseteq DOMAIN new,
             \A j \in DOMAIN old : new[j] = old[j]
      PROVE  Machine!Pooled(b, old, x) = Machine!Pooled(b, new, x)
  <2>1. y \in DOMAIN new /\ new[y] = old[y]
    BY <1>3
  <2> QED BY <1>2, <1>3, <2>1
<1> QED BY <1>1, <1>3 DEF PoolsGrown, y

\* And so does the member of a class.
LEMMA GetSame ==
  ASSUME PoolsGrown, IndicesRight, NEW object, NEW name
  PROVE  Machine!Get(object, name, PoolsBefore) = Machine!Get(object, name, PoolsAfter)
<1> DEFINE Wrapped == Machine!IsClass(object, WrapName) /\ name \in WrapMethods
<1>1. CASE Wrapped
  BY <1>1 DEF Machine!Get
<1>2. CASE ~Wrapped /\ Machine!InStatic(object, Slots, name)
  <2>1. PICK c \in DOMAIN Slots : Machine!IsClass(object, c) /\ name \in DOMAIN Slots[c]
    BY <1>2 DEF Machine!InStatic
  <2>2. object[2] = c
    BY <2>1 DEF Machine!IsClass
  <2>3. Slots[c][name].kind \in {1, 6, 10, 11}
        /\ (Slots[c][name].kind = 6 => Slots[c][name].index + 1 \in DOMAIN DoublePool)
    BY <2>1 DEF IndicesRight
  <2>4. Machine!SlotValue(c, name, PoolsBefore) = Machine!SlotValue(c, name, PoolsAfter)
    <3> DEFINE slot == Slots[c][name]
               b == Machine!SlotValue(c, name, PoolsBefore)
               a == Machine!SlotValue(c, name, PoolsAfter)
    <3>1. /\ slot.kind = 1  => b = <<"value", "string", slot.index>> /\ a = <<"value", "string", slot.index>>
          /\ slot.kind = 6  => /\ b = Machine!Pooled(TRUE, PoolsBefore.doubles, slot.index)
                               /\ a = Machine!Pooled(TRUE, PoolsAfter.doubles, slot.index)
          /\ slot.kind = 10 => b = <<"value", "false", 0>> /\ a = <<"value", "false", 0>>
          /\ slot.kind = 11 => b = <<"value", "true", 0>> /\ a = <<"value", "true", 0>>
      BY SlotValueOf, Zenon
    <3>2. slot.index + 1 \in DOMAIN DoublePool =>
            Machine!Pooled(TRUE, PoolsBefore.doubles, slot.index)
              = Machine!Pooled(TRUE, PoolsAfter.doubles, slot.index)
      BY PooledSame, Zenon
    <3> HIDE DEF slot, a, b
    <3>3. slot.kind \in {1, 6, 10, 11} /\ (slot.kind = 6 => slot.index + 1 \in DOMAIN DoublePool)
      BY <2>3 DEF slot
    <3>4. slot.kind = 1 \/ slot.kind = 6 \/ slot.kind = 10 \/ slot.kind = 11
      BY <3>3
    <3>5. ASSUME slot.kind = 1 PROVE a = b
      BY <3>1, <3>5, Zenon
    <3>6. ASSUME slot.kind = 6 PROVE a = b
      <4>1. /\ b = Machine!Pooled(TRUE, PoolsBefore.doubles, slot.index)
            /\ a = Machine!Pooled(TRUE, PoolsAfter.doubles, slot.index)
        BY <3>1, <3>6
      <4> QED BY <3>2, <3>3, <3>6, <4>1, Zenon
    <3>7. ASSUME slot.kind = 10 PROVE a = b
      BY <3>1, <3>7
    <3>8. ASSUME slot.kind = 11 PROVE a = b
      BY <3>1, <3>8
    <3>9. a = b
      BY <3>4, <3>5, <3>6, <3>7, <3>8, Zenon
    <3> QED BY <3>9 DEF a, b
  <2> QED BY <1>2, <2>2, <2>4 DEF Machine!Get
<1>3. CASE ~Wrapped /\ ~Machine!InStatic(object, Slots, name)
  BY <1>3 DEF Machine!Get
<1> QED BY <1>1, <1>2, <1>3

\* An instruction that is written as it was read leaves what it left.
LEMMA LeavesSame ==
  ASSUME PoolsGrown, IndicesRight, NEW i \in Ins, NEW top
  PROVE  Machine!Leaves(orig[i], top, PoolsBefore) = Machine!Leaves(orig[i], top, PoolsAfter)
<1> DEFINE o == orig[i]
<1>1. /\ o.op = "pushint" => o.arg + 1 \in DOMAIN IntPool
      /\ o.op = "pushdouble" => o.arg + 1 \in DOMAIN DoublePool
  BY DEF IndicesRight
<1> HIDE DEF o
<1>2. ASSUME o.op \in Machine!Producers
      PROVE  Machine!Product(o, top, PoolsBefore) = Machine!Product(o, top, PoolsAfter)
  <2>1. CASE o.op \in {"pushint", "pushdouble"}
    BY <1>1, <2>1, PushProduct, PooledSame
  <2>2. CASE o.op = "getproperty"
    BY <2>2, GetProduct, GetSame
  <2>3. CASE o.op \notin {"pushint", "pushdouble", "getproperty"}
    BY <1>2, <2>3, ProductOf DEF Machine!Producers
  <2> QED BY <2>1, <2>2, <2>3
<1> QED BY <1>2 DEF o, Machine!Leaves

\* The machine after an instruction that finds its operands, top.
Executed(m, i, pools, below, top) ==
  [ stack  |-> SubSeq(m.stack, 1, below) \o Machine!Leaves(i, top, pools),
    locals |-> IF i.op = "setlocal" THEN Append(m.locals, <<i.arg, top[1]>>) ELSE m.locals,
    failed |-> FALSE ]

\* A machine that has not failed executes what it has the operands for.
LEMMA ExecuteOf ==
  ASSUME NEW m, NEW i, NEW pools, ~m.failed,
         Machine!Takes(i) \in Nat, Len(m.stack) \in Nat, Machine!Takes(i) <= Len(m.stack)
  PROVE  Machine!Execute(m, i, pools) =
           Executed(m, i, pools, Len(m.stack) - Machine!Takes(i),
                    SubSeq(m.stack, Len(m.stack) - Machine!Takes(i) + 1, Len(m.stack)))
<1> DEFINE below == Len(m.stack) - Machine!Takes(i)
<1>1. ~(below < 0)
  OBVIOUS
<1>2. Machine!Execute(m, i, pools) =
       IF m.failed \/ below < 0 THEN [m EXCEPT !.failed = TRUE]
       ELSE Executed(m, i, pools, below, SubSeq(m.stack, below + 1, Len(m.stack)))
  BY Zenon DEF Machine!Execute, Executed
<1> HIDE DEF below
<1>3. Machine!Execute(m, i, pools)
        = Executed(m, i, pools, below, SubSeq(m.stack, below + 1, Len(m.stack)))
  BY <1>1, <1>2, Zenon
<1> QED BY <1>3, Zenon DEF below

\* The machines that run the code read and the code written have stored the same
\* into the locals, and their stacks differ by what the marks name.
Agree(m, r, marks) ==
  /\ m = [stack |-> m.stack, locals |-> m.locals, failed |-> FALSE]
  /\ r = [stack |-> r.stack, locals |-> m.locals, failed |-> FALSE]
  /\ Stacks(m.stack, r.stack, marks)

\* What the later proofs use of it.
LEMMA AgreeFacts ==
  ASSUME NEW m, NEW r, NEW k, Agree(m, r, k)
  PROVE  /\ ~m.failed /\ ~r.failed /\ r.locals = m.locals
         /\ IsList(m.stack) /\ IsList(r.stack) /\ IsList(k) /\ Len(m.stack) = Len(k)
         /\ Len(k) \in Nat /\ Len(r.stack) \in Nat
<1>1. ~m.failed /\ ~r.failed /\ r.locals = m.locals
  BY DEF Agree
<1>2. PICK c : Aligned(c, m.stack, r.stack, k)
  BY DEF Agree, Stacks
<1> QED BY <1>1, <1>2 DEF Aligned, IsList

\* An instruction takes no negative number of operands.
LEMMA TakesNat ==
  ASSUME NEW i, i.argc \in Nat
  PROVE  Machine!Takes(i) \in Nat
  BY DEF Machine!Takes

\* The instruction o is executed on both sides, with operands that are kept.
LEMMA KeptStep ==
  ASSUME NEW m, NEW r, NEW k, Agree(m, r, k), NEW o, NEW before, NEW after,
         NEW t \in Nat, t = Machine!Takes(o), t <= Len(k),
         \A j \in (Len(k) - t + 1)..Len(k) : k[j] = "kept",
         \A top : Machine!Leaves(o, top, before) = Machine!Leaves(o, top, after)
  PROVE  Agree(Machine!Execute(m, o, before), Machine!Execute(r, o, after),
               SubSeq(k, 1, Len(k) - t)
                 \o (IF o.op \in Machine!Producers THEN <<"kept">> ELSE <<>>))
<1> DEFINE n == Len(m.stack)
           l == Len(r.stack)
           top == SubSeq(m.stack, n - t + 1, n)
           same == SubSeq(r.stack, l - t + 1, l)
           m0 == SubSeq(m.stack, 1, n - t)
           r0 == SubSeq(r.stack, 1, l - t)
           k0 == SubSeq(k, 1, Len(k) - t)
           m1 == Machine!Execute(m, o, before)
           r1 == Machine!Execute(r, o, after)
           left == Machine!Leaves(o, top, before)
           value == Machine!Product(o, top, before)
<1>1. ~m.failed /\ ~r.failed /\ r.locals = m.locals /\ n = Len(k) /\ n \in Nat /\ l \in Nat
  BY AgreeFacts
<1>2. t <= l /\ Stacks(m0, r0, k0) /\ same = top
  <2>1. Stacks(m.stack, r.stack, k)
    BY DEF Agree
  <2>2. SubSeq(k, 1, Len(k) - t) = k0
    OBVIOUS
  <2> QED BY <2>1, <2>2, StacksPop, ZenonT(40)
<1>3. m1 = [ stack  |-> m0 \o left,
             locals |-> IF o.op = "setlocal" THEN Append(m.locals, <<o.arg, top[1]>>) ELSE m.locals,
             failed |-> FALSE ]
  <2>1. t <= n
    BY <1>1
  <2>2. Machine!Execute(m, o, before) = Executed(m, o, before, n - t, top)
    BY <1>1, <2>1, ExecuteOf, Zenon
  <2> QED BY <2>2, Zenon DEF m0, left, m1, Executed
<1>4. r1 = [ stack  |-> r0 \o Machine!Leaves(o, same, after),
             locals |-> IF o.op = "setlocal" THEN Append(r.locals, <<o.arg, same[1]>>) ELSE r.locals,
             failed |-> FALSE ]
  <2>1. t <= l
    BY <1>2
  <2>2. Machine!Execute(r, o, after) = Executed(r, o, after, l - t, same)
    BY <1>1, <2>1, ExecuteOf, Zenon
  <2> QED BY <2>2, Zenon DEF r0, r1, Executed
<1>5. Machine!Leaves(o, same, after) = left
  BY <1>2, Zenon
<1> HIDE DEF same, top, m0, r0, k0, m1, r1, left, value
<1>6. /\ m1 = [stack |-> m0 \o left, locals |-> m1.locals, failed |-> FALSE]
      /\ r1 = [stack |-> r0 \o left, locals |-> m1.locals, failed |-> FALSE]
  BY <1>1, <1>2, <1>3, <1>4, <1>5
<1>7. Stacks(m0 \o left, r0 \o left,
             k0 \o (IF o.op \in Machine!Producers THEN <<"kept">> ELSE <<>>))
  <2>1. CASE o.op \in Machine!Producers
    <3>1. left = <<value>>
      BY <2>1, Zenon DEF left, value, Machine!Leaves
    <3>2. Stacks(m0 \o <<value>>, IF "kept" = "kept" THEN r0 \o <<value>> ELSE r0, k0 \o <<"kept">>)
      BY <1>2, StacksPush
    <3> QED BY <2>1, <3>1, <3>2
  <2>2. CASE o.op \notin Machine!Producers
    <3>1. left = <<>>
      BY <2>2, Zenon DEF left, Machine!Leaves
    <3>2. m0 \o <<>> = m0 /\ r0 \o <<>> = r0 /\ k0 \o <<>> = k0
      <4>1. PICK c : Aligned(c, m0, r0, k0)
        BY <1>2 DEF Stacks
      <4> QED BY <4>1, ListWhole DEF Aligned
    <3> QED BY <1>2, <2>2, <3>1, <3>2
  <2> QED BY <2>1, <2>2
<1>8. Agree(m1, r1, k0 \o (IF o.op \in Machine!Producers THEN <<"kept">> ELSE <<>>))
  <2> DEFINE k1 == k0 \o (IF o.op \in Machine!Producers THEN <<"kept">> ELSE <<>>)
  <2>1. Stacks(m0 \o left, r0 \o left, k1)
    BY <1>7
  <2> HIDE DEF k1
  <2>2. m1.stack = m0 \o left /\ r1.stack = r0 \o left
    BY <1>6
  <2>3. Agree(m1, r1, k1)
    BY <1>6, <2>1, <2>2, Zenon DEF Agree
  <2> QED BY <2>3 DEF k1
<1> QED BY <1>8 DEF m1, r1, k0

\* What the later proofs use of two stacks.
LEMMA StacksFacts ==
  ASSUME NEW m, NEW r, NEW k, Stacks(m, r, k)
  PROVE  /\ IsList(m) /\ IsList(r) /\ IsList(k) /\ Len(m) = Len(k)
         /\ Len(m) \in Nat /\ Len(r) \in Nat /\ Len(k) \in Nat
         /\ \A j \in 1..Len(k) : /\ k[j] = "class" => m[j] = <<"class", WrapName, <<>>>>
                                 /\ k[j] = "wrapper" => m[j][1] = "wrapper"
<1>1. PICK c : Aligned(c, m, r, k)
  BY DEF Stacks
<1>2. /\ IsList(m) /\ IsList(r) /\ IsList(k) /\ Len(m) = Len(k)
      /\ \A j \in 1..Len(k) : /\ k[j] = "class" => m[j] = <<"class", WrapName, <<>>>>
                              /\ k[j] = "wrapper" => m[j][1] = "wrapper"
  BY <1>1, Zenon DEF Aligned
<1>3. Len(m) \in Nat /\ Len(r) \in Nat /\ Len(k) \in Nat
  BY <1>2 DEF IsList
<1> QED BY <1>2, <1>3, Zenon

\* A list is what is below its last entry, and that entry.
LEMMA ListLast ==
  ASSUME NEW s, IsList(s), NEW n \in Nat, Len(s) = n + 1
  PROVE  SubSeq(s, 1, n) \o <<s[n + 1]>> = s
<1> DEFINE p == SubSeq(s, 1, n)
           q == p \o <<s[n + 1]>>
<1>1. IsList(p) /\ Len(p) = n /\ \A k \in 1..n : p[k] = s[k]
  <2>1. IsList(p) /\ Len(p) = n - 1 + 1 /\ \A k \in 1..(n - 1 + 1) : p[k] = s[k + 1 - 1]
    BY ListPart
  <2> HIDE DEF p
  <2> QED BY <2>1
<1> HIDE DEF p
<1>2. /\ IsList(q) /\ Len(q) = Len(p) + 1 /\ q[Len(p) + 1] = s[n + 1]
      /\ \A k \in 1..Len(p) : q[k] = p[k]
  BY <1>1, ListPush
<1> HIDE DEF q
<1>3. Len(q) = Len(s) /\ \A k \in 1..Len(q) : q[k] = s[k]
  BY <1>1, <1>2
<1>4. q = s
  BY <1>2, <1>3, ListEqual
<1> QED BY <1>4 DEF p, q

\* What is pushed does not reach below.
LEMMA SliceOfPush ==
  ASSUME NEW s, IsList(s), NEW v, NEW n \in Nat, n <= Len(s)
  PROVE  SubSeq(s \o <<v>>, 1, n) = SubSeq(s, 1, n)
<1> DEFINE u == s \o <<v>>
           p == SubSeq(u, 1, n)
           q == SubSeq(s, 1, n)
<1>1. /\ IsList(u) /\ Len(u) = Len(s) + 1
      /\ \A k \in 1..Len(s) : u[k] = s[k]
  BY ListPush
<1>2. Len(s) \in Nat
  BY DEF IsList
<1> HIDE DEF u
<1>3. IsList(p) /\ Len(p) = n - 1 + 1 /\ \A k \in 1..(n - 1 + 1) : p[k] = u[k + 1 - 1]
  <2>1. n <= Len(u) /\ 1 <= n + 1 /\ 1 \in Nat \ {0}
    BY <1>1, <1>2
  <2> QED BY <1>1, <2>1, ListPart
<1>4. IsList(q) /\ Len(q) = n - 1 + 1 /\ \A k \in 1..(n - 1 + 1) : q[k] = s[k + 1 - 1]
  <2>1. 1 <= n + 1 /\ 1 \in Nat \ {0}
    OBVIOUS
  <2> QED BY <2>1, ListPart
<1> HIDE DEF p, q
<1>5. Len(p) = Len(q) /\ \A k \in 1..Len(p) : p[k] = q[k]
  BY <1>1, <1>2, <1>3, <1>4
<1>6. p = q
  BY <1>3, <1>4, <1>5, ListEqual
<1> QED BY <1>6 DEF p, q, u

\* A mark goes from under a kept operand.
LEMMA StacksUnder ==
  ASSUME NEW m, NEW r, NEW k, Stacks(m, r, k), NEW n \in Nat, Len(k) = n + 2,
         k[n + 1] # "kept", k[n + 2] = "kept"
  PROVE  Stacks(SubSeq(m, 1, n) \o <<m[n + 2]>>, r, SubSeq(k, 1, n) \o <<"kept">>)
<1> DEFINE l == Len(r)
           m1 == SubSeq(m, 1, n + 1)
           k1 == SubSeq(k, 1, n + 1)
           r1 == SubSeq(r, 1, l - 1)
<1>1. /\ IsList(m) /\ IsList(r) /\ IsList(k) /\ Len(m) = n + 2 /\ l \in Nat
  BY StacksFacts
<1>2. /\ 1 <= l /\ Stacks(m1, r1, k1)
      /\ SubSeq(r, l, l) = SubSeq(m, n + 2, n + 2)
  <2>1. \A j \in (Len(k) - 1 + 1)..Len(k) : k[j] = "kept"
    OBVIOUS
  <2>2. /\ 1 <= Len(r)
        /\ Stacks(SubSeq(m, 1, Len(m) - 1), SubSeq(r, 1, Len(r) - 1), SubSeq(k, 1, Len(k) - 1))
        /\ SubSeq(r, Len(r) - 1 + 1, Len(r)) = SubSeq(m, Len(m) - 1 + 1, Len(m))
    BY <2>1, StacksPop
  <2>3. /\ Len(m) - 1 = n + 1 /\ Len(k) - 1 = n + 1 /\ Len(r) - 1 + 1 = l
        /\ Len(m) - 1 + 1 = n + 2
    BY <1>1
  <2> QED BY <1>1, <2>2, <2>3
<1>3. r[l] = m[n + 2]
  <2> DEFINE p == SubSeq(r, l, l)
             q == SubSeq(m, n + 2, n + 2)
  <2>1. \A x \in 1..(l - l + 1) : p[x] = r[x + l - 1]
    BY <1>1, <1>2, ListPart
  <2>2. \A x \in 1..((n + 2) - (n + 2) + 1) : q[x] = m[x + (n + 2) - 1]
    BY <1>1, ListPart
  <2>3. p = q
    BY <1>2
  <2> HIDE DEF p, q
  <2> QED BY <1>1, <2>1, <2>2, <2>3
<1>4. Len(k1) = n + 1 /\ k1[n + 1] = k[n + 1]
  <2>1. IsList(k1) /\ Len(k1) = (n + 1) - 1 + 1
        /\ \A x \in 1..((n + 1) - 1 + 1) : k1[x] = k[x + 1 - 1]
    BY <1>1, ListPart
  <2> HIDE DEF k1
  <2> QED BY <2>1
<1>5. Stacks(SubSeq(m1, 1, n), r1, SubSeq(k1, 1, n))
  BY <1>2, <1>4, StacksPopMark
<1>6. SubSeq(m1, 1, n) = SubSeq(m, 1, n) /\ SubSeq(k1, 1, n) = SubSeq(k, 1, n)
  BY <1>1, SliceOfSlice
<1>7. Stacks(SubSeq(m, 1, n), r1, SubSeq(k, 1, n))
  BY <1>5, <1>6
<1>8. Stacks(SubSeq(m, 1, n) \o <<m[n + 2]>>, IF "kept" = "kept" THEN r1 \o <<m[n + 2]>> ELSE r1,
             SubSeq(k, 1, n) \o <<"kept">>)
  BY <1>7, StacksPush
<1>9. r1 \o <<m[n + 2]>> = r
  <2>1. l - 1 \in Nat /\ Len(r) = (l - 1) + 1
    BY <1>1, <1>2
  <2>2. SubSeq(r, 1, l - 1) \o <<r[(l - 1) + 1]>> = r
    BY <1>1, <2>1, ListLast
  <2>3. (l - 1) + 1 = l
    BY <1>1
  <2> QED BY <1>3, <2>2, <2>3
<1> QED BY <1>8, <1>9

\* The last entries of a list.
LEMMA ListTop ==
  ASSUME NEW s, IsList(s), NEW t \in Nat, t <= Len(s)
  PROVE  LET n == Len(s)
             top == SubSeq(s, n - t + 1, n)
         IN /\ IsList(top) /\ Len(top) = t
            /\ \A j \in 1..t : top[j] = s[n - t + j]
<1> DEFINE n == Len(s)
           a == n - t + 1
           top == SubSeq(s, a, n)
<1>1. n \in Nat /\ a \in Nat \ {0} /\ a <= n + 1
  BY DEF IsList
<1>2. IsList(top) /\ Len(top) = n - a + 1 /\ \A j \in 1..(n - a + 1) : top[j] = s[j + a - 1]
  <2> HIDE DEF n, a
  <2>1. n <= Len(s) /\ n \in Nat
    BY <1>1 DEF n
  <2> QED BY <1>1, <2>1, ListPart
<1>3. n - a + 1 = t /\ \A j \in 1..t : j + a - 1 = n - t + j
  BY <1>1
<1> HIDE DEF top, a
<1>4. IsList(top) /\ Len(top) = t /\ \A j \in 1..t : top[j] = s[n - t + j]
  BY <1>2, <1>3
<1> QED BY <1>4 DEF top, a

-----------------------------------------------------------------------------
(***************************************************************************)
(* The instructions that go.                                               *)
(***************************************************************************)
\* One, two or three entries that are known are on top.
LEMMA TopMarks ==
  ASSUME NEW s, IsList(s), NEW t \in Nat, t <= Len(s), NEW a, NEW b, NEW c
  PROVE  LET n == Len(s)
             top == SubSeq(s, n - t + 1, n)
         IN /\ top = <<a>>       => t = 1 /\ s[n] = a
            /\ top = <<a, b>>    => t = 2 /\ s[n - 1] = a /\ s[n] = b
            /\ top = <<a, b, c>> => t = 3 /\ s[n - 2] = a /\ s[n - 1] = b /\ s[n] = c
<1> DEFINE n == Len(s)
           top == SubSeq(s, n - t + 1, n)
<1>1. n \in Nat /\ Len(top) = t /\ \A j \in 1..t : top[j] = s[n - t + j]
  BY ListTop DEF IsList
<1> HIDE DEF n, top
<1>2. ASSUME top = <<a>> PROVE t = 1 /\ s[n] = a
  <2>1. t = 1
    BY <1>1, <1>2
  <2>2. top[1] = a /\ top[1] = s[n - t + 1]
    BY <1>1, <1>2, <2>1
  <2> QED BY <1>1, <2>1, <2>2
<1>3. ASSUME top = <<a, b>> PROVE t = 2 /\ s[n - 1] = a /\ s[n] = b
  <2>1. t = 2
    BY <1>1, <1>3
  <2>2. top[1] = a /\ top[2] = b /\ top[1] = s[n - t + 1] /\ top[2] = s[n - t + 2]
    BY <1>1, <1>3, <2>1
  <2>3. n - t + 1 = n - 1 /\ n - t + 2 = n
    BY <1>1, <2>1
  <2> QED BY <2>1, <2>2, <2>3
<1>4. ASSUME top = <<a, b, c>> PROVE t = 3 /\ s[n - 2] = a /\ s[n - 1] = b /\ s[n] = c
  <2>1. t = 3
    BY <1>1, <1>4
  <2>2. /\ top[1] = a /\ top[2] = b /\ top[3] = c
        /\ top[1] = s[n - t + 1] /\ top[2] = s[n - t + 2] /\ top[3] = s[n - t + 3]
    BY <1>1, <1>4, <2>1
  <2>3. n - t + 1 = n - 2 /\ n - t + 2 = n - 1 /\ n - t + 3 = n
    BY <1>1, <2>1
  <2> QED BY <2>1, <2>2, <2>3
<1> QED BY <1>2, <1>3, <1>4 DEF n, top

\* The code read executes o, which leaves v; what the code written does in
\* the meantime is in r1.
LEMMA ReadStep ==
  ASSUME NEW m, NEW r, NEW k, Agree(m, r, k), NEW o, NEW before,
         o.op \in Machine!Producers, Machine!Takes(o) \in Nat, Machine!Takes(o) <= Len(k),
         NEW marks, NEW v,
         v = Machine!Product(o, SubSeq(m.stack, Len(m.stack) - Machine!Takes(o) + 1, Len(m.stack)),
                             before),
         NEW r1, r1 = [stack |-> r1.stack, locals |-> m.locals, failed |-> FALSE],
         Stacks(SubSeq(m.stack, 1, Len(m.stack) - Machine!Takes(o)) \o <<v>>, r1.stack, marks)
  PROVE  Agree(Machine!Execute(m, o, before), r1, marks)
<1> DEFINE n == Len(m.stack)
           t == Machine!Takes(o)
           top == SubSeq(m.stack, n - t + 1, n)
           m1 == Machine!Execute(m, o, before)
<1>1. ~m.failed /\ n = Len(k) /\ n \in Nat
  BY AgreeFacts
<1>2. m1 = Executed(m, o, before, n - t, top)
  BY <1>1, ExecuteOf, Zenon
<1>3. Machine!Leaves(o, top, before) = <<v>>
  BY Zenon DEF Machine!Leaves
<1>4. o.op # "setlocal"
  BY DEF Machine!Producers
<1>5. m1 = [ stack |-> SubSeq(m.stack, 1, n - t) \o <<v>>, locals |-> m.locals, failed |-> FALSE ]
  BY <1>2, <1>3, <1>4, Zenon DEF Executed
<1>6. Stacks(SubSeq(m.stack, 1, n - t) \o <<v>>, r1.stack, marks)
  OBVIOUS
<1> HIDE DEF n, t, top, m1
<1> DEFINE stack == SubSeq(m.stack, 1, n - t) \o <<v>>
<1> HIDE DEF stack
<1>7. m1 = [stack |-> stack, locals |-> m.locals, failed |-> FALSE] /\ Stacks(stack, r1.stack, marks)
  BY <1>5, <1>6 DEF stack
<1>8. m1.stack = stack /\ m1.locals = m.locals
  BY <1>7
<1>9. Agree(m1, r1, marks)
  BY <1>7, <1>8 DEF Agree
<1> QED BY <1>9 DEF m1

\* The code written does nothing in the meantime.
LEMMA DroppedStep ==
  ASSUME NEW m, NEW r, NEW k, Agree(m, r, k), NEW o, NEW before,
         o.op \in Machine!Producers, Machine!Takes(o) \in Nat, Machine!Takes(o) <= Len(k),
         NEW marks, NEW v,
         v = Machine!Product(o, SubSeq(m.stack, Len(m.stack) - Machine!Takes(o) + 1, Len(m.stack)),
                             before),
         Stacks(SubSeq(m.stack, 1, Len(m.stack) - Machine!Takes(o)) \o <<v>>, r.stack, marks)
  PROVE  Agree(Machine!Execute(m, o, before), r, marks)
<1>1. r = [stack |-> r.stack, locals |-> m.locals, failed |-> FALSE]
  BY DEF Agree
<1> QED BY <1>1, ReadStep, Zenon

\* A getlex or getglobalscope that goes.
LEMMA PushStep ==
  ASSUME NEW m, NEW r, NEW k, Agree(m, r, k), NEW o, NEW before,
         o.op \in {"getlex", "getglobalscope"},
         NEW x, x # "kept", x # "wrapper", x = "class" => o.op = "getlex" /\ o.arg = WrapName
  PROVE  Agree(Machine!Execute(m, o, before), r,
               SubSeq(k, 1, Len(k) - Machine!Takes(o)) \o <<x>>)
<1> DEFINE top == SubSeq(m.stack, Len(m.stack) - Machine!Takes(o) + 1, Len(m.stack))
           v == Machine!Product(o, top, before)
<1>1. Machine!Takes(o) = 0 /\ o.op \in Machine!Producers
  BY DEF Machine!Takes, Machine!Producers
<1>2. x = "class" => v = <<"class", WrapName, <<>>>>
  <2> HIDE DEF top
  <2> QED BY ProductOf
<1>3. /\ IsList(m.stack) /\ IsList(k) /\ Len(m.stack) = Len(k) /\ Len(k) \in Nat
      /\ Stacks(m.stack, r.stack, k)
  BY AgreeFacts DEF Agree
<1>4. Stacks(m.stack \o <<v>>, IF x = "kept" THEN r.stack \o <<v>> ELSE r.stack, k \o <<x>>)
  <2> HIDE DEF v
  <2> QED BY <1>2, <1>3, StacksPush
<1>5. /\ SubSeq(m.stack, 1, Len(m.stack) - Machine!Takes(o)) = m.stack
      /\ SubSeq(k, 1, Len(k) - Machine!Takes(o)) = k
  <2>1. Len(k) - Machine!Takes(o) = Len(k) /\ Len(m.stack) - Machine!Takes(o) = Len(m.stack)
    BY <1>1, <1>3
  <2> QED BY <1>3, <2>1, ListWhole
<1>6. Stacks(SubSeq(m.stack, 1, Len(m.stack) - Machine!Takes(o)) \o <<v>>, r.stack, k \o <<x>>)
  BY <1>4, <1>5
<1>7. Machine!Takes(o) \in Nat /\ Machine!Takes(o) <= Len(k)
  BY <1>1, <1>3
<1>8. Agree(Machine!Execute(m, o, before), r, k \o <<x>>)
  BY <1>1, <1>6, <1>7, DroppedStep, Zenon
<1> QED BY <1>5, <1>8

\* The wrapper class is no static class.
LEMMA NotStatic ==
  ASSUME WrapName \notin DOMAIN Slots, NEW object, object = <<"class", WrapName, <<>>>>, NEW name
  PROVE  /\ ~Machine!InStatic(object, Slots, name)
         /\ ~Machine!InStatic(object, Consts, name)
<1>1. ASSUME NEW c, Machine!IsClass(object, c) PROVE c = WrapName
  <2>1. <<"class", WrapName, <<>>>> = <<"class", c, <<>>>>
    BY <1>1 DEF Machine!IsClass
  <2>2. <<"class", WrapName, <<>>>>[2] = WrapName /\ <<"class", c, <<>>>>[2] = c
    OBVIOUS
  <2> QED BY <2>1, <2>2
<1> QED BY <1>1, ClassesAssumption DEF Machine!InStatic

\* The getproperty of a wrapper.
LEMMA WrapperStep ==
  ASSUME NEW m, NEW r, NEW k, Agree(m, r, k), NEW o, NEW before,
         o.op = "getproperty", o.arg \in WrapMethods, WrapName \notin DOMAIN Slots,
         1 <= Len(k), k[Len(k)] = "class"
  PROVE  Agree(Machine!Execute(m, o, before), r,
               SubSeq(k, 1, Len(k) - Machine!Takes(o)) \o <<"wrapper">>)
<1> DEFINE n == Len(m.stack)
           top == SubSeq(m.stack, n - 1 + 1, n)
           v == Machine!Product(o, top, before)
<1>1. Machine!Takes(o) = 1 /\ o.op \in Machine!Producers
  BY DEF Machine!Takes, Machine!Producers
<1>2. /\ IsList(m.stack) /\ n = Len(k) /\ n \in Nat /\ 1 <= n
      /\ Stacks(m.stack, r.stack, k)
  BY AgreeFacts DEF Agree
<1>3. m.stack[n] = <<"class", WrapName, <<>>>> /\ top[1] = m.stack[n]
  <2>1. n \in 1..Len(k) /\ k[n] = "class"
    BY <1>2
  <2>2. m.stack[n] = <<"class", WrapName, <<>>>>
    BY <1>2, <2>1, StacksFacts
  <2>3. 1 <= Len(m.stack) /\ \A j \in 1..1 : top[j] = m.stack[n - 1 + j]
    BY <1>2, ListTop
  <2>4. n - 1 + 1 = n /\ 1 \in 1..1
    BY <1>2
  <2> HIDE DEF top, n
  <2> QED BY <2>2, <2>3, <2>4
<1>4. v = <<"wrapper", o.arg, <<>>>>
  <2> HIDE DEF top
  <2>1. v = Machine!Get(top[1], o.arg, before)
    BY ProductOf
  <2>2. Machine!IsClass(top[1], WrapName)
    BY <1>3 DEF Machine!IsClass
  <2>3. ~Machine!InStatic(top[1], Slots, o.arg)
    BY <1>3, NotStatic
  <2> QED BY <2>1, <2>2, <2>3 DEF Machine!Get
<1>5. v[1] = "wrapper"
  BY <1>4
<1>6. Stacks(SubSeq(m.stack, 1, n - 1), r.stack, SubSeq(k, 1, n - 1))
  <2>1. n - 1 \in Nat /\ Len(k) = (n - 1) + 1 /\ k[(n - 1) + 1] # "kept"
    <3>1. (n - 1) + 1 = n
      BY <1>2
    <3> QED BY <1>2, <3>1
  <2> QED BY <1>2, <2>1, StacksPopMark
<1> HIDE DEF v
<1>7. Stacks(SubSeq(m.stack, 1, n - 1) \o <<v>>,
             IF "wrapper" = "kept" THEN r.stack \o <<v>> ELSE r.stack,
             SubSeq(k, 1, n - 1) \o <<"wrapper">>)
  BY <1>5, <1>6, StacksPush
<1>8. Stacks(SubSeq(m.stack, 1, n - Machine!Takes(o)) \o <<v>>, r.stack,
             SubSeq(k, 1, Len(k) - Machine!Takes(o)) \o <<"wrapper">>)
  BY <1>1, <1>2, <1>7
<1>9. v = Machine!Product(o, SubSeq(m.stack, n - Machine!Takes(o) + 1, n), before)
  BY <1>1 DEF v
<1>10. Machine!Takes(o) \in Nat /\ Machine!Takes(o) <= Len(k)
  BY <1>1
<1> QED BY <1>1, <1>8, <1>9, <1>10, DroppedStep, Zenon

\* The callproperty of a wrapper, which returns its argument.
LEMMA UnwrapStep ==
  ASSUME NEW m, NEW r, NEW k, Agree(m, r, k), NEW o, NEW before,
         o.op = "callproperty", o.arg \in WrapMethods, WrapName \notin DOMAIN Slots,
         Machine!Takes(o) = 2, NEW n \in Nat, Len(k) = n + 2,
         k[n + 1] = "class", k[n + 2] = "kept"
  PROVE  Agree(Machine!Execute(m, o, before), r,
               SubSeq(k, 1, Len(k) - Machine!Takes(o)) \o <<"kept">>)
<1> DEFINE top == SubSeq(m.stack, Len(m.stack) - 2 + 1, Len(m.stack))
           v == Machine!Product(o, top, before)
<1>1. o.op \in Machine!Producers
  BY DEF Machine!Producers
<1>2. /\ IsList(m.stack) /\ Len(m.stack) = n + 2 /\ Stacks(m.stack, r.stack, k)
  BY AgreeFacts DEF Agree
<1>3. /\ IsList(top) /\ Len(top) = 2
      /\ top[1] = m.stack[n + 1] /\ top[2] = m.stack[n + 2]
  <2>1. 2 <= Len(m.stack)
    BY <1>2
  <2>2. IsList(top) /\ Len(top) = 2 /\ \A j \in 1..2 : top[j] = m.stack[Len(m.stack) - 2 + j]
    BY <1>2, <2>1, ListTop
  <2>3. Len(m.stack) - 2 + 1 = n + 1 /\ Len(m.stack) - 2 + 2 = n + 2 /\ 1 \in 1..2 /\ 2 \in 1..2
    BY <1>2
  <2> HIDE DEF top
  <2> QED BY <2>2, <2>3
<1>4. top[1] = <<"class", WrapName, <<>>>>
  <2>1. n + 1 \in 1..Len(k)
    OBVIOUS
  <2>2. m.stack[n + 1] = <<"class", WrapName, <<>>>>
    BY <1>2, <2>1, StacksFacts
  <2> QED BY <1>3, <2>2
<1>5. Len(Tail(top)) = 1 /\ Tail(top)[1] = top[2]
  <2> HIDE DEF top
  <2> DEFINE V == {top[j] : j \in 1..Len(top)}
  <2>1. top \in Seq(V)
    BY <1>3, ListTyped
  <2> HIDE DEF V
  <2>2. top # <<>>
    <3>1. Len(<<>>) = 0 /\ Len(top) = 2
      BY <1>3, ListSmall
    <3> QED BY <3>1
  <2>3. Len(Tail(top)) = Len(top) - 1 /\ \A j \in 1..Len(Tail(top)) : Tail(top)[j] = top[j + 1]
    BY <2>1, <2>2, HeadTailProperties
  <2> DEFINE rest == Tail(top)
  <2> HIDE DEF rest
  <2>4. Len(rest) = Len(top) - 1 /\ \A j \in 1..Len(rest) : rest[j] = top[j + 1]
    BY <2>3 DEF rest
  <2>5. Len(rest) = 1 /\ rest[1] = top[2]
    BY <1>3, <2>4
  <2> QED BY <2>5 DEF rest
<1>6. v = m.stack[n + 2]
  <2> HIDE DEF top
  <2>1. v = Machine!CallProperty(top[1], o.arg, Tail(top))
    BY ProductOf
  <2>2. Machine!IsClass(top[1], WrapName)
    BY <1>4 DEF Machine!IsClass
  <2>3. ~Machine!InStatic(top[1], Consts, o.arg)
    BY <1>4, NotStatic
  <2>4. v = Tail(top)[1]
    BY <1>5, <2>1, <2>2, <2>3 DEF Machine!CallProperty
  <2> QED BY <1>3, <1>5, <2>4
<1>7. Stacks(SubSeq(m.stack, 1, n) \o <<v>>, r.stack, SubSeq(k, 1, n) \o <<"kept">>)
  <2>1. Stacks(SubSeq(m.stack, 1, n) \o <<m.stack[n + 2]>>, r.stack, SubSeq(k, 1, n) \o <<"kept">>)
    BY <1>2, StacksUnder
  <2> QED BY <1>6, <2>1
<1>8. /\ Len(m.stack) - Machine!Takes(o) = n /\ Len(k) - Machine!Takes(o) = n
      /\ Machine!Takes(o) \in Nat /\ Machine!Takes(o) <= Len(k)
  BY <1>2
<1>9. Stacks(SubSeq(m.stack, 1, Len(m.stack) - Machine!Takes(o)) \o <<v>>, r.stack,
             SubSeq(k, 1, Len(k) - Machine!Takes(o)) \o <<"kept">>)
  BY <1>7, <1>8
<1>10. v = Machine!Product(o, SubSeq(m.stack, Len(m.stack) - Machine!Takes(o) + 1, Len(m.stack)),
                           before)
  BY Zenon
<1> HIDE DEF v
<1> QED BY <1>1, <1>8, <1>9, <1>10, DroppedStep, Zenon

\* The call of a wrapper, which returns its argument.
LEMMA CallStep ==
  ASSUME NEW m, NEW r, NEW k, Agree(m, r, k), NEW o, NEW before,
         o.op = "call", Machine!Takes(o) = 3, NEW n \in Nat, Len(k) = n + 3,
         k[n + 1] = "wrapper", k[n + 2] = "scope", k[n + 3] = "kept"
  PROVE  Agree(Machine!Execute(m, o, before), r,
               SubSeq(k, 1, Len(k) - Machine!Takes(o)) \o <<"kept">>)
<1> DEFINE s == m.stack
           top == SubSeq(s, Len(s) - 3 + 1, Len(s))
           v == Machine!Product(o, top, before)
<1>1. o.op \in Machine!Producers
  BY DEF Machine!Producers
<1>2. /\ IsList(s) /\ IsList(k) /\ Len(s) = n + 3 /\ Stacks(s, r.stack, k)
  BY AgreeFacts DEF Agree
<1>3. /\ IsList(top) /\ Len(top) = 3
      /\ top[1] = s[n + 1] /\ top[3] = s[n + 3]
  <2>1. 3 <= Len(s)
    BY <1>2
  <2>2. IsList(top) /\ Len(top) = 3 /\ \A j \in 1..3 : top[j] = s[Len(s) - 3 + j]
    BY <1>2, <2>1, ListTop
  <2>3. Len(s) - 3 + 1 = n + 1 /\ Len(s) - 3 + 3 = n + 3 /\ 1 \in 1..3 /\ 3 \in 1..3
    BY <1>2
  <2> HIDE DEF top
  <2> QED BY <2>2, <2>3
<1>4. top[1][1] = "wrapper"
  <2>1. n + 1 \in 1..Len(k)
    OBVIOUS
  <2>2. s[n + 1][1] = "wrapper"
    BY <1>2, <2>1, StacksFacts
  <2> QED BY <1>3, <2>2
<1>5. v = s[n + 3]
  <2> HIDE DEF top
  <2> DEFINE actuals == SubSeq(top, 3, Len(top))
  <2>1. v = Machine!Call(top[1], top[2], actuals)
    BY ProductOf
  <2>2. Len(actuals) = 1 /\ actuals[1] = top[3]
    <3>1. /\ Len(SubSeq(top, 3, 3)) = 3 - 3 + 1
          /\ \A j \in 1..(3 - 3 + 1) : SubSeq(top, 3, 3)[j] = top[j + 3 - 1]
      BY <1>3, ListPart
    <3>2. actuals = SubSeq(top, 3, 3)
      BY <1>3
    <3> HIDE DEF actuals
    <3>3. Len(actuals) = 3 - 3 + 1 /\ \A j \in 1..(3 - 3 + 1) : actuals[j] = top[j + 3 - 1]
      BY <3>1, <3>2
    <3> QED BY <3>3
  <2> HIDE DEF actuals
  <2>3. v = actuals[1]
    BY <1>4, <2>1, <2>2 DEF Machine!Call
  <2> QED BY <1>3, <2>2, <2>3
<1> HIDE DEF v
<1> DEFINE s1 == SubSeq(s, 1, n + 1) \o <<v>>
           k1 == SubSeq(k, 1, n + 1) \o <<"kept">>
<1>6. Stacks(s1, r.stack, k1)
  <2>1. Len(k) = (n + 1) + 2 /\ (n + 1) + 1 = n + 2 /\ (n + 1) + 2 = n + 3 /\ n + 1 \in Nat
    OBVIOUS
  <2>2. k[(n + 1) + 1] # "kept" /\ k[(n + 1) + 2] = "kept"
    BY <2>1
  <2>3. Stacks(SubSeq(s, 1, n + 1) \o <<s[(n + 1) + 2]>>, r.stack,
               SubSeq(k, 1, n + 1) \o <<"kept">>)
    BY <1>2, <2>1, <2>2, StacksUnder
  <2> QED BY <1>5, <2>1, <2>3
<1>7. /\ IsList(SubSeq(s, 1, n + 1)) /\ Len(SubSeq(s, 1, n + 1)) = n + 1
      /\ IsList(SubSeq(k, 1, n + 1)) /\ Len(SubSeq(k, 1, n + 1)) = n + 1
      /\ SubSeq(k, 1, n + 1)[n + 1] = k[n + 1]
  <2> DEFINE a == n + 1
             p == SubSeq(s, 1, a)
             q == SubSeq(k, 1, a)
  <2>1. a \in Nat /\ a <= Len(s) /\ a <= Len(k) /\ 1 <= a + 1 /\ 1 \in Nat \ {0} /\ 1 <= a
    BY <1>2
  <2> HIDE DEF a
  <2>2. IsList(p) /\ Len(p) = a - 1 + 1
    BY <1>2, <2>1, ListPart
  <2>3. IsList(q) /\ Len(q) = a - 1 + 1 /\ \A j \in 1..(a - 1 + 1) : q[j] = k[j + 1 - 1]
    BY <1>2, <2>1, ListPart
  <2> HIDE DEF p, q
  <2>4. Len(p) = a /\ Len(q) = a /\ q[a] = k[a]
    BY <2>1, <2>2, <2>3
  <2> QED BY <2>2, <2>3, <2>4 DEF p, q, a
<1>8. Len(k1) = n + 2 /\ k1[n + 1] = "wrapper" /\ k1[n + 2] = "kept" /\ s1[n + 2] = v
  <2>1. /\ Len(k1) = Len(SubSeq(k, 1, n + 1)) + 1
        /\ k1[Len(SubSeq(k, 1, n + 1)) + 1] = "kept"
        /\ \A j \in 1..Len(SubSeq(k, 1, n + 1)) : k1[j] = SubSeq(k, 1, n + 1)[j]
    BY <1>7, ListPush
  <2>2. s1[Len(SubSeq(s, 1, n + 1)) + 1] = v
    BY <1>7, ListPush
  <2>3. n + 1 \in 1..(n + 1) /\ (n + 1) + 1 = n + 2
    OBVIOUS
  <2> HIDE DEF s1, k1
  <2> QED BY <1>7, <2>1, <2>2, <2>3
<1>9. SubSeq(s1, 1, n) = SubSeq(s, 1, n) /\ SubSeq(k1, 1, n) = SubSeq(k, 1, n)
  <2>1. n <= n + 1 /\ n + 1 \in Nat /\ n + 1 <= Len(s) /\ n + 1 <= Len(k)
    BY <1>2
  <2>2. SubSeq(s1, 1, n) = SubSeq(SubSeq(s, 1, n + 1), 1, n)
        /\ SubSeq(k1, 1, n) = SubSeq(SubSeq(k, 1, n + 1), 1, n)
    BY <1>7, <2>1, SliceOfPush
  <2> QED BY <1>2, <2>1, <2>2, SliceOfSlice
<1>10. Stacks(SubSeq(s, 1, n) \o <<v>>, r.stack, SubSeq(k, 1, n) \o <<"kept">>)
  <2> HIDE DEF s1, k1
  <2>1. k1[n + 1] # "kept"
    BY <1>8
  <2>2. Stacks(SubSeq(s1, 1, n) \o <<s1[n + 2]>>, r.stack, SubSeq(k1, 1, n) \o <<"kept">>)
    BY <1>6, <1>8, <2>1, StacksUnder
  <2> QED BY <1>8, <1>9, <2>2
<1>11. /\ Len(s) - Machine!Takes(o) = n /\ Len(k) - Machine!Takes(o) = n
       /\ Machine!Takes(o) \in Nat /\ Machine!Takes(o) <= Len(k)
  BY <1>2
<1>12. Stacks(SubSeq(s, 1, Len(s) - Machine!Takes(o)) \o <<v>>, r.stack,
              SubSeq(k, 1, Len(k) - Machine!Takes(o)) \o <<"kept">>)
  BY <1>10, <1>11
<1>13. v = Machine!Product(o, SubSeq(s, Len(s) - Machine!Takes(o) + 1, Len(s)), before)
  BY Zenon DEF v
<1> QED BY <1>1, <1>11, <1>12, <1>13, DroppedStep, Zenon

-----------------------------------------------------------------------------
(***************************************************************************)
(* The member access that is replaced.                                     *)
(***************************************************************************)
\* The instructions that unscramble() puts in the place of a member access.
Constants == {"pushint", "pushdouble", "pushstring", "pushtrue", "pushfalse"}

\* The member access and the constant in its place.
LEMMA ResolvedStep ==
  ASSUME NEW m, NEW r, NEW k, Agree(m, r, k), NEW o, NEW before, NEW p, NEW after,
         o.op \in Machine!Producers, Machine!Takes(o) = 1,
         NEW n \in Nat, Len(k) = n + 1, k[n + 1] # "kept",
         p.op \in Constants,
         \A top : Machine!Product(p, top, after)
                   = Machine!Product(o, SubSeq(m.stack, n + 1, n + 1), before)
  PROVE  Agree(Machine!Execute(m, o, before), Machine!Execute(r, p, after),
               SubSeq(k, 1, Len(k) - Machine!Takes(o)) \o <<"kept">>)
<1> DEFINE l == Len(r.stack)
           r1 == Machine!Execute(r, p, after)
           v == Machine!Product(o, SubSeq(m.stack, n + 1, n + 1), before)
<1>0. /\ v = Machine!Product(o, SubSeq(m.stack, n + 1, n + 1), before)
      /\ \A top : Machine!Product(p, top, after) = v
  OBVIOUS
<1> HIDE DEF v
<1>1. /\ Machine!Takes(p) = 0 /\ p.op \in Machine!Producers /\ p.op # "setlocal"
  BY DEF Machine!Takes, Machine!Producers, Constants
<1>2. /\ ~r.failed /\ r.locals = m.locals /\ IsList(r.stack) /\ l \in Nat
      /\ Len(m.stack) = n + 1 /\ Stacks(m.stack, r.stack, k)
  BY AgreeFacts DEF Agree
<1>3. r1 = [stack |-> r.stack \o <<v>>, locals |-> m.locals, failed |-> FALSE]
  <2> DEFINE t == Machine!Takes(p)
             top == SubSeq(r.stack, l - t + 1, l)
  <2>1. r1 = Executed(r, p, after, l - t, top)
    <3>1. Machine!Takes(p) \in Nat /\ Machine!Takes(p) <= Len(r.stack)
      BY <1>1, <1>2
    <3> QED BY <1>2, <3>1, ExecuteOf, Zenon
  <2>2. Machine!Leaves(p, top, after) = <<v>>
    BY <1>0, <1>1, Zenon DEF Machine!Leaves
  <2>3. SubSeq(r.stack, 1, l - t) = r.stack
    <3>1. l - t = l
      BY <1>1, <1>2
    <3> QED BY <1>2, <3>1, ListWhole
  <2> QED BY <1>1, <1>2, <2>1, <2>2, <2>3, Zenon DEF Executed
<1>4. Stacks(SubSeq(m.stack, 1, n), r.stack, SubSeq(k, 1, n))
  BY <1>2, StacksPopMark
<1>5. Stacks(SubSeq(m.stack, 1, n) \o <<v>>, IF "kept" = "kept" THEN r.stack \o <<v>> ELSE r.stack,
             SubSeq(k, 1, n) \o <<"kept">>)
  <2>1. "kept" # "class" /\ "kept" # "wrapper"
    OBVIOUS
  <2> QED BY <1>4, <2>1, StacksPush, Zenon
<1>6. /\ Len(m.stack) - Machine!Takes(o) = n /\ Len(k) - Machine!Takes(o) = n
      /\ Len(m.stack) - Machine!Takes(o) + 1 = n + 1
      /\ Machine!Takes(o) \in Nat /\ Machine!Takes(o) <= Len(k)
  BY <1>2
<1>7. r1 = [stack |-> r1.stack, locals |-> m.locals, failed |-> FALSE]
      /\ r1.stack = r.stack \o <<v>>
  <2> DEFINE stack == r.stack \o <<v>>
  <2> HIDE DEF r1, stack
  <2>1. r1 = [stack |-> stack, locals |-> m.locals, failed |-> FALSE]
    BY <1>3 DEF stack
  <2> QED BY <2>1 DEF stack
<1> HIDE DEF r1
<1>8. Stacks(SubSeq(m.stack, 1, Len(m.stack) - Machine!Takes(o)) \o <<v>>, r1.stack,
             SubSeq(k, 1, Len(k) - Machine!Takes(o)) \o <<"kept">>)
  BY <1>5, <1>6, <1>7
<1>9. v = Machine!Product(o, SubSeq(m.stack, Len(m.stack) - Machine!Takes(o) + 1, Len(m.stack)),
                          before)
  BY <1>0, <1>2, <1>6
<1>10. Agree(Machine!Execute(m, o, before), r1,
             SubSeq(k, 1, Len(k) - Machine!Takes(o)) \o <<"kept">>)
  BY <1>6, <1>7, <1>8, <1>9, ReadStep, Zenon
<1> QED BY <1>10 DEF r1

\* What the machine finds in a static class.
LEMMA StaticValue ==
  ASSUME NEW c, c \in DOMAIN Slots, WrapName \notin DOMAIN Slots,
         NEW object, object = <<"class", c, <<>>>>, NEW name, NEW pools
  PROVE  /\ name \in DOMAIN Slots[c] =>
              Machine!Get(object, name, pools) = Machine!SlotValue(c, name, pools)
         /\ name \in DOMAIN Consts[c] =>
              Machine!CallProperty(object, name, <<>>)
                = Machine!Const(Consts[c][name].double, Consts[c][name].value)
<1>1. ~Machine!IsClass(object, WrapName) /\ Machine!IsClass(object, c) /\ object[2] = c
  <2>1. object[2] = c
    OBVIOUS
  <2>2. ASSUME Machine!IsClass(object, WrapName) PROVE FALSE
    <3>1. object[2] = WrapName
      BY <2>2 DEF Machine!IsClass
    <3> QED BY <2>1, <3>1
  <2> QED BY <2>1, <2>2 DEF Machine!IsClass
<1>2. ASSUME name \in DOMAIN Slots[c]
      PROVE  Machine!Get(object, name, pools) = Machine!SlotValue(c, name, pools)
  <2>1. Machine!InStatic(object, Slots, name)
    BY <1>1, <1>2 DEF Machine!InStatic
  <2> QED BY <1>1, <2>1 DEF Machine!Get
<1>3. ASSUME name \in DOMAIN Consts[c]
      PROVE  Machine!CallProperty(object, name, <<>>)
               = Machine!Const(Consts[c][name].double, Consts[c][name].value)
  <2>1. Machine!InStatic(object, Consts, name)
    BY <1>1, <1>3, ClassesAssumption DEF Machine!InStatic
  <2> QED BY <1>1, <2>1 DEF Machine!CallProperty
<1> QED BY <1>2, <1>3

-----------------------------------------------------------------------------
(***************************************************************************)
(* The two recursive functions: Run, the machine, and Shape, the marks.    *)
(***************************************************************************)
\* The equation of Run's recursion.
Executes(run, code, k, pools) ==
  run = [i \in k..(Len(code) + 1) |->
           IF i = k THEN Machine!Started ELSE Machine!Execute(run[i - 1], code[i - 1], pools)]

\* It has a solution, built from the first instruction on.
LEMMA RunExists ==
  ASSUME NEW code, NEW k \in Nat, NEW pools, Len(code) \in Nat, k <= Len(code) + 1
  PROVE  \E run : Executes(run, code, k, pools)
<1> DEFINE n == Len(code) + 1
           Next1(run, i) == Machine!Execute(run[i - 1], code[i - 1], pools)
           Done(run, d) ==
             /\ DOMAIN run = k..n /\ run = [i \in k..n |-> run[i]] /\ run[k] = Machine!Started
             /\ \A i \in (k + 1)..n : i <= k + d => run[i] = Next1(run, i)
           T == {d \in Nat : k + d <= n => \E run : Done(run, d)}
<1>0. n \in Nat /\ k <= n
  OBVIOUS
<1> HIDE DEF n
<1>1. 0 \in T
  <2>1. Done([i \in k..n |-> Machine!Started], 0)
    BY <1>0
  <2> HIDE DEF Done
  <2> QED BY <2>1
<1>2. ASSUME NEW d \in Nat, d \in T PROVE d + 1 \in T
  <2> SUFFICES ASSUME k + (d + 1) <= n PROVE \E run : Done(run, d + 1)
    OBVIOUS
  <2>1. PICK run : Done(run, d)
    <3> HIDE DEF Done
    <3> QED BY <1>0, <1>2
  <2> DEFINE x == k + (d + 1)
             v == Next1(run, x)
             longer == [run EXCEPT ![x] = v]
  <2>2. x \in k..n /\ x # k /\ k \in k..n /\ x \in Nat
    BY <1>0
  <2> HIDE DEF v
  <2>3. /\ DOMAIN longer = k..n /\ longer = [i \in k..n |-> longer[i]]
        /\ longer[k] = Machine!Started /\ longer[x] = v
        /\ \A i \in k..n : i # x => longer[i] = run[i]
    BY <2>1, <2>2
  <2> HIDE DEF longer
  <2>4. ASSUME NEW i \in (k + 1)..n, i <= x PROVE longer[i] = Next1(longer, i)
    <3>1. i - 1 \in k..n /\ i - 1 # x /\ i \in k..n
      BY <1>0, <2>2, <2>4
    <3>2. longer[i - 1] = run[i - 1]
      BY <2>3, <3>1
    <3>3. Next1(longer, i) = Next1(run, i)
      BY <3>2
    <3>4. CASE i = x
      BY <2>3, <3>3, <3>4 DEF v
    <3>5. CASE i # x
      <4>1. i <= k + d
        BY <1>0, <2>4, <3>5
      <4>2. run[i] = Next1(run, i)
        BY <2>1, <4>1
      <4> QED BY <2>3, <3>1, <3>3, <3>5, <4>2
    <3> QED BY <3>4, <3>5
  <2>5. Done(longer, d + 1)
    BY <2>3, <2>4
  <2> HIDE DEF Done
  <2> QED BY <2>5
<1>3. n - k \in Nat /\ k + (n - k) = n
  BY <1>0
<1>4. n - k \in T
  <2> HIDE DEF T
  <2> QED BY <1>1, <1>2, <1>3, Induction
<1>5. PICK run : Done(run, n - k)
  <2> HIDE DEF Done
  <2> QED BY <1>0, <1>3, <1>4
<1>6. ASSUME NEW i \in k..n
      PROVE  run[i] = IF i = k THEN Machine!Started ELSE Next1(run, i)
  <2>1. CASE i = k
    BY <1>5, <2>1
  <2>2. CASE i # k
    <3>1. i \in (k + 1)..n /\ i <= k + (n - k)
      BY <1>0, <2>2
    <3>2. run[i] = Next1(run, i)
      BY <1>5, <3>1
    <3> QED BY <2>2, <3>2
  <2> QED BY <2>1, <2>2
<1>7. run = [i \in k..n |-> run[i]]
  BY <1>5
<1> HIDE DEF Done
<1>8. run = [i \in k..n |-> IF i = k THEN Machine!Started ELSE Next1(run, i)]
  BY <1>6, <1>7, Zenon
<1> QED BY <1>8 DEF Executes, n

\* The machine starts with an empty stack and executes one instruction after the other.
LEMMA RunEquation ==
  ASSUME NEW code, NEW k \in Nat, NEW pools, Len(code) \in Nat, k <= Len(code) + 1
  PROVE  /\ Machine!Run(code, k, pools)[k] = Machine!Started
         /\ \A i \in k..Len(code) :
              Machine!Run(code, k, pools)[i + 1]
                = Machine!Execute(Machine!Run(code, k, pools)[i], code[i], pools)
<1> DEFINE F == CHOOSE run : run = [i \in k..(Len(code) + 1) |->
                  IF i = k THEN Machine!Started
                  ELSE Machine!Execute(run[i - 1], code[i - 1], pools)]
<1>1. F = [i \in k..(Len(code) + 1) |->
             IF i = k THEN Machine!Started ELSE Machine!Execute(F[i - 1], code[i - 1], pools)]
  <2>1. PICK run : Executes(run, code, k, pools)
    BY RunExists
  <2>2. run = [i \in k..(Len(code) + 1) |->
                 IF i = k THEN Machine!Started
                 ELSE Machine!Execute(run[i - 1], code[i - 1], pools)]
    BY <2>1, Zenon DEF Executes
  <2> QED BY <2>2, Zenon
<1>2. Machine!Run(code, k, pools) = F
  BY DEF Machine!Run
<1> HIDE DEF F
<1>3. ASSUME NEW i \in k..(Len(code) + 1)
      PROVE  F[i] = IF i = k THEN Machine!Started
                    ELSE Machine!Execute(F[i - 1], code[i - 1], pools)
  BY <1>1, Zenon
<1>4. F[k] = Machine!Started
  <2>1. k \in k..(Len(code) + 1)
    OBVIOUS
  <2> QED BY <1>3, <2>1, Zenon
<1>5. ASSUME NEW i \in k..Len(code)
      PROVE  F[i + 1] = Machine!Execute(F[i], code[i], pools)
  <2>1. i + 1 \in k..(Len(code) + 1) /\ i + 1 # k /\ (i + 1) - 1 = i
    OBVIOUS
  <2>2. F[i + 1] = Machine!Execute(F[(i + 1) - 1], code[(i + 1) - 1], pools)
    BY <1>3, <2>1, Zenon
  <2> QED BY <2>1, <2>2
<1> QED BY <1>2, <1>4, <1>5

\* The equation of Shape's recursion.
Shapes(s) ==
  s = [i \in 1..(N + 1) |-> IF i = 1 THEN [open |-> 0, marks |-> <<>>]
                            ELSE ShapeAfter(s[i - 1], i - 1)]

\* It has a solution, built from the first instruction on.
LEMMA ShapeExists == \E s : Shapes(s)
<1> DEFINE first == [open |-> 0, marks |-> <<>>]
           n == N + 1
           Done(s, d) ==
             /\ DOMAIN s = 1..n /\ s = [i \in 1..n |-> s[i]] /\ s[1] = first
             /\ \A i \in 2..n : i <= 1 + d => s[i] = ShapeAfter(s[i - 1], i - 1)
           T == {d \in Nat : 1 + d <= n => \E s : Done(s, d)}
<1>0. n \in Nat /\ 1 <= n
  BY SizeAssumption
<1> HIDE DEF n, first
<1>1. 0 \in T
  <2>1. Done([i \in 1..n |-> first], 0)
    BY <1>0
  <2> HIDE DEF Done
  <2> QED BY <2>1
<1>2. ASSUME NEW d \in Nat, d \in T PROVE d + 1 \in T
  <2> SUFFICES ASSUME 1 + (d + 1) <= n PROVE \E s : Done(s, d + 1)
    OBVIOUS
  <2>1. PICK s : Done(s, d)
    <3> HIDE DEF Done
    <3> QED BY <1>0, <1>2
  <2> DEFINE x == 1 + (d + 1)
             v == ShapeAfter(s[x - 1], x - 1)
             longer == [s EXCEPT ![x] = v]
  <2>2. x \in 1..n /\ x # 1 /\ 1 \in 1..n /\ x \in Nat
    BY <1>0
  <2> HIDE DEF v
  <2>3. /\ DOMAIN longer = 1..n /\ longer = [i \in 1..n |-> longer[i]]
        /\ longer[1] = first /\ longer[x] = v
        /\ \A i \in 1..n : i # x => longer[i] = s[i]
    BY <2>1, <2>2
  <2> HIDE DEF longer
  <2>4. ASSUME NEW i \in 2..n, i <= x PROVE longer[i] = ShapeAfter(longer[i - 1], i - 1)
    <3>1. i - 1 \in 1..n /\ i - 1 # x /\ i \in 1..n
      BY <1>0, <2>2, <2>4
    <3>2. longer[i - 1] = s[i - 1]
      BY <2>3, <3>1
    <3>4. CASE i = x
      BY <2>3, <3>2, <3>4 DEF v
    <3>5. CASE i # x
      <4>1. i <= 1 + d
        BY <1>0, <2>4, <3>5
      <4>2. s[i] = ShapeAfter(s[i - 1], i - 1)
        BY <2>1, <4>1
      <4> QED BY <2>3, <3>1, <3>2, <3>5, <4>2
    <3> QED BY <3>4, <3>5
  <2>5. Done(longer, d + 1)
    BY <2>3, <2>4
  <2> HIDE DEF Done
  <2> QED BY <2>5
<1>3. n - 1 \in Nat /\ 1 + (n - 1) = n
  BY <1>0
<1>4. n - 1 \in T
  <2> HIDE DEF T
  <2> QED BY <1>1, <1>2, <1>3, Induction
<1>5. PICK s : Done(s, n - 1)
  <2> HIDE DEF Done
  <2> QED BY <1>0, <1>3, <1>4
<1>6. ASSUME NEW i \in 1..n
      PROVE  s[i] = IF i = 1 THEN first ELSE ShapeAfter(s[i - 1], i - 1)
  <2>1. CASE i = 1
    BY <1>5, <2>1
  <2>2. CASE i # 1
    <3>1. i \in 2..n /\ i <= 1 + (n - 1)
      BY <1>0, <2>2
    <3> QED BY <1>5, <2>2, <3>1
  <2> QED BY <2>1, <2>2
<1>7. s = [i \in 1..n |-> s[i]]
  BY <1>5
<1> HIDE DEF Done
<1>8. s = [i \in 1..n |-> IF i = 1 THEN first ELSE ShapeAfter(s[i - 1], i - 1)]
  BY <1>6, <1>7, Zenon
<1> QED BY <1>8 DEF Shapes, n, first

\* Shape starts with an empty stack and goes on as ShapeAfter says.
LEMMA ShapeEquation ==
  /\ Shape[1] = [open |-> 0, marks |-> <<>>]
  /\ \A i \in Ins : Shape[i + 1] = ShapeAfter(Shape[i], i)
<1> DEFINE F == CHOOSE s : s = [i \in 1..(N + 1) |->
                  IF i = 1 THEN [open |-> 0, marks |-> <<>>] ELSE ShapeAfter(s[i - 1], i - 1)]
<1>1. F = [i \in 1..(N + 1) |->
             IF i = 1 THEN [open |-> 0, marks |-> <<>>] ELSE ShapeAfter(F[i - 1], i - 1)]
  <2>1. PICK s : Shapes(s)
    BY ShapeExists
  <2>2. s = [i \in 1..(N + 1) |->
                 IF i = 1 THEN [open |-> 0, marks |-> <<>>] ELSE ShapeAfter(s[i - 1], i - 1)]
    BY <2>1, Zenon DEF Shapes
  <2> QED BY <2>2, Zenon
<1>2. Shape = F
  BY DEF Shape
<1> HIDE DEF F
<1>3. ASSUME NEW i \in 1..(N + 1)
      PROVE  F[i] = IF i = 1 THEN [open |-> 0, marks |-> <<>>] ELSE ShapeAfter(F[i - 1], i - 1)
  BY <1>1, Zenon
<1>4. F[1] = [open |-> 0, marks |-> <<>>]
  <2>1. 1 \in 1..(N + 1)
    BY SizeAssumption
  <2> QED BY <1>3, <2>1, Zenon
<1>5. ASSUME NEW i \in Ins PROVE F[i + 1] = ShapeAfter(F[i], i)
  <2>1. i + 1 \in 1..(N + 1) /\ i + 1 # 1 /\ (i + 1) - 1 = i
    BY SizeAssumption DEF Ins
  <2>2. F[i + 1] = ShapeAfter(F[(i + 1) - 1], (i + 1) - 1)
    BY <1>3, <2>1, Zenon
  <2> QED BY <2>1, <2>2
<1> QED BY <1>2, <1>4, <1>5

-----------------------------------------------------------------------------
(***************************************************************************)
(* What the pass loads in the place of a member access.                    *)
(***************************************************************************)
\* The cursor, N + 1 once it is past the last instruction.
Place == IF ins = Null THEN N + 1 ELSE ins

\* What the member access i has become, o.
Loads(i, o) ==
  LET member == orig[i].arg
      const  == Consts[orig[i-1].arg][member]
  IN IF orig[i].op = "getproperty" THEN o = SlotLoad(Slots[orig[i-1].arg][member], orig[i])
     ELSE IF const.double
          THEN /\ o.op = "pushdouble" /\ o.arg + 1 \in DOMAIN doubles
               /\ doubles[o.arg + 1] = const.value
          ELSE /\ o.op = "pushint" /\ o.arg + 1 \in DOMAIN ints
               /\ ints[o.arg + 1] = const.value

\* The pair a resolved member access is of.
LEMMA ResolvedFacts ==
  ASSUME NEW i \in 1..(N + 1), Resolved(i)
  PROVE  /\ i \in Ins /\ i - 1 \in Ins /\ orig[i - 1].op = "getlex" /\ orig[i - 1].arg \in DOMAIN Slots
         /\ \/ orig[i].op = "getproperty" /\ orig[i].arg \in DOMAIN Slots[orig[i - 1].arg]
            \/ orig[i].op = "callproperty" /\ orig[i].arg \in DOMAIN Consts[orig[i - 1].arg]
<1>1. (i - 1) + 1 = i /\ i > 1 /\ i - 1 < N /\ PairAt(i - 1)
  BY SizeAssumption DEF Resolved, PairAt
<1>2. i \in Ins /\ i - 1 \in Ins
  BY <1>1, SizeAssumption DEF Ins
<1> QED BY <1>1, <1>2 DEF PairAt

\* The constant for each kind of slot, one implication per kind.
LEMMA SlotLoadOf ==
  ASSUME NEW slot, NEW default
  PROVE  LET p == SlotLoad(slot, default)
         IN /\ slot.kind = 1  => p = [op |-> "pushstring", arg |-> slot.index, argc |-> 0]
            /\ slot.kind = 6  => p = [op |-> "pushdouble", arg |-> slot.index, argc |-> 0]
            /\ slot.kind = 10 => p = [op |-> "pushfalse", arg |-> 0, argc |-> 0]
            /\ slot.kind = 11 => p = [op |-> "pushtrue", arg |-> 0, argc |-> 0]
<1> DEFINE p == SlotLoad(slot, default)
<1>1. p = CASE slot.kind = 1  -> [op |-> "pushstring", arg |-> slot.index, argc |-> 0]
            [] slot.kind = 6  -> [op |-> "pushdouble", arg |-> slot.index, argc |-> 0]
            [] slot.kind = 10 -> [op |-> "pushfalse", arg |-> 0, argc |-> 0]
            [] slot.kind = 11 -> [op |-> "pushtrue", arg |-> 0, argc |-> 0]
            [] OTHER -> default
  BY DEF SlotLoad
<1> HIDE DEF p
<1>2. ASSUME slot.kind = 1 PROVE p = [op |-> "pushstring", arg |-> slot.index, argc |-> 0]
  BY <1>1, <1>2
<1>3. ASSUME slot.kind = 6 PROVE p = [op |-> "pushdouble", arg |-> slot.index, argc |-> 0]
  BY <1>1, <1>3
<1>4. ASSUME slot.kind = 10 PROVE p = [op |-> "pushfalse", arg |-> 0, argc |-> 0]
  BY <1>1, <1>4
<1>5. ASSUME slot.kind = 11 PROVE p = [op |-> "pushtrue", arg |-> 0, argc |-> 0]
  BY <1>1, <1>5
<1> QED BY <1>2, <1>3, <1>4, <1>5 DEF p

\* The constant in the place of a slot is the value the slot is initialised with.
LEMMA SlotLoadValue ==
  ASSUME PoolsGrown, IndicesRight, NEW c \in DOMAIN Slots, NEW n \in DOMAIN Slots[c], NEW default
  PROVE  LET p == SlotLoad(Slots[c][n], default)
         IN /\ p.op \in Constants
            /\ \A top : Machine!Product(p, top, PoolsAfter) = Machine!SlotValue(c, n, PoolsBefore)
<1> DEFINE slot == Slots[c][n]
           p == SlotLoad(slot, default)
           v == Machine!SlotValue(c, n, PoolsBefore)
<1>1. /\ slot.kind = 1 \/ slot.kind = 6 \/ slot.kind = 10 \/ slot.kind = 11
      /\ slot.kind = 6 => slot.index + 1 \in DOMAIN DoublePool
  BY DEF IndicesRight
<1>2. /\ slot.kind = 1  => v = <<"value", "string", slot.index>>
      /\ slot.kind = 6  => v = Machine!Pooled(TRUE, PoolsBefore.doubles, slot.index)
      /\ slot.kind = 10 => v = <<"value", "false", 0>>
      /\ slot.kind = 11 => v = <<"value", "true", 0>>
  BY SlotValueOf, Zenon
<1>3. /\ slot.kind = 1  => p = [op |-> "pushstring", arg |-> slot.index, argc |-> 0]
      /\ slot.kind = 6  => p = [op |-> "pushdouble", arg |-> slot.index, argc |-> 0]
      /\ slot.kind = 10 => p = [op |-> "pushfalse", arg |-> 0, argc |-> 0]
      /\ slot.kind = 11 => p = [op |-> "pushtrue", arg |-> 0, argc |-> 0]
  BY SlotLoadOf, Zenon
<1> HIDE DEF slot, v, p
<1>4. ASSUME NEW top
      PROVE  /\ p.op = "pushdouble" => Machine!Product(p, top, PoolsAfter)
                                         = Machine!Pooled(TRUE, PoolsAfter.doubles, p.arg)
             /\ p.op = "pushstring" => Machine!Product(p, top, PoolsAfter) = <<"value", "string", p.arg>>
             /\ p.op = "pushtrue" => Machine!Product(p, top, PoolsAfter) = <<"value", "true", 0>>
             /\ p.op = "pushfalse" => Machine!Product(p, top, PoolsAfter) = <<"value", "false", 0>>
  BY ProductOf, Zenon
<1>5. ASSUME slot.kind = 1
      PROVE  p.op \in Constants /\ \A top : Machine!Product(p, top, PoolsAfter) = v
  <2>1. p.op = "pushstring" /\ p.arg = slot.index /\ v = <<"value", "string", slot.index>>
    BY <1>2, <1>3, <1>5
  <2> QED BY <1>4, <2>1 DEF Constants
<1>6. ASSUME slot.kind = 6
      PROVE  p.op \in Constants /\ \A top : Machine!Product(p, top, PoolsAfter) = v
  <2>1. p.op = "pushdouble" /\ p.arg = slot.index
        /\ v = Machine!Pooled(TRUE, PoolsBefore.doubles, slot.index)
    BY <1>2, <1>3, <1>6
  <2>2. v = Machine!Pooled(TRUE, PoolsAfter.doubles, slot.index)
    BY <1>1, <1>6, <2>1, PooledSame
  <2> QED BY <1>4, <2>1, <2>2 DEF Constants
<1>7. ASSUME slot.kind = 10
      PROVE  p.op \in Constants /\ \A top : Machine!Product(p, top, PoolsAfter) = v
  <2>1. p.op = "pushfalse" /\ v = <<"value", "false", 0>>
    BY <1>2, <1>3, <1>7
  <2> QED BY <1>4, <2>1 DEF Constants
<1>8. ASSUME slot.kind = 11
      PROVE  p.op \in Constants /\ \A top : Machine!Product(p, top, PoolsAfter) = v
  <2>1. p.op = "pushtrue" /\ v = <<"value", "true", 0>>
    BY <1>2, <1>3, <1>8
  <2> QED BY <1>4, <2>1 DEF Constants
<1>9. p.op \in Constants /\ \A top : Machine!Product(p, top, PoolsAfter) = v
  BY <1>1, <1>5, <1>6, <1>7, <1>8
<1> QED BY <1>9 DEF p, v, slot

\* The one actual of a list of one is the receiver.
LEMMA NoActuals == \A s : IsList(s) /\ Len(s) = 1 => Tail(s) = <<>>
<1> SUFFICES ASSUME NEW s, IsList(s), Len(s) = 1 PROVE Tail(s) = <<>>
  OBVIOUS
<1> DEFINE V == {s[j] : j \in 1..Len(s)}
<1>1. s \in Seq(V)
  BY ListTyped
<1> HIDE DEF V
<1>2. s # <<>>
  OBVIOUS
<1>3. Tail(s) \in Seq(V) /\ Len(Tail(s)) = Len(s) - 1
  BY <1>1, <1>2, HeadTailProperties
<1> DEFINE rest == Tail(s)
<1> HIDE DEF rest
<1>4. rest \in Seq(V) /\ Len(rest) = 0
  BY <1>3 DEF rest
<1>5. rest = <<>>
  BY <1>4
<1> QED BY <1>5 DEF rest

\* The instruction in the place of the access to a member of a static class
\* pushes what the access returned.
LEMMA LoadValue ==
  ASSUME PoolsGrown, IndicesRight, WrapName \notin DOMAIN Slots,
         NEW i \in Ins, Resolved(i), NEW p, Loads(i, p),
         NEW operands, IsList(operands), Len(operands) = 1,
         operands[1] = <<"class", orig[i - 1].arg, <<>>>>
  PROVE  /\ p.op \in Constants
         /\ \A top : Machine!Product(p, top, PoolsAfter)
                       = Machine!Product(orig[i], operands, PoolsBefore)
<1> DEFINE c == orig[i - 1].arg
           name == orig[i].arg
           const == Consts[c][name]
           object == operands[1]
           v == Machine!Product(orig[i], operands, PoolsBefore)
<1>1. /\ c \in DOMAIN Slots
      /\ \/ orig[i].op = "getproperty" /\ name \in DOMAIN Slots[c]
         \/ orig[i].op = "callproperty" /\ name \in DOMAIN Consts[c]
  BY ResolvedFacts, SizeAssumption DEF Ins
<1>2. CASE orig[i].op = "getproperty" /\ name \in DOMAIN Slots[c]
  <2>1. p = SlotLoad(Slots[c][name], orig[i])
    BY <1>2 DEF Loads
  <2>2. v = Machine!Get(object, name, PoolsBefore)
    <3>1. orig[i].op = "getproperty"
      BY <1>2
    <3> QED BY <3>1, GetProduct, Zenon
  <2>3. Machine!Get(object, name, PoolsBefore) = Machine!SlotValue(c, name, PoolsBefore)
    BY <1>1, <1>2, StaticValue
  <2>4. /\ p.op \in Constants
        /\ \A top : Machine!Product(p, top, PoolsAfter) = Machine!SlotValue(c, name, PoolsBefore)
    BY <1>1, <1>2, <2>1, SlotLoadValue, Zenon
  <2> QED BY <2>2, <2>3, <2>4, Zenon
<1>3. CASE orig[i].op = "callproperty" /\ name \in DOMAIN Consts[c]
  <2>1. v = Machine!CallProperty(object, name, Tail(operands))
    <3>1. orig[i].op = "callproperty"
      BY <1>3
    <3> QED BY <3>1, CallProduct, Zenon
  <2>2. Tail(operands) = <<>>
    BY NoActuals
  <2>3. Machine!CallProperty(object, name, <<>>) = Machine!Const(const.double, const.value)
    BY <1>1, <1>3, StaticValue
  <2>4. v = Machine!Const(const.double, const.value)
    BY <2>1, <2>2, <2>3
  <2>5. /\ const.double => /\ p.op = "pushdouble" /\ p.arg + 1 \in DOMAIN doubles
                           /\ doubles[p.arg + 1] = const.value
        /\ ~const.double => /\ p.op = "pushint" /\ p.arg + 1 \in DOMAIN ints
                            /\ ints[p.arg + 1] = const.value
    BY <1>3 DEF Loads
  <2> HIDE DEF v, const
  <2>6. CASE const.double
    <3>1. Machine!Pooled(TRUE, PoolsAfter.doubles, p.arg) = Machine!Const(TRUE, const.value)
      BY <2>5, <2>6 DEF Machine!Pooled, PoolsAfter
    <3>2. \A top : Machine!Product(p, top, PoolsAfter) = Machine!Pooled(TRUE, PoolsAfter.doubles, p.arg)
      BY <2>5, <2>6, ProductOf
    <3>3. Machine!Const(const.double, const.value) = Machine!Const(TRUE, const.value)
      BY <2>6 DEF Machine!Const
    <3> QED BY <2>4, <2>5, <2>6, <3>1, <3>2, <3>3 DEF Constants, v
  <2>7. CASE ~const.double
    <3>1. Machine!Pooled(FALSE, PoolsAfter.ints, p.arg) = Machine!Const(FALSE, const.value)
      BY <2>5, <2>7 DEF Machine!Pooled, PoolsAfter
    <3>2. \A top : Machine!Product(p, top, PoolsAfter) = Machine!Pooled(FALSE, PoolsAfter.ints, p.arg)
      BY <2>5, <2>7, ProductOf
    <3>3. Machine!Const(const.double, const.value) = Machine!Const(FALSE, const.value)
      BY <2>7 DEF Machine!Const
    <3> QED BY <2>4, <2>5, <2>7, <3>1, <3>2, <3>3 DEF Constants, v
  <2> QED BY <2>6, <2>7
<1> QED BY <1>1, <1>2, <1>3

-----------------------------------------------------------------------------
(***************************************************************************)
(* An instruction of the method, in whichever of these ways it is treated. *)
(***************************************************************************)
\* The operands found, one case at a time.
LEMMA OperandsFound ==
  ASSUME NEW i \in Ins, NEW s, OperandsRight(i, s)
  PROVE  LET n   == Len(s.marks) - Machine!Takes(orig[i])
             top == SubSeq(s.marks, n + 1, Len(s.marks))
         IN /\ n >= 0
            /\ Resolved(i) => top = <<"static">>
            /\ WrapAt(i, "getproperty") => top = <<"class">>
            /\ WrapAt(i, "callproperty") => top = <<"class", "kept">>
            /\ CallAt(i, s.open, "call") => top = <<"wrapper", "scope", "kept">>
            /\ \/ Resolved(i) \/ CallAt(i, s.open, "call")
               \/ \E op \in {"getproperty", "callproperty"} : WrapAt(i, op)
               \/ \A j \in DOMAIN top : top[j] = "kept"
<1> DEFINE n   == Len(s.marks) - Machine!Takes(orig[i])
           top == SubSeq(s.marks, n + 1, Len(s.marks))
<1>1. /\ n >= 0
      /\ CASE Resolved(i)                -> top = <<"static">>
           [] WrapAt(i, "getproperty")   -> top = <<"class">>
           [] WrapAt(i, "callproperty")  -> top = <<"class", "kept">>
           [] CallAt(i, s.open, "call")  -> top = <<"wrapper", "scope", "kept">>
           [] OTHER -> \A j \in DOMAIN top : top[j] = "kept"
  BY DEF OperandsRight
<1>2. /\ WrapAt(i, "getproperty") => ~Resolved(i)
      /\ WrapAt(i, "callproperty") => ~Resolved(i) /\ ~WrapAt(i, "getproperty")
      /\ CallAt(i, s.open, "call") =>
           ~WrapAt(i, "getproperty") /\ ~WrapAt(i, "callproperty") /\ ~Resolved(i)
  <2>1. Resolved(i) => orig[i].op # "call"
    BY ResolvedFacts, SizeAssumption DEF Ins
  <2> QED BY <2>1 DEF WrapAt, CallAt
<1> HIDE DEF n, top
<1>3. n >= 0
  BY <1>1
<1>4. ASSUME Resolved(i) PROVE top = <<"static">>
  BY <1>1, <1>2, <1>4
<1>5. ASSUME WrapAt(i, "getproperty") PROVE top = <<"class">>
  BY <1>1, <1>2, <1>5
<1>6. ASSUME WrapAt(i, "callproperty") PROVE top = <<"class", "kept">>
  BY <1>1, <1>2, <1>6
<1>7. ASSUME CallAt(i, s.open, "call") PROVE top = <<"wrapper", "scope", "kept">>
  BY <1>1, <1>2, <1>7
<1>8. \/ Resolved(i) \/ CallAt(i, s.open, "call")
      \/ \E op \in {"getproperty", "callproperty"} : WrapAt(i, op)
      \/ \A j \in DOMAIN top : top[j] = "kept"
  BY <1>1
<1> QED BY <1>3, <1>4, <1>5, <1>6, <1>7, <1>8 DEF n, top

\* The marks, one implication per case.
LEMMA MarkFound ==
  ASSUME NEW i, NEW open
  PROVE  LET x == MarkOf(i, open)
         IN /\ PairAt(i) => x = "static"
            /\ WrapClassAt(i) => x = "class"
            /\ WrapAt(i, "getproperty") => x = "wrapper"
            /\ CallAt(i, open, "getglobalscope") => x = "scope"
            /\ \/ PairAt(i) \/ WrapClassAt(i) \/ WrapAt(i, "getproperty")
               \/ CallAt(i, open, "getglobalscope") \/ x = "kept"
<1>1. /\ WrapClassAt(i) => ~PairAt(i)
      /\ WrapAt(i, "getproperty") => ~PairAt(i) /\ ~WrapClassAt(i)
      /\ CallAt(i, open, "getglobalscope") =>
           ~PairAt(i) /\ ~WrapClassAt(i) /\ ~WrapAt(i, "getproperty")
  BY DEF PairAt, WrapClassAt, WrapAt, CallAt
<1> QED BY <1>1 DEF MarkOf

\* What an instruction leaves is on top of the stack.
LEMMA PushedTop ==
  ASSUME NEW m, NEW r, NEW k, Agree(m, r, k), NEW o, NEW pools, o.op \in Machine!Producers,
         Machine!Takes(o) \in Nat, Machine!Takes(o) <= Len(k)
  PROVE  \E a, s : /\ s = Machine!Execute(m, o, pools).stack
                   /\ s[Len(s)] = Machine!Product(o, a, pools)
<1> DEFINE n == Len(m.stack)
           below == n - Machine!Takes(o)
           top == SubSeq(m.stack, below + 1, n)
           under == SubSeq(m.stack, 1, below)
           v == Machine!Product(o, top, pools)
<1>1. ~m.failed /\ n = Len(k) /\ n \in Nat /\ IsList(m.stack)
  BY AgreeFacts
<1>2. Machine!Execute(m, o, pools) = Executed(m, o, pools, below, top)
  BY <1>1, ExecuteOf, Zenon
<1>3. Machine!Execute(m, o, pools).stack = under \o <<v>>
  <2>1. Machine!Leaves(o, top, pools) = <<v>>
    BY Zenon DEF Machine!Leaves
  <2> HIDE DEF top, under, v
  <2>2. Executed(m, o, pools, below, top).stack
          = SubSeq(m.stack, 1, below) \o Machine!Leaves(o, top, pools)
    BY DEF Executed
  <2> QED BY <1>2, <2>1, <2>2 DEF under
<1>4. IsList(under)
  <2>1. below \in Nat /\ below <= n /\ 1 <= below + 1 /\ 1 \in Nat \ {0}
    BY <1>1
  <2> HIDE DEF below
  <2> QED BY <1>1, <2>1, ListPart
<1> HIDE DEF under, v
<1>5. (under \o <<v>>)[Len(under \o <<v>>)] = v
  <2>1. Len(under \o <<v>>) = Len(under) + 1 /\ (under \o <<v>>)[Len(under) + 1] = v
    BY <1>4, ListPush
  <2> QED BY <2>1
<1>6. /\ under \o <<v>> = Machine!Execute(m, o, pools).stack
      /\ (under \o <<v>>)[Len(under \o <<v>>)] = Machine!Product(o, top, pools)
  <2>1. under \o <<v>> = Machine!Execute(m, o, pools).stack
    BY <1>3
  <2>2. v = Machine!Product(o, top, pools)
    BY DEF v
  <2> QED BY <1>5, <2>1, <2>2
<1> WITNESS top, under \o <<v>>
<1> QED BY <1>6

\* After a getlex it is the class.
LEMMA PushedClass ==
  ASSUME NEW m, NEW r, NEW k, Agree(m, r, k), NEW o, NEW pools, o.op \in Machine!Producers,
         Machine!Takes(o) \in Nat, Machine!Takes(o) <= Len(k),
         NEW after, after = Machine!Execute(m, o, pools)
  PROVE  o.op = "getlex" => after.stack[Len(after.stack)] = <<"class", o.arg, <<>>>>
<1>1. PICK a, s : /\ s = Machine!Execute(m, o, pools).stack
                  /\ s[Len(s)] = Machine!Product(o, a, pools)
  BY PushedTop
<1>2. s = after.stack
  BY <1>1, Zenon
<1> HAVE o.op = "getlex"
<1>3. Machine!Product(o, a, pools) = <<"class", o.arg, <<>>>>
  BY LexProduct, Zenon
<1> QED BY <1>1, <1>2, <1>3, Zenon

\* Both machines before instruction i: what the stacks hold is what Shape
\* says, the class of a pair included.
Simulates(m, r, i) ==
  /\ Agree(m, r, Shape[i].marks)
  /\ Resolved(i) => m.stack[Len(m.stack)] = <<"class", orig[i - 1].arg, <<>>>>

\* The marks on top are all kept.
LEMMA AllKept ==
  ASSUME NEW k, IsList(k), NEW t \in Nat, t <= Len(k),
         LET top == SubSeq(k, Len(k) - t + 1, Len(k))
         IN \A j \in DOMAIN top : top[j] = "kept"
  PROVE  \A j \in (Len(k) - t + 1)..Len(k) : k[j] = "kept"
<1> DEFINE n == Len(k)
           top == SubSeq(k, n - t + 1, n)
<1>1. n \in Nat /\ IsList(top) /\ Len(top) = t /\ \A j \in 1..t : top[j] = k[n - t + j]
  BY ListTop DEF IsList
<1>2. \A j \in DOMAIN top : top[j] = "kept"
  OBVIOUS
<1> HIDE DEF top, n
<1>3. DOMAIN top = 1..t
  BY <1>1 DEF IsList
<1>4. ASSUME NEW j \in (n - t + 1)..n PROVE k[j] = "kept"
  <2>1. j - (n - t) \in 1..t /\ n - t + (j - (n - t)) = j
    BY <1>1
  <2> QED BY <1>1, <1>2, <1>3, <2>1
<1> QED BY <1>4 DEF n

\* The marks behind an instruction.
LEMMA MarksAfter ==
  ASSUME NEW s, NEW i
  PROVE  ShapeAfter(s, i).marks =
           SubSeq(s.marks, 1, Len(s.marks) - Machine!Takes(orig[i]))
             \o (IF orig[i].op \in Machine!Producers THEN <<MarkOf(i, s.open)>> ELSE <<>>)
  BY DEF ShapeAfter

\* Whatever unscramble() made of an instruction, removed, replaced or left alone,
\* both machines agree behind it when they agreed before it.
LEMMA InstructionStep ==
  ASSUME PoolsGrown, WellMade, orig \in Methods, NEW i \in Ins,
         NEW m, NEW r, Simulates(m, r, i),
         NEW p, IF Resolved(i) THEN Loads(i, p) ELSE p = orig[i]
  PROVE  Simulates(Machine!Execute(m, orig[i], PoolsBefore),
                   IF Gone(i) THEN r ELSE Machine!Execute(r, p, PoolsAfter), i + 1)
<1> DEFINE o == orig[i]
           k == Shape[i].marks
           open == Shape[i].open
           x == MarkOf(i, open)
           m1 == Machine!Execute(m, o, PoolsBefore)
           r1 == Machine!Execute(r, p, PoolsAfter)
           top == SubSeq(k, Len(k) - Machine!Takes(o) + 1, Len(k))
           k0 == SubSeq(k, 1, Len(k) - Machine!Takes(o))
           k1 == k0 \o (IF o.op \in Machine!Producers THEN <<x>> ELSE <<>>)
<1>1. /\ WrapName \notin DOMAIN Slots /\ IndicesRight /\ OperandsRight(i, Shape[i])
      /\ Agree(m, r, k) /\ Machine!Takes(o) \in Nat
  <2>1. o.argc \in Nat
    BY CodeAssumption
  <2> QED BY <2>1, TakesNat DEF WellMade, Simulates
<1>2. /\ IsList(m.stack) /\ IsList(k) /\ Len(m.stack) = Len(k) /\ Len(k) \in Nat
      /\ Stacks(m.stack, r.stack, k)
  BY <1>1, AgreeFacts DEF Agree
<1>3. Shape[i + 1].marks = k1
  <2>1. Shape[i + 1] = ShapeAfter(Shape[i], i)
    BY ShapeEquation
  <2> QED BY <2>1, MarksAfter
<1>4. /\ Machine!Takes(o) <= Len(k)
      /\ Resolved(i) => top = <<"static">>
      /\ WrapAt(i, "getproperty") => top = <<"class">>
      /\ WrapAt(i, "callproperty") => top = <<"class", "kept">>
      /\ CallAt(i, open, "call") => top = <<"wrapper", "scope", "kept">>
      /\ \/ Resolved(i) \/ CallAt(i, open, "call")
         \/ \E op \in {"getproperty", "callproperty"} : WrapAt(i, op)
         \/ \A j \in DOMAIN top : top[j] = "kept"
  <2>1. Len(k) - Machine!Takes(o) >= 0
    BY <1>1, OperandsFound
  <2>2. Machine!Takes(o) <= Len(k)
    BY <1>1, <1>2, <2>1
  <2> QED BY <1>1, <2>2, OperandsFound, Zenon
<1> HIDE DEF top
<1>5. \A a, b, c :
        /\ top = <<a>>       => Machine!Takes(o) = 1 /\ k[Len(k)] = a
        /\ top = <<a, b>>    => Machine!Takes(o) = 2 /\ k[Len(k) - 1] = a /\ k[Len(k)] = b
        /\ top = <<a, b, c>> => /\ Machine!Takes(o) = 3
                                /\ k[Len(k) - 2] = a /\ k[Len(k) - 1] = b /\ k[Len(k)] = c
  <2> TAKE a, b, c
  <2> DEFINE t == Machine!Takes(o)
             last == SubSeq(k, Len(k) - t + 1, Len(k))
  <2>1. t \in Nat /\ t <= Len(k) /\ IsList(k)
    BY <1>1, <1>2, <1>4
  <2> HIDE DEF k, t
  <2>2. /\ last = <<a>>       => t = 1 /\ k[Len(k)] = a
        /\ last = <<a, b>>    => t = 2 /\ k[Len(k) - 1] = a /\ k[Len(k)] = b
        /\ last = <<a, b, c>> => t = 3 /\ k[Len(k) - 2] = a /\ k[Len(k) - 1] = b /\ k[Len(k)] = c
    BY <2>1, TopMarks
  <2>3. top = last
    BY DEF top, t
  <2> HIDE DEF last
  <2> QED BY <2>2, <2>3 DEF t
<1>6. /\ PairAt(i) => x = "static"
      /\ WrapClassAt(i) => x = "class"
      /\ WrapAt(i, "getproperty") => x = "wrapper"
      /\ CallAt(i, open, "getglobalscope") => x = "scope"
      /\ \/ PairAt(i) \/ WrapClassAt(i) \/ WrapAt(i, "getproperty")
         \/ CallAt(i, open, "getglobalscope") \/ x = "kept"
  BY MarkFound, Zenon
<1>7. Gone(i) <=> \/ PairAt(i) \/ WrapClassAt(i)
                  \/ WrapAt(i, "getproperty") \/ WrapAt(i, "callproperty")
                  \/ CallAt(i, open, "call") \/ CallAt(i, open, "getglobalscope")
  BY DEF Gone
<1> HIDE DEF k, open, x, top, m1, r1
<1>8. ASSUME PairAt(i) \/ WrapClassAt(i) \/ CallAt(i, open, "getglobalscope")
      PROVE  Agree(m1, r, k1)
  <2>1. o.op \in {"getlex", "getglobalscope"}
    BY <1>8 DEF PairAt, WrapClassAt, CallAt
  <2>2. x # "kept" /\ x # "wrapper" /\ (x = "class" => o.op = "getlex" /\ o.arg = WrapName)
    <3>1. CASE PairAt(i)
      BY <1>6, <3>1
    <3>2. CASE WrapClassAt(i)
      BY <1>6, <3>2 DEF WrapClassAt
    <3>3. CASE CallAt(i, open, "getglobalscope")
      BY <1>6, <3>3
    <3> QED BY <1>8, <3>1, <3>2, <3>3
  <2>3. Agree(m1, r, k0 \o <<x>>)
    <3> HIDE DEF o
    <3> QED BY <1>1, <2>1, <2>2, PushStep DEF m1
  <2>4. o.op \in Machine!Producers
    BY <2>1 DEF Machine!Producers
  <2> QED BY <2>3, <2>4
<1>9. ASSUME WrapAt(i, "getproperty") PROVE Agree(m1, r, k1)
  <2>1. o.op = "getproperty" /\ o.arg \in WrapMethods /\ o.op \in Machine!Producers
    BY <1>9 DEF WrapAt, Machine!Producers
  <2>2. k[Len(k)] = "class" /\ Machine!Takes(o) = 1 /\ 1 <= Len(k) /\ x = "wrapper"
    BY <1>4, <1>5, <1>6, <1>9
  <2>3. Agree(m1, r, k0 \o <<"wrapper">>)
    <3> HIDE DEF o
    <3> QED BY <1>1, <2>1, <2>2, WrapperStep DEF m1
  <2> QED BY <2>1, <2>2, <2>3
<1>10. ASSUME WrapAt(i, "callproperty") PROVE Agree(m1, r, k1)
  <2>1. o.op = "callproperty" /\ o.arg \in WrapMethods /\ o.op \in Machine!Producers
    BY <1>10 DEF WrapAt, Machine!Producers
  <2>2. k[Len(k) - 1] = "class" /\ k[Len(k)] = "kept" /\ Machine!Takes(o) = 2 /\ 2 <= Len(k)
    BY <1>4, <1>5, <1>10
  <2>3. x = "kept"
    BY <1>6, <2>1 DEF PairAt, WrapClassAt, WrapAt, CallAt
  <2>4. Agree(m1, r, k0 \o <<"kept">>)
    <3> HIDE DEF o
    <3> DEFINE n == Len(k) - 2
    <3>1. n \in Nat /\ Len(k) = n + 2 /\ Len(k) - 1 = n + 1
      BY <1>2, <2>2
    <3>2. k[n + 1] = "class" /\ k[n + 2] = "kept"
      BY <2>2, <3>1
    <3> HIDE DEF n
    <3> QED BY <1>1, <2>1, <2>2, <3>1, <3>2, UnwrapStep, Zenon DEF m1
  <2> QED BY <2>1, <2>3, <2>4
<1>11. ASSUME CallAt(i, open, "call") PROVE Agree(m1, r, k1)
  <2>1. o.op = "call" /\ o.op \in Machine!Producers
    BY <1>11 DEF CallAt, Machine!Producers
  <2>3. /\ k[Len(k) - 2] = "wrapper" /\ k[Len(k) - 1] = "scope" /\ k[Len(k)] = "kept"
        /\ Machine!Takes(o) = 3 /\ 3 <= Len(k)
    BY <1>4, <1>5, <1>11
  <2>4. x = "kept"
    BY <1>6, <2>1 DEF PairAt, WrapClassAt, WrapAt, CallAt
  <2>5. Agree(m1, r, k0 \o <<"kept">>)
    <3> HIDE DEF o
    <3> DEFINE n == Len(k) - 3
    <3>1. n \in Nat /\ Len(k) = n + 3 /\ Len(k) - 1 = n + 2 /\ Len(k) - 2 = n + 1
      BY <1>2, <2>3
    <3>2. k[n + 1] = "wrapper" /\ k[n + 2] = "scope" /\ k[n + 3] = "kept"
      BY <2>3, <3>1
    <3> HIDE DEF n
    <3> QED BY <1>1, <2>1, <2>3, <3>1, <3>2, CallStep, Zenon DEF m1
  <2> QED BY <2>1, <2>4, <2>5
<1>12. ASSUME Resolved(i) PROVE ~Gone(i) /\ ~PairAt(i) /\ Agree(m1, r1, k1)
  <2>1. /\ o.op \in {"getproperty", "callproperty"} /\ o.op \in Machine!Producers
    BY <1>12, ResolvedFacts, SizeAssumption DEF Ins, Machine!Producers
  <2>2. ~Gone(i) /\ ~PairAt(i) /\ x = "kept"
    BY <1>6, <1>7, <1>12, <2>1 DEF PairAt, WrapClassAt, WrapAt, CallAt
  <2>3. k[Len(k)] = "static" /\ Machine!Takes(o) = 1 /\ 1 <= Len(k)
    BY <1>4, <1>5, <1>12
  <2> DEFINE n == Len(k) - 1
             operands == SubSeq(m.stack, n + 1, n + 1)
             v == Machine!Product(o, operands, PoolsBefore)
  <2>4. n \in Nat /\ Len(k) = n + 1 /\ k[n + 1] # "kept"
    BY <1>2, <2>3
  <2>5. /\ IsList(operands) /\ Len(operands) = 1
        /\ operands[1] = <<"class", orig[i - 1].arg, <<>>>>
    <3> HIDE DEF n
    <3>1. /\ IsList(operands) /\ Len(operands) = (n + 1) - (n + 1) + 1
          /\ \A j \in 1..((n + 1) - (n + 1) + 1) : operands[j] = m.stack[j + (n + 1) - 1]
      BY <1>2, <2>4, ListPart
    <3> HIDE DEF operands
    <3>2. Len(operands) = 1 /\ operands[1] = m.stack[n + 1]
      <4>1. (n + 1) - (n + 1) + 1 = 1 /\ 1 + (n + 1) - 1 = n + 1 /\ 1 \in 1..1
        BY <2>4
      <4> QED BY <3>1, <4>1
    <3>3. m.stack[Len(m.stack)] = <<"class", orig[i - 1].arg, <<>>>>
      BY <1>12 DEF Simulates
    <3> QED BY <1>2, <2>4, <3>1, <3>2, <3>3
  <2>6. p.op \in Constants /\ \A a : Machine!Product(p, a, PoolsAfter) = v
    <3>1. Loads(i, p)
      BY <1>12
    <3> HIDE DEF operands
    <3> QED BY <1>1, <1>12, <2>5, <3>1, LoadValue, Zenon
  <2>7. Agree(m1, r1, k0 \o <<"kept">>)
    <3> HIDE DEF o, n
    <3> HIDE DEF v
    <3>2. /\ Agree(m, r, k) /\ o.op \in Machine!Producers /\ Machine!Takes(o) = 1
          /\ n \in Nat /\ Len(k) = n + 1 /\ k[n + 1] # "kept"
          /\ p.op \in Constants /\ \A a : Machine!Product(p, a, PoolsAfter) = v
      BY <1>1, <2>1, <2>3, <2>4, <2>6
    <3>1. \A a : Machine!Product(p, a, PoolsAfter)
                   = Machine!Product(o, SubSeq(m.stack, n + 1, n + 1), PoolsBefore)
      BY <3>2 DEF v, operands
    <3>3. Agree(Machine!Execute(m, o, PoolsBefore), Machine!Execute(r, p, PoolsAfter),
                SubSeq(k, 1, Len(k) - Machine!Takes(o)) \o <<"kept">>)
      BY <3>1, <3>2, ResolvedStep, Zenon
    <3> QED BY <3>3 DEF m1, r1
  <2> QED BY <2>1, <2>2, <2>7
<1>13. ASSUME ~Resolved(i), ~Gone(i) PROVE Agree(m1, r1, k1)
  <2>1. p = o /\ x = "kept"
    BY <1>6, <1>7, <1>13
  <2>2. \A j \in DOMAIN top : top[j] = "kept"
    BY <1>4, <1>7, <1>13
  <2>3. \A j \in (Len(k) - Machine!Takes(o) + 1)..Len(k) : k[j] = "kept"
    BY <1>1, <1>2, <1>4, <2>2, AllKept DEF top
  <2>4. \A a : Machine!Leaves(o, a, PoolsBefore) = Machine!Leaves(o, a, PoolsAfter)
    BY <1>1, LeavesSame
  <2>5. Agree(m1, r1, k0 \o (IF o.op \in Machine!Producers THEN <<"kept">> ELSE <<>>))
    <3> HIDE DEF o
    <3> QED BY <1>1, <1>4, <2>1, <2>3, <2>4, KeptStep, Zenon DEF m1, r1
  <2> QED BY <2>1, <2>5
<1>14. Agree(m1, IF Gone(i) THEN r ELSE r1, k1)
  <2> HIDE DEF k1
  <2> QED BY <1>7, <1>8, <1>9, <1>10, <1>11, <1>12, <1>13
<1>15. ASSUME Resolved(i + 1) PROVE m1.stack[Len(m1.stack)] = <<"class", orig[(i + 1) - 1].arg, <<>>>>
  <2>1. (i + 1) - 1 = i /\ PairAt(i)
    <3>1. (i + 1) - 1 = i
      BY SizeAssumption DEF Ins
    <3> QED BY <1>15, <3>1 DEF Resolved
  <2>2. o.op = "getlex" /\ o.op \in Machine!Producers
    BY <2>1 DEF PairAt, Machine!Producers
  <2>3. m1.stack[Len(m1.stack)] = <<"class", o.arg, <<>>>>
    <3> HIDE DEF o, k
    <3>1. /\ Agree(m, r, k) /\ o.op \in Machine!Producers /\ o.op = "getlex"
          /\ Machine!Takes(o) \in Nat /\ Machine!Takes(o) <= Len(k)
      BY <1>1, <1>4, <2>2
    <3> QED BY <3>1, PushedClass, Zenon DEF m1
  <2> QED BY <2>1, <2>3
<1>16. Simulates(m1, IF Gone(i) THEN r ELSE r1, i + 1)
  <2> HIDE DEF k1
  <2> QED BY <1>3, <1>14, <1>15 DEF Simulates
<1> QED BY <1>16 DEF m1, r1

-----------------------------------------------------------------------------
(***************************************************************************)
(* The whole method.                                                       *)
(***************************************************************************)
\* Where nothing is on the stack, nothing that is resolved is expected.
LEMMA EntryIsPlain ==
  ASSUME WellMade, orig \in Methods, NEW t \in Ins, Shape[t].marks = <<>>
  PROVE  ~Resolved(t)
<1> SUFFICES ASSUME Resolved(t) PROVE FALSE
  OBVIOUS
<1> DEFINE k == Shape[t].marks
           n == Machine!Takes(orig[t])
           top == SubSeq(k, Len(k) - n + 1, Len(k))
<1>1. OperandsRight(t, Shape[t]) /\ n \in Nat
  <2>1. orig[t].argc \in Nat
    BY CodeAssumption
  <2> QED BY <2>1, TakesNat DEF WellMade
<1>2. Len(k) - n >= 0 /\ top = <<"static">>
  BY <1>1, OperandsFound, Zenon
<1>3. IsList(k) /\ Len(k) = 0
  BY ListSmall
<1> HIDE DEF k, n
<1>4. n <= Len(k)
  BY <1>1, <1>2, <1>3
<1>5. n = 1
  BY <1>1, <1>2, <1>3, <1>4, TopMarks
<1> QED BY <1>3, <1>4, <1>5

\* Two machines that agree and have nothing on their stacks are the same.
LEMMA AgreeAtEnd ==
  ASSUME NEW m, NEW r, Agree(m, r, <<>>)
  PROVE  m = r
<1>1. PICK c : Aligned(c, m.stack, r.stack, <<>>)
  BY DEF Agree, Stacks
<1>2. /\ IsList(m.stack) /\ IsList(r.stack) /\ Len(m.stack) = 0
      /\ Len(r.stack) = c[0] /\ c[0] = 0
  BY <1>1, ListSmall DEF Aligned
<1>3. m.stack = r.stack
  BY <1>2, ListEqual
<1>4. /\ m = [stack |-> m.stack, locals |-> m.locals, failed |-> FALSE]
      /\ r = [stack |-> r.stack, locals |-> m.locals, failed |-> FALSE]
  BY DEF Agree
<1> QED BY <1>3, <1>4

\* What is left of the method when the pass is through.
Left == {o \in Ins : ~Gone(o)}

\* Two machines that have executed nothing agree.
LEMMA StartedAgree == Agree(Machine!Started, Machine!Started, <<>>)
  BY StacksEmpty DEF Agree, Machine!Started

\* The code written, from the first instruction left at or after an entry on,
\* computes what the code read computes from the entry on.
LEMMA Simulation ==
  ASSUME PoolsGrown, WellMade, orig \in Methods,
         \A i \in Ins : IF Resolved(i) THEN Loads(i, prog[i]) ELSE prog[i] = orig[i],
         NEW w, InsInOrder(w, Left),
         NEW t \in Ins, Shape[t].marks = <<>>,
         NEW k \in 1..Len(w), Survivor(Left, t, w[k]),
         NEW code, Len(code) = Len(w), \A h \in 1..Len(w) : code[h] = prog[w[h]]
  PROVE  Machine!Outcome(code, k, PoolsAfter) = Machine!Outcome(orig, t, PoolsBefore)
<1> DEFINE A == Machine!Run(orig, t, PoolsBefore)
           B == Machine!Run(code, k, PoolsAfter)
           l == Len(w)
           Reached(i, j) == /\ j \in k..(l + 1)
                            /\ \A h \in 1..l : h < j <=> w[h] < i
                            /\ Simulates(A[i], B[j], i)
           T == {d \in Nat : t + d <= N + 1 => \E j \in Nat : Reached(t + d, j)}
<1>1. /\ l \in Nat /\ k \in Nat /\ 1 <= k /\ k <= l
      /\ \A h \in 1..l : w[h] \in Left /\ w[h] \in Nat /\ w[h] \in Ins
      /\ \A h, g \in 1..l : h < g => w[h] < w[g]
      /\ \A x \in Left : \E h \in 1..l : w[h] = x
  BY DEF InsInOrder
<1>2. t \in Nat /\ 1 <= t /\ t <= N /\ N \in Nat
  BY SizeAssumption DEF Ins
<1>3. Len(orig) = N
  <2>1. orig = [i \in 1..N |-> orig[i]] /\ DOMAIN orig = 1..N
    BY CodeAssumption DEF Ins
  <2> QED BY <1>2, <2>1, ListMade
<1>4. /\ A[t] = Machine!Started
      /\ \A i \in t..N : A[i + 1] = Machine!Execute(A[i], orig[i], PoolsBefore)
  <2>1. /\ Machine!Run(orig, t, PoolsBefore)[t] = Machine!Started
        /\ \A i \in t..Len(orig) :
             Machine!Run(orig, t, PoolsBefore)[i + 1]
               = Machine!Execute(Machine!Run(orig, t, PoolsBefore)[i], orig[i], PoolsBefore)
    <3>1. t \in Nat /\ Len(orig) \in Nat /\ t <= Len(orig) + 1
      BY <1>2, <1>3
    <3> QED BY <3>1, RunEquation
  <2> QED BY <1>3, <2>1
<1>5. /\ B[k] = Machine!Started
      /\ \A j \in k..l : B[j + 1] = Machine!Execute(B[j], code[j], PoolsAfter)
  <2>1. /\ Machine!Run(code, k, PoolsAfter)[k] = Machine!Started
        /\ \A i \in k..Len(code) :
             Machine!Run(code, k, PoolsAfter)[i + 1]
               = Machine!Execute(Machine!Run(code, k, PoolsAfter)[i], code[i], PoolsAfter)
    BY <1>1, RunEquation
  <2> QED BY <2>1
<1>6. /\ Machine!Outcome(orig, t, PoolsBefore) = A[N + 1]
      /\ Machine!Outcome(code, k, PoolsAfter) = B[l + 1]
  BY <1>3 DEF Machine!Outcome
<1> HIDE DEF A, B, l
<1>7. 0 \in T
  <2>1. \A h \in 1..l : h < k <=> w[h] < t
    <3> TAKE h \in 1..l
    <3>1. k \in 1..l /\ w[k] \in Nat /\ w[h] \in Nat /\ w[h] \in Left
      BY <1>1
    <3>2. t <= w[k] /\ (t <= w[h] => w[k] <= w[h])
      BY <3>1 DEF Survivor
    <3>3. CASE h < k
      <4>1. w[h] < w[k]
        BY <1>1, <3>1, <3>3
      <4> QED BY <1>2, <3>1, <3>2, <3>3, <4>1
    <3>4. CASE ~(h < k)
      <4>1. w[k] <= w[h]
        <5>1. h = k \/ k < h
          BY <1>1, <3>4
        <5>2. k < h => w[k] < w[h]
          BY <1>1, <3>1
        <5> QED BY <3>1, <5>1, <5>2
      <4> QED BY <1>2, <3>1, <3>2, <3>4, <4>1
    <3> QED BY <3>3, <3>4
  <2>2. Simulates(A[t], B[k], t)
    BY <1>4, <1>5, EntryIsPlain, StartedAgree DEF Simulates
  <2>3. Reached(t + 0, k)
    BY <1>1, <1>2, <2>1, <2>2
  <2> QED BY <1>1, <2>3
<1>8. ASSUME NEW d \in Nat, d \in T PROVE d + 1 \in T
  <2> SUFFICES ASSUME t + (d + 1) <= N + 1 PROVE \E j \in Nat : Reached(t + (d + 1), j)
    OBVIOUS
  <2> DEFINE i == t + d
  <2>1. i \in Ins /\ i \in t..N /\ i \in Nat /\ t + (d + 1) = i + 1 /\ t + d <= N + 1
    BY <1>2, SizeAssumption DEF Ins
  <2>2. PICK j \in Nat : Reached(i, j)
    BY <1>8, <2>1
  <2> HIDE DEF i
  <2>3. /\ j \in k..(l + 1) /\ \A h \in 1..l : h < j <=> w[h] < i
        /\ Simulates(A[i], B[j], i)
    BY <2>2
  <2>4. A[i + 1] = Machine!Execute(A[i], orig[i], PoolsBefore)
    BY <1>4, <2>1
  <2>5. Simulates(Machine!Execute(A[i], orig[i], PoolsBefore),
                  IF Gone(i) THEN B[j] ELSE Machine!Execute(B[j], prog[i], PoolsAfter), i + 1)
    <3>1. IF Resolved(i) THEN Loads(i, prog[i]) ELSE prog[i] = orig[i]
      BY <2>1
    <3> QED BY <2>1, <2>3, <3>1, InstructionStep, Zenon
  <2>6. CASE Gone(i)
    <3>1. Simulates(A[i + 1], B[j], i + 1)
      BY <2>4, <2>5, <2>6
    <3>2. \A h \in 1..l : h < j <=> w[h] < i + 1
      <4> TAKE h \in 1..l
      <4>1. w[h] # i /\ w[h] \in Nat
        BY <1>1, <2>6 DEF Left
      <4> QED BY <2>1, <2>3, <4>1
    <3>3. Reached(i + 1, j)
      BY <2>3, <3>1, <3>2
    <3> QED BY <2>1, <3>3
  <2>7. CASE ~Gone(i)
    <3>1. PICK g \in 1..l : w[g] = i
      BY <1>1, <2>1, <2>7 DEF Left
    <3>2. g = j
      <4>1. ~(g < j)
        BY <2>1, <2>3, <3>1
      <4>2. ~(j < g)
        <5> SUFFICES ASSUME j < g PROVE FALSE
          OBVIOUS
        <5>1. j \in 1..l
          BY <1>1, <2>3
        <5>2. w[j] < w[g]
          BY <1>1, <5>1
        <5> QED BY <2>3, <3>1, <5>1, <5>2
      <4> QED BY <1>1, <4>1, <4>2
    <3>3. j \in k..l /\ code[j] = prog[i]
      BY <1>1, <2>3, <3>1, <3>2 DEF l
    <3>4. B[j + 1] = Machine!Execute(B[j], prog[i], PoolsAfter)
      BY <1>5, <3>3
    <3>5. Simulates(A[i + 1], B[j + 1], i + 1)
      BY <2>4, <2>5, <2>7, <3>4
    <3>6. \A h \in 1..l : h < j + 1 <=> w[h] < i + 1
      <4> TAKE h \in 1..l
      <4>1. w[h] \in Nat /\ w[j] = i /\ j \in 1..l
        BY <1>1, <3>1, <3>2
      <4>2. CASE h < j
        BY <2>1, <2>3, <4>1, <4>2
      <4>3. CASE h = j
        BY <2>1, <4>1, <4>3
      <4>4. CASE j < h
        <5>1. w[j] < w[h]
          BY <1>1, <4>1, <4>4
        <5> QED BY <2>1, <4>1, <4>4, <5>1
      <4> QED BY <4>2, <4>3, <4>4
    <3>7. Reached(i + 1, j + 1)
      BY <1>1, <3>3, <3>5, <3>6
    <3> QED BY <2>1, <3>7
  <2> QED BY <2>6, <2>7
<1>9. (N + 1) - t \in Nat /\ t + ((N + 1) - t) = N + 1
  BY <1>2
<1>10. (N + 1) - t \in T
  <2> HIDE DEF T
  <2> QED BY <1>7, <1>8, <1>9, Induction
<1>11. PICK j \in Nat : Reached(N + 1, j)
  <2> HIDE DEF Reached
  <2> QED BY <1>2, <1>9, <1>10
<1>12. j = l + 1
  <2>1. j \in k..(l + 1) /\ \A h \in 1..l : h < j <=> w[h] < N + 1
    BY <1>11
  <2>2. ASSUME j \in 1..l PROVE FALSE
    <3>1. w[j] < N + 1
      BY <1>1, <1>2, <2>2 DEF Ins
    <3> QED BY <2>1, <2>2, <3>1
  <2> QED BY <1>1, <2>1, <2>2
<1>13. Agree(A[N + 1], B[l + 1], <<>>)
  BY <1>11, <1>12 DEF Simulates, WellMade
<1>14. A[N + 1] = B[l + 1]
  BY <1>13, AgreeAtEnd
<1> QED BY <1>6, <1>14

-----------------------------------------------------------------------------
(***************************************************************************)
(* The pass decides as Gone and Resolved say.                              *)
(***************************************************************************)
\* Behind the cursor the list is what Gone and Resolved say, ahead of it the
\* method as parsed; remove_next_call is the number of calls Shape has open.
Fates(place, left, code, open) ==
  /\ \A i \in Ins : i \in left <=> (i < place => ~Gone(i) \/ i = N)
  /\ \A i \in Ins : IF i < place /\ Resolved(i) THEN Loads(i, code[i]) ELSE code[i] = orig[i]
  /\ ~Resolved(place)
  /\ open = Shape[place].open

\* The invariant: the edits of the pass, which looks at one instruction after
\* the other, are those that Shape and WellMade speak about.
FateInv ==
  /\ orig \in Methods /\ \A o \in Ins : args[o] # <<>> <=> orig[o].op \in JumpOps
  /\ Fates(Place, kept, prog, pending)
  /\ IsList(ints) /\ IsList(doubles) /\ PoolsGrown
  /\ stage # "edit" => ins = Null

\* Nothing of it depends on anything but the method as parsed.
LEMMA ShapeSame ==
  ASSUME orig' = orig
  PROVE  /\ Shape' = Shape
         /\ \A i : (Resolved(i)' <=> Resolved(i)) /\ (Gone(i)' <=> Gone(i))
<1>1. Shape' = Shape
  BY DEF Shape, ShapeAfter, WrapAt, CallAt, MarkOf, PairAt, WrapClassAt, Resolved
<1>2. \A i : (Resolved(i)' <=> Resolved(i)) /\ (Gone(i)' <=> Gone(i))
  BY <1>1 DEF Gone, WrapAt, CallAt, PairAt, WrapClassAt, Resolved
<1> QED BY <1>1, <1>2

\* A value appended to a pool is at its end.
LEMMA ListAppend ==
  ASSUME NEW s, IsList(s), NEW v
  PROVE  LET a == Append(s, v)
         IN /\ IsList(a) /\ Len(a) = Len(s) + 1 /\ DOMAIN a = 1..(Len(s) + 1)
            /\ a[Len(s) + 1] = v /\ \A k \in 1..Len(s) : a[k] = s[k]
            /\ DOMAIN s = 1..Len(s) /\ Len(s) \in Nat
<1> DEFINE V == {s[k] : k \in 1..Len(s)} \cup {v}
           a == Append(s, v)
<1>1. s \in Seq(V) /\ v \in V /\ DOMAIN s = 1..Len(s) /\ Len(s) \in Nat
  BY ListTyped DEF IsList
<1> HIDE DEF V
<1>2. /\ a \in Seq(V) /\ Len(a) = Len(s) + 1 /\ DOMAIN a = 1..(Len(s) + 1)
      /\ a[Len(s) + 1] = v /\ \A k \in 1..Len(s) : a[k] = s[k]
  BY <1>1
<1> HIDE DEF a
<1>3. a = [k \in 1..Len(a) |-> a[k]]
  BY <1>2
<1> QED BY <1>1, <1>2, <1>3 DEF IsList, a

\* The pools grow at their ends.
Grown == /\ DOMAIN ints \subseteq DOMAIN ints' /\ \A k \in DOMAIN ints : ints'[k] = ints[k]
         /\ DOMAIN doubles \subseteq DOMAIN doubles' /\ \A k \in DOMAIN doubles : doubles'[k] = doubles[k]

\* A constant that was loaded stays the same one when the pools grow.
LEMMA LoadsKept ==
  ASSUME orig' = orig, Grown, NEW i, NEW o, Loads(i, o)
  PROVE  Loads(i, o)'
  BY DEF Grown, Loads, SlotLoad

\* The constant that a step has put in.
LEMMA LoadsNow ==
  ASSUME NEW i, NEW o, prog'[i] = o, Loads(i, o)'
  PROVE  Loads(i, prog[i])'
  BY Zenon DEF Loads

\* An instruction that is resolved is not removed.
LEMMA ResolvedStays ==
  ASSUME NEW i \in 1..(N + 1), Resolved(i)
  PROVE  ~Gone(i) /\ ~PairAt(i)
  BY ResolvedFacts DEF Gone, PairAt, WrapClassAt, WrapAt, CallAt

\* Ahead of the cursor nothing is gone.
LEMMA NextPlace ==
  ASSUME Inv, FateInv, ins # Null
  PROVE  /\ ins \in Ins /\ ins \in Nat /\ Place = ins /\ ins \in kept
         /\ list.next[ins] = IF ins = N THEN Null ELSE ins + 1
         /\ ins + 1 \in Ins => list.next[ins + 1] = IF ins + 1 = N THEN Null ELSE ins + 2
<1>1. ins \in Ins /\ ins \in Nat /\ Place = ins /\ ins \in kept /\ ListInv
  BY InsFacts DEF Inv, CursorLive, ListInv, ListOK, Place
<1>2. ASSUME NEW i \in Ins, ins <= i
      PROVE  list.next[i] = IF i = N THEN Null ELSE i + 1
  <2>1. \A x \in Ins : ins <= x => x \in kept
    BY <1>1, SizeAssumption DEF FateInv, Fates, Ins
  <2>2. CASE i = N
    BY <1>1, <2>2 DEF ListInv, Chained
  <2>3. CASE i # N
    <3>1. i + 1 \in Ins /\ ins <= i + 1 /\ i \in kept /\ i + 1 \in kept
      BY <1>1, <1>2, <2>1, <2>3, SizeAssumption DEF Ins
    <3>2. Survivor(kept, i + 1, list.next[i])
      BY <1>1, <2>3, <3>1 DEF ListInv, Chained
    <3>3. list.next[i] \in kept /\ i + 1 <= list.next[i] /\ list.next[i] <= i + 1
      BY <3>1, <3>2, SizeAssumption DEF Survivor, Ins
    <3>4. list.next[i] \in Nat
      BY <1>1, <3>3, InsFacts DEF ListInv, ListOK
    <3> QED BY <2>3, <3>1, <3>3, <3>4, SizeAssumption DEF Ins
  <2> QED BY <2>2, <2>3
<1>3. list.next[ins] = IF ins = N THEN Null ELSE ins + 1
  BY <1>1, <1>2
<1>4. ASSUME ins + 1 \in Ins PROVE list.next[ins + 1] = IF ins + 1 = N THEN Null ELSE ins + 2
  <2>1. ins <= ins + 1 /\ (ins + 1) + 1 = ins + 2
    BY <1>1
  <2>2. list.next[ins + 1] = IF ins + 1 = N THEN Null ELSE (ins + 1) + 1
    BY <1>2, <1>4, <2>1
  <2> QED BY <2>1, <2>2
<1> QED BY <1>1, <1>3, <1>4

\* The instruction under the cursor stands as it was parsed.
LEMMA AtCursor ==
  ASSUME Inv, FateInv, ins # Null
  PROVE  /\ Op(ins) = orig[ins].op /\ Arg(ins) = orig[ins].arg
         /\ ins + 1 \in Ins => Op(ins + 1) = orig[ins + 1].op /\ Arg(ins + 1) = orig[ins + 1].arg
         /\ ~Resolved(ins) /\ pending = Shape[ins].open
<1>1. Place = ins /\ ins \in Ins /\ ins \in Nat
  BY NextPlace
<1>2. prog[ins] = orig[ins]
  BY <1>1 DEF FateInv, Fates
<1>3. ASSUME ins + 1 \in Ins PROVE prog[ins + 1] = orig[ins + 1]
  <2>1. ~(ins + 1 < ins)
    BY <1>1
  <2> QED BY <1>1, <1>3, <2>1 DEF FateInv, Fates
<1> QED BY <1>1, <1>2, <1>3 DEF Op, Arg, FateInv, Fates

\* The steps that go on to the next instruction.
LEMMA FateStep ==
  ASSUME Inv, FateInv, ins # Null, ins' = list.next[ins],
         orig' = orig, prog' = prog, args' = args, ints' = ints, doubles' = doubles, stage' = "edit",
         kept' = IF Gone(ins) /\ ins # N THEN kept \ {ins} ELSE kept,
         ~PairAt(ins), pending' = ShapeAfter(Shape[ins], ins).open
  PROVE  FateInv'
<1>1. /\ ins \in Ins /\ ins \in Nat /\ Place = ins /\ Place' = ins + 1
      /\ Fates(ins, kept, prog, pending)
  BY NextPlace, SizeAssumption DEF Place, FateInv, Null, Ins
<1>2. pending' = Shape[ins + 1].open
  BY <1>1, ShapeEquation
<1>3. ~Resolved(ins + 1)
  <2>1. (ins + 1) - 1 = ins
    BY <1>1
  <2> QED BY <2>1 DEF Resolved
<1>4. \A i \in Ins : i \in kept' <=> (i < ins + 1 => ~Gone(i) \/ i = N)
  <2> TAKE i \in Ins
  <2>1. i \in kept <=> (i < ins => ~Gone(i) \/ i = N)
    BY <1>1 DEF Fates
  <2>2. i \in Nat
    BY InsFacts
  <2>3. CASE i = ins
    BY <1>1, <2>1, <2>3
  <2>4. CASE i # ins
    <3>1. i < ins + 1 <=> i < ins
      BY <1>1, <2>2, <2>4
    <3>2. i \in kept' <=> i \in kept
      BY <2>4
    <3> QED BY <2>1, <3>1, <3>2
  <2> QED BY <2>3, <2>4
<1>5. \A i \in Ins : IF i < ins + 1 /\ Resolved(i) THEN Loads(i, prog[i]) ELSE prog[i] = orig[i]
  <2> TAKE i \in Ins
  <2>1. IF i < ins /\ Resolved(i) THEN Loads(i, prog[i]) ELSE prog[i] = orig[i]
    BY <1>1 DEF Fates
  <2>2. ~Resolved(ins) /\ i \in Nat
    BY <1>1, InsFacts DEF Fates
  <2>3. i < ins + 1 /\ Resolved(i) <=> i < ins /\ Resolved(i)
    BY <1>1, <2>2
  <2> QED BY <2>1, <2>3
<1>6. Grown /\ PoolsGrown'
  BY DEF Grown, FateInv, PoolsGrown
<1>7. Fates(Place, kept, prog, pending)'
  <2>1. \A i \in Ins : IF i < ins + 1 /\ Resolved(i) THEN Loads(i, prog[i])' ELSE prog'[i] = orig'[i]
    BY <1>5 DEF Loads
  <2> QED BY <1>1, <1>2, <1>3, <1>4, <2>1, ShapeSame DEF Fates
<1> QED BY <1>6, <1>7 DEF FateInv

\* The steps that resolve a pair go on behind it.
LEMMA FateStepOver ==
  ASSUME Inv, FateInv, ins # Null, PairAt(ins), ins' = list.next[ins + 1],
         orig' = orig, args' = args, stage' = "edit", pending' = pending,
         kept' = kept \ {ins},
         Grown, IsList(ints'), IsList(doubles'),
         NEW next, next = ins + 1,
         NEW load, prog' = [prog EXCEPT ![next] = load], Loads(next, load)'
  PROVE  FateInv'
<1>1. /\ ins \in Ins /\ ins \in Nat /\ Place = ins /\ ins + 1 \in Ins /\ ins # N
      /\ Fates(ins, kept, prog, pending)
  BY NextPlace, SizeAssumption DEF PairAt, FateInv, Ins
<1>2. Place' = ins + 2
  BY <1>1, NextPlace, SizeAssumption DEF Place, Null, Ins
<1>3. Resolved(ins + 1)
  <2>1. (ins + 1) - 1 = ins /\ ins + 1 > 1
    BY <1>1, SizeAssumption DEF Ins
  <2> QED BY <2>1 DEF Resolved
<1>4. ~Gone(ins + 1) /\ ~PairAt(ins + 1) /\ ins + 1 \in 1..(N + 1) /\ Gone(ins)
  <2>1. ins + 1 \in 1..(N + 1)
    BY <1>1, SizeAssumption DEF Ins
  <2> QED BY <1>3, <2>1, ResolvedStays DEF Gone
<1>5. ~Resolved(ins + 2)
  <2>1. (ins + 2) - 1 = ins + 1
    BY <1>1
  <2> QED BY <1>4, <2>1 DEF Resolved
<1>6. pending' = Shape[ins + 2].open
  <2>1. pending = Shape[ins].open
    BY <1>1 DEF Fates
  <2>2. Shape[ins + 1].open = Shape[ins].open
    <3>1. Shape[ins + 1] = ShapeAfter(Shape[ins], ins)
      BY <1>1, ShapeEquation
    <3>2. ~WrapAt(ins, "getproperty") /\ ~CallAt(ins, Shape[ins].open, "call")
      BY DEF PairAt, WrapAt, CallAt
    <3> QED BY <3>1, <3>2 DEF ShapeAfter
  <2>3. Shape[ins + 2].open = Shape[ins + 1].open
    <3>1. (ins + 1) + 1 = ins + 2
      BY <1>1
    <3>2. Shape[ins + 2] = ShapeAfter(Shape[ins + 1], ins + 1)
      BY <1>1, <3>1, ShapeEquation
    <3>3. ~WrapAt(ins + 1, "getproperty") /\ ~CallAt(ins + 1, Shape[ins + 1].open, "call")
      BY <1>3, <1>4 DEF Gone, WrapAt
    <3> QED BY <3>2, <3>3 DEF ShapeAfter
  <2> QED BY <2>1, <2>2, <2>3
<1>7. \A i \in Ins : i \in kept' <=> (i < ins + 2 => ~Gone(i) \/ i = N)
  <2> TAKE i \in Ins
  <2>1. i \in kept <=> (i < ins => ~Gone(i) \/ i = N)
    BY <1>1 DEF Fates
  <2>2. i \in Nat
    BY InsFacts
  <2>3. CASE i = ins
    BY <1>1, <1>4, <2>3
  <2>4. CASE i = ins + 1
    BY <1>1, <1>4, <2>1, <2>2, <2>4
  <2>5. CASE i # ins /\ i # ins + 1
    <3>1. i < ins + 2 <=> i < ins
      BY <1>1, <2>2, <2>5
    <3> QED BY <2>1, <2>5, <3>1
  <2> QED BY <2>3, <2>4, <2>5
<1>8. \A i \in Ins : IF i < ins + 2 /\ Resolved(i) THEN Loads(i, prog[i])' ELSE prog'[i] = orig'[i]
  <2> TAKE i \in Ins
  <2>1. IF i < ins /\ Resolved(i) THEN Loads(i, prog[i]) ELSE prog[i] = orig[i]
    BY <1>1 DEF Fates
  <2>2. ~Resolved(ins) /\ i \in Nat /\ DOMAIN prog = Ins
    BY <1>1, InsFacts DEF Fates, Inv, LastIsNoLex
  <2>3. CASE i = ins + 1
    <3>1. prog'[i] = load
      BY <1>1, <2>2, <2>3
    <3>2. i < ins + 2
      BY <1>1, <2>3
    <3>3. i = next
      BY <2>3
    <3>5. Loads(i, load)'
      BY <3>3
    <3>4. Loads(i, prog[i])'
      BY <3>1, <3>5, LoadsNow
    <3> QED BY <1>3, <2>3, <3>2, <3>4
  <2>4. CASE i # ins + 1
    <3>1. prog'[i] = prog[i]
      BY <2>2, <2>4
    <3>2. i < ins + 2 /\ Resolved(i) <=> i < ins /\ Resolved(i)
      BY <1>1, <2>2, <2>4
    <3>3. CASE i < ins /\ Resolved(i)
      <4>1. PICK o : o = prog[i]
        OBVIOUS
      <4>2. Loads(i, o)
        BY <2>1, <3>3, <4>1
      <4>3. Loads(i, o)' /\ prog'[i] = o
        BY <3>1, <4>1, <4>2, LoadsKept
      <4>4. Loads(i, prog[i])'
        BY <4>3, LoadsNow
      <4> QED BY <3>2, <3>3, <4>4
    <3>4. CASE ~(i < ins /\ Resolved(i))
      BY <2>1, <3>1, <3>2, <3>4
    <3> QED BY <3>3, <3>4
  <2> QED BY <2>3, <2>4
<1>9. PoolsGrown'
  BY DEF Grown, FateInv, PoolsGrown
<1>10. Fates(Place, kept, prog, pending)'
  BY <1>2, <1>5, <1>6, <1>7, <1>8, ShapeSame DEF Fates
<1> QED BY <1>9, <1>10 DEF FateInv

\* Nothing is edited yet.
LEMMA InitFate == Init => FateInv
<1> SUFFICES ASSUME Init PROVE FateInv
  OBVIOUS
<1>1. /\ orig \in Methods /\ prog = orig /\ kept = Ins /\ pending = 0 /\ stage = "edit"
      /\ \A o \in Ins : args[o] # <<>> <=> orig[o].op \in JumpOps
      /\ ints = IntPool /\ doubles = DoublePool
  BY Zenon DEF Init, PassInit, ListInit
<1>2. Place = 1
  <2>1. ins = 1
    BY DEF Init, PassInit, ListInit, Register
  <2> QED BY <2>1 DEF Place, Null
<1>3. IsList(ints) /\ IsList(doubles) /\ PoolsGrown
  BY <1>1, PoolsAssumption DEF IsList, PoolsGrown
<1>4. Fates(Place, kept, prog, pending)
  <2>1. \A i \in Ins : ~(i < 1)
    BY DEF Ins
  <2>2. ~Resolved(1)
    BY DEF Resolved
  <2>3. Shape[1].open = 0
    BY ShapeEquation
  <2> QED BY <1>1, <1>2, <2>1, <2>2, <2>3 DEF Fates
<1> QED BY <1>1, <1>3, <1>4 DEF FateInv

\* What the steps that remove the instruction under the cursor leave.
LEMMA Dropped ==
  ASSUME Inv, FateInv, AtIns, RemoveIns(ins), Gone(ins)
  PROVE  kept' = IF Gone(ins) /\ ins # N THEN kept \ {ins} ELSE kept
<1>1. ins \in kept /\ ListInv
  BY NextPlace DEF AtIns, Inv
<1> QED BY <1>1, Removal

\* The getproperty or callproperty of a wrapper is removed.
LEMMA DropWrapFate == Inv /\ FateInv /\ DropWrap => FateInv'
<1> SUFFICES ASSUME Inv, FateInv, DropWrap PROVE FateInv'
  OBVIOUS
<1>1. /\ AtIns /\ ins # Null /\ RemoveIns(ins) /\ ins' = list.next[ins] /\ IsWrap(ins)
      /\ orig' = orig /\ prog' = prog /\ args' = args /\ ints' = ints /\ doubles' = doubles
      /\ stage' = "edit"
  BY DEF DropWrap, AtIns, RemoveIns
<1>2. /\ Op(ins) = orig[ins].op /\ Arg(ins) = orig[ins].arg /\ ~Resolved(ins)
      /\ pending = Shape[ins].open
  BY <1>1, AtCursor
<1>3. /\ orig[ins].op \in {"getproperty", "callproperty"}
      /\ WrapAt(ins, orig[ins].op)
  BY <1>1, <1>2 DEF IsWrap, WrapAt
<1>4. Gone(ins) /\ ~PairAt(ins) /\ ~CallAt(ins, Shape[ins].open, "call")
  BY <1>3 DEF Gone, PairAt, CallAt
<1>5. pending' = ShapeAfter(Shape[ins], ins).open
  <2>1. pending' = IF orig[ins].op = "getproperty" THEN pending + 1 ELSE pending
    BY <1>2 DEF DropWrap
  <2>2. WrapAt(ins, "getproperty") <=> orig[ins].op = "getproperty"
    BY <1>3 DEF WrapAt
  <2> QED BY <1>2, <1>4, <2>1, <2>2 DEF ShapeAfter
<1> QED BY <1>1, <1>4, <1>5, Dropped, FateStep

\* The getglobalscope or call of a wrapper is removed.
LEMMA DropCallFate == Inv /\ FateInv /\ DropCall => FateInv'
<1> SUFFICES ASSUME Inv, FateInv, DropCall PROVE FateInv'
  OBVIOUS
<1>1. /\ AtIns /\ ins # Null /\ RemoveIns(ins) /\ ins' = list.next[ins] /\ Announced(ins)
      /\ orig' = orig /\ prog' = prog /\ args' = args /\ ints' = ints /\ doubles' = doubles
      /\ stage' = "edit"
  BY DEF DropCall, AtIns, RemoveIns
<1>2. /\ Op(ins) = orig[ins].op /\ pending = Shape[ins].open
  BY <1>1, AtCursor
<1>3. /\ orig[ins].op \in {"call", "getglobalscope"}
      /\ CallAt(ins, Shape[ins].open, orig[ins].op)
  BY <1>1, <1>2 DEF Announced, IsCall, CallAt
<1>4. Gone(ins) /\ ~PairAt(ins) /\ ~WrapAt(ins, "getproperty")
  BY <1>3 DEF Gone, PairAt, WrapAt
<1>5. pending' = ShapeAfter(Shape[ins], ins).open
  <2>1. pending' = IF orig[ins].op = "call" THEN pending - 1 ELSE pending
    BY <1>2 DEF DropCall
  <2>2. CallAt(ins, Shape[ins].open, "call") <=> orig[ins].op = "call"
    BY <1>3 DEF CallAt
  <2> QED BY <1>2, <1>4, <2>1, <2>2 DEF ShapeAfter
<1> QED BY <1>1, <1>4, <1>5, Dropped, FateStep

\* The getlex of the wrapper class is removed.
LEMMA DropWrapClassFate == Inv /\ FateInv /\ DropWrapClass => FateInv'
<1> SUFFICES ASSUME Inv, FateInv, DropWrapClass PROVE FateInv'
  OBVIOUS
<1>1. /\ AtIns /\ ins # Null /\ RemoveIns(ins) /\ ins' = list.next[ins]
      /\ Op(ins) = "getlex" /\ ~IsStatic(ins) /\ Arg(ins) = WrapName
      /\ orig' = orig /\ prog' = prog /\ args' = args /\ ints' = ints /\ doubles' = doubles
      /\ stage' = "edit" /\ pending' = pending
  BY DEF DropWrapClass, AtIns, RemoveIns
<1>2. /\ Op(ins) = orig[ins].op /\ Arg(ins) = orig[ins].arg /\ pending = Shape[ins].open
  BY <1>1, AtCursor
<1>3. WrapClassAt(ins) /\ orig[ins].op = "getlex"
  BY <1>1, <1>2 DEF IsStatic, WrapClassAt
<1>4. /\ Gone(ins) /\ ~PairAt(ins) /\ ~WrapAt(ins, "getproperty")
      /\ ~CallAt(ins, Shape[ins].open, "call")
  BY <1>3 DEF Gone, PairAt, WrapAt, CallAt, WrapClassAt
<1>5. pending' = ShapeAfter(Shape[ins], ins).open
  BY <1>1, <1>2, <1>4 DEF ShapeAfter
<1> QED BY <1>1, <1>4, <1>5, Dropped, FateStep

\* An instruction that is none of these is left alone.
LEMMA SkipFate == Inv /\ FateInv /\ Skip => FateInv'
<1> SUFFICES ASSUME Inv, FateInv, Skip PROVE FateInv'
  OBVIOUS
<1>1. /\ AtIns /\ ins # Null /\ ins' = list.next[ins] /\ ~IsWrap(ins) /\ ~Announced(ins)
      /\ ~(Op(ins) = "getlex" /\ ~IsStatic(ins) /\ Arg(ins) = WrapName)
      /\ IsStatic(ins) => /\ ~IsSlot(Arg(ins), list.next[ins])
                          /\ ~IsMethod(Arg(ins), list.next[ins])
      /\ orig' = orig /\ prog' = prog /\ args' = args /\ ints' = ints /\ doubles' = doubles
      /\ stage' = "edit" /\ kept' = kept /\ pending' = pending
  BY DEF Skip, AtIns, listVars
<1>2. /\ Op(ins) = orig[ins].op /\ Arg(ins) = orig[ins].arg /\ pending = Shape[ins].open
      /\ ins + 1 \in Ins => Op(ins + 1) = orig[ins + 1].op /\ Arg(ins + 1) = orig[ins + 1].arg
  BY <1>1, AtCursor
<1>3. ~PairAt(ins)
  <2> SUFFICES ASSUME PairAt(ins) PROVE FALSE
    OBVIOUS
  <2>1. ins + 1 \in Ins /\ list.next[ins] = ins + 1
    BY <1>1, NextPlace, SizeAssumption DEF PairAt, Ins
  <2>2. IsStatic(ins) /\ (IsSlot(Arg(ins), ins + 1) \/ IsMethod(Arg(ins), ins + 1))
    BY <1>2, <2>1 DEF PairAt, IsStatic, IsSlot, IsMethod
  <2> QED BY <1>1, <2>1, <2>2
<1>4. /\ ~WrapAt(ins, "getproperty") /\ ~WrapAt(ins, "callproperty") /\ ~WrapClassAt(ins)
      /\ ~CallAt(ins, Shape[ins].open, "call") /\ ~CallAt(ins, Shape[ins].open, "getglobalscope")
  BY <1>1, <1>2 DEF IsWrap, Announced, IsCall, IsStatic, WrapAt, WrapClassAt, CallAt
<1>5. ~Gone(ins)
  BY <1>3, <1>4 DEF Gone
<1>6. pending' = ShapeAfter(Shape[ins], ins).open
  BY <1>1, <1>2, <1>4 DEF ShapeAfter
<1> QED BY <1>1, <1>3, <1>5, <1>6, FateStep

\* The pair that the steps that resolve one find.
LEMMA PairFound ==
  ASSUME Inv, FateInv, ins # Null, IsStatic(ins),
         IsSlot(Arg(ins), list.next[ins]) \/ IsMethod(Arg(ins), list.next[ins])
  PROVE  /\ PairAt(ins) /\ list.next[ins] = ins + 1 /\ ins + 1 \in Ins /\ ins # N
         /\ prog[ins + 1] = orig[ins + 1] /\ Arg(ins) = orig[ins].arg
         /\ (ins + 1) - 1 = ins
<1>1. ins # N
  BY StaticIsNotLast
<1>2. ins \in Ins /\ ins + 1 \in Ins /\ ins < N /\ list.next[ins] = ins + 1
      /\ (ins + 1) - 1 = ins /\ Place = ins /\ ~(ins + 1 < ins)
  BY <1>1, NextPlace, SizeAssumption DEF Ins
<1>3. /\ Op(ins) = orig[ins].op /\ Arg(ins) = orig[ins].arg
      /\ Op(ins + 1) = orig[ins + 1].op /\ Arg(ins + 1) = orig[ins + 1].arg
  BY <1>2, AtCursor
<1>4. PairAt(ins)
  BY <1>2, <1>3 DEF PairAt, IsStatic, IsSlot, IsMethod
<1>5. prog[ins + 1] = orig[ins + 1]
  BY <1>2 DEF FateInv, Fates
<1> QED BY <1>1, <1>2, <1>3, <1>4, <1>5

\* The slot of a static class is replaced by its constant.
LEMMA ResolveSlotFate == Inv /\ FateInv /\ ResolveSlot => FateInv'
<1> SUFFICES ASSUME Inv, FateInv, ResolveSlot PROVE FateInv'
  OBVIOUS
<1>1. PICK next : next = list.next[ins]
  OBVIOUS
<1> DEFINE load == SlotLoad(Slots[Arg(ins)][Arg(next)], prog[next])
<1>2. /\ AtIns /\ ins # Null /\ IsStatic(ins) /\ IsSlot(Arg(ins), next)
      /\ prog' = [prog EXCEPT ![next] = load]
      /\ RemoveIns(ins) /\ ins' = list.next[next]
      /\ orig' = orig /\ args' = args /\ ints' = ints /\ doubles' = doubles
      /\ stage' = "edit" /\ pending' = pending
  BY <1>1 DEF ResolveSlot, AtIns, RemoveIns
<1>3. /\ PairAt(ins) /\ next = ins + 1 /\ ins + 1 \in Ins /\ ins # N
      /\ prog[next] = orig[next] /\ Arg(ins) = orig[ins].arg /\ next - 1 = ins
  BY <1>1, <1>2, PairFound
<1>4. kept' = kept \ {ins}
  BY <1>2, <1>3, Dropped DEF Gone
<1>5. Grown /\ IsList(ints') /\ IsList(doubles')
  BY <1>2 DEF Grown, FateInv
<1>6. PICK o : o = load
  OBVIOUS
<1>7. Loads(next, o)'
  <2>1. orig[next].op = "getproperty" /\ o = SlotLoad(Slots[orig[next - 1].arg][orig[next].arg], orig[next])
    BY <1>2, <1>3, <1>6 DEF IsSlot, Op, Arg
  <2>2. Loads(next, o)
    BY <2>1 DEF Loads
  <2> QED BY <1>2, <1>5, <2>2, LoadsKept
<1>8. prog' = [prog EXCEPT ![next] = o]
  BY <1>2, <1>6
<1> QED BY <1>2, <1>3, <1>4, <1>5, <1>7, <1>8, FateStepOver

\* The call of a method of a static class is replaced by its constant.
LEMMA ResolveMethodFate == Inv /\ FateInv /\ ResolveMethod => FateInv'
<1> SUFFICES ASSUME Inv, FateInv, ResolveMethod PROVE FateInv'
  OBVIOUS
<1>1. PICK next : next = list.next[ins]
  OBVIOUS
<1> DEFINE const == Consts[Arg(ins)][Arg(next)]
           load == IF const.double THEN [op |-> "pushdouble", arg |-> Len(doubles), argc |-> 0]
                   ELSE [op |-> "pushint", arg |-> Len(ints), argc |-> 0]
<1>2. /\ AtIns /\ ins # Null /\ IsStatic(ins) /\ IsMethod(Arg(ins), next)
      /\ prog' = [prog EXCEPT ![next] = load]
      /\ RemoveIns(ins) /\ ins' = list.next[next]
      /\ orig' = orig /\ args' = args /\ stage' = "edit" /\ pending' = pending
      /\ doubles' = IF const.double THEN Append(doubles, const.value) ELSE doubles
      /\ ints' = IF const.double THEN ints ELSE Append(ints, const.value)
  BY <1>1 DEF ResolveMethod, AtIns, RemoveIns, PoolIndex
<1>3. /\ PairAt(ins) /\ next = ins + 1 /\ ins + 1 \in Ins /\ ins # N
      /\ prog[next] = orig[next] /\ Arg(ins) = orig[ins].arg /\ next - 1 = ins
  BY <1>1, <1>2, PairFound
<1>4. kept' = kept \ {ins}
  BY <1>2, <1>3, Dropped DEF Gone
<1>5. IsList(ints) /\ IsList(doubles)
  BY DEF FateInv
<1>6. Grown /\ IsList(ints') /\ IsList(doubles')
  <2> HIDE DEF const, load
  <2>1. CASE const.double
    BY <1>2, <1>5, <2>1, ListAppend DEF Grown
  <2>2. CASE ~const.double
    BY <1>2, <1>5, <2>2, ListAppend DEF Grown
  <2> QED BY <2>1, <2>2
<1>7. PICK o : o = load
  OBVIOUS
<1>8. Loads(next, o)'
  <2>1. orig[next].op = "callproperty" /\ const = Consts[orig[next - 1].arg][orig[next].arg]
        /\ orig' = orig
    BY <1>2, <1>3 DEF IsMethod, Op, Arg
  <2> HIDE DEF const
  <2>2. CASE const.double
    <3>1. o.op = "pushdouble" /\ o.arg = Len(doubles) /\ doubles' = Append(doubles, const.value)
      BY <1>2, <1>7, <2>2
    <3>2. o.arg + 1 \in DOMAIN doubles' /\ doubles'[o.arg + 1] = const.value
      BY <1>5, <3>1, ListAppend
    <3> QED BY <2>1, <2>2, <3>1, <3>2 DEF Loads
  <2>3. CASE ~const.double
    <3>1. o.op = "pushint" /\ o.arg = Len(ints) /\ ints' = Append(ints, const.value)
      BY <1>2, <1>7, <2>3
    <3>2. o.arg + 1 \in DOMAIN ints' /\ ints'[o.arg + 1] = const.value
      BY <1>5, <3>1, ListAppend
    <3> QED BY <2>1, <2>3, <3>1, <3>2 DEF Loads
  <2> QED BY <2>2, <2>3
<1>9. prog' = [prog EXCEPT ![next] = o]
  BY <1>2, <1>7
<1> QED BY <1>2, <1>3, <1>4, <1>6, <1>8, <1>9, FateStepOver

\* What does not move the cursor moves nothing.
LEMMA FateUntouched ==
  ASSUME FateInv, UNCHANGED <<orig, prog, args, kept, ins, pending, ints, doubles>>,
         stage' # "edit" => ins = Null
  PROVE  FateInv'
<1>1. Fates(Place, kept, prog, pending)'
  BY ShapeSame DEF FateInv, Fates, Place, Loads
<1> QED BY <1>1 DEF FateInv, PoolsGrown

\* No step breaks it.
LEMMA StepFate == Inv /\ FateInv /\ [Next]_vars => FateInv'
<1> SUFFICES ASSUME Inv, FateInv, [Next]_vars PROVE FateInv'
  OBVIOUS
<1>1. CASE Write
  BY <1>1, FateUntouched DEF Write, WriteBack, listVars
<1>2. CASE Leave
  BY <1>2, FateUntouched DEF Leave, LeaveAlone, listVars
<1>3. CASE UNCHANGED vars
  BY <1>3, FateUntouched DEF vars, passVars, listVars, FateInv
<1> QED BY <1>1, <1>2, <1>3, DropWrapFate, DropCallFate, ResolveSlotFate, ResolveMethodFate,
           DropWrapClassFate, SkipFate DEF Next

\* The pass removes and replaces what Gone and Resolved say, no more and no less.
THEOREM FatesDecided == Spec => []FateInv
  BY Invariance, InitFate, StepFate, PTL DEF Spec

-----------------------------------------------------------------------------
(***************************************************************************)
(* What is written means what was read.                                    *)
(***************************************************************************)
\* The position of an instruction, from the one before it.
LEMMA PositionNext ==
  ASSUME NEW code, NEW S, NEW i \in Ins, i + 1 \in Ins
  PROVE  Position(code, S, i + 1) =
           IF i \in S THEN Position(code, S, i) + OpSize[code[i].op] ELSE Position(code, S, i)
<1>1. \A j \in Ins : j + 1 \in Ins => Position(code, S, j + 1) =
          IF j \in S THEN Position(code, S, j) + OpSize[code[j].op] ELSE Position(code, S, j)
  BY PositionEquation, Zenon
<1> QED BY <1>1, Zenon

\* Every instruction written is behind those written before it.
LEMMA PositionGrows ==
  ASSUME NEW code, NEW n \in Nat, \A k \in 1..n : k \in Ins /\ OpSize[code[k].op] \in Nat \ {0}
  PROVE  \A k, h \in 1..n : /\ Position(code, 1..n, k) \in Nat
                            /\ h < k <=> Position(code, 1..n, h) < Position(code, 1..n, k)
<1> DEFINE P(x) == Position(code, 1..n, x)
           T == {d \in Nat : d \in 1..n => P(d) \in Nat /\ \A h \in 1..n :
                                               h < d => P(h) \in Nat /\ P(h) < P(d)}
<1>1. /\ P(1) = 0
      /\ \A i \in 1..n : i + 1 \in Ins => P(i + 1) = P(i) + OpSize[code[i].op]
  <2>1. P(1) = 0
    BY PositionEquation
  <2>2. ASSUME NEW i \in 1..n, i + 1 \in Ins PROVE P(i + 1) = P(i) + OpSize[code[i].op]
    <3>1. Position(code, 1..n, i + 1) =
            IF i \in 1..n THEN Position(code, 1..n, i) + OpSize[code[i].op]
                          ELSE Position(code, 1..n, i)
      BY <2>2, PositionNext
    <3> QED BY <2>2, <3>1
  <2> QED BY <2>1, <2>2
<1> HIDE DEF P
<1>2. 0 \in T
  OBVIOUS
<1>3. ASSUME NEW d \in Nat, d \in T PROVE d + 1 \in T
  <2> SUFFICES ASSUME d + 1 \in 1..n
               PROVE  P(d + 1) \in Nat /\ \A h \in 1..n : h < d + 1 => P(h) \in Nat /\ P(h) < P(d + 1)
    OBVIOUS
  <2>1. CASE d = 0
    <3>1. P(d + 1) = 0 /\ \A h \in 1..n : ~(h < d + 1)
      BY <1>1, <2>1
    <3> QED BY <3>1
  <2>2. CASE d # 0
    <3>1. d \in 1..n /\ d \in Ins /\ d + 1 \in Ins
      BY <2>2
    <3>2. P(d + 1) = P(d) + OpSize[code[d].op] /\ OpSize[code[d].op] \in Nat \ {0}
      BY <1>1, <3>1
    <3>3. P(d) \in Nat /\ \A h \in 1..n : h < d => P(h) \in Nat /\ P(h) < P(d)
      BY <1>3, <3>1
    <3>4. P(d + 1) \in Nat /\ P(d) < P(d + 1)
      BY <3>2, <3>3
    <3>5. ASSUME NEW h \in 1..n, h < d + 1 PROVE P(h) \in Nat /\ P(h) < P(d + 1)
      <4>1. CASE h = d
        BY <3>3, <3>4, <4>1
      <4>2. CASE h # d
        <5>1. h < d
          BY <3>5, <4>2
        <5>2. P(h) \in Nat /\ P(h) < P(d)
          BY <3>3, <5>1
        <5> QED BY <3>3, <3>4, <5>2
      <4> QED BY <4>1, <4>2
    <3> QED BY <3>4, <3>5
  <2> QED BY <2>1, <2>2
<1>4. Nat \subseteq T
  <2> HIDE DEF T
  <2> QED BY <1>2, <1>3, Induction
<1>5. ASSUME NEW k \in 1..n PROVE P(k) \in Nat /\ \A h \in 1..n : h < k => P(h) < P(k)
  BY <1>4
<1>6. ASSUME NEW k \in 1..n, NEW h \in 1..n PROVE P(k) \in Nat /\ (h < k <=> P(h) < P(k))
  <2>1. P(k) \in Nat /\ P(h) \in Nat /\ (h < k => P(h) < P(k)) /\ (k < h => P(k) < P(h))
    BY <1>5
  <2>2. h < k \/ h = k \/ k < h
    OBVIOUS
  <2> QED BY <2>1, <2>2
<1> QED BY <1>6 DEF P

\* What takes the place of a member access is one of the constants.
LEMMA LoadIsConstant ==
  ASSUME PoolsGrown, IndicesRight, NEW i \in Ins, Resolved(i), NEW p, Loads(i, p)
  PROVE  p.op \in Constants
<1>1. /\ orig[i - 1].arg \in DOMAIN Slots
      /\ \/ orig[i].op = "getproperty" /\ orig[i].arg \in DOMAIN Slots[orig[i - 1].arg]
         \/ orig[i].op = "callproperty"
  BY ResolvedFacts, SizeAssumption DEF Ins
<1>2. CASE orig[i].op = "getproperty"
  <2>1. /\ orig[i].arg \in DOMAIN Slots[orig[i - 1].arg]
        /\ p = SlotLoad(Slots[orig[i - 1].arg][orig[i].arg], orig[i])
    BY <1>1, <1>2 DEF Loads
  <2> QED BY <1>1, <2>1, SlotLoadValue, Zenon
<1>3. CASE orig[i].op = "callproperty"
  <2>1. p.op = "pushdouble" \/ p.op = "pushint"
    BY <1>3 DEF Loads
  <2> QED BY <2>1 DEF Constants
<1> QED BY <1>1, <1>2, <1>3

\* What the pass has done when it is at its end.
LEMMA AtEnd ==
  ASSUME FateInv, WellMade, stage = "written", kept \subseteq Ins
  PROVE  /\ kept = Left
         /\ \A i \in Ins : IF Resolved(i) THEN Loads(i, prog[i]) ELSE prog[i] = orig[i]
         /\ \A i \in Ins : OpSize[prog[i].op] \in Nat \ {0}
<1>1. Place = N + 1 /\ Fates(N + 1, kept, prog, pending) /\ orig \in Methods
  BY DEF FateInv, Place
<1>2. \A i \in Ins : i < N + 1
  BY SizeAssumption DEF Ins
<1>3. kept = Left
  BY <1>1, <1>2 DEF Fates, Left, WellMade
<1>4. \A i \in Ins : IF Resolved(i) THEN Loads(i, prog[i]) ELSE prog[i] = orig[i]
  BY <1>1, <1>2 DEF Fates
<1>5. ASSUME NEW i \in Ins PROVE prog[i].op \in DOMAIN OpSize
  <2>1. CASE Resolved(i)
    <3>1. prog[i].op \in Constants
      BY <1>4, <2>1, LoadIsConstant DEF FateInv, WellMade
    <3> QED BY <3>1, CodeAssumption DEF Constants
  <2>2. CASE ~Resolved(i)
    BY <1>1, <1>4, <2>2, CodeAssumption
  <2> QED BY <2>1, <2>2
<1> QED BY <1>3, <1>4, <1>5, CodeAssumption

\* An instruction that jumps stays.
LEMMA JumpStays ==
  ASSUME NEW j, orig[j].op \in JumpOps
  PROVE  ~Gone(j)
  BY DEF JumpOps, Gone, PairAt, WrapClassAt, WrapAt, CallAt

\* A pass that has decided as FateInv says, and written as OffsetsWritten says,
\* has kept the meaning of a method that is well made.
LEMMA MeaningOfEdits ==
  ASSUME ListInv, PointsAhead, OutputKept, OffsetsWritten, FateInv, WellMade
  PROVE  MeaningKept
<1> SUFFICES ASSUME stage = "written" PROVE MeaningKept
  BY DEF MeaningKept
<1> DEFINE w == Walk(list)
           code == out.code
           P(k) == Position(code, 1..Len(w), k)
           target(j, i) == ResolveOffset(j, args[j][i])
<1>1. /\ kept \subseteq Ins /\ args \in JumpTables /\ table \in ErrorTables /\ N \in kept
      /\ orig \in Methods /\ PoolsGrown
      /\ \A o \in Ins : args[o] # <<>> <=> orig[o].op \in JumpOps
  BY DEF ListInv, ListOK, Chained, FateInv
<1>2. /\ kept = Left
      /\ \A i \in Ins : IF Resolved(i) THEN Loads(i, prog[i]) ELSE prog[i] = orig[i]
      /\ \A i \in Ins : OpSize[prog[i].op] \in Nat \ {0}
  BY <1>1, AtEnd
<1>3. InsInOrder(w, kept)
  BY <1>1, ListIsChain, WalkEnumerates, EnumerationIns
<1>4. /\ Len(w) \in Nat /\ DOMAIN w = 1..Len(w)
      /\ \A i \in 1..Len(w) : w[i] \in kept /\ w[i] \in Nat /\ w[i] \in Ins /\ i \in Ins
      /\ \A i, j \in 1..Len(w) : i < j => w[i] < w[j]
      /\ \A x \in kept : \E i \in 1..Len(w) : w[i] = x
  BY <1>3 DEF InsInOrder
<1>5. /\ code = [k \in DOMAIN w |-> prog[w[k]]]
      /\ DOMAIN out.jumps = DOMAIN w
  BY DEF OutputKept, Output
<1> HIDE DEF w, code
<1>6. /\ DOMAIN code = 1..Len(w) /\ Len(code) = Len(w)
      /\ \A h \in 1..Len(w) : code[h] = prog[w[h]]
  <2>1. code = [k \in 1..Len(w) |-> code[k]] /\ DOMAIN code = 1..Len(w)
    BY <1>4, <1>5
  <2> QED BY <1>4, <1>5, <2>1, ListMade
<1>7. \A k, h \in 1..Len(w) : P(k) \in Nat /\ (h < k <=> P(h) < P(k))
  <2>1. \A k \in 1..Len(w) : k \in Ins /\ OpSize[code[k].op] \in Nat \ {0}
    BY <1>2, <1>4, <1>6
  <2> QED BY <1>4, <2>1, PositionGrows
<1>8. ASSUME NEW t \in Ins, Shape[t].marks = <<>>, NEW a,
             \E k \in 1..Len(w) : Survivor(kept, t, w[k]) /\ a = P(k)
      PROVE  SameFrom(a, t)
  <2>1. PICK k \in 1..Len(w) : Survivor(kept, t, w[k]) /\ a = P(k)
    BY <1>8
  <2>2. Machine!Outcome(code, k, PoolsAfter) = Machine!Outcome(orig, t, PoolsBefore)
    <3>1. InsInOrder(w, Left) /\ Survivor(Left, t, w[k])
      BY <1>2, <1>3, <2>1
    <3> QED BY <1>1, <1>2, <1>6, <1>8, <3>1, Simulation
  <2>3. k \in Decoded(a)
    <3>1. DOMAIN out.code = 1..Len(w) /\ a = Position(out.code, 1..Len(w), k)
      BY <1>6, <2>1 DEF code
    <3> QED BY <3>1 DEF Decoded
  <2> QED BY <2>2, <2>3 DEF SameFrom, code
<1>9. SameFrom(0, 1)
  <2>1. 1 \in 1..Len(w)
    <3>1. PICK i \in 1..Len(w) : w[i] = N
      BY <1>1, <1>4
    <3> QED BY <1>4
  <2>2. Survivor(kept, 1, w[1])
    <3>1. w[1] \in kept /\ 1 <= w[1]
      BY <1>4, <2>1 DEF Ins
    <3>2. ASSUME NEW m \in kept PROVE w[1] <= m
      <4>1. PICK i \in 1..Len(w) : w[i] = m
        BY <1>4
      <4>2. i = 1 \/ 1 < i
        BY <1>4
      <4>3. w[1] \in Nat /\ w[i] \in Nat /\ (1 < i => w[1] < w[i])
        BY <1>4, <2>1
      <4> QED BY <4>1, <4>2, <4>3
    <3> QED BY <3>1, <3>2 DEF Survivor
  <2>3. P(1) = 0
    BY PositionEquation
  <2>4. Shape[1].marks = <<>> /\ 1 \in Ins
    BY ShapeEquation, InsFacts
  <2> HIDE DEF P
  <2>5. \E k \in 1..Len(w) : Survivor(kept, 1, w[k]) /\ 0 = P(k)
    BY <2>1, <2>2, <2>3
  <2> QED BY <1>8, <2>4, <2>5
<1>10. /\ \A k \in 1..Len(w) : \A i \in DOMAIN args[w[k]] :
            \/ \E h \in 1..(i-1) : Together(kept, target(w[k], h), target(w[k], i))
            \/ \E g \in 1..Len(w) : /\ Survivor(kept, target(w[k], i), w[g])
                                    /\ out.jumps[k][i] = P(g)
       /\ \A e \in Errs : \A f \in ErrorField :
            \E g \in 1..Len(w) : Survivor(kept, table[e][f], w[g]) /\ out.exc[e][f] = P(g)
  <2>1. Dangling = {}
    BY DEF WellMade
  <2> HIDE DEF target
  <2>2. DOMAIN Walk(list) = 1..Len(w)
    BY <1>4 DEF w
  <2> QED BY <2>1, <2>2 DEF OffsetsWritten, w, code, target
<1> HIDE DEF P
<1>11. ASSUME NEW j \in Ins, NEW i \in DOMAIN args[j]
       PROVE  \E k \in DOMAIN out.jumps : /\ Walk(list)[k] = j
                                          /\ SameFrom(out.jumps[k][i], target(j, i))
  <2>1. args[j] # <<>>
    BY <1>11
  <2>2. j \in kept
    BY <1>1, <1>2, <2>1, JumpStays DEF Left
  <2>3. PICK k \in 1..Len(w) : w[k] = j
    BY <1>4, <2>2
  <2>4. ~\E h \in 1..(i-1) : Together(kept, target(j, h), target(j, i))
    BY <1>2 DEF WellMade, EntriesRight, Left
  <2>5. \E g \in 1..Len(w) : Survivor(kept, target(j, i), w[g]) /\ out.jumps[k][i] = P(g)
    <3> HIDE DEF target
    <3> QED BY <1>10, <2>3, <2>4
  <2>6. target(j, i) \in Ins /\ Shape[target(j, i)].marks = <<>>
    BY <1>1, ResolveType DEF WellMade, EntriesRight
  <2>7. SameFrom(out.jumps[k][i], target(j, i))
    <3> HIDE DEF target
    <3> QED BY <1>8, <2>5, <2>6
  <2> QED BY <1>4, <1>5, <2>3, <2>7 DEF w
<1>12. ASSUME NEW e \in Errs
       PROVE  /\ SameFrom(out.exc[e]["target"], table[e]["target"])
              /\ \A k \in DOMAIN out.code :
                   LET o == Walk(list)[k]
                   IN Covered(e, k) <=> table[e]["from"] <= o /\ o < table[e]["to"]
  <2>1. \A f \in ErrorField : table[e][f] \in Ins
    BY <1>1, ErrorTablesAssumption
  <2>2. "from" \in ErrorField /\ "to" \in ErrorField /\ "target" \in ErrorField
    BY DEF ErrorField
  <2>3. SameFrom(out.exc[e]["target"], table[e]["target"])
    <3>1. Shape[table[e]["target"]].marks = <<>>
      BY DEF WellMade, EntriesRight
    <3>2. \E g \in 1..Len(w) :
            Survivor(kept, table[e]["target"], w[g]) /\ out.exc[e]["target"] = P(g)
      BY <1>10, <2>2
    <3> QED BY <1>8, <2>1, <2>2, <3>1, <3>2
  <2>4. PICK p \in 1..Len(w) :
          Survivor(kept, table[e]["from"], w[p]) /\ out.exc[e]["from"] = P(p)
    BY <1>10, <2>2
  <2>5. PICK q \in 1..Len(w) :
          Survivor(kept, table[e]["to"], w[q]) /\ out.exc[e]["to"] = P(q)
    BY <1>10, <2>2
  <2>6. ASSUME NEW k \in 1..Len(w)
        PROVE  Covered(e, k) <=> table[e]["from"] <= w[k] /\ w[k] < table[e]["to"]
    <3>1. Covered(e, k) <=> P(p) <= P(k) /\ P(k) < P(q)
      <4>1. Position(out.code, DOMAIN out.code, k) = P(k)
        BY <1>6 DEF code, P
      <4> QED BY <2>4, <2>5, <4>1 DEF Covered
    <3>2. table[e]["from"] \in Nat /\ table[e]["to"] \in Nat
      BY <2>1, <2>2, InsFacts
    <3>3. /\ w[k] \in kept /\ w[k] \in Nat /\ w[p] \in Nat /\ w[q] \in Nat
          /\ P(k) \in Nat /\ P(p) \in Nat /\ P(q) \in Nat
      BY <1>4, <1>7
    <3>4. P(p) <= P(k) <=> table[e]["from"] <= w[k]
      <4>1. table[e]["from"] <= w[p] /\ (table[e]["from"] <= w[k] => w[p] <= w[k])
        BY <2>4, <3>3 DEF Survivor
      <4>2. CASE k < p
        <5>1. P(k) < P(p) /\ w[k] < w[p]
          BY <1>4, <1>7, <4>2
        <5> QED BY <3>2, <3>3, <4>1, <5>1
      <4>3. CASE k = p
        BY <3>3, <4>1, <4>3
      <4>4. CASE p < k
        <5>1. P(p) < P(k) /\ w[p] < w[k]
          BY <1>4, <1>7, <4>4
        <5> QED BY <3>2, <3>3, <4>1, <5>1
      <4> QED BY <1>4, <4>2, <4>3, <4>4
    <3>5. P(k) < P(q) <=> w[k] < table[e]["to"]
      <4>1. table[e]["to"] <= w[q] /\ (table[e]["to"] <= w[k] => w[q] <= w[k])
        BY <2>5, <3>3 DEF Survivor
      <4>2. CASE k < q
        <5>1. P(k) < P(q) /\ w[k] < w[q]
          BY <1>4, <1>7, <4>2
        <5> QED BY <3>2, <3>3, <4>1, <5>1
      <4>3. CASE k = q
        BY <3>2, <3>3, <4>1, <4>3
      <4>4. CASE q < k
        <5>1. P(q) < P(k) /\ w[q] < w[k]
          BY <1>4, <1>7, <4>4
        <5> QED BY <3>2, <3>3, <4>1, <5>1
      <4> QED BY <1>4, <4>2, <4>3, <4>4
    <3> QED BY <3>1, <3>4, <3>5
  <2>7. DOMAIN out.code = 1..Len(w)
    BY <1>6 DEF code
  <2> QED BY <2>3, <2>6, <2>7 DEF w
<1> QED BY <1>9, <1>11, <1>12 DEF MeaningKept

\* unscramble() changes no method that is made as it takes for granted: what it writes
\* stores the same values and leaves the same stack.
THEOREM MeaningIsKept == Spec => [](WellMade => MeaningKept)
<1>1. Spec => []OutputKept
  <2>1. Init => OutputKept
    BY DEF Init, PassInit, OutputKept
  <2> QED BY <2>1, OutputStep, PTL DEF Spec
<1>2. FateInv /\ ListInv /\ PointsAhead /\ OutputKept /\ OffsetsWritten => (WellMade => MeaningKept)
  BY MeaningOfEdits
<1> QED BY <1>1, <1>2, FatesDecided, OffsetsRight, Implementation, ListInvariance, ChainAhead, PTL

-----------------------------------------------------------------------------
(***************************************************************************)
(* What can be proved of the end of the pass: it comes nearer with every   *)
(* step.                                                                   *)
(***************************************************************************)
\* The steps that can still be taken: one for each instruction ahead, and the
\* writing back.
ToGo == IF stage = "edit" THEN N + 2 - Place ELSE 0

Staged == stage \in {"edit", "written", "left"}

\* No step leaves everything as it is: no branch of the loop forgets to move the
\* cursor, and past the last instruction there is only the writing back.
LEMMA FurtherOn == Inv /\ Staged /\ Next => ToGo' \in Nat /\ ToGo' < ToGo
<1> SUFFICES ASSUME Inv, Staged, Next PROVE ToGo' \in Nat /\ ToGo' < ToGo
  OBVIOUS
<1>1. N \in Nat /\ 1 <= N /\ Ins = 1..N /\ Null = 0
  BY SizeAssumption DEF Ins, Null
<1>2. ASSUME NEW o \in kept, NEW n, n = list.next[o]
      PROVE  /\ o \in 1..N
             /\ o # N => n \in kept /\ n \in 1..N /\ o < n
             /\ o = N => n = Null
  <2>1. o \in 1..N
    BY <1>1 DEF Inv, ListInv, ListOK
  <2>2. ASSUME o # N PROVE n \in kept /\ n \in 1..N /\ o < n
    <3>1. ListOK /\ Chained /\ n = list.opnext[o]
      BY <1>2, <2>2 DEF Inv, ListInv, Chained
    <3> QED BY <1>1, <2>2, <3>1, NextFacts
  <2>3. ASSUME o = N PROVE n = Null
    BY <1>2, <2>3, Forward DEF Inv
  <2> QED BY <2>1, <2>2, <2>3
<1>3. CASE AtIns
  <2>1. ins \in kept /\ ins \in 1..N /\ stage = "edit" /\ Place = ins
    BY <1>2, <1>3 DEF AtIns, Inv, CursorLive, Place
  <2>2. stage' = "edit" /\ (ins' = Null \/ (ins' \in 1..N /\ ins < ins'))
    <3>1. CASE DropWrap \/ DropCall \/ DropWrapClass \/ Skip
      <4>1. stage' = "edit" /\ ins' = list.next[ins]
        BY <2>1, <3>1 DEF DropWrap, DropCall, DropWrapClass, Skip
      <4> QED BY <1>2, <2>1, <4>1
    <3>2. CASE ResolveSlot \/ ResolveMethod
      <4>1. stage' = "edit" /\ ins' = list.next[list.next[ins]] /\ ins # N
        BY <2>1, <3>2, StaticIsNotLast DEF ResolveSlot, ResolveMethod
      <4>2. list.next[ins] \in kept /\ list.next[ins] \in 1..N /\ ins < list.next[ins]
        BY <1>2, <2>1, <4>1
      <4>3. \/ list.next[list.next[ins]] = Null
            \/ /\ list.next[list.next[ins]] \in 1..N
               /\ list.next[ins] < list.next[list.next[ins]]
        BY <1>2, <4>2
      <4> QED BY <2>1, <4>1, <4>2, <4>3
    <3>3. CASE Write \/ Leave
      BY <1>3, <3>3 DEF AtIns, Write, WriteBack, Leave, LeaveAlone
    <3> QED BY <3>1, <3>2, <3>3 DEF Next
  <2>3. Place' = IF ins' = Null THEN N + 1 ELSE ins'
    BY DEF Place
  <2> QED BY <1>1, <2>1, <2>2, <2>3 DEF ToGo
<1>4. CASE ~AtIns
  <2>1. Write \/ Leave
    BY <1>4 DEF Next, DropWrap, DropCall, ResolveSlot, ResolveMethod, DropWrapClass, Skip
  <2>2. stage = "edit" /\ ins = Null /\ stage' # "edit"
    BY <2>1 DEF Write, WriteBack, Leave, LeaveAlone
  <2>3. Place = N + 1
    BY <2>2 DEF Place
  <2> QED BY <1>1, <2>2, <2>3 DEF ToGo
<1> QED BY <1>3, <1>4

\* unscramble() changes something no more than N + 1 times, whatever the method: each
\* step lowers a number that is N + 1 to begin with.
THEOREM Progress == Spec => ToGo = N + 1 /\ [][ToGo' \in Nat /\ ToGo' < ToGo]_vars
<1>1. Init => ToGo = N + 1 /\ Staged
  <2> SUFFICES ASSUME Init PROVE ToGo = N + 1 /\ Staged
    OBVIOUS
  <2>1. ins = 1 /\ stage = "edit"
    BY DEF Init, PassInit, ListInit, Register
  <2>2. Place = 1
    BY <2>1 DEF Place, Null
  <2> QED BY <2>1, <2>2, SizeAssumption DEF ToGo, Staged
<1>2. Staged /\ [Next]_vars => Staged'
  BY DEF Staged, Next, DropWrap, DropCall, ResolveSlot, ResolveMethod, DropWrapClass, Skip,
         Write, WriteBack, Leave, LeaveAlone, vars, passVars
<1>3. Inv /\ Staged /\ [Next]_vars => [ToGo' \in Nat /\ ToGo' < ToGo]_vars
  BY FurtherOn
<1> QED BY <1>1, <1>2, <1>3, Invariance, PTL DEF Spec
=============================================================================
