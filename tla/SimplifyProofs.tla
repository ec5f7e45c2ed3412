--------------------------- MODULE SimplifyProofs ---------------------------
(***************************************************************************)
(* simplify_expressions() edits the list as Rewrite allows, whatever the   *)
(* initialiser and whatever its pass computes with: where it is wrong      *)
(* about values, jumps and exception tables still follow the code.         *)
(***************************************************************************)
EXTENDS Simplify, RewriteProofs

Stages == {"edit", "fold", "written", "left", "thrown", "aborted", "undefined"}

-----------------------------------------------------------------------------
(***************************************************************************)
(* The invariant.                                                          *)
(***************************************************************************)
\* The cursor stands on an instruction that is in the list, or past the end;
\* during an edit it stands on one.
CursorLive ==
  /\ ins \in kept \cup {Null}
  /\ stage = "fold" => ins # Null

Counting == todo \in 0..2 /\ modified \in BOOLEAN /\ stage \in Stages

Inv == ListInv /\ CursorLive /\ Counting

\* The operand in front of the cursor is another instruction in the list.
LEMMA OperandInFront ==
  ASSUME Inv, stage = "fold", list.prev[ins] # Null
  PROVE  /\ list.prev[ins] \in kept
         /\ list.prev[ins] # ins
         /\ ins \in kept
<1>1. ins \in kept /\ ins \in Ins /\ ins \in Nat
  BY InsFacts DEF Inv, CursorLive, ListInv, ListOK
<1>2. /\ list.prev[ins] \in kept
      /\ list.prev[ins] < ins
  BY <1>1 DEF Inv, ListInv, Chained
<1>3. list.prev[ins] # ins
  BY <1>1, <1>2
<1> QED BY <1>1, <1>2, <1>3

LEMMA InitInv == Init => Inv
<1> SUFFICES ASSUME Init PROVE Inv
  OBVIOUS
<1>1. ListInv
  BY ListInitInv DEF Init, PassInit
<1>2. ins = list.begin /\ stage = "edit" /\ todo = 0 /\ modified = FALSE
  BY DEF Init, PassInit
<1>3. list.begin \in kept
  BY <1>1 DEF ListInv, Chained, Survivor
<1>4. CursorLive
  BY <1>2, <1>3, Zenon DEF CursorLive
<1>5. todo \in 0..2 /\ stage \in Stages
  BY <1>2 DEF Stages
<1>6. modified \in BOOLEAN
  BY <1>2
<1> QED BY <1>1, <1>4, <1>5, <1>6, Zenon DEF Inv, Counting

\* A case that edits nothing moves the cursor on along the list.
LEMMA AdvanceInv ==
  ASSUME Inv, AtIns, NEW s, Advance(s)
  PROVE  Inv' /\ UNCHANGED listVars
<1>1. ins \in kept /\ ListInv /\ stage = "edit"
  BY DEF AtIns, Inv, CursorLive
<1>2. list.next[ins] \in kept \cup {Null}
  BY <1>1, Forward
<1>3. UNCHANGED listVars /\ ins' = list.next[ins] /\ UNCHANGED <<todo, modified, stage>>
  BY DEF Advance
<1>4. ListInv' /\ kept' = kept
  BY <1>1, <1>3, Untouched DEF listVars
<1> QED BY <1>1, <1>2, <1>3, <1>4 DEF Inv, CursorLive, Counting

\* A case that calls edit_ins leaves the cursor where it is.
LEMMA EditInv ==
  ASSUME Inv, AtIns, NEW s, NEW n \in 1..2, Edit_ins(s, n)
  PROVE  Inv' /\ UNCHANGED listVars
<1>1. /\ UNCHANGED listVars /\ ins' = ins
      /\ todo' = n /\ modified' = TRUE /\ stage' = "fold"
  BY DEF Edit_ins
<1>2. ListInv' /\ kept' = kept
  BY <1>1, Untouched DEF Inv, listVars
<1> QED BY <1>1, <1>2 DEF Inv, AtIns, CursorLive, Counting, Stages

\* Where the pass gives up the list is left as it is.
LEMMA StopInv ==
  ASSUME Inv, NEW how \in Stages \ {"fold"}, Stop(how)
  PROVE  Inv' /\ UNCHANGED listVars
<1>1. UNCHANGED <<todo, ins, modified>> /\ UNCHANGED listVars /\ stage' = how
  BY DEF Stop
<1>2. ListInv' /\ kept' = kept
  BY <1>1, Untouched DEF Inv, listVars
<1> QED BY <1>1, <1>2 DEF Inv, CursorLive, Counting

LEMMA RemoveOperandInv ==
  ASSUME Inv, RemoveOperand
  PROVE  Inv' /\ ListNext
<1>1. /\ stage = "fold" /\ todo > 0 /\ list.prev[ins] # Null
      /\ RemoveIns(list.prev[ins]) /\ todo' = todo - 1
      /\ UNCHANGED <<ins, modified, stage>>
  BY DEF RemoveOperand
<1>2. list.prev[ins] \in kept /\ list.prev[ins] # ins /\ ins \in kept
  BY <1>1, OperandInFront
<1>3. ListInv' /\ ins \in kept'
  BY <1>1, <1>2, Removal DEF Inv
<1>4. todo' \in 0..2
  BY <1>1 DEF Inv, Counting
<1> QED BY <1>1, <1>2, <1>3, <1>4 DEF Inv, CursorLive, Counting, ListNext

LEMMA PutConstantInv ==
  ASSUME Inv, PutConstant
  PROVE  Inv' /\ UNCHANGED listVars
<1>1. /\ stage = "fold" /\ stage' = "edit" /\ ins' = list.next[ins]
      /\ UNCHANGED <<todo, modified>> /\ UNCHANGED listVars
  BY DEF PutConstant
<1>2. ins \in kept /\ ListInv
  BY <1>1 DEF Inv, CursorLive
<1>3. list.next[ins] \in kept \cup {Null}
  BY <1>2, Forward
<1>4. ListInv' /\ kept' = kept
  BY <1>1, <1>2, Untouched DEF listVars
<1> QED BY <1>1, <1>3, <1>4 DEF Inv, CursorLive, Counting, Stages

-----------------------------------------------------------------------------
(***************************************************************************)
(* Every step keeps the invariant and edits the list as Rewrite allows.    *)
(***************************************************************************)
LEMMA Step == Inv /\ [Next]_vars => Inv' /\ [ListNext]_listVars
<1> SUFFICES ASSUME Inv, [Next]_vars PROVE Inv' /\ [ListNext]_listVars
  OBVIOUS
<1>1. CASE \/ Constant \/ Dup \/ Swap \/ Not \/ NoFold \/ NoNegate \/ Other
  <2>1. AtIns /\ \E s : Advance(s)
    BY <1>1 DEF Constant, Dup, Swap, Not, NoFold, NoNegate, Other, Enough
  <2> QED BY <2>1, AdvanceInv
<1>2. CASE Fold \/ Negate \/ ToBoolean
  <2>1. AtIns /\ \E s : \E n \in 1..2 : Edit_ins(s, n)
    <3>1. AtIns /\ \E s : Edit_ins(s, 1) \/ Edit_ins(s, 2)
      BY <1>2 DEF Fold, Negate, ToBoolean, Enough
    <3> QED BY <3>1
  <2> QED BY <2>1, EditInv
<1>3. CASE NotOfNoBool \/ Unsupported \/ Underflow \/ NoOperand
  <2>1. \E how \in Stages \ {"fold"} : Stop(how)
    BY <1>3 DEF NotOfNoBool, Unsupported, Underflow, NoOperand, Stages
  <2> QED BY <2>1, StopInv
<1>4. CASE RemoveOperand
  BY <1>4, RemoveOperandInv
<1>5. CASE PutConstant
  BY <1>5, PutConstantInv
<1>6. CASE Write \/ Leave
  <2>1. /\ UNCHANGED listVars /\ UNCHANGED <<ins, todo, modified>>
        /\ stage' \in Stages \ {"fold"}
    BY <1>6 DEF Write, WriteBack, Leave, LeaveAlone, Stages
  <2>2. ListInv' /\ kept' = kept
    BY <2>1, Untouched DEF Inv, listVars
  <2> QED BY <2>1, <2>2 DEF Inv, CursorLive, Counting
<1>7. CASE UNCHANGED vars
  <2>1. UNCHANGED listVars /\ UNCHANGED <<ins, todo, modified, stage>>
    BY <1>7 DEF vars, passVars
  <2>2. ListInv' /\ kept' = kept
    BY <2>1, Untouched DEF Inv, listVars
  <2> QED BY <2>1, <2>2 DEF Inv, CursorLive, Counting
<1> QED BY <1>1, <1>2, <1>3, <1>4, <1>5, <1>6, <1>7 DEF Next

THEOREM Invariance == Spec => []Inv
<1>1. Inv /\ [Next]_vars => Inv'
  BY Step
<1> QED BY <1>1, InitInv, PTL DEF Spec

\* The operands of an edit are counted down to none, the cursor stays on the
\* edited instruction, and every field of the list keeps its type.
THEOREM Typing == Spec => []TypeOK
<1>1. Inv => TypeOK
  BY DEF Inv, ListInv, ListOK, CursorLive, Counting, Stages, TypeOK
<1> QED BY <1>1, Invariance, PTL

\* simplify_expressions() implements the removal of instructions that are in
\* the list: edit_ins never removes what has gone before.
THEOREM Implementation == Spec => ListSpec
<1>1. Init => ListInit
  BY DEF Init, PassInit
<1>2. Inv /\ [Next]_vars => [ListNext]_listVars
  BY Step
<1> QED BY <1>1, <1>2, Invariance, PTL DEF Spec, ListSpec

\* Whatever it folds, the jumps of the initialiser follow their targets.
THEOREM JumpsSurvive == Spec => []JumpsFollow
  BY Implementation, JumpsFollowTargets, PTL

\* And so do its try blocks and handlers.
THEOREM ErrorsSurvive == Spec => []ErrorsFollow
  BY Implementation, ErrorsFollowCode, PTL

\* What it does to the instructions is a sequence of removals.
THEOREM CodeShrinks == Spec => Implements
  BY Implementation, Refinement, PTL

\* Nothing moves once the initialiser is written, and only Write writes it.
LEMMA OutputStep == OutputKept /\ [Next]_vars => OutputKept'
<1> SUFFICES ASSUME OutputKept, [Next]_vars PROVE OutputKept'
  OBVIOUS
<1>1. CASE \/ Constant \/ Dup \/ Swap \/ Not \/ NoFold \/ NoNegate \/ Other
           \/ Fold \/ Negate \/ ToBoolean \/ Unsupported \/ Underflow \/ NotOfNoBool
           \/ RemoveOperand \/ NoOperand \/ PutConstant \/ Leave
  <2>1. stage' # "written"
    BY <1>1 DEF Constant, Dup, Swap, Not, NoFold, NoNegate, Other, Enough, Advance,
         Fold, Negate, ToBoolean, Edit_ins, Unsupported, Underflow, NotOfNoBool,
         NoOperand, Stop, RemoveOperand, PutConstant, Leave, LeaveAlone, AtIns
  <2> QED BY <2>1 DEF OutputKept
<1>2. CASE Write
  BY <1>2, OutputWritten DEF Write
<1>3. CASE UNCHANGED vars
  BY <1>3, OutputUntouched DEF vars, passVars, listVars
<1> QED BY <1>1, <1>2, <1>3 DEF Next

\* Every offset that simplify_expressions() writes leads to the first
\* instruction written at or after the original target, also where the
\* values it folds are wrong.
THEOREM OffsetsRight == Spec => []OffsetsWritten
<1>1. Init => OutputKept
  BY DEF Init, PassInit, OutputKept
<1>2. Spec => []OutputKept
  BY <1>1, OutputStep, PTL DEF Spec
<1> QED BY <1>2, Implementation, ListInvariance, ChainAhead, OutputOffsets, PTL

-----------------------------------------------------------------------------
(***************************************************************************)
(* What can be proved of the end of the pass: it comes nearer with every   *)
(* step, those of edit_ins included.                                       *)
(***************************************************************************)
\* The instructions ahead.
Remaining == IF ins = Null THEN 0 ELSE N + 1 - ins

\* The steps that can still be taken: up to four for each instruction ahead, its case,
\* the removal of two operands and the new constant; then the writing back.
ToGo ==
  CASE stage = "edit" -> 4 * Remaining + 1
    [] stage = "fold" -> 4 * (Remaining - 1) + todo + 2
    [] OTHER -> 0

\* While the pass edits, the next place is further on.
LEMMA FurtherOn ==
  ASSUME Inv, ins # Null
  PROVE  /\ N \in Nat /\ Remaining \in 1..N
         /\ ins' = ins => Remaining' = Remaining
         /\ ins' = list.next[ins] => Remaining' \in Nat /\ Remaining' < Remaining
<1>1. N \in Nat /\ 1 <= N /\ Ins = 1..N /\ Null = 0
  BY SizeAssumption DEF Ins, Null
<1>2. ins \in kept /\ ins \in 1..N
  BY <1>1 DEF Inv, CursorLive, ListInv, ListOK
<1>3. Remaining = N + 1 - ins
  BY DEF Remaining
<1>4. Remaining' = IF ins' = Null THEN 0 ELSE N + 1 - ins'
  BY DEF Remaining
<1>5. ASSUME ins' = list.next[ins] PROVE ins' = Null \/ (ins' \in 1..N /\ ins < ins')
  <2>1. CASE ins = N
    BY <1>2, <1>5, <2>1, Forward DEF Inv
  <2>2. CASE ins # N
    <3>1. ListOK /\ Chained /\ ins' = list.opnext[ins]
      BY <1>2, <1>5, <2>2 DEF Inv, ListInv, Chained
    <3>2. ins' \in Ins /\ ins < ins'
      <4>1. PICK n : n = list.opnext[ins]
        OBVIOUS
      <4>2. n \in Ins /\ ins < n
        BY <1>2, <2>2, <3>1, <4>1, NextFacts
      <4> QED BY <3>1, <4>1, <4>2
    <3> QED BY <1>1, <3>2
  <2> QED BY <2>1, <2>2
<1> QED BY <1>1, <1>2, <1>3, <1>4, <1>5

\* No step leaves everything as it is: no case of the switch forgets to move the
\* cursor, and no edit removes operands for ever.
LEMMA StepNearer == Inv /\ Next => ToGo' \in Nat /\ ToGo' < ToGo
<1> SUFFICES ASSUME Inv, Next PROVE ToGo' \in Nat /\ ToGo' < ToGo
  OBVIOUS
<1>1. /\ stage = "edit" => ToGo = 4 * Remaining + 1
      /\ stage = "fold" => ToGo = 4 * (Remaining - 1) + todo + 2
      /\ stage' = "edit" => ToGo' = 4 * Remaining' + 1
      /\ stage' = "fold" => ToGo' = 4 * (Remaining' - 1) + todo' + 2
      /\ stage' \notin {"edit", "fold"} => ToGo' = 0
  BY DEF ToGo
<1>2. todo \in 0..2
  BY DEF Inv, Counting
<1>3. ASSUME AtIns PROVE ins # Null /\ stage = "edit"
  BY <1>3 DEF AtIns
<1>4. ASSUME stage = "fold" PROVE ins # Null
  BY <1>4 DEF Inv, CursorLive
<1>5. CASE \/ Constant \/ Dup \/ Swap \/ Not \/ NoFold \/ NoNegate \/ Other
  <2>1. AtIns /\ stage' = stage /\ ins' = list.next[ins]
    BY <1>5 DEF Constant, Dup, Swap, Not, NoFold, NoNegate, Other, Enough, Advance
  <2> QED BY <1>1, <1>3, <2>1, FurtherOn
<1>6. CASE Fold \/ Negate \/ ToBoolean
  <2>1. AtIns /\ stage' = "fold" /\ ins' = ins /\ todo' \in 1..2
    BY <1>6 DEF Fold, Negate, ToBoolean, Enough, Edit_ins
  <2> QED BY <1>1, <1>3, <2>1, FurtherOn
<1>7. CASE NotOfNoBool \/ Unsupported \/ Underflow \/ NoOperand
  <2>1. /\ AtIns \/ stage = "fold"
        /\ stage' \in {"thrown", "aborted", "undefined"}
    BY <1>7 DEF NotOfNoBool, Unsupported, Underflow, NoOperand, Enough, Stop
  <2> QED BY <1>1, <1>2, <1>3, <1>4, <2>1, FurtherOn
<1>8. CASE RemoveOperand
  <2>1. stage = "fold" /\ stage' = "fold" /\ ins' = ins /\ todo > 0 /\ todo' = todo - 1
    BY <1>8 DEF RemoveOperand
  <2> QED BY <1>1, <1>2, <1>4, <2>1, FurtherOn
<1>9. CASE PutConstant
  <2>1. stage = "fold" /\ stage' = "edit" /\ ins' = list.next[ins] /\ todo = 0
    BY <1>9 DEF PutConstant
  <2> QED BY <1>1, <1>4, <2>1, FurtherOn
<1>10. CASE Write \/ Leave
  <2>1. stage = "edit" /\ ins = Null /\ stage' \in {"written", "left"}
    BY <1>10 DEF Write, WriteBack, Leave, LeaveAlone
  <2>2. Remaining = 0
    BY <2>1 DEF Remaining
  <2> QED BY <1>1, <2>1, <2>2
<1> QED BY <1>5, <1>6, <1>7, <1>8, <1>9, <1>10 DEF Next

\* simplify_expressions() changes something no more than 4N + 1 times, whatever the
\* initialiser: each step lowers a number that is 4N + 1 to begin with.
THEOREM Progress == Spec => ToGo = 4 * N + 1 /\ [][ToGo' \in Nat /\ ToGo' < ToGo]_vars
<1>1. Init => ToGo = 4 * N + 1
  <2> SUFFICES ASSUME Init PROVE ToGo = 4 * N + 1
    OBVIOUS
  <2>1. ins = 1 /\ stage = "edit"
    BY DEF Init, PassInit, ListInit, Register
  <2>2. Remaining = N
    BY <2>1, SizeAssumption DEF Remaining, Null
  <2> QED BY <2>1, <2>2 DEF ToGo
<1>2. Inv /\ [Next]_vars => [ToGo' \in Nat /\ ToGo' < ToGo]_vars
  BY StepNearer
<1> QED BY <1>1, <1>2, Invariance, PTL DEF Spec
=============================================================================
