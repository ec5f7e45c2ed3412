------------------------------ MODULE Evaluate ------------------------------
(***************************************************************************)
(* eval_method in src/detfm/eval.cpp: the value of a static method without *)
(* parameters, computed in the type it returns, an instruction at a time.  *)
(* Beside it, what the AVM2 does with the same instruction.  The top of a  *)
(* stack comes first; sums beyond 32 bits are left out.                    *)
(***************************************************************************)
EXTENDS StackValues

\* The instantiations: eval_method<int32_t> and eval_method<double>.
ReturnTypes == {"int", "Number"}

Truncated(q) ==
  Whole(IF q[1] < 0 THEN -((-q[1]) \div q[2]) ELSE q[1] \div q[2])

\* Mutant: a pushshort is read as uint16_t.
OperandUnsigned(i, ints) ==
  CASE i.op = "pushbyte"  -> i.arg % 256
    [] i.op = "pushshort" -> i.arg % 2^16
    [] i.op = "pushint"   -> ints[i.arg + 1]

\* A pushbyte is read as uint8_t, a pushshort as int32_t.
Operand(i, ints) ==
  CASE i.op = "pushbyte"  -> i.arg % 256
    [] i.op = "pushshort" -> i.arg
    [] i.op = "pushint"   -> ints[i.arg + 1]

\* divise() has what was pushed last as its dividend.
Quotient(type, last, first) ==
  IF type = "int" THEN Truncated(Over(last, first)) ELSE Over(last, first)

Folded(s, q) == <<q>> \o SubSeq(s, 3, Len(s))

\* One turn of the loop.  Too small a stack and an int divided by zero are
\* undefined.
EvalStep(type, ints, s, i) ==
  LET go(stack)    == [status |-> "running", stack |-> stack]
      stop(status) == [status |-> status, stack |-> s]
  IN CASE i.op \in {"getlocal0", "pushscope"} -> go(s)
       [] i.op \in {"pushbyte", "pushshort", "pushint"} ->
            go(<<Whole(Operand(i, ints))>> \o s)
       [] i.op = "add" /\ Len(s) > 1 -> go(Folded(s, Plus(s[1], s[2])))
       [] i.op = "divide" /\ Len(s) > 1 ->
            IF type = "int" /\ s[2] = Whole(0) THEN stop("undefined")
            ELSE go(Folded(s, Quotient(type, s[1], s[2])))
       [] i.op = "returnvalue" /\ Len(s) > 0 -> stop("returned")
       [] i.op \in {"add", "divide", "returnvalue"} /\ Len(s) < 2 -> stop("undefined")
       [] OTHER -> stop("thrown")

-----------------------------------------------------------------------------
(***************************************************************************)
(* The AVM2: operands are signed, arithmetic is done in Number, and the    *)
(* result is converted when it is returned.                                *)
(***************************************************************************)
MachineStep(ints, s, i) ==
  CASE i.op = "pushbyte"  -> <<Whole(Signed(i.arg, 8))>> \o s
    [] i.op = "pushshort" -> <<Whole(Signed(i.arg, 16))>> \o s
    [] i.op = "pushint"   -> <<Whole(ints[i.arg + 1])>> \o s
    [] i.op = "add"       -> Folded(s, Plus(s[2], s[1]))
    [] i.op = "divide"    -> Folded(s, Over(s[2], s[1]))
    [] OTHER -> s

Returned(type, q) ==
  IF type = "Number" THEN q ELSE IF q[2] = 0 THEN Whole(0) ELSE Truncated(q)
=============================================================================
