------------------------------ MODULE Simplify ------------------------------
(***************************************************************************)
(* simplify_expressions(method) (src/detfm/simplify.cpp), as simplify_init *)
(* applies it to the initialiser of a class: a pass that computes with the *)
(* constants it meets and puts results in the place of operations.  The    *)
(* stack is carried through the text of the method, whatever its jumps.    *)
(*                                                                         *)
(* edit_ins removes operands one at a time: stage is "fold" in between.    *)
(* An initialiser is "thrown" out on an opcode that is not supported,      *)
(* which simplify_init catches and logs; std::get of a value of another    *)
(* kind is not caught and has the program "aborted"; a pop of the empty    *)
(* stack or a null prev is "undefined".                                    *)
(***************************************************************************)
EXTENDS Pass, StackValues

CONSTANTS IntPool, UintPool,         \* abc->cpool.integers, uintegers
          DoublePool, StringPool,    \* the pools that are extended, before
          SaturatingCast   \* whether the build casts a negative double to
                           \* uint32_t, which is undefined, to 0 or wraps it

ASSUME SaturatingCastAssumption == SaturatingCast \in BOOLEAN

ASSUME MethodsAssumption == \A m \in Methods : DOMAIN m = 1..N

VARIABLES stack,              \* its top is the head
          todo,               \* operands that edit_ins has still to remove
          doubles, strings    \* abc->cpool.doubles, abc->cpool.strings

vars == <<stack, todo, doubles, strings, passVars, listVars>>

-----------------------------------------------------------------------------
(***************************************************************************)
(* The table operations, of two values of one kind, and eval_bool.         *)
(***************************************************************************)
Arithmetic == {"add", "subtract", "multiply", "divide"}

\* Two doubles, or two strings that are added.
Foldable(op, a, b) ==
  \/ a[1] = "number" /\ b[1] = "number" /\ op \in Arithmetic
  \/ a[1] = "string" /\ b[1] = "string" /\ op = "add"

\* Mutant: the operands in the order they are popped.
FoldedSwapped(op, a, b) ==
  CASE op = "add" /\ a[1] = "string" -> String(a[2] \o b[2])
    [] op = "add" /\ a[1] = "number" -> Number(Plus(a[2], b[2]))
    [] op = "subtract" -> Number(Plus(a[2], Opposite(b[2])))
    [] op = "multiply" -> Number(Times(a[2], b[2]))
    [] op = "divide"   -> Number(Over(a[2], b[2]))

\* a is what is popped first, the operand on the right.
Folded(op, a, b) ==
  CASE op = "add" /\ a[1] = "string" -> String(b[2] \o a[2])
    [] op = "add" /\ a[1] = "number" -> Number(Plus(b[2], a[2]))
    [] op = "subtract" -> Number(Plus(b[2], Opposite(a[2])))
    [] op = "multiply" -> Number(Times(b[2], a[2]))
    [] op = "divide"   -> Number(Over(b[2], a[2]))

\* eval_bool: a double other than zero is true, NaN too; an unknown is false.
EvalBool(v) ==
  CASE v[1] = "bool"   -> v[2]
    [] v[1] = "number" -> v[2] # Whole(0)
    [] v[1] = "string" -> v[2] # <<>>
    [] OTHER -> FALSE
-----------------------------------------------------------------------------
\* stack_operations: how many values opcodes take from the stack and put there.
StackOperations ==
  { [ops |-> {"jump", "kill", "popscope", "returnvoid"}, take |-> 0, put |-> 0],
    [ops |-> {"getlocal0", "getlex", "pushnull", "findproperty", "findpropstrict",
              "newarray", "newfunction"}, take |-> 0, put |-> 1],
    [ops |-> {"newcatch"}, take |-> 0, put |-> 2],
    [ops |-> {"setlocal1", "pushscope", "pop", "callpropvoid", "iffalse", "iftrue"},
     take |-> 1, put |-> 0],
    [ops |-> {"ifeq", "setproperty", "initproperty", "setslot"}, take |-> 2, put |-> 0],
    [ops |-> {"getproperty", "constructprop", "construct", "applytype", "callproperty"},
     take |-> 1, put |-> 1],
    [ops |-> {"equals"}, take |-> 2, put |-> 1] }

Listed(op) == \E row \in StackOperations : op \in row.ops
Row(op)    == CHOOSE row \in StackOperations : op \in row.ops

\* dynamic_stack_op: opcodes that take arguments on top of that.
Dynamic == {"construct", "applytype", "newarray",
            "constructprop", "callproperty", "callpropvoid"}

Takes(o) == Row(Op(o)).take + IF Op(o) \in Dynamic THEN prog[o].argc ELSE 0
Puts(o)  == Row(Op(o)).put

ConstantOps == {"pushbyte", "pushshort", "pushint", "pushuint", "pushdouble",
                "pushtrue", "pushfalse", "pushstring"}

Literal(o) ==
  CASE Op(o) = "pushbyte"   -> Number(Whole(Signed(Arg(o), 8)))
    [] Op(o) = "pushshort"  -> Number(Whole(Arg(o)))
    [] Op(o) = "pushint"    -> Number(Whole(IntPool[Arg(o) + 1]))
    [] Op(o) = "pushuint"   -> Number(Whole(UintPool[Arg(o) + 1]))
    [] Op(o) = "pushdouble" -> Number(doubles[Arg(o) + 1])
    [] Op(o) = "pushstring" -> String(strings[Arg(o) + 1])
    [] OTHER -> Bool(Op(o) = "pushtrue")

\* callproperty Boolean with one argument.
IsBoolean(o) == Op(o) = "callproperty" /\ prog[o].argc = 1 /\ Arg(o) = "Boolean"

\* What the switch has a case for; the other opcodes go to the default.
HasCase(o) ==
  \/ Op(o) \in ConstantOps \cup Arithmetic \cup {"dup", "swap", "not", "negate"}
  \/ IsBoolean(o)

\* The values that the case of the opcode reads or pops.
Needs(o) ==
  CASE Op(o) \in Arithmetic -> 2
    [] Op(o) \in {"dup", "swap", "not", "negate"} \/ IsBoolean(o) -> 1
    [] Op(o) \in ConstantOps -> 0
    [] OTHER -> Takes(o)

Below(n) == SubSeq(stack, n + 1, Len(stack))

-----------------------------------------------------------------------------
Init ==
  /\ PassInit
  /\ stack = <<>> /\ todo = 0
  /\ doubles = DoublePool /\ strings = StringPool

\* A case that edits nothing: the new stack, and on to the next instruction.
Advance(newStack) ==
  /\ stack' = newStack
  /\ ins' = list.next[ins]
  /\ UNCHANGED <<todo, doubles, strings, orig, prog, modified, stage, out, listVars>>

\* A case that calls edit_ins with the result on the stack.
Edit_ins(newStack, operands) ==
  /\ stack' = newStack
  /\ todo' = operands
  /\ modified' = TRUE
  /\ stage' = "fold"
  /\ UNCHANGED <<doubles, strings, orig, prog, ins, out, listVars>>

Stop(how) ==
  /\ stage' = how
  /\ UNCHANGED <<stack, todo, doubles, strings, orig, prog, ins, modified, out, listVars>>

Supported(o) == HasCase(o) \/ Listed(Op(o))

Enough == AtIns /\ Supported(ins) /\ Len(stack) >= Needs(ins)

Constant == Enough /\ Op(ins) \in ConstantOps /\ Advance(<<Literal(ins)>> \o stack)

Dup == Enough /\ Op(ins) = "dup" /\ Advance(<<Head(stack)>> \o stack)

\* A value alone on the stack stays where it is.
Swap ==
  /\ Enough /\ Op(ins) = "swap"
  /\ Advance(IF Len(stack) = 1 THEN stack ELSE <<stack[2], stack[1]>> \o Below(2))

\* The condition is the wrong way round: a bool is kept and an unknown put
\* on top of it, anything else is taken for a bool.
Not ==
  /\ Enough /\ Op(ins) = "not" /\ Head(stack)[1] = "bool"
  /\ Advance(<<Unknown>> \o stack)

NotOfNoBool == Enough /\ Op(ins) = "not" /\ Head(stack)[1] # "bool" /\ Stop("aborted")

Fold ==
  /\ Enough /\ Op(ins) \in Arithmetic /\ Foldable(Op(ins), stack[1], stack[2])
  /\ Edit_ins(<<Folded(Op(ins), stack[1], stack[2])>> \o Below(2), 2)

NoFold ==
  /\ Enough /\ Op(ins) \in Arithmetic /\ ~Foldable(Op(ins), stack[1], stack[2])
  /\ Advance(<<Unknown>> \o Below(2))

Negate ==
  /\ Enough /\ Op(ins) = "negate" /\ Head(stack)[1] = "number"
  /\ Edit_ins(<<Number(Opposite(Head(stack)[2]))>> \o Below(1), 1)

\* Mutant: the loop is continued without moving the cursor.
NoNegateAgain ==
  /\ Enough /\ Op(ins) = "negate" /\ Head(stack)[1] # "number"
  /\ UNCHANGED vars

NoNegate == Enough /\ Op(ins) = "negate" /\ Head(stack)[1] # "number" /\ Advance(stack)

\* The object that Boolean is called on stays on the stack.
ToBoolean ==
  /\ Enough /\ IsBoolean(ins)
  /\ Edit_ins(<<Bool(EvalBool(Head(stack)))>> \o Below(1), 2)

Other ==
  /\ Enough /\ ~HasCase(ins)
  /\ Advance([k \in 1..Puts(ins) |-> Unknown] \o Below(Takes(ins)))

Unsupported == AtIns /\ ~Supported(ins) /\ Stop("thrown")

Underflow ==
  /\ AtIns /\ Supported(ins) /\ Len(stack) < Needs(ins)
  /\ Stop("undefined")

-----------------------------------------------------------------------------
(***************************************************************************)
(* edit_ins.                                                               *)
(***************************************************************************)
\* Mutant: the operand is looked for at the address in front.
RemoveOperandInFront ==
  /\ stage = "fold" /\ todo > 0 /\ list.prev[ins] # Null
  /\ RemoveIns(ins - 1)
  /\ todo' = todo - 1
  /\ UNCHANGED <<stack, doubles, strings, orig, prog, ins, modified, stage, out>>

\* Mutant: one operand more is removed than was asked for.
RemoveOperandMore ==
  /\ stage = "fold" /\ todo >= 0 /\ list.prev[ins] # Null
  /\ RemoveIns(list.prev[ins])
  /\ todo' = todo - 1
  /\ UNCHANGED <<stack, doubles, strings, orig, prog, ins, modified, stage, out>>

RemoveOperand ==
  /\ stage = "fold" /\ todo > 0 /\ list.prev[ins] # Null
  /\ RemoveIns(list.prev[ins])
  /\ todo' = todo - 1
  /\ UNCHANGED <<stack, doubles, strings, orig, prog, ins, modified, stage, out>>

NoOperand == stage = "fold" /\ todo > 0 /\ list.prev[ins] = Null /\ Stop("undefined")

\* static_cast<uint32_t>(value)
Cast(n) == IF n < 0 /\ SaturatingCast THEN 0 ELSE n

\* The double is written as an integer when it is one, and small.
Inlined(q) == q[2] = 1 /\ Abs(q[1]) <= 32768

Push(op, arg) == [op |-> op, arg |-> arg, argc |-> 0]

\* The instruction becomes the push of the top of the stack.  Of the operand
\* of a pushbyte the low byte is written.
Replacement(v) ==
  CASE v[1] = "number" /\ ~Inlined(v[2]) -> Push("pushdouble", Len(doubles))
    [] v[1] = "number" /\ Inlined(v[2]) ->
         IF Abs(v[2][1]) > 128 THEN Push("pushshort", Cast(v[2][1]))
         ELSE Push("pushbyte", Cast(v[2][1]) % 256)
    [] v[1] = "string" -> Push("pushstring", Len(strings))
    [] v[1] = "bool"   -> Push(IF v[2] THEN "pushtrue" ELSE "pushfalse", 0)

PutConstant ==
  LET v == Head(stack)
  IN /\ stage = "fold" /\ todo = 0
     /\ prog' = [prog EXCEPT ![ins] = Replacement(v)]
     /\ doubles' = IF v[1] = "number" /\ ~Inlined(v[2]) THEN Append(doubles, v[2])
                   ELSE doubles
     /\ strings' = IF v[1] = "string" THEN Append(strings, v[2]) ELSE strings
     /\ stage' = "edit"
     /\ ins' = list.next[ins]
     /\ UNCHANGED <<stack, todo, orig, modified, out, listVars>>

-----------------------------------------------------------------------------
Write == WriteBack /\ UNCHANGED <<stack, todo, doubles, strings>>
Leave == LeaveAlone /\ UNCHANGED <<stack, todo, doubles, strings>>

Next ==
  \/ Constant \/ Dup \/ Swap \/ Not \/ NotOfNoBool
  \/ Fold \/ NoFold \/ Negate \/ NoNegate \/ ToBoolean
  \/ Other \/ Unsupported \/ Underflow
  \/ RemoveOperand \/ NoOperand \/ PutConstant
  \/ Write \/ Leave

\* The pass is a loop of one thread.
Spec == Init /\ [][Next]_vars /\ WF_vars(Next)

-----------------------------------------------------------------------------
\* The counter of edit_ins, the cursor and the list keep their types; the
\* cursor stays on an instruction throughout an edit.
TypeOK ==
  /\ ListOK
  /\ ins \in Ins \cup {Null}
  /\ todo \in 0..2
  /\ modified \in BOOLEAN
  /\ stage \in {"edit", "fold", "written", "left", "thrown", "aborted", "undefined"}
  /\ stage = "fold" => ins # Null

\* The pass over a method comes to an end, one of them.
Terminates == <>(stage \notin {"edit", "fold"})
=============================================================================
