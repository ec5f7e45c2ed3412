-------------------------------- MODULE Avm2 --------------------------------
(***************************************************************************)
(* What straight-line bytecode computes on the AVM2, the machine that runs *)
(* the methods detfm edits: as much of it as unscramble() relies on.  The  *)
(* operands each opcode takes and leaves are those of stack_operations in  *)
(* src/detfm/simplify.cpp.  A value is a term <<kind, name, parts>>, and   *)
(* what the code stores into its locals is what can be observed of it.     *)
(***************************************************************************)
EXTENDS Integers, Sequences

CONSTANTS WrapName, WrapMethods,   \* the class of identity functions
          Slots, Consts            \* the classes of constants

Const(double, value) == <<"value", IF double THEN "double" ELSE "int", value>>

\* What an index into a pool stands for.
Pooled(double, pool, index) ==
  IF index + 1 \in DOMAIN pool THEN Const(double, pool[index + 1])
                               ELSE <<"invalid", "index", index>>

\* The value a slot of a static class is initialised with.
SlotValue(class, name, pools) ==
  LET slot == Slots[class][name]
  IN CASE slot.kind = 1  -> <<"value", "string", slot.index>>
       [] slot.kind = 6  -> Pooled(TRUE, pools.doubles, slot.index)
       [] slot.kind = 10 -> <<"value", "false", 0>>
       [] slot.kind = 11 -> <<"value", "true", 0>>
       [] OTHER -> <<"slot", class, name>>

IsClass(term, class) == term = <<"class", class, <<>>>>
InStatic(term, table, name) ==
  \E c \in DOMAIN table : IsClass(term, c) /\ name \in DOMAIN table[c]

Get(object, name, pools) ==
  CASE IsClass(object, WrapName) /\ name \in WrapMethods -> <<"wrapper", name, <<>>>>
    [] InStatic(object, Slots, name) -> SlotValue(object[2], name, pools)
    [] OTHER -> <<"get", name, <<object>>>>

\* A wrapper returns its argument, a method of a static class its constant.
CallProperty(object, name, actuals) ==
  CASE IsClass(object, WrapName) /\ name \in WrapMethods /\ Len(actuals) = 1
         -> actuals[1]
    [] InStatic(object, Consts, name) /\ actuals = <<>>
         -> Const(Consts[object[2]][name].double, Consts[object[2]][name].value)
    [] OTHER -> <<"callproperty", name, <<object>> \o actuals>>

Call(function, receiver, actuals) ==
  IF function[1] = "wrapper" /\ Len(actuals) = 1
  THEN actuals[1]
  ELSE <<"call", "", <<function, receiver>> \o actuals>>

-----------------------------------------------------------------------------
\* How many operands an instruction takes from the stack.
Takes(i) ==
  CASE i.op \in {"getproperty", "setlocal"} -> 1
    [] i.op = "callproperty" -> i.argc + 1
    [] i.op = "call" -> i.argc + 2
    [] OTHER -> 0

\* What it leaves there: one value, or none.
Producers == {"getlex", "getlocal", "getglobalscope", "pushint", "pushdouble", "pushstring",
              "pushtrue", "pushfalse", "getproperty", "callproperty", "call"}

Product(i, top, pools) ==
  CASE i.op = "getlex"         -> <<"class", i.arg, <<>>>>
    [] i.op = "getlocal"       -> <<"local", i.arg, <<>>>>
    [] i.op = "getglobalscope" -> <<"global", "", <<>>>>
    [] i.op = "pushint"        -> Pooled(FALSE, pools.ints, i.arg)
    [] i.op = "pushdouble"     -> Pooled(TRUE, pools.doubles, i.arg)
    [] i.op = "pushstring"     -> <<"value", "string", i.arg>>
    [] i.op = "pushtrue"       -> <<"value", "true", 0>>
    [] i.op = "pushfalse"      -> <<"value", "false", 0>>
    [] i.op = "getproperty"    -> Get(top[1], i.arg, pools)
    [] i.op = "callproperty"   -> CallProperty(top[1], i.arg, Tail(top))
    [] i.op = "call"           -> Call(top[1], top[2], SubSeq(top, 3, Len(top)))

Leaves(i, top, pools) ==
  IF i.op \in Producers THEN <<Product(i, top, pools)>> ELSE <<>>

\* A machine whose stack is too short for an instruction fails for good.
Execute(m, i, pools) ==
  LET below == Len(m.stack) - Takes(i)
      top   == SubSeq(m.stack, below + 1, Len(m.stack))
  IN IF m.failed \/ below < 0 THEN [m EXCEPT !.failed = TRUE]
     ELSE [ stack  |-> SubSeq(m.stack, 1, below) \o Leaves(i, top, pools),
            locals |-> IF i.op = "setlocal" THEN Append(m.locals, <<i.arg, top[1]>>)
                       ELSE m.locals,
            failed |-> FALSE ]

Started == [stack |-> <<>>, locals |-> <<>>, failed |-> FALSE]

\* The machine started at the k-th instruction, before each of those from
\* there on and past the last; no branch is taken.
Run(code, k, pools) ==
  LET m[i \in k..(Len(code) + 1)] ==
        IF i = k THEN Started ELSE Execute(m[i - 1], code[i - 1], pools)
  IN m

\* Its outcome.
Outcome(code, k, pools) == Run(code, k, pools)[Len(code) + 1]
=============================================================================
