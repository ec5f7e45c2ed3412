---------------------------- MODULE MCUnscramble ----------------------------
(* Methods of N instructions in the shape the obfuscator gives them: a       *)
(* branch, two statements that store an expression, and a return, padded     *)
(* with labels.  An expression wraps a constant, a slot or method of the     *)
(* static class, or the call of an ordinary method, up to Depth times.       *)
EXTENDS UnscrambleMeaning

CONSTANTS Depth,
          NestCalls   \* whether calls are found among the operands of a wrapper
                      \* that is called through getproperty

I(op, arg, argc) == <<[op |-> op, arg |-> arg, argc |-> argc]>>

MCOps == {"getlex", "getlocal", "setlocal", "getproperty", "callproperty", "call",
          "getglobalscope", "pushint", "pushdouble", "pushstring", "pushtrue",
          "pushfalse", "jump", "label", "returnvoid"}

\* Sizes as in the file format, for operands below 128.
MCOpSize == [op \in MCOps |->
  CASE op \in {"getglobalscope", "pushtrue", "pushfalse", "label", "returnvoid"} -> 1
    [] op = "callproperty" -> 3
    [] op = "jump" -> 4
    [] OTHER -> 2]

MCWrapMethods == {"w"}
MCSlots == [c \in {"S"} |-> [n \in {"s", "d", "t"} |->
  CASE n = "s" -> [kind |-> 1, index |-> 1]
    [] n = "d" -> [kind |-> 6, index |-> 1]
    [] n = "t" -> [kind |-> 11, index |-> 0]]]
MCConsts == [c \in {"S"} |-> [n \in {"i", "n"} |-> [double |-> n = "n", value |-> 7]]]
MCIntPool == <<0, 3>>
MCDoublePool == <<0, 5>>

Plain ==
  {I("pushint", 1, 0),
   I("getlex", "S", 0) \o I("getproperty", "s", 0),
   I("getlex", "S", 0) \o I("getproperty", "d", 0),
   I("getlex", "S", 0) \o I("getproperty", "t", 0),
   I("getlex", "S", 0) \o I("callproperty", "i", 0),
   I("getlex", "S", 0) \o I("callproperty", "n", 0),
   I("getlocal", "x", 0) \o I("callproperty", "f", 0)}

ByProperty(e) == I("getlex", "W", 0) \o e \o I("callproperty", "w", 1)

ByCall(e) ==
  I("getlex", "W", 0) \o I("getproperty", "w", 0) \o I("getglobalscope", 0, 0)
    \o e \o I("call", 0, 1)

WithoutCalls ==
  LET level[d \in 0..Depth] ==
        IF d = 0 THEN Plain
        ELSE level[d-1] \cup {ByProperty(e) : e \in level[d-1]}
                        \cup {ByCall(e) : e \in level[d-1]}
  IN level[Depth]

FunctionCall == I("getlocal", "g", 0) \o I("getglobalscope", 0, 0) \o I("call", 0, 0)

Expressions ==
  WithoutCalls \cup {FunctionCall, ByProperty(FunctionCall)}
    \cup IF NestCalls THEN {ByCall(FunctionCall)} ELSE {}

Store(e, local) == e \o I("setlocal", local, 0)

MethodOf(e1, e2) ==
  LET body == I("jump", 0, 0) \o Store(e1, "a") \o Store(e2, "b")
  IN body \o [k \in 1..(N - Len(body) - 1) |-> I("label", 0, 0)[1]] \o I("returnvoid", 0, 0)

Fitting == {p \in Expressions \X Expressions : Len(p[1]) + Len(p[2]) + 4 <= N}

MCMethods == {MethodOf(p[1], p[2]) : p \in Fitting}

\* The branch leads to a statement, to the end, or to no instruction.
Places == {0, 2, N} \cup {Len(p[1]) + 3 : p \in Fitting}

MCJumpTables == {[o \in 1..N |-> IF o = 1 THEN <<t>> ELSE <<>>] : t \in Places}

\* The branch is a switch, two cases of which lead to one place.
SwitchTables == {[o \in 1..N |-> IF o = 1 THEN <<t, t>> ELSE <<>>] : t \in Places}

\* The exception table covers the first statements; its handler is the end.
MCErrors ==
  {[e \in 1..E |-> [from |-> f, to |-> 3, target |-> N]] : f \in {2, 3}}

\* The entries cover the method from some statement on.
TryErrors ==
  {[e \in 1..E |-> [from |-> f, to |-> N, target |-> N]] : f \in Places \ {0}}

\* Jumps enter a statement where the stack is empty.
BetweenStatements ==
  args[1][1] \in {0, 2, N} \/ orig[args[1][1] - 1].op = "setlocal"

MCInit == Init /\ WellMade

MCSpec == MCInit /\ [][Next]_vars /\ WF_vars(Next)

\* Methods that are not well made in one respect each.
OtherInit == Init /\ BetweenStatements

OtherSpec == OtherInit /\ [][Next]_vars /\ WF_vars(Next)
=============================================================================
