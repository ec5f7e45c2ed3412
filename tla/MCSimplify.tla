----------------------------- MODULE MCSimplify -----------------------------
(* Initialisers of N instructions: one property is assigned an expression,   *)
(* behind a branch or not, and another one a constant; or the text is not     *)
(* what simplify_expressions expects.                                        *)
EXTENDS SimplifyMeaning

CONSTANT Hard   \* the expressions beyond those: "none", "boundary", "swap",
                \* "boolean" or "join"

I(op, arg, argc) == <<[op |-> op, arg |-> arg, argc |-> argc]>>
Do(op) == I(op, 0, 0)

MCIntPool    == <<0, 7>>
MCUintPool   == <<0, 40000>>
MCDoublePool == <<<<0, 0>>, <<1, 2>>>>
MCStringPool == <<<<>>, <<"s">>>>

Numbers == {I("pushbyte", 0, 0), I("pushbyte", 3, 0), I("pushbyte", 254, 0),
            I("pushshort", 200, 0), I("pushint", 1, 0), I("pushuint", 1, 0),
            I("pushdouble", 1, 0)}

Literals == Numbers \cup {Do("pushtrue"), I("pushstring", 0, 0), I("pushstring", 1, 0)}

Binary(Left, Right, ops) ==
  {l \o r \o Do(op) : l \in Left, r \in Right, op \in ops}

BooleanOf(e) == I("findpropstrict", "Boolean", 0) \o e \o I("callproperty", "Boolean", 1)

Small == {I("pushbyte", 3, 0), I("pushshort", 200, 0), I("pushdouble", 1, 0)}

Common ==
  Literals \cup Binary(Literals, Literals, Arithmetic)
    \cup {l \o Do("negate") : l \in Literals}
    \cup {l \o Do("dup") \o Do(op) : l \in Literals, op \in Arithmetic}
    \cup Binary(Binary(Small, Small, Arithmetic), Small, Arithmetic)
    \cup Binary(Small, Binary(Small, Small, {"add", "divide"}), {"subtract", "divide"})
    \cup {BooleanOf(e) : e \in Literals \cup Binary(Small, Small, {"subtract"})}
    \cup {Do("pushtrue") \o Do("not"), Do("pushfalse") \o Do("not")}
    \cup {I("getlex", "x", 0), I("getlex", "x", 0) \o I("pushbyte", 3, 0) \o Do("add")}

HardExpressions ==
  CASE Hard \in {"none", "join"} -> {}
    [] Hard = "boundary" -> Binary({I("pushbyte", 127, 0)}, {I("pushbyte", 1, 0)}, {"add"})
    [] Hard = "swap" -> {l \o I("pushbyte", 3, 0) \o Do("swap") \o Do("subtract") : l \in Small}
    [] Hard = "boolean" -> {BooleanOf(I("getlex", "x", 0) \o I("getproperty", "y", 0))}

Assign(name, e) == I("findproperty", name, 0) \o e \o I("initproperty", name, 0)
AssignBySwap(name, e) ==
  e \o I("findproperty", name, 0) \o Do("swap") \o I("initproperty", name, 0)

Firsts == {Assign("p", e) : e \in Common \cup HardExpressions}
            \cup {AssignBySwap("p", e) : e \in Literals \cup Binary(Small, Small, Arithmetic)}

Second == Assign("q", I("pushstring", 1, 0))

\* The branch, if any, goes round the first assignment, to the end or, with
\* an invalid offset, nowhere.
Conditions == {I("getlex", "c", 0), Do("pushfalse"), BooleanOf(I("pushbyte", 3, 0))}

Guarded(c, first, to) ==
  LET start == Len(c) + 2
      offset == CASE to = "second" -> start + Len(first)
                  [] to = "end"    -> N
                  [] to = "none"   -> 0
  IN c \o I("iffalse", offset, 0) \o first

Padded(body) ==
  body \o [k \in 1..(N - Len(body) - 1) |-> Do("kill")[1]] \o Do("returnvoid")

\* What the pass gives up on: an opcode it does not support, a negation of a
\* value that is no bool, and code that is never run, which finds no stack.
Odd ==
  {Padded(Assign("p", I("pushbyte", 3, 0) \o Do("dup") \o Do("add") \o Do(op)))
     : op \in {"increment", "not"}}
  \cup {Padded(Second \o Do("returnvoid") \o Do("pop"))}
  \cup {Padded(I("jump", N, 0) \o Do("pushtrue") \o I("callproperty", "Boolean", 1)
                 \o I("callproperty", "Boolean", 1))}

Bodies == {f \o Second : f \in Firsts}
            \cup {Guarded(c, f, to) \o Second
                    : c \in Conditions, f \in Firsts, to \in {"second", "end", "none"}}

\* p = (c ? l : r) + 3, whose left operand comes on two ways.
Joins == {Padded(Assign("p", I("getlex", "c", 0) \o I("iffalse", 6, 0) \o l \o I("jump", 7, 0)
                               \o r \o I("pushbyte", 3, 0) \o Do("add"))) : l, r \in Numbers}

Initialisers == {Padded(b) : b \in {b \in Bodies : Len(b) < N}} \cup Odd
                  \cup IF Hard = "join" THEN Joins ELSE {}

Branch(m) == [o \in 1..N |-> IF m[o].op \in {"iffalse", "jump"} THEN <<m[o].arg>> ELSE <<>>]

Branches == {Branch(m) : m \in Initialisers}

\* TLC keeps the value of a definition, and would evaluate one that it
\* substitutes for a constant anew every time.
MCMethods    == Initialisers
MCJumpTables == Branches

MCErrors == {[e \in 1..E |-> [from |-> 2, to |-> 6, target |-> N]]}

\* Sizes as in the file format, for operands below 128.
MCOps == ConstantOps \cup Arithmetic \cup
         {"findproperty", "findpropstrict", "initproperty", "getlex", "getproperty",
          "callproperty", "dup", "swap", "pop", "not", "negate", "increment",
          "iffalse", "jump", "kill", "returnvoid"}

MCOpSize == [op \in MCOps |->
  CASE op \in Arithmetic \cup {"pushtrue", "pushfalse", "dup", "swap", "pop", "not",
                               "negate", "kill", "returnvoid", "increment"} -> 1
    [] op = "callproperty" -> 3
    [] op \in {"jump", "iffalse"} -> 4
    [] OTHER -> 2]

MCInit == orig \in Initialisers /\ args = Branch(orig) /\ Init

MCSpec == MCInit /\ [][Next]_vars /\ WF_vars(Next)
=============================================================================
