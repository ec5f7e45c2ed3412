---------------------------- MODULE InitMachine ----------------------------
(***************************************************************************)
(* What the initialiser of a class does on the AVM2, as far as             *)
(* simplify_expressions relies on it: the machine computes with constants, *)
(* takes what it does not know for a term, and goes both ways at a branch  *)
(* on such a term.  What it assigns to properties can be observed, on each *)
(* of the ways, and so can which way it is.                                *)
(***************************************************************************)
EXTENDS StackValues

Term(name, parts) == <<"term", <<name, parts>>>>

Known(v) == v[1] \in {"bool", "number", "string"}

\* ToBoolean of ECMA-262, of a value that is known.
Truth(v) ==
  \/ v = Bool(TRUE)
  \/ v[1] = "number" /\ v[2][1] # 0
  \/ v[1] = "string" /\ v[2] # <<>>

\* The operand of a pushshort is read in 16 bits.
Constant(i, pools) ==
  CASE i.op = "pushbyte"   -> Number(Whole(Signed(i.arg, 8)))
    [] i.op = "pushshort"  -> Number(Whole(Signed(i.arg, 16)))
    [] i.op = "pushint"    -> Number(Whole(pools.ints[i.arg + 1]))
    [] i.op = "pushuint"   -> Number(Whole(pools.uints[i.arg + 1]))
    [] i.op = "pushdouble" -> Number(pools.doubles[i.arg + 1])
    [] i.op = "pushstring" -> String(pools.strings[i.arg + 1])
    [] OTHER -> Bool(i.op = "pushtrue")

ArithmeticOps == {"add", "subtract", "multiply", "divide"}

\* Operands of two kinds are converted; the result is not looked into.
Computed(op, left, right) ==
  CASE left[1] = "number" /\ right[1] = "number" ->
         LET p == left[2]
             q == right[2]
         IN Number(CASE op = "add"      -> Plus(p, q)
                     [] op = "subtract" -> Plus(p, Opposite(q))
                     [] op = "multiply" -> Times(p, q)
                     [] op = "divide"   -> Over(p, q))
    [] left[1] = "string" /\ right[1] = "string" /\ op = "add" ->
         String(left[2] \o right[2])
    [] OTHER -> Term(op, <<left, right>>)

Negative(v) ==
  IF v[1] = "number" THEN Number(Opposite(v[2])) ELSE Term("negate", <<v>>)

\* Boolean() is called on the object findpropstrict finds it in.
Called(object, name, v) ==
  IF name = "Boolean" /\ object = Term("findpropstrict", "Boolean") /\ Known(v)
  THEN Bool(Truth(v)) ELSE Term(name, <<object, v>>)

Taken(i) ==
  CASE i.op \in {"initproperty", "add", "subtract", "multiply", "divide", "swap"} -> 2
    [] i.op = "callproperty" -> 2
    [] i.op \in {"dup", "pop", "not", "negate", "iffalse", "getproperty"} -> 1
    [] OTHER -> 0

\* The new top of the stack s, the last value pushed first.
Left(i, s, pools) ==
  CASE i.op \in {"pushbyte", "pushshort", "pushint", "pushuint", "pushdouble",
                 "pushtrue", "pushfalse", "pushstring"} -> <<Constant(i, pools)>>
    [] i.op \in ArithmeticOps -> <<Computed(i.op, s[2], s[1])>>
    [] i.op = "not"    -> <<IF Known(s[1]) THEN Bool(~Truth(s[1])) ELSE Term("not", <<s[1]>>)>>
    [] i.op = "negate" -> <<Negative(s[1])>>
    [] i.op = "dup"    -> <<s[1], s[1]>>
    [] i.op = "swap"   -> <<s[2], s[1]>>
    [] i.op \in {"findproperty", "findpropstrict", "getlex"} -> <<Term(i.op, i.arg)>>
    [] i.op = "getproperty"  -> <<Term(i.arg, <<s[1]>>)>>
    [] i.op = "callproperty" -> <<Called(s[2], i.arg, s[1])>>
    [] OTHER -> <<>>

\* The observations made from instruction k of the code on, to[k] being where
\* its jump leads.  All jumps lead ahead.
RECURSIVE Ways(_, _, _, _, _)
Ways(code, to, k, s, pools) ==
  IF k > Len(code) THEN {<<"end">>}
  ELSE LET i    == code[k]
           rest == SubSeq(s, Taken(i) + 1, Len(s))
           on(j, see) == {see \o way : way \in Ways(code, to, j, rest, pools)}
       IN CASE Len(s) < Taken(i) -> {<<"failed">>}
            [] Len(s) >= Taken(i) /\ i.op = "returnvoid" -> {<<"end">>}
            [] Len(s) >= Taken(i) /\ i.op = "jump" -> on(to[k], <<>>)
            [] Len(s) >= Taken(i) /\ i.op = "iffalse" ->
                 IF Known(s[1]) THEN on(IF Truth(s[1]) THEN k + 1 ELSE to[k], <<>>)
                 ELSE on(k + 1, <<<<"if", s[1]>>>>) \cup on(to[k], <<<<"else", s[1]>>>>)
            [] Len(s) >= Taken(i) /\ i.op = "initproperty" ->
                 on(k + 1, <<<<"assign", <<s[2], i.arg, s[1]>>>>>>)
            [] OTHER -> Ways(code, to, k + 1, Left(i, s, pools) \o rest, pools)
=============================================================================
