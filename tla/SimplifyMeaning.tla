-------------------------- MODULE SimplifyMeaning --------------------------
(***************************************************************************)
(* simplify_expressions() against the machine that runs the initialisers:  *)
(* what it writes does what it read did.                                   *)
(***************************************************************************)
EXTENDS Simplify

Machine == INSTANCE InitMachine

Pools(newDoubles, newStrings) ==
  [ints |-> IntPool, uints |-> UintPool, doubles |-> newDoubles, strings |-> newStrings]

\* The instruction written at an address; past the end if there is none.
Decoded(a) ==
  LET at == {k \in DOMAIN out.code : Position(out.code, DOMAIN out.code, k) = a}
  IN IF at = {} THEN Len(out.code) + 1 ELSE CHOOSE k \in at : TRUE

LeadsBefore ==
  [k \in Ins |-> IF args[k] = <<>> THEN Null ELSE ResolveOffset(k, args[k][1])]

LeadsAfter ==
  [k \in DOMAIN out.code |-> IF out.jumps[k] = <<>> THEN Null ELSE Decoded(out.jumps[k][1])]

\* The initialiser written assigns the same values to the same properties as
\* the one read, on the same ways through it: to "simplify expressions inside
\* the classes' init method" changes nothing but the expressions.
MeaningKept ==
  stage = "written" =>
    Machine!Ways(out.code, LeadsAfter, 1, <<>>, Pools(doubles, strings))
    = Machine!Ways(orig, LeadsBefore, 1, <<>>, Pools(DoublePool, StringPool))
=============================================================================
