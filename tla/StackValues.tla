---------------------------- MODULE StackValues ----------------------------
(***************************************************************************)
(* The values simplify_expressions computes with (StackValue in            *)
(* src/detfm/simplify.cpp).  A double is a fraction in lowest terms,       *)
(* <<1, 0>>, <<-1, 0>> and <<0, 0>> being the infinities and NaN; the sign *)
(* of zero and rounding are left out.  A string is a sequence.             *)
(***************************************************************************)
EXTENDS Integers, Sequences

Unknown   == <<"unknown", 0>>       \* std::monostate
Bool(b)   == <<"bool", b>>
Number(q) == <<"number", q>>
String(s) == <<"string", s>>

Whole(n) == <<n, 1>>

\* An integer read back from a field of w bits.
Signed(n, w) == ((n + 2^(w-1)) % 2^w) - 2^(w-1)

Abs(n) == IF n < 0 THEN -n ELSE n

\* In lowest terms, as whole numbers are.
Reduced(n, d) ==
  LET gcd[x \in Nat, y \in Nat] == IF y = 0 THEN x ELSE gcd[y, x % y]
      g == gcd[Abs(n), d]
  IN CASE d = 1 -> Whole(n)
       [] d # 1 /\ g = 0 -> <<0, 0>>
       [] d # 1 /\ g # 0 -> <<n \div g, d \div g>>

Opposite(q) == <<-q[1], q[2]>>

Plus(p, q) ==
  IF p[2] = 0 /\ q[2] = 0 THEN IF p = q THEN p ELSE <<0, 0>>
  ELSE Reduced(p[1] * q[2] + q[1] * p[2], p[2] * q[2])

Times(p, q) == Reduced(p[1] * q[1], p[2] * q[2])

Over(p, q) == Times(p, IF q[1] < 0 THEN <<-q[2], -q[1]>> ELSE <<q[2], q[1]>>)
=============================================================================
