----------------------------- MODULE MCRewrite ------------------------------
(* A small instance of Rewrite: every method of N instructions in which one  *)
(* instruction is a jump with up to MaxTargets targets, any of them possibly *)
(* invalid, and every exception table of E entries over it.                  *)
EXTENDS Rewrite

CONSTANTS MaxTargets

NoJump == [o \in Ins |-> <<>>]

MCJumpTables ==
  {NoJump} \cup
  {[NoJump EXCEPT ![j] = t] :
     j \in Ins, t \in UNION {[1..k -> 0..N] : k \in 1..MaxTargets}}

MCJumps == {a \in MCJumpTables : Null \notin {a[N][i] : i \in DOMAIN a[N]}}

\* Bounds in program order, as the compiler emits them.
MCErrors ==
  {t \in [Errs -> [ErrorField -> Ins]] :
     \A e \in Errs : t[e]["from"] <= t[e]["to"] /\ t[e]["to"] <= t[e]["target"]}
=============================================================================
