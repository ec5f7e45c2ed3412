------------------------------ MODULE CodeEdit ------------------------------
(***************************************************************************)
(* What removing instructions from a method promises: the code is a        *)
(* sequence, an instruction that goes is taken out of it, and a jump that  *)
(* went to it goes to the instruction that followed it.  The last          *)
(* instruction stays.                                                      *)
(***************************************************************************)
EXTENDS Integers, Sequences, SequencesExt

VARIABLES code,   \* the instructions left, in order
          dest    \* the instruction each jump leads to

vars == <<code, dest>>

Take(k) ==
  /\ code' = RemoveAt(code, k)
  /\ dest' = [j \in DOMAIN dest |->
                IF dest[j] = code[k] THEN code[k + 1] ELSE dest[j]]

Next == \E k \in 1..(Len(code) - 1) : Take(k)

\* The initial code is whatever the method held.
Spec == [][Next]_vars
=============================================================================
