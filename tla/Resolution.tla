----------------------------- MODULE Resolution -----------------------------
(***************************************************************************)
(* What unscrambling all methods promises about the constant pools that    *)
(* the methods share: every constant a method needs is appended to its     *)
(* pool and referred to in one step, and the pools and methods are handed  *)
(* on once all of them have all their constants.                           *)
(***************************************************************************)
EXTENDS Integers, Sequences

CONSTANTS Methods,      \* the methods of the file
          Work,         \* the constants each one needs, in order
          InitialPool   \* the constant pools before

VARIABLES pool,    \* the values of each pool
          refs,    \* the places each method's code refers to
          ready    \* whether the next stage has been started

vars == <<pool, refs, ready>>

Init ==
  /\ pool = InitialPool
  /\ refs = [m \in Methods |-> <<>>]
  /\ ready = FALSE

Resolve(m) ==
  /\ ~ready
  /\ Len(refs[m]) < Len(Work[m])
  /\ LET const == Work[m][Len(refs[m]) + 1]
     IN /\ refs' = [refs EXCEPT ![m] = Append(@, Len(pool[const.pool]))]
        /\ pool' = [pool EXCEPT ![const.pool] = Append(@, const.value)]
  /\ UNCHANGED ready

HandOn ==
  /\ ~ready
  /\ \A m \in Methods : Len(refs[m]) = Len(Work[m])
  /\ ready' = TRUE
  /\ UNCHANGED <<pool, refs>>

Next == HandOn \/ \E m \in Methods : Resolve(m)

Spec == Init /\ [][Next]_vars
=============================================================================
