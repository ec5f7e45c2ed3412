---------------------------- MODULE MCWorkerPool ----------------------------
(* Three threads and three methods, one of which needs constants of both     *)
(* pools and another of which needs none; two need the same value.           *)
EXTENDS WorkerPool

MCPools == {"ints", "doubles"}
MCValues == 0..3
MCInitialPool == [p \in MCPools |-> <<0>>]
MCWork ==
  [m \in 1..M |->
     CASE m = 1 -> <<[pool |-> "ints", value |-> 1], [pool |-> "doubles", value |-> 2]>>
       [] m = 2 -> <<>>
       [] OTHER -> <<[pool |-> "ints", value |-> 1], [pool |-> "ints", value |-> 3]>>]
=============================================================================
