------------------------------ MODULE MCWorkers ------------------------------
(* Three tasks and two threads: one task of a wave always waits for a thread.   *)
EXTENDS Workers

CONSTANTS a, b, c

MCRank == [t \in Task |-> CASE t = a -> 1 [] t = b -> 2 [] t = c -> 3]
=============================================================================
