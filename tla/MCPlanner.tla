------------------------------ MODULE MCPlanner ------------------------------
(* Small designs for TLC.                                                      *)
EXTENDS Planner

CONSTANTS a, b, c, d

MCOrder == [n \in Node |-> CASE n = a -> 1 [] n = b -> 2 [] n = c -> 3 [] n = d -> 4]
=============================================================================
