---------------------------- MODULE MCScheduler ----------------------------
(* Small instances of Scheduler for TLC.  Two gates: a required one that        *)
(* blames a and an optional one that blames b.                                  *)
EXTENDS Scheduler

CONSTANTS a, b, c, g1, g2

MCRank == [t \in Task |-> CASE t = a -> 1 [] t = b -> 2 [] t = c -> 3]
MCBlames == [g \in Gate |-> IF g = g1 THEN {a} ELSE {b}]

(* b is built on a.                                                             *)
ChainDeps == [t \in Task |-> IF t = b THEN {a} ELSE {}]
ChainDepth == [t \in Task |-> IF t = b THEN 1 ELSE 0]

(* All tasks in one wave.                                                       *)
FreeDeps == [t \in Task |-> {}]
FreeDepth == [t \in Task |-> 0]

(* c is built on a and b.                                                       *)
JoinDeps == [t \in Task |-> IF t = c THEN {a, b} ELSE {}]
JoinDepth == [t \in Task |-> IF t = c THEN 1 ELSE 0]
=============================================================================
