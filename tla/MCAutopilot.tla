----------------------------- MODULE MCAutopilot -----------------------------
(* Instances of Autopilot for TLC: the task graphs and gates of MCScheduler.    *)
EXTENDS Autopilot, MCScheduler
=============================================================================
