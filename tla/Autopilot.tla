------------------------------ MODULE Autopilot ------------------------------
(* cmd_autopilot (minifleet/cli.py): one process that drives the scheduler to a *)
(* verdict.  A round is dispatch, the workers, ingest or reject every result,   *)
(* integrate, verify, repair.  Every step is a step of Scheduler; this module   *)
(* adds the order they are taken in and the reasons to stop.                    *)
EXTENDS Scheduler

CONSTANTS MaxRounds,    \* limits.max_rounds or --max-rounds
          WallBudget    \* TRUE when the intent declares max_wall_seconds

ASSUME LoopAssumption ==
  MaxRounds \in Nat /\ MaxAttempts > 0 /\ WallBudget \in BOOLEAN

VARIABLES
  pc,         \* where the loop is; "crashed" when an exception ended the process
  round,      \* round_index
  queue,      \* dispatch results not handled yet
  exhausted   \* which budget the loop says is spent

loopVars == <<pc, round, queue, exhausted>>
autoVars == <<vars, loopVars>>

Stage == {"dispatch", "work", "settle", "integrate", "verify", "repair", "stopped", "crashed"}
Over == pc \in {"stopped", "crashed"}

AutoInit ==
  /\ Init
  /\ pc = (IF MaxRounds = 0 THEN "stopped" ELSE "dispatch")
  /\ round = 1 /\ queue = {} /\ exhausted = "none"

-----------------------------------------------------------------------------
(* max_wall_seconds is looked at between rounds only.                          *)
WallSpent ==
  /\ pc = "dispatch" /\ WallBudget
  /\ pc' = "stopped" /\ exhausted' = "wall"
  /\ UNCHANGED <<vars, round, queue>>

(* The whole ready set is one wave; with nothing ready the loop goes on to     *)
(* integrate.                                                                  *)
DispatchWave ==
  LET wave == {t \in Task : Refreshed(state)[t] = "ready"} IN
  /\ pc = "dispatch"
  /\ Dispatch(wave)
  /\ queue' = wave
  /\ pc' = IF wave = {} THEN "integrate" ELSE "work"
  /\ UNCHANGED <<round, exhausted>>

DispatchSpent ==
  /\ pc = "dispatch"
  /\ DispatchRefused
  /\ IF InState("ready") # {}
     THEN pc' = "stopped" /\ exhausted' = "dispatches"
     ELSE pc' = "integrate" /\ UNCHANGED exhausted
  /\ UNCHANGED <<round, queue>>

Work(t, f) ==
  /\ pc = "work" /\ t \in queue
  /\ f \notin sandbox[t].dirty
  /\ WorkerEdits(t, f)
  /\ UNCHANGED loopVars

WorkCommit(t) ==
  /\ pc = "work" /\ t \in queue
  /\ WorkerCommits(t)
  /\ UNCHANGED loopVars

(* The pool has returned every result.                                         *)
WorkersReturn ==
  /\ pc = "work"
  /\ pc' = "settle"
  /\ UNCHANGED <<vars, round, queue, exhausted>>

(* A worker that exceeds its time limit, a missing worker command or a result  *)
(* that is no JSON raises out of the pool and ends the process.                *)
WorkerRaises ==
  /\ pc = "work"
  /\ pc' = "crashed"
  /\ UNCHANGED <<vars, round, queue, exhausted>>

HandledAll(t) == {}
Handled(t) == queue \ {t}

(* Results are taken in the order of the wave: a submitted one is ingested,    *)
(* any other fails its task.                                                   *)
Settle ==
  /\ pc = "settle"
  /\ \E t \in queue :
       /\ \A s \in queue : Rank[t] <= Rank[s]
       /\ (\E gatesPass \in BOOLEAN : Ingest(t, gatesPass)) \/ RejectResult(t)
       /\ queue' = Handled(t)
  /\ pc' = IF queue' = {} THEN "integrate" ELSE "settle"
  /\ UNCHANGED <<round, exhausted>>

-----------------------------------------------------------------------------
IntegrateOk ==
  /\ pc = "integrate"
  /\ IntegrateMerge(Mergeable) /\ pc' = "verify"
  /\ UNCHANGED <<round, queue, exhausted>>

IntegrateFails ==
  /\ pc = "integrate"
  /\ \/ IntegrateConflict
     \/ \E done \in SUBSET Mergeable : done # Mergeable /\ IntegrateMerge(done)
  /\ pc' = "stopped"
  /\ UNCHANGED <<round, queue, exhausted>>

Verify ==
  /\ pc = "verify"
  /\ \E failing \in SUBSET Gate :
       \/ VerifyPass(failing) /\ pc' = "stopped"
       \/ VerifyFail(failing, MaxAttempts) /\ pc' = "repair"
  /\ UNCHANGED <<round, queue, exhausted>>

LastRoundOff == FALSE
LastRound == round >= MaxRounds

(* Whether the loop continues is decided by the tasks that are ready after the *)
(* repair, not by what the repair reports.                                     *)
Repair ==
  /\ pc = "repair"
  /\ RepairFailed(MaxAttempts)
  /\ IF InState("ready")' = {} \/ LastRound
     THEN pc' = "stopped" /\ UNCHANGED round
     ELSE pc' = "dispatch" /\ round' = round + 1
  /\ UNCHANGED <<queue, exhausted>>

AutoNext ==
  \/ WallSpent \/ DispatchWave \/ DispatchSpent
  \/ \E t \in Task, f \in Edited : Work(t, f)
  \/ \E t \in Task : WorkCommit(t)
  \/ WorkersReturn \/ WorkerRaises \/ Settle
  \/ IntegrateOk \/ IntegrateFails \/ Verify \/ Repair

AutoSafety == AutoInit /\ [][AutoNext]_autoVars

(* Workers and gates have time limits, and the loop never waits for anybody.   *)
AutoSpec == AutoSafety /\ WF_autoVars(AutoNext)

-----------------------------------------------------------------------------
(* A round starts with nothing in flight, and every task handed out in it is   *)
(* settled before integrate looks for its sandbox, so the loop never runs into *)
(* a directory that is not there.                                              *)
RoundStartsSettled ==
  /\ pc = "dispatch" => InState("dispatched") \cup InState("verified") = {}
  /\ pc \in {"work", "settle"} => queue = InState("dispatched")
  /\ pc \in {"settle", "integrate"} => \A t \in queue \cup Mergeable : sandbox[t].on # 0

(* A task is judged at most max_attempts times, over all rounds, gates and     *)
(* attributions ("retry forever is not autonomy").                             *)
AttemptsWithinBudget == \A t \in Task : attempts[t] <= MaxAttempts

(* In one process the dispatch limit is overrun by less than one wave.         *)
DispatchOverrun ==
  MaxDispatches # 0 => handed < MaxDispatches + Cardinality(Task)

(* The loop ends.                                                              *)
Terminates == <>Over
=============================================================================
