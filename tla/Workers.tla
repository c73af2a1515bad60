------------------------------- MODULE Workers -------------------------------
(* The waves of one command: dispatch, run or autopilot hand tasks to a pool of *)
(* threads, each of which drives one worker; the results are collected in the   *)
(* order of the wave and settled when all are in (minifleet/workers.py, the end *)
(* of Scheduler.dispatch, and what cli.py does with the results).  A result     *)
(* file is never removed, so it outlives the attempt that wrote it.             *)
EXTENDS Naturals, FiniteSets

CONSTANTS Task, Rank,     \* Rank is the order of the design
          MaxParallel,    \* --max-parallel
          MaxRounds       \* the rounds of autopilot

ASSUME WorkersAssumption ==
  /\ IsFiniteSet(Task)
  /\ Rank \in [Task -> Nat] /\ \A s, t \in Task : Rank[s] = Rank[t] => s = t
  /\ MaxParallel \in Nat /\ MaxRounds \in Nat \ {0}

VARIABLES
  command,   \* what the operator typed
  mode,      \* which dispatcher make_dispatcher built
  loop,      \* where the command is
  round,     \* waves handed out
  state,     \* the task states of the record
  wave,      \* the prepared tasks
  slot,      \* the future of each task of the wave
  answer,    \* DispatchResult.status
  file       \* packets/<task>.result.json

vars == <<command, mode, loop, round, state, wave, slot, answer, file>>

Command == {"dispatch", "run", "autopilot"}
Mode == {"packet", "command", "http"}
Loop == {"load", "dispatch", "pool", "raising", "settle", "judge", "done", "crashed"}
Slot == {"none", "queued", "running", "returned", "raised", "collected", "cancelled"}
File == {"none", "submitted", "other", "broken"}
Answer == {"none", "submitted", "failed", "dispatched", "other"}

InSlot(s) == {t \in Task : slot[t] = s}
Over == loop \in {"done", "crashed"}

(* run plans a run of its own; the others find one with a history.             *)
Init ==
  /\ command \in Command /\ mode \in Mode
  /\ loop = "load" /\ round = 0
  /\ state \in [Task -> {"ready", "pending"}]
  /\ wave = {} /\ slot = [t \in Task |-> "none"]
  /\ answer = [t \in Task |-> "none"] /\ file \in [Task -> File]
  /\ command = "run" => file = [t \in Task |-> "none"]

(* run and autopilot refuse the packet dispatcher.                             *)
Load ==
  /\ loop = "load"
  /\ loop' = IF mode = "packet" /\ command # "dispatch" THEN "done" ELSE "dispatch"
  /\ UNCHANGED <<command, mode, round, state, wave, slot, answer, file>>

(* Every ready task is one wave; only dispatch takes a --limit.  The record is *)
(* saved with the wave in it before a worker starts.                           *)
Prepare ==
  LET ready == {t \in Task : state[t] = "ready"} IN
  /\ loop = "dispatch"
  /\ \E w \in SUBSET ready :
       /\ w = {} => ready = {}
       /\ command # "dispatch" => w = ready
       /\ \A t \in w, s \in ready \ w : Rank[t] < Rank[s]
       /\ wave' = w
       /\ state' = [t \in Task |-> IF t \in w THEN "dispatched" ELSE state[t]]
       /\ slot' = [t \in Task |-> IF t \in w THEN "queued" ELSE "none"]
  /\ answer' = [t \in Task |-> "none"]
  /\ round' = round + 1 /\ loop' = "pool"
  /\ UNCHANGED <<command, mode, file>>

-----------------------------------------------------------------------------
(* The threads of the pool.                                                    *)
Threads == IF MaxParallel = 0 THEN 1 ELSE MaxParallel

StartWorker(t) ==
  /\ slot[t] = "queued" /\ \A s \in InSlot("queued") : Rank[t] <= Rank[s]
  /\ Cardinality(InSlot("running")) < Threads
  /\ slot' = [slot EXCEPT ![t] = "running"]
  /\ UNCHANGED <<command, mode, loop, round, state, wave, answer, file>>

Returns(t, status) ==
  /\ slot' = [slot EXCEPT ![t] = "returned"]
  /\ answer' = [answer EXCEPT ![t] = status]
  /\ UNCHANGED <<command, mode, loop, round, state, wave, file>>

Raises(t) ==
  /\ slot' = [slot EXCEPT ![t] = "raised"]
  /\ UNCHANGED <<command, mode, loop, round, state, wave, answer, file>>

HandOff(t) ==
  /\ mode = "packet" /\ slot[t] = "running"
  /\ Returns(t, "dispatched")

WriteResult(t, content) ==
  /\ mode = "command" /\ slot[t] = "running"
  /\ file' = [file EXCEPT ![t] = content]
  /\ UNCHANGED <<command, mode, loop, round, state, wave, slot, answer>>

(* The worker process ended: the result file speaks if there is one, whoever   *)
(* wrote it, else the exit code; what is no result raises.                     *)
WorkerEnds(t, ok) ==
  /\ mode = "command" /\ slot[t] = "running"
  /\ CASE file[t] = "none"   -> Returns(t, IF ok THEN "dispatched" ELSE "failed")
       [] file[t] = "broken" -> Raises(t)
       [] OTHER              -> Returns(t, file[t])

(* There is no such command, or what it prints is no text.                     *)
NoWorker(t) ==
  /\ mode = "command" /\ slot[t] = "running"
  /\ Raises(t)

(* The model's answer is written to the sandbox file by file; it may hold no   *)
(* file, or one that cannot be written.                                        *)
ModelAnswers(t) ==
  /\ mode = "http" /\ slot[t] = "running"
  /\ Returns(t, "submitted") \/ Returns(t, "failed") \/ Raises(t)

TimedOnce == {"http"}
Timed == {"command", "http"}

(* The limit of a worker process raises, that of a request is a failed answer. *)
TimesOut(t) ==
  /\ mode \in Timed /\ slot[t] = "running"
  /\ IF mode = "http" THEN Returns(t, "failed") ELSE Raises(t)

-----------------------------------------------------------------------------
(* The main thread takes the results in the order of the wave.                 *)
Uncollected == {t \in wave : slot[t] # "collected"}
Foremost(t) == t \in Uncollected /\ \A s \in Uncollected : Rank[t] <= Rank[s]

Collect ==
  /\ loop = "pool"
  /\ \E t \in Task :
       Foremost(t) /\ slot[t] = "returned" /\ slot' = [slot EXCEPT ![t] = "collected"]
  /\ UNCHANGED <<command, mode, loop, round, state, wave, answer, file>>

(* An exception in its turn cancels what has not started; leaving the pool     *)
(* waits for the rest, then the command ends with a traceback.                 *)
CollectRaises ==
  /\ loop = "pool"
  /\ \E t \in Task : Foremost(t) /\ slot[t] = "raised"
  /\ slot' = [t \in Task |-> IF slot[t] = "queued" THEN "cancelled" ELSE slot[t]]
  /\ loop' = "raising"
  /\ UNCHANGED <<command, mode, round, state, wave, answer, file>>

Crash ==
  /\ loop = "raising" /\ InSlot("running") = {}
  /\ loop' = "crashed"
  /\ UNCHANGED <<command, mode, round, state, wave, slot, answer, file>>

(* dispatch reports the answers and ends.                                      *)
PoolEnds ==
  /\ loop = "pool" /\ Uncollected = {}
  /\ loop' = IF command = "dispatch" THEN "done" ELSE "settle"
  /\ UNCHANGED <<command, mode, round, state, wave, slot, answer, file>>

-----------------------------------------------------------------------------
Believed(t) == answer[t] = "submitted"

(* run ingests every task that is dispatched and has a sandbox, which packets  *)
(* has made for all of them; autopilot ingests a submitted one.                *)
IngestedBelieved(t) == Believed(t)
Ingested(t) == command = "run" \/ Believed(t)

Settle ==
  LET dispatched == {t \in wave : state[t] = "dispatched"} IN
  /\ loop = "settle"
  /\ \E t \in dispatched :
       /\ \A s \in dispatched : Rank[t] <= Rank[s]
       /\ IF Ingested(t)
          THEN \E s \in {"verified", "failed"} : state' = [state EXCEPT ![t] = s]
          ELSE /\ command = "autopilot"
               /\ state' = [state EXCEPT ![t] = "failed"]
  /\ UNCHANGED <<command, mode, loop, round, wave, slot, answer, file>>

(* run leaves its loop: what it did not ingest is still dispatched.            *)
Settled ==
  /\ loop = "settle"
  /\ \A t \in wave : state[t] = "dispatched" => command = "run" /\ ~Ingested(t)
  /\ loop' = "judge"
  /\ UNCHANGED <<command, mode, round, state, wave, slot, answer, file>>

(* integrate, verify and, in autopilot, the repair: any task may come back,    *)
(* and a round begins while one is ready.  run ends behind its first wave.     *)
Judge ==
  /\ loop = "judge"
  /\ \E back \in SUBSET Task :
       /\ command = "run" => back = {}
       /\ state' = [t \in Task |-> IF t \in back THEN "ready" ELSE state[t]]
       /\ loop' = IF back # {} /\ round < MaxRounds THEN "dispatch" ELSE "done"
  /\ UNCHANGED <<command, mode, round, wave, slot, answer, file>>

Pool(t) ==
  \/ StartWorker(t) \/ HandOff(t) \/ NoWorker(t) \/ ModelAnswers(t) \/ TimesOut(t)
  \/ \E content \in File \ {"none"} : WriteResult(t, content)
  \/ \E ok \in BOOLEAN : WorkerEnds(t, ok)

Main ==
  \/ Load \/ Prepare \/ Collect \/ CollectRaises \/ Crash \/ PoolEnds
  \/ Settle \/ Settled \/ Judge

Next == Main \/ \E t \in Task : Pool(t)

Safety == Init /\ [][Next]_vars

(* A worker need not do anything: what ends it is its time limit.              *)
Spec ==
  /\ Safety /\ WF_vars(Main)
  /\ \A t \in Task : WF_vars(StartWorker(t)) /\ WF_vars(HandOff(t)) /\ WF_vars(TimesOut(t))

-----------------------------------------------------------------------------
TypeOK ==
  /\ command \in Command /\ mode \in Mode /\ loop \in Loop /\ round \in Nat
  /\ state \in [Task -> {"pending", "ready", "dispatched", "verified", "failed"}]
  /\ wave \subseteq Task /\ slot \in [Task -> Slot]
  /\ answer \in [Task -> Answer] /\ file \in [Task -> File]

(* No worker is at its sandbox while its task is judged or when the command    *)
(* has ended, also when one of them raised.  A wave that raised is not half    *)
(* judged, and a run or autopilot that ended by itself leaves no task behind   *)
(* as dispatched (`dispatch`, `cmd_run`, `cmd_autopilot`).                     *)
WaveSettled ==
  /\ loop \in {"settle", "judge", "done", "crashed"} => InSlot("queued") \cup InSlot("running") = {}
  /\ loop = "settle" => \A t \in wave : answer[t] # "none"
  /\ loop = "crashed" => \A t \in wave : state[t] = "dispatched"
  /\ loop = "done" /\ command # "dispatch" => \A t \in Task : state[t] # "dispatched"

(* The command ends, whatever the workers do and however few threads it has.   *)
CommandEnds == <>Over
=============================================================================
