---------------------------- MODULE WorkersProofs ----------------------------
(* Theorems about Workers, for any number of tasks, threads and rounds.         *)
(*                                                                              *)
(* What WaveSettled says of the end of a wave is carried through it by InWave:  *)
(* a future exists for tasks of the wave only, it waits or runs only while the  *)
(* pool is open, and what left it with a result has an answer; the record says  *)
(* "dispatched" of a task exactly as long as somebody still has to judge it.    *)
EXTENDS Workers, TLAPS

InWave ==
  /\ \A t \in Task : slot[t] # "none" => t \in wave
  /\ \A t \in Task : slot[t] = "queued" => loop = "pool"
  /\ \A t \in Task : slot[t] = "running" => loop \in {"pool", "raising"}
  /\ \A t \in Task : slot[t] \in {"returned", "collected"} => answer[t] # "none"
  /\ loop = "settle" => \A t \in wave : slot[t] = "collected"
  /\ loop \in {"pool", "raising", "crashed"} => \A t \in wave : state[t] = "dispatched"
  /\ \A t \in Task : state[t] = "dispatched" =>
       \/ t \in wave /\ loop \in {"pool", "raising", "crashed", "settle"}
       \/ loop = "done" /\ command = "dispatch"

IInv == TypeOK /\ InWave

LEMMA InvImplies == IInv => WaveSettled
BY DEF IInv, TypeOK, InWave, WaveSettled, InSlot, Slot

LEMMA InitInv == Init => IInv
BY DEF Init, IInv, TypeOK, InWave, Command, Mode, Loop, Slot, File, Answer

(* What a thread does with the future it runs.                                  *)
LEMMA ThreadInv ==
  ASSUME IInv, NEW t \in Task, slot[t] = "running",
         Raises(t) \/ \E status \in Answer \ {"none"} : Returns(t, status)
  PROVE  IInv'
<1>1. TypeOK'
  BY DEF IInv, TypeOK, Raises, Returns, Slot, Answer
<1>2. InWave'
  BY DEF IInv, TypeOK, InWave, Raises, Returns, Slot, Answer
<1> QED BY <1>1, <1>2 DEF IInv

LEMMA PoolInv == ASSUME IInv, NEW t \in Task, Pool(t) PROVE IInv'
<1>1. CASE StartWorker(t)
  BY <1>1 DEF StartWorker, IInv, TypeOK, InWave, Slot
<1>2. CASE HandOff(t)
  BY <1>2, ThreadInv DEF HandOff, Answer
<1>3. CASE NoWorker(t)
  BY <1>3, ThreadInv DEF NoWorker
<1>4. CASE ModelAnswers(t)
  BY <1>4, ThreadInv DEF ModelAnswers, Answer
<1>5. CASE TimesOut(t)
  BY <1>5, ThreadInv DEF TimesOut, Answer
<1>6. ASSUME NEW content \in File \ {"none"}, WriteResult(t, content) PROVE IInv'
  BY <1>6 DEF WriteResult, IInv, TypeOK, InWave
<1>7. ASSUME NEW ok \in BOOLEAN, WorkerEnds(t, ok) PROVE IInv'
  <2>1. file[t] \in File
    BY DEF IInv, TypeOK
  <2>2. CASE file[t] = "none"
    BY <2>2, <1>7, ThreadInv DEF WorkerEnds, Answer
  <2>3. CASE file[t] = "broken"
    BY <2>3, <1>7, ThreadInv DEF WorkerEnds
  <2>4. CASE file[t] \in {"submitted", "other"}
    <3>1. Returns(t, file[t])
      BY <2>4, <1>7 DEF WorkerEnds
    <3> QED BY <3>1, <2>4, <1>7, ThreadInv DEF WorkerEnds, Answer
  <2> QED BY <2>1, <2>2, <2>3, <2>4 DEF File
<1> QED BY <1>1, <1>2, <1>3, <1>4, <1>5, <1>6, <1>7 DEF Pool

LEMMA MainInv == ASSUME IInv, Main PROVE IInv'
<1>1. CASE Load
  BY <1>1 DEF Load, IInv, TypeOK, InWave, Loop
<1>2. CASE Prepare
  <2>1. PICK w \in SUBSET Task :
          /\ wave' = w
          /\ state' = [t \in Task |-> IF t \in w THEN "dispatched" ELSE state[t]]
          /\ slot' = [t \in Task |-> IF t \in w THEN "queued" ELSE "none"]
    BY <1>2 DEF Prepare
  <2>2. TypeOK'
    BY <1>2, <2>1 DEF Prepare, IInv, TypeOK, Loop, Slot, Answer
  <2>3. \A t \in Task : state[t] # "dispatched"
    BY <1>2 DEF Prepare, IInv, InWave
  <2>4. InWave'
    BY <1>2, <2>1, <2>3 DEF Prepare, IInv, TypeOK, InWave
  <2> QED BY <2>2, <2>4 DEF IInv
<1>3. CASE Collect
  BY <1>3 DEF Collect, IInv, TypeOK, InWave, Slot
<1>4. CASE CollectRaises
  BY <1>4 DEF CollectRaises, IInv, TypeOK, InWave, Slot, Loop
<1>5. CASE Crash
  BY <1>5 DEF Crash, IInv, TypeOK, InWave, InSlot, Loop
<1>6. CASE PoolEnds
  <2>1. \A t \in wave : slot[t] = "collected"
    BY <1>6 DEF PoolEnds, Uncollected
  <2> QED BY <1>6, <2>1 DEF PoolEnds, IInv, TypeOK, InWave, Loop
<1>7. CASE Settle
  <2>1. PICK t \in wave, s \in {"verified", "failed"} :
          state[t] = "dispatched" /\ state' = [state EXCEPT ![t] = s]
    BY <1>7 DEF Settle
  <2> QED BY <1>7, <2>1 DEF Settle, IInv, TypeOK, InWave
<1>8. CASE Settled
  <2>1. \A t \in wave : state[t] # "dispatched"
    BY <1>8 DEF Settled, Ingested
  <2> QED BY <1>8, <2>1 DEF Settled, IInv, TypeOK, InWave, Loop
<1>9. CASE Judge
  BY <1>9 DEF Judge, IInv, TypeOK, InWave, Loop
<1> QED BY <1>1, <1>2, <1>3, <1>4, <1>5, <1>6, <1>7, <1>8, <1>9 DEF Main

LEMMA Inductive == Safety => []IInv
<1>1. IInv /\ UNCHANGED vars => IInv'
  BY DEF IInv, TypeOK, InWave, vars
<1>2. IInv /\ Next => IInv'
  BY MainInv, PoolInv DEF Next
<1> QED BY InitInv, <1>1, <1>2, PTL DEF Safety

(* No worker is at its sandbox when its task is judged or when the command has  *)
(* ended, and nothing is half judged or left behind, for every number of tasks  *)
(* and threads (`Scheduler.dispatch`, `cmd_run`, `cmd_autopilot`).              *)
THEOREM WavesSettle == Safety => []WaveSettled
BY Inductive, InvImplies, PTL

-----------------------------------------------------------------------------
(* What CommandEnds rests on besides fairness: every step but a worker's write *)
(* begins one of the waves allowed, goes to a later stage, moves one future on, *)
(* or settles one more task.                                                   *)
StageNumber ==
  [load |-> 0, pool |-> 1, raising |-> 2, settle |-> 2, judge |-> 3, dispatch |-> 4,
   done |-> 5, crashed |-> 5]
SlotNumber ==
  [none |-> 0, queued |-> 0, running |-> 1, returned |-> 2, raised |-> 2, collected |-> 3,
   cancelled |-> 3]
Unsettled == {t \in wave : state[t] = "dispatched"}

FutureMoves ==
  \E t \in Task : /\ SlotNumber[slot[t]] < SlotNumber[slot'[t]]
                  /\ \A s \in Task \ {t} : slot'[s] = slot[s]

Forward ==
  \/ round' = round + 1 /\ round' <= MaxRounds
  \/ round' = round /\ StageNumber[loop] < StageNumber[loop']
  \/ round' = round /\ loop' = loop /\ FutureMoves
  \/ round' = round /\ loop' = loop /\ Unsettled' \subseteq Unsettled /\ Unsettled' # Unsettled

Writes == \E t \in Task, content \in File \ {"none"} : WriteResult(t, content)

RoundsLeft ==
  /\ loop = "load" => round = 0
  /\ loop = "dispatch" => round < MaxRounds

LEMMA SlotStep ==
  ASSUME IInv, NEW t \in Task, NEW v, slot' = [slot EXCEPT ![t] = v], UNCHANGED <<round, loop>>,
         SlotNumber[slot[t]] < SlotNumber[v]
  PROVE  Forward
<1>1. slot'[t] = v /\ \A s \in Task \ {t} : slot'[s] = slot[s]
  BY DEF IInv, TypeOK
<1> QED
  BY <1>1 DEF Forward, FutureMoves

LEMMA PoolForward ==
  ASSUME IInv, NEW t \in Task, Pool(t)
  PROVE  Writes \/ Forward
<1>1. CASE StartWorker(t)
  <2>1. SlotNumber[slot[t]] < SlotNumber["running"]
    BY <1>1 DEF StartWorker, SlotNumber
  <2> QED
    BY <1>1, <2>1, SlotStep DEF StartWorker
<1>2. ASSUME slot[t] = "running", Raises(t) \/ \E status \in Answer : Returns(t, status)
      PROVE  Forward
  <2>1. PICK v \in {"raised", "returned"} : slot' = [slot EXCEPT ![t] = v] /\ UNCHANGED <<round, loop>>
    BY <1>2 DEF Raises, Returns
  <2>2. SlotNumber[slot[t]] < SlotNumber[v]
    BY <1>2 DEF SlotNumber
  <2> QED
    BY <2>1, <2>2, SlotStep
<1>3. CASE HandOff(t) \/ NoWorker(t) \/ ModelAnswers(t) \/ TimesOut(t)
  BY <1>2, <1>3 DEF HandOff, NoWorker, ModelAnswers, TimesOut, Answer
<1>4. ASSUME NEW ok \in BOOLEAN, WorkerEnds(t, ok) PROVE Forward
  <2>1. file[t] \in File /\ slot[t] = "running"
    BY <1>4 DEF IInv, TypeOK, WorkerEnds
  <2>2. CASE file[t] = "none"
    BY <1>2, <1>4, <2>1, <2>2 DEF WorkerEnds, Answer
  <2>3. CASE file[t] = "broken"
    BY <1>2, <1>4, <2>1, <2>3 DEF WorkerEnds
  <2>4. CASE file[t] \in {"submitted", "other"}
    <3>1. Returns(t, file[t])
      BY <1>4, <2>4 DEF WorkerEnds
    <3> QED
      BY <1>2, <2>1, <2>4, <3>1 DEF Answer
  <2> QED
    BY <2>1, <2>2, <2>3, <2>4 DEF File
<1> QED
  BY <1>1, <1>3, <1>4 DEF Pool, Writes

LEMMA MainForward ==
  ASSUME IInv, RoundsLeft, Main
  PROVE  Forward
<1>1. round \in Nat /\ MaxRounds \in Nat \ {0}
  BY WorkersAssumption DEF IInv, TypeOK
<1>2. CASE Prepare
  BY <1>1, <1>2 DEF Prepare, RoundsLeft, Forward
<1>3. CASE Collect
  <2>1. PICK t \in Task : slot[t] = "returned" /\ slot' = [slot EXCEPT ![t] = "collected"]
    BY <1>3 DEF Collect
  <2>2. SlotNumber[slot[t]] < SlotNumber["collected"]
    BY <2>1 DEF SlotNumber
  <2> QED
    BY <1>3, <2>1, <2>2, SlotStep DEF Collect
<1>4. CASE Settle
  <2>1. PICK t \in Unsettled, v \in {"verified", "failed"} : state' = [state EXCEPT ![t] = v]
    BY <1>4 DEF Settle, Unsettled
  <2>2. wave' = wave /\ loop' = loop /\ round' = round
    BY <1>4 DEF Settle
  <2>3. t \notin Unsettled' /\ Unsettled' \subseteq Unsettled
    BY <2>1, <2>2 DEF Unsettled, IInv, TypeOK
  <2> QED
    BY <2>1, <2>2, <2>3 DEF Forward
<1>5. CASE Load \/ CollectRaises \/ Crash \/ PoolEnds \/ Settled \/ Judge
  BY <1>5 DEF Load, CollectRaises, Crash, PoolEnds, Settled, Judge, Forward, StageNumber
<1> QED
  BY <1>2, <1>3, <1>4, <1>5 DEF Main

LEMMA RoundsStep ==
  ASSUME RoundsLeft, [Next]_vars
  PROVE  RoundsLeft'
<1>1. ASSUME NEW t \in Task, Pool(t) PROVE UNCHANGED <<loop, round>>
  BY <1>1 DEF Pool, StartWorker, HandOff, NoWorker, ModelAnswers, TimesOut, WriteResult, WorkerEnds,
              Returns, Raises
<1>2. ASSUME Main PROVE RoundsLeft'
  BY <1>2, WorkersAssumption
     DEF Main, Load, Prepare, Collect, CollectRaises, Crash, PoolEnds, Settle, Settled, Judge, RoundsLeft
<1>3. UNCHANGED <<loop, round>> => RoundsLeft'
  BY DEF RoundsLeft
<1> QED
  BY <1>1, <1>2, <1>3 DEF Next, vars

(* A command never goes back, whatever its workers do and however many threads *)
(* it has (`cmd_dispatch`, `cmd_run`, `cmd_autopilot`).                        *)
THEOREM CommandGoesForward == Safety => [][Writes \/ Forward]_vars
<1>1. IInv /\ RoundsLeft /\ [Next]_vars => [Writes \/ Forward]_vars
  BY PoolForward, MainForward DEF Next
<1>2. Init => RoundsLeft
  BY DEF Init, RoundsLeft
<1>3. RoundsLeft /\ [Next]_vars => RoundsLeft'
  BY RoundsStep
<1> QED
  BY <1>1, <1>2, <1>3, Inductive, PTL DEF Safety
=============================================================================
