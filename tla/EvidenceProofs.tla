---------------------------- MODULE EvidenceProofs ----------------------------
(* Theorems about Evidence, for any gates, criteria, tasks and number of        *)
(* verifications.                                                              *)
(*                                                                             *)
(* While a verification runs, the gates left are those without a row           *)
(* (RowsUntilNow), the store holds what it printed last and no budget was       *)
(* judged before the last command (NewestStored).  Behind it, the record joins  *)
(* each gate with the row the verdict was given on (VerdictJoined).             *)
EXTENDS Evidence, TLAPS

Metric == {"none", "met", "missed"}
Cell == {"none", "pass", "fail", "error"}

TypeOK ==
  /\ store \in Metric /\ printed \in Metric
  /\ joined \in [Gates -> Cell] /\ results \in [System -> Cell]
  /\ status \in {"planning", "verifying", "passed", "failed"}
  /\ left \subseteq System
  /\ taskRows \in [Task -> [Gates -> Cell]]
  /\ brief \in [Task -> [gates : SUBSET Gates, escalate : BOOLEAN]]

RowsUntilNow ==
  ~Idle => status = "verifying" /\ \A g \in System : g \in left <=> results[g] = "none"

NewestStored ==
  /\ ~Idle /\ printed # "none" => store = printed
  /\ \A g \in System : Kind[g] = "budget" /\ results[g] # "none" =>
       \A o \in left : Kind[o] = "budget"

VerdictJoined ==
  /\ status = "passed" => \A g \in Required : joined[g] = "pass"
  /\ status = "failed" => \E g \in Required : joined[g] # "pass"

IInv == TypeOK /\ RowsUntilNow /\ NewestStored /\ VerdictJoined /\ JudgedOnNewest

-----------------------------------------------------------------------------
(* The operators.                                                              *)
LEMMA PublishStores ==
  ASSUME store \in Metric, NEW m \in Metric, NEW when, Publish(m, when)
  PROVE  store' \in Metric /\ (m # "none" => store' = m) /\ (m = "none" => store' = store)
BY DEF Publish, Metric

LEMMA PrintedMetric ==
  ASSUME NEW g \in System, NEW o \in Outcome, NEW m \in Prints(g, o)
  PROVE  m \in Metric
BY DEF Prints, Metric

LEMMA AttributedTyped ==
  ASSUME TypeOK, NEW t \in Task, NEW rows \in [System -> Cell]
  PROVE  Attributed(t, rows) \in [Gates -> Cell]
BY EvidenceAssumption DEF TypeOK, Attributed, Blaming

LEMMA BriefTyped ==
  ASSUME NEW rows, NEW n
  PROVE  BriefFor(rows, n) \in [gates : SUBSET Gates, escalate : BOOLEAN]
BY DEF BriefFor, Failing

(* What a verdict makes of the rows it is given on, all of them there.         *)
LEMMA ConcludeFacts ==
  ASSUME TypeOK, NEW rows \in [System -> Cell],
         \A g \in System : rows[g] # "none", Conclude(rows)
  PROVE  /\ status' \in {"passed", "failed"}
         /\ status' = "passed" <=> \A g \in Required : rows[g] = "pass"
         /\ \A g \in System : joined'[g] = rows[g]
         /\ joined' \in [Gates -> Cell]
         /\ taskRows' \in [Task -> [Gates -> Cell]]
         /\ brief' \in [Task -> [gates : SUBSET Gates, escalate : BOOLEAN]]
<1>1. status' = Verdict(rows)
  BY DEF Conclude
<1>2. joined' = [g \in Gates |-> IF g \in System THEN Join(joined[g], rows[g]) ELSE joined[g]]
  BY DEF Conclude
<1>3. joined' \in [Gates -> Cell] /\ \A g \in System : joined'[g] = rows[g]
  BY <1>2 DEF TypeOK, Join, Gates
<1> DEFINE blamed == {t \in Task : Verdict(rows) = "failed" /\ Blaming(t, rows) # {}}
<1>4. /\ taskRows' = [t \in Task |-> IF t \in blamed THEN Attributed(t, rows) ELSE taskRows[t]]
      /\ brief' = [t \in Task |-> IF t \in blamed THEN BriefFor(taskRows'[t], attempts[t])
                                  ELSE brief[t]]
  BY DEF Conclude
<1> HIDE DEF blamed
<1>5. taskRows' \in [Task -> [Gates -> Cell]]
  BY <1>4, AttributedTyped DEF TypeOK
<1>6. brief' \in [Task -> [gates : SUBSET Gates, escalate : BOOLEAN]]
  <2>1. \A t \in Task :
          BriefFor(taskRows'[t], attempts[t]) \in [gates : SUBSET Gates, escalate : BOOLEAN]
    BY BriefTyped
  <2>2. \A t \in Task : brief[t] \in [gates : SUBSET Gates, escalate : BOOLEAN]
    BY DEF TypeOK
  <2> QED
    BY <1>4, <2>1, <2>2
<1> QED
  BY <1>1, <1>3, <1>5, <1>6 DEF Verdict

-----------------------------------------------------------------------------
(* One gate of a verification, whatever its kind: a gate that prints moves the  *)
(* store with `printed`, and a budget is judged on the store as it is.         *)
LEMMA RowInv ==
  ASSUME IInv, NEW g \in System, NEW o \in Outcome, Turn(g), Row(g, o),
         store' \in Metric, printed' \in Metric, printed' # "none" => store' = printed',
         Kind[g] = "budget" => o = Judged /\ store' = store /\ printed' = printed
  PROVE  IInv'
<1>1. ~Idle /\ g \in left /\ status = "verifying" /\ results[g] = "none"
  BY DEF IInv, RowsUntilNow, Idle, Turn
<1>2. /\ results' = [results EXCEPT ![g] = o] /\ results' \in [System -> Cell]
      /\ left' = left \ {g} /\ left' \subseteq System /\ o # "none"
  BY DEF IInv, TypeOK, Row, Outcome, Cell
<1>3. \A h \in System : h \in left' <=> results'[h] = "none"
  BY <1>1, <1>2 DEF IInv, TypeOK, RowsUntilNow
<1>4. TypeOK' /\ RowsUntilNow' /\ VerdictJoined'
  <2>1. CASE left' = {}
    <3>1. Conclude(results') /\ \A h \in System : results'[h] # "none"
      BY <1>3, <2>1 DEF Row
    <3>2. /\ status' \in {"passed", "failed"}
          /\ status' = "passed" <=> \A h \in Required : results'[h] = "pass"
          /\ \A h \in System : joined'[h] = results'[h]
          /\ joined' \in [Gates -> Cell]
          /\ taskRows' \in [Task -> [Gates -> Cell]]
          /\ brief' \in [Task -> [gates : SUBSET Gates, escalate : BOOLEAN]]
      BY <1>2, <3>1, ConcludeFacts DEF IInv
    <3>3. TypeOK'
      BY <1>2, <3>2 DEF TypeOK
    <3>4. VerdictJoined'
      BY <3>2, EvidenceAssumption DEF VerdictJoined
    <3> QED
      BY <2>1, <3>3, <3>4 DEF RowsUntilNow, Idle
  <2>2. CASE left' # {}
    <3>1. UNCHANGED <<joined, status, taskRows, brief>>
      BY <2>2 DEF Row, taskVars
    <3>2. TypeOK'
      BY <1>2, <3>1 DEF IInv, TypeOK
    <3>3. VerdictJoined' /\ RowsUntilNow'
      BY <1>1, <1>3, <3>1 DEF VerdictJoined, RowsUntilNow
    <3> QED
      BY <3>2, <3>3
  <2> QED
    BY <2>1, <2>2
<1>5. NewestStored'
  <2>1. ASSUME NEW h \in System, Kind[h] = "budget", results'[h] # "none"
        PROVE  \A other \in left' : Kind[other] = "budget"
    <3>1. CASE h = g
      BY <1>2, <2>1, <3>1 DEF Turn
    <3>2. CASE h # g
      BY <1>2, <2>1, <3>2 DEF IInv, TypeOK, NewestStored
    <3> QED
      BY <3>1, <3>2
  <2> QED
    BY <2>1 DEF NewestStored
<1>6. JudgedOnNewest'
  <2> SUFFICES ASSUME NEW h \in System, Kind[h] = "budget", printed' # "none", results'[h] # "none"
               PROVE  results'[h] = "pass" <=> printed' = "met"
    BY DEF JudgedOnNewest
  <2>1. CASE h = g
    <3>1. printed' = store /\ results'[g] = Judged
      BY <1>2, <2>1 DEF IInv, TypeOK
    <3> QED
      BY <2>1, <3>1 DEF Judged
  <2>2. CASE h # g
    <3>1. results'[h] = results[h]
      BY <1>2, <2>2 DEF IInv, TypeOK
    <3>2. Kind[g] = "budget"
      BY <1>1, <3>1 DEF IInv, NewestStored
    <3> QED
      BY <3>1, <3>2 DEF IInv, JudgedOnNewest
  <2> QED
    BY <2>1, <2>2
<1> QED
  BY <1>4, <1>5, <1>6 DEF IInv

LEMMA GateInv ==
  ASSUME IInv, NEW g \in System,
         RunBudget(g) \/ \E o \in Outcome : RunCmd(g, o) \/ RunTree(g, o)
  PROVE  IInv'
<1>1. store \in Metric /\ printed \in Metric
  BY DEF IInv, TypeOK
<1>2. ASSUME Turn(g) PROVE printed # "none" => store = printed
  BY <1>2 DEF IInv, NewestStored, Turn, Idle
<1>3. CASE RunBudget(g)
  <2>1. Judged \in Outcome /\ Kind[g] = "budget"
    BY <1>3 DEF Judged, Outcome, RunBudget
  <2> QED
    BY <1>1, <1>2, <1>3, <2>1, RowInv DEF RunBudget, storeVars
<1>4. ASSUME NEW o \in Outcome, RunTree(g, o) PROVE IInv'
  BY <1>1, <1>2, <1>4, RowInv DEF RunTree, storeVars
<1>5. ASSUME NEW o \in Outcome, RunCmd(g, o) PROVE IInv'
  <2>1. PICK m \in Prints(g, o) :
          Publish(m, round) /\ printed' = IF m = "none" THEN printed ELSE m
    BY <1>5 DEF RunCmd
  <2>2. m \in Metric
    BY <2>1, PrintedMetric
  <2>3. Turn(g) /\ Row(g, o) /\ Kind[g] # "budget"
    BY <1>5 DEF RunCmd
  <2>4. store' \in Metric /\ printed' \in Metric /\ (printed' # "none" => store' = printed')
    BY <1>1, <1>2, <2>1, <2>2, <2>3, PublishStores
  <2> QED
    BY <2>3, <2>4, RowInv
<1> QED
  BY <1>3, <1>4, <1>5

LEMMA IngestInv ==
  ASSUME IInv, NEW t \in Task, IngestDies(t) \/ \E o \in Outcome : Ingest(t, o)
  PROVE  IInv'
<1>1. Idle /\ UNCHANGED verifyVars /\ status' = status
  BY DEF IngestDies, Ingest
<1>2. store' \in Metric
  <2>1. \E m \in Metric : Publish(m, 0)
    BY DEF IngestDies, Ingest, Metric
  <2> QED
    BY <2>1, PublishStores DEF IInv, TypeOK
<1> DEFINE Kept == /\ joined' \in [Gates -> Cell]
                   /\ taskRows' \in [Task -> [Gates -> Cell]]
                   /\ brief' \in [Task -> [gates : SUBSET Gates, escalate : BOOLEAN]]
                   /\ \A g \in System : joined'[g] = joined[g]
<1>3. Kept
  <2>1. CASE IngestDies(t)
    BY <2>1 DEF IngestDies, taskVars, IInv, TypeOK
  <2>2. ASSUME NEW o \in Outcome, Ingest(t, o)
        PROVE  Kept
    <3>1. joined' = [joined EXCEPT !["unit"] = o] /\ o \in Cell
      BY <2>2 DEF Ingest, Outcome, Cell
    <3>2. joined' \in [Gates -> Cell] /\ \A g \in System : joined'[g] = joined[g]
      BY <3>1, EvidenceAssumption DEF IInv, TypeOK, Gates
    <3>3. taskRows' \in [Task -> [Gates -> Cell]]
      BY <2>2, <3>1 DEF Ingest, IInv, TypeOK, Cell
    <3>4. brief' \in [Task -> [gates : SUBSET Gates, escalate : BOOLEAN]]
      BY <2>2, BriefTyped DEF Ingest, IInv, TypeOK
    <3> QED
      BY <3>2, <3>3, <3>4
  <2> QED
    BY <2>1, <2>2
<1>4. TypeOK'
  BY <1>1, <1>2, <1>3 DEF IInv, TypeOK, verifyVars
<1>5. RowsUntilNow' /\ NewestStored' /\ JudgedOnNewest'
  BY <1>1 DEF IInv, RowsUntilNow, NewestStored, JudgedOnNewest, Idle, verifyVars
<1>6. VerdictJoined'
  BY <1>1, <1>3, EvidenceAssumption DEF IInv, VerdictJoined
<1> QED
  BY <1>4, <1>5, <1>6 DEF IInv

LEMMA InitInv == Init => IInv
BY DEF Init, IInv, TypeOK, RowsUntilNow, NewestStored, VerdictJoined, JudgedOnNewest,
       Metric, Cell, Idle, NoBrief

LEMMA NextInv == IInv /\ [Next]_vars => IInv'
<1> SUFFICES ASSUME IInv, [Next]_vars PROVE IInv'
  OBVIOUS
<1>1. ASSUME NEW t \in Task, IngestDies(t) \/ \E o \in Outcome : Ingest(t, o) PROVE IInv'
  BY <1>1, IngestInv
<1>2. CASE Begin
  BY <1>2 DEF Begin, IInv, TypeOK, RowsUntilNow, NewestStored, VerdictJoined, JudgedOnNewest,
              Metric, Cell, Idle, storeVars, taskVars
<1>3. CASE VerifyDies
  <2>1. ~Idle
    BY <1>3 DEF VerifyDies
  <2> QED
    BY <1>3, <2>1 DEF VerifyDies, IInv, TypeOK, RowsUntilNow, NewestStored, VerdictJoined,
                      JudgedOnNewest, Cell, Idle, storeVars, taskVars
<1>4. ASSUME NEW g \in System, RunBudget(g) \/ \E o \in Outcome : RunCmd(g, o) \/ RunTree(g, o)
      PROVE  IInv'
  BY <1>4, GateInv
<1>5. CASE UNCHANGED vars
  BY <1>5 DEF vars, storeVars, verifyVars, taskVars, IInv, TypeOK, RowsUntilNow, NewestStored,
              VerdictJoined, JudgedOnNewest, Idle
<1> QED
  BY <1>1, <1>2, <1>3, <1>4, <1>5 DEF Next

LEMMA Inductive == Spec => []IInv
BY InitInv, NextInv, PTL DEF Spec

-----------------------------------------------------------------------------
(* A criterion reads as verified exactly when it rests on gates and the row of  *)
(* each of them passed.                                                        *)
LEMMA VerifiedMeansPassed ==
  ASSUME NEW c \in Criterion
  PROVE  TraceStatus(c) = "verified"
           <=> Rests[c] # {} /\ \A g \in Rests[c] : joined[g] = "pass"
<1> DEFINE statuses == {joined[g] : g \in Rests[c]}
<1>1. TraceStatus(c) = CASE statuses = {}        -> "unproven"
                         [] statuses = {"pass"}  -> "verified"
                         [] "fail" \in statuses  -> "failed"
                         [] OTHER                -> "incomplete"
  BY DEF TraceStatus
<1>2. statuses = {} <=> Rests[c] = {}
  OBVIOUS
<1>3. statuses = {"pass"} <=> Rests[c] # {} /\ \A g \in Rests[c] : joined[g] = "pass"
  OBVIOUS
<1> HIDE DEF statuses
<1>4. TraceStatus(c) = "verified" <=> statuses = {"pass"}
  BY <1>1
<1> QED
  BY <1>3, <1>4

(* The verdict and the traceability of a report say the same, whatever earlier  *)
(* verifications, ingests between them or a killed one left in the record.      *)
THEOREM TraceMatchesVerdict == Spec => []TraceAgrees
<1>1. ASSUME IInv PROVE TraceAgrees
  <2> DEFINE judged == {c \in Criterion : Rests[c] # {} /\ Rests[c] \subseteq Required}
  <2>1. ASSUME status = "passed" PROVE judged \subseteq Proven
    BY <1>1, <2>1, VerifiedMeansPassed DEF IInv, VerdictJoined, Proven
  <2>2. ASSUME status = "failed", Required \subseteq UNION {Rests[c] : c \in judged}
        PROVE  ~(judged \subseteq Proven)
    <3>1. PICK g \in Required : joined[g] # "pass"
      BY <1>1, <2>2 DEF IInv, VerdictJoined
    <3>2. PICK c \in judged : g \in Rests[c]
      BY <2>2, <3>1
    <3> QED
      BY <3>1, <3>2, VerifiedMeansPassed DEF Proven
  <2> QED
    BY <2>1, <2>2 DEF TraceAgrees
<1> QED
  BY <1>1, Inductive, PTL

(* A budget is never judged on an older number than the one this verification   *)
(* printed, in whatever order its other gates run.                             *)
THEOREM BudgetsJudgedOnNewest == Spec => []JudgedOnNewest
<1>1. IInv => JudgedOnNewest
  BY DEF IInv
<1> QED
  BY <1>1, Inductive, PTL

(* The brief of a blamed task names every required gate that blames it and did  *)
(* not pass.                                                                   *)
THEOREM NoFailureHidden == Spec => BriefsComplete
<1> DEFINE complete ==
      ~Idle /\ Idle' /\ status' = "failed" =>
        \A t \in Task, g \in Required :
          t \in Blames[g] /\ results'[g] # "pass" => g \in brief'[t].gates
<1>1. ASSUME IInv, IInv', Next PROVE complete
  <2> SUFFICES ASSUME ~Idle, Idle', status' = "failed",
                      NEW t \in Task, NEW g \in Required, t \in Blames[g], results'[g] # "pass"
               PROVE  g \in brief'[t].gates
    OBVIOUS
  <2>1. status = "verifying"
    BY <1>1 DEF IInv, RowsUntilNow
  <2>2. PICK h \in System, o \in Outcome : Turn(h) /\ Row(h, o)
    <3>1. Judged \in Outcome
      BY DEF Judged, Outcome
    <3> QED
      BY <1>1, <2>1, <3>1 DEF Next, IngestDies, Ingest, Begin, VerifyDies, RunBudget, RunCmd, RunTree
  <2>3. Conclude(results') /\ results' = [results EXCEPT ![h] = o]
    BY <2>2 DEF Row, Idle
  <2>4. g \in System /\ results'[g] \in {"fail", "error"}
    <3>1. left = {h} /\ g \in System
      BY <2>2, EvidenceAssumption DEF Row, Idle, Turn
    <3>2. g = h \/ results[g] # "none"
      BY <1>1, <3>1 DEF IInv, RowsUntilNow
    <3> QED
      BY <1>1, <2>2, <2>3, <3>1, <3>2 DEF IInv, TypeOK, Outcome, Cell
  <2> DEFINE blamed == {s \in Task : Verdict(results') = "failed" /\ Blaming(s, results') # {}}
  <2>5. g \in Blaming(t, results') /\ t \in blamed
    BY <2>3, <2>4 DEF Conclude, Blaming
  <2>6. /\ taskRows' = [s \in Task |-> IF s \in blamed THEN Attributed(s, results') ELSE taskRows[s]]
        /\ brief' = [s \in Task |-> IF s \in blamed THEN BriefFor(taskRows'[s], attempts[s])
                                    ELSE brief[s]]
    BY <2>3 DEF Conclude
  <2> HIDE DEF blamed
  <2>7. brief'[t].gates = Failing(taskRows'[t]) /\ taskRows'[t] = Attributed(t, results')
    BY <2>5, <2>6 DEF BriefFor
  <2> QED
    BY <2>4, <2>5, <2>7 DEF Failing, Attributed, Gates
<1>2. IInv /\ IInv' /\ [Next]_vars => [complete]_vars
  BY <1>1
<1> QED
  BY <1>2, Inductive, PTL DEF Spec, BriefsComplete
=============================================================================
