------------------------------- MODULE Evidence -------------------------------
(* How a claim becomes evidence: GateRunner and its metric store (gates.py),   *)
(* the rows that ingest and verify add to the run (scheduler.py), the verdict, *)
(* the traceability join (ledger.py) and the briefs of build_repair_packet     *)
(* (repair.py).  A command may die between two gates: the store is written as  *)
(* soon as a gate prints a metric, the rows are saved at the end.              *)
EXTENDS Naturals, FiniteSets

CONSTANTS
  Task, Criterion,
  System,      \* the gates of verify; "unit" is the gate of every task
  Kind,        \* [System -> {"cmd", "files", "json", "budget"}]
  Publishers,  \* cmd gates that may print the metric the budgets are about
  Required,    \* gates the verdict looks at
  Blames,      \* [System -> SUBSET Task], attributed_to
  Rests,       \* [Criterion -> SUBSET System], the gates of a criterion
  Attempts,    \* bound: ingests of a task
  Rounds,      \* bound: verifications begun
  MaxAttempts  \* the attempt budget of a brief

ASSUME EvidenceAssumption ==
  /\ Kind \in [System -> {"cmd", "files", "json", "budget"}]
  /\ Publishers \subseteq {g \in System : Kind[g] = "cmd"} /\ Required \subseteq System
  /\ Blames \in [System -> SUBSET Task] /\ Rests \in [Criterion -> SUBSET System]
  /\ "unit" \notin System /\ Attempts \in Nat /\ Rounds \in Nat

VARIABLES
  store, source,  \* the metric; history: the verification it was measured in
  joined,         \* gate -> its last row in the record, as traceability joins it
  status,         \* the run's
  round, left, results,  \* verification: its number, gates to run, its own rows
  printed,        \* history: the metric this verification printed last
  attempts, taskRows, brief  \* per task: ingests, task.evidence, repair packet

storeVars == <<store, source>>
taskVars == <<attempts, taskRows, brief>>
verifyVars == <<round, left, results, printed>>
vars == <<storeVars, joined, status, verifyVars, taskVars>>

Gates == System \cup {"unit"}
Idle == left = {}
NoBrief == [gates |-> {}, escalate |-> FALSE]

Init ==
  /\ store = "none" /\ source = 0
  /\ joined = [g \in Gates |-> "none"] /\ status = "planning"
  /\ round = 0 /\ left = {} /\ results = [g \in System |-> "none"] /\ printed = "none"
  /\ attempts = [t \in Task |-> 0]
  /\ taskRows = [t \in Task |-> [g \in Gates |-> "none"]]
  /\ brief = [t \in Task |-> NoBrief]

-----------------------------------------------------------------------------
(* _cmd: the output is searched for metrics when the command has ended; a      *)
(* command that exceeds its time is an error and leaves none.                  *)
Outcome == {"pass", "fail", "error"}
Prints(g, outcome) == IF g \in Publishers /\ outcome # "error"
                     THEN {"none", "met", "missed"} ELSE {"none"}
Publish(metric, when) ==
  /\ store' = IF metric = "none" THEN store ELSE metric
  /\ source' = IF metric = "none" THEN source ELSE when

(* failing_gates: the rows that did not pass; absent ones are not rows.        *)
Failing(rows) == {g \in Gates : rows[g] \in {"fail", "error"}}
BriefFor(rows, attempt) ==
  [gates |-> Failing(rows), escalate |-> attempt >= MaxAttempts]

(* ingest: the task's gate runs in its sandbox and may print the metric too.   *)
Ingest(t, outcome) ==
  /\ Idle /\ attempts[t] < Attempts
  /\ attempts' = [attempts EXCEPT ![t] = @ + 1]
  /\ \E m \in IF outcome = "error" THEN {"none"} ELSE {"none", "met", "missed"} : Publish(m, 0)
  /\ taskRows' = [taskRows EXCEPT ![t] =
                    [g \in Gates |-> IF g = "unit" THEN outcome ELSE "none"]]
  /\ joined' = [joined EXCEPT !["unit"] = outcome]
  /\ brief' = IF outcome = "pass" THEN brief
              ELSE [brief EXCEPT ![t] = BriefFor(taskRows'[t], attempts'[t])]
  /\ UNCHANGED <<status, verifyVars>>

(* ingest killed behind its gate: what was printed stays.                      *)
IngestDies(t) ==
  /\ Idle /\ attempts[t] < Attempts
  /\ \E m \in {"met", "missed"} : Publish(m, 0)
  /\ UNCHANGED <<joined, status, verifyVars, taskVars>>

-----------------------------------------------------------------------------
(* verify                                                                      *)
Begin ==
  /\ Idle /\ round < Rounds
  /\ round' = round + 1 /\ left' = System /\ printed' = "none"
  /\ results' = [g \in System |-> "none"]
  /\ status' = "verifying"
  /\ UNCHANGED <<storeVars, joined, taskVars>>

(* Budget gates come last.                                                     *)
TurnAny(g) == g \in left
Turn(g) == g \in left /\ (Kind[g] = "budget" => \A o \in left : Kind[o] = "budget")

(* _budget: an error when the store has no such metric.                        *)
Judged == CASE store = "none" -> "error" [] store = "met" -> "pass" [] OTHER -> "fail"

(* The verdict looks at the rows of this verification alone.                   *)
VerdictOptional(rows) == IF \A g \in System : rows[g] = "pass" THEN "passed" ELSE "failed"
Verdict(rows) == IF \A g \in Required : rows[g] = "pass" THEN "passed" ELSE "failed"

(* traceability keeps the last row of a gate.                                  *)
JoinFirst(old, new) == IF old = "none" THEN new ELSE old
Join(old, new) == IF new = "none" THEN old ELSE new

(* attribute_failures: the failed row replaces the task's row of that gate.    *)
Blaming(t, rows) == {g \in Required : t \in Blames[g] /\ rows[g] # "pass"}
AttributedLast(t, rows) ==
  IF Blaming(t, rows) = {} THEN taskRows[t]
  ELSE LET last == CHOOSE g \in Blaming(t, rows) : TRUE
       IN [g \in Gates |-> IF g = last THEN rows[g] ELSE "none"]
Attributed(t, rows) ==
  [g \in Gates |-> IF g \in Blaming(t, rows) THEN rows[g] ELSE taskRows[t][g]]

Conclude(rows) ==
  /\ status' = Verdict(rows)
  /\ joined' = [g \in Gates |-> IF g \in System THEN Join(joined[g], rows[g]) ELSE joined[g]]
  /\ LET blamed == {t \in Task : Verdict(rows) = "failed" /\ Blaming(t, rows) # {}}
     IN /\ taskRows' = [t \in Task |-> IF t \in blamed THEN Attributed(t, rows) ELSE taskRows[t]]
        /\ brief' = [t \in Task |-> IF t \in blamed THEN BriefFor(taskRows'[t], attempts[t])
                                    ELSE brief[t]]
  /\ UNCHANGED attempts

(* One gate; behind the last one the verdict is given and the record saved.    *)
Row(g, outcome) ==
  /\ results' = [results EXCEPT ![g] = outcome]
  /\ left' = left \ {g}
  /\ IF left' = {} THEN Conclude(results') ELSE UNCHANGED <<joined, status, taskVars>>
  /\ UNCHANGED round

RunCmd(g, outcome) ==
  /\ Turn(g) /\ Kind[g] = "cmd"
  /\ \E m \in Prints(g, outcome) :
       Publish(m, round) /\ printed' = IF m = "none" THEN printed ELSE m
  /\ Row(g, outcome)

(* files and json look at the tree; json may meet a file it cannot parse.      *)
RunTree(g, outcome) ==
  /\ Turn(g) /\ Kind[g] \in {"files", "json"}
  /\ Kind[g] = "files" => outcome # "error"
  /\ Row(g, outcome)
  /\ UNCHANGED <<storeVars, printed>>

RunBudget(g) ==
  /\ Turn(g) /\ Kind[g] = "budget"
  /\ Row(g, Judged)
  /\ UNCHANGED <<storeVars, printed>>

(* verify killed between two gates: its rows are lost, the metrics are not.    *)
VerifyDies ==
  /\ ~Idle
  /\ left' = {} /\ results' = [g \in System |-> "none"]
  /\ UNCHANGED <<storeVars, joined, status, round, printed, taskVars>>

Next ==
  \/ \E t \in Task : IngestDies(t) \/ \E o \in Outcome : Ingest(t, o)
  \/ Begin \/ VerifyDies
  \/ \E g \in System : RunBudget(g) \/ \E o \in Outcome : RunCmd(g, o) \/ RunTree(g, o)

Spec == Init /\ [][Next]_vars

-----------------------------------------------------------------------------
(* ledger.traceability                                                         *)
TraceStatus(c) ==
  LET statuses == {joined[g] : g \in Rests[c]} IN
  CASE statuses = {}          -> "unproven"
    [] statuses = {"pass"}    -> "verified"
    [] "fail" \in statuses    -> "failed"
    [] OTHER                  -> "incomplete"

Proven == {c \in Criterion : TraceStatus(c) = "verified"}

(* The two answers of a run's report agree: when the run passed, every         *)
(* criterion that rests on required gates reads as verified, and when it       *)
(* failed and such criteria name all required gates, one does not; whatever    *)
(* earlier verifications, tasks or a killed one left in the record             *)
(* (`verdict`, `traceability`).                                                *)
TraceAgrees ==
  LET judged == {c \in Criterion : Rests[c] # {} /\ Rests[c] \subseteq Required} IN
  /\ status = "passed" => judged \subseteq Proven
  /\ status = "failed" /\ Required \subseteq UNION {Rests[c] : c \in judged}
       => ~(judged \subseteq Proven)

(* A budget is judged on what this verification measured when it measured      *)
(* anything: never on an older number while a newer one was printed (`verify`  *)
(* sorts the budget gates behind the others).                                  *)
JudgedOnNewest ==
  \A g \in System :
    Kind[g] = "budget" /\ printed # "none" /\ results[g] # "none" =>
      (results[g] = "pass" <=> printed = "met")

(* When a verification fails, the brief of every task it blames names every    *)
(* required gate that blames the task and did not pass: the last gate to be    *)
(* attributed does not hide the others (`attribute_failures`).                 *)
BriefsComplete ==
  [][~Idle /\ Idle' /\ status' = "failed" =>
       \A t \in Task, g \in Required :
         t \in Blames[g] /\ results'[g] # "pass" => g \in brief'[t].gates]_vars

(* gates.py: "an unmeasured non-functional claim cannot be accepted".          *)
BudgetMeasured ==
  \A g \in Required : status = "passed" /\ Kind[g] = "budget" => source = round
=============================================================================
