------------------------------ MODULE Scheduler ------------------------------
(* minifleet/scheduler.py: the life of the tasks of one run, from the plan to  *)
(* the verdict.  Every action is one method of Scheduler run to its end by one *)
(* command (or by the autopilot, which calls the same methods in its own       *)
(* order); WorkerEdits and WorkerCommits are the worker in its sandbox, and    *)
(* the actions that end in Dies are a command killed between git and its save. *)
(* Definitions whose name ends in a variant (...Any, ...Early, ...Late, ...)   *)
(* are mistakes the code avoids; no specification here uses them.              *)
EXTENDS Worktree, FiniteSets

CONSTANTS
  Deps,             \* [Task -> SUBSET Task], Task.depends_on
  Rank,             \* [Task -> Nat], position in the design, also the id order
  Depth,            \* [Task -> Nat], index of the task's topological batch
  Gate,             \* system gates
  Required,         \* the gates with required = True
  Blames,           \* [Gate -> SUBSET Task], Gate.attributed_to
  MaxAttempts,      \* the attempt budget the intent declares (limits.max_attempts)
  DefaultAttempts,  \* the budget a command uses when it is not told: 3 in the code
  MaxDispatches,    \* limits.max_dispatches, 0 when the intent declares none
  CommitStates,     \* task states in which a worker commits by itself
  Edited,           \* bound: the files a worker ever edits
  IngestBound,      \* bound: ingests of one task
  DispatchBound     \* bound: tasks handed out in the whole run

ASSUME TaskAssumption == IsFiniteSet(Task)
ASSUME DepsAssumption == Deps \in [Task -> SUBSET Task]
ASSUME OrderAssumption ==
  /\ Rank \in [Task -> Nat] /\ Depth \in [Task -> Nat]
  /\ \A t \in Task : \A d \in Deps[t] : Depth[d] < Depth[t]
ASSUME GateAssumption ==
  Required \subseteq Gate /\ Blames \in [Gate -> SUBSET Task]
ASSUME BudgetAssumption ==
  /\ MaxAttempts \in Nat /\ DefaultAttempts \in Nat /\ MaxDispatches \in Nat
  /\ IngestBound \in Nat /\ DispatchBound \in Nat

TaskState == {"pending", "ready", "dispatched", "verified", "failed", "merged"}
RunStatus == {"planning", "integrating", "verifying", "passed", "failed"}

ASSUME WorkerAssumption == CommitStates \subseteq TaskState /\ Edited \subseteq File

(* Run.verdict: which kind of sentence, and the required gates it names.       *)
Verdict == [kind : {"none", "pass", "gates", "conflict", "error"}, gates : SUBSET Gate]
Said(kind, gates) == [kind |-> kind, gates |-> gates]

VARIABLES
  state, attempts, branch,  \* Task fields
  worktree,                 \* TRUE when Task.worktree names a directory
  tips, sandbox, trunk,     \* git: branches, worktrees, the integration branch
  status, verdict,          \* Run.status, Run.verdict
  attributed,               \* Run.attributed_verdict
  latest,                   \* last evidence row of every system gate
  events, saved,            \* tasks.dispatched entries: in memory, in run.json
  landed,                   \* ledger, task.merged: head after the first merge
  handed                    \* ledger, tasks.dispatched: tasks handed out

taskVars   == <<state, attempts, branch, worktree>>
gitVars    == <<tips, sandbox, trunk>>
runVars    == <<status, verdict, attributed, latest>>
eventVars  == <<events, saved>>
ledgerVars == <<landed, handed>>
vars == <<taskVars, gitVars, runVars, eventVars, ledgerVars>>

-----------------------------------------------------------------------------
RefreshedEarly(st) ==
  [t \in Task |-> IF /\ st[t] = "pending"
                     /\ \A d \in Deps[t] : st[d] \in {"verified", "merged"}
                  THEN "ready" ELSE st[t]]
RefreshedAny(st) ==
  [t \in Task |-> IF st[t] = "pending" /\ \E d \in Deps[t] : st[d] = "merged"
                  THEN "ready" ELSE st[t]]

(* refresh: pending tasks whose dependencies are all merged become ready.      *)
Refreshed(st) ==
  [t \in Task |-> IF st[t] = "pending" /\ \A d \in Deps[t] : st[d] = "merged"
                  THEN "ready" ELSE st[t]]

InState(s) == {t \in Task : state[t] = s}
Tip(t) == tips[t][branch[t]]
Persist == saved' = events /\ UNCHANGED events

(* The state after cmd_plan: refresh, then packets for the first wave.         *)
Init ==
  /\ state = [t \in Task |-> IF Deps[t] = {} THEN "ready" ELSE "pending"]
  /\ attempts = [t \in Task |-> 0]
  /\ branch = [t \in Task |-> 1]
  /\ worktree = [t \in Task |-> Deps[t] = {}]
  /\ trunk = {}
  /\ tips = [t \in Task |-> IF Deps[t] = {} THEN <<{}>> ELSE <<>>]
  /\ sandbox = [t \in Task |-> IF Deps[t] = {} THEN [on |-> 1, dirty |-> {}]
                               ELSE NoSandbox]
  /\ status = "planning"
  /\ verdict = Said("none", {}) /\ attributed = Said("none", {})
  /\ latest = [g \in Gate |-> "none"]
  /\ events = 0 /\ saved = 0
  /\ landed = [t \in Task |-> {}] /\ handed = 0

-----------------------------------------------------------------------------
(* packets: every ready task gets its attempt branch and its sandbox.          *)
Packets(tasks) ==
  LET used == [t \in Task |-> IF t \in tasks
                              THEN AttemptBranch(tips[t], branch[t], trunk)
                              ELSE branch[t]] IN
  /\ branch' = used
  /\ tips' = [t \in Task |-> IF t \in tasks THEN WithBranch(tips[t], used[t], trunk)
                             ELSE tips[t]]
  /\ sandbox' = [t \in Task |-> IF t \in tasks THEN AddWorktree(sandbox[t], used[t])
                                ELSE sandbox[t]]
  /\ worktree' = [t \in Task |-> t \in tasks \/ worktree[t]]

BudgetSpentLate == MaxDispatches # 0 /\ events > MaxDispatches
BudgetSpent == MaxDispatches # 0 /\ events >= MaxDispatches

(* dispatch: packets for the whole ready set, then the first tasks of it (all  *)
(* of them without a limit) are handed out.  The record is saved before the    *)
(* tasks.dispatched event is appended to it.                                   *)
Dispatch(wave) ==
  LET ready == {t \in Task : Refreshed(state)[t] = "ready"} IN
  /\ ~BudgetSpent
  /\ wave \subseteq ready /\ (wave = {} => ready = {})
  /\ \A t \in wave, s \in ready \ wave : Rank[t] < Rank[s]
  /\ handed + Cardinality(wave) <= DispatchBound
  /\ Packets(ready)
  /\ state' = [t \in Task |-> IF t \in wave THEN "dispatched" ELSE Refreshed(state)[t]]
  /\ saved' = events
  /\ events' = events + Cardinality(wave)
  /\ handed' = handed + Cardinality(wave)
  /\ UNCHANGED <<attempts, trunk, runVars, landed>>

DispatchRefused ==
  /\ BudgetSpent
  /\ Persist
  /\ UNCHANGED <<taskVars, gitVars, runVars, ledgerVars>>

Forget == events' = saved /\ UNCHANGED saved

(* A command ends and the next one loads run.json.                             *)
Reload ==
  /\ Forget
  /\ UNCHANGED <<taskVars, gitVars, runVars, ledgerVars>>

-----------------------------------------------------------------------------
WorkerEdits(t, f) ==
  /\ state[t] \in {"dispatched"} \cup CommitStates
  /\ sandbox[t].on # 0
  /\ sandbox' = [sandbox EXCEPT ![t].dirty = @ \cup {f}]
  /\ UNCHANGED <<taskVars, tips, trunk, runVars, eventVars, ledgerVars>>

(* Bound: a worker commits by itself once in an attempt.                       *)
WorkerCommits(t) ==
  /\ state[t] \in CommitStates
  /\ \A x \in Tip(t) : ~(x.by = "worker" /\ x.n = attempts[t] + 1)
  /\ sandbox[t].on # 0 /\ sandbox[t].dirty # {}
  /\ tips' = [tips EXCEPT ![t][sandbox[t].on] =
                CommitAll(@, t, sandbox[t].dirty, attempts[t] + 1, "worker")]
  /\ sandbox' = [sandbox EXCEPT ![t].dirty = {}]
  /\ UNCHANGED <<taskVars, trunk, runVars, eventVars, ledgerVars>>

OutsideScopeNone(t) == {}
OutsideScope(t) == sandbox[t].dirty \ {t}
JudgedUnsettled(gatesPass) == IF gatesPass THEN "submitted" ELSE "failed"
Judged(gatesPass) == IF gatesPass THEN "verified" ELSE "failed"

(* The fleet commits what is in the sandbox as attempt n.                      *)
CommitWork(t, n) ==
  /\ tips' = [tips EXCEPT ![t][sandbox[t].on] =
                CommitAll(@, t, sandbox[t].dirty, n, "fleet")]
  /\ sandbox' = [sandbox EXCEPT ![t].dirty = {}]

(* ingest: the scope check, the commit, the task gates.  There is no guard on  *)
(* the task's state; without a sandbox the command dies before saving.         *)
Ingest(t, gatesPass) ==
  LET n == attempts[t] + 1 IN
  /\ sandbox[t].on # 0
  /\ n <= IngestBound
  /\ attempts' = [attempts EXCEPT ![t] = n]
  /\ worktree' = [worktree EXCEPT ![t] = TRUE]
  /\ IF OutsideScope(t) # {}
     THEN /\ state' = [state EXCEPT ![t] = "failed"]
          /\ UNCHANGED <<tips, sandbox>>
     ELSE state' = [state EXCEPT ![t] = Judged(gatesPass)] /\ CommitWork(t, n)
  /\ Persist
  /\ UNCHANGED <<branch, trunk, runVars, ledgerVars>>

(* ingest killed while the task gates run: the work is committed, the record   *)
(* knows nothing of it.                                                        *)
IngestDies(t) ==
  /\ sandbox[t].on # 0 /\ OutsideScope(t) = {}
  /\ CommitWork(t, attempts[t] + 1)
  /\ Forget
  /\ UNCHANGED <<taskVars, trunk, runVars, ledgerVars>>

(* The autopilot on a dispatch result that is not "submitted".                 *)
RejectResult(t) ==
  /\ state[t] = "dispatched"
  /\ state' = [state EXCEPT ![t] = "failed"]
  /\ Persist
  /\ UNCHANGED <<attempts, branch, worktree, gitVars, runVars, ledgerVars>>

-----------------------------------------------------------------------------
MergeableEager == InState("verified") \cup InState("dispatched") \cup InState("failed")
Mergeable == InState("verified")

(* What integrate compares: changed_files(task.worktree, head of the           *)
(* integration branch), for every verified task.                               *)
Outstanding == [t \in Mergeable |-> ChangedFiles(Tip(t), sandbox[t].dirty, trunk)]

CanInspect == \A t \in Mergeable : sandbox[t].on # 0

IntegrateConflict ==
  /\ CanInspect
  /\ OwnershipConflicts(Mergeable, Outstanding) # {}
  /\ status' = "integrating"
  /\ verdict' = Said("conflict", {})
  /\ Persist
  /\ UNCHANGED <<taskVars, gitVars, attributed, latest, ledgerVars>>

Precedes(s, t) == Depth[s] < Depth[t] \/ (Depth[s] = Depth[t] /\ Rank[s] < Rank[t])

(* The batches, up to the merge git refuses or the process does not live to    *)
(* see; those before it stay merged, and the ledger has them.                  *)
Merge(done) ==
  LET head == trunk \cup UNION {MergeCommit(t, Tip(t), trunk, attempts[t]) : t \in done} IN
  /\ CanInspect
  /\ OwnershipConflicts(Mergeable, Outstanding) = {}
  /\ done \subseteq Mergeable
  /\ \A s \in done, t \in Mergeable \ done : Precedes(s, t)
  /\ trunk' = head
  /\ landed' = [t \in Task |-> IF t \in done /\ landed[t] = {} THEN {head} ELSE landed[t]]

(* integrate: merges the verified tasks batch by batch.                        *)
IntegrateMerge(done) ==
  LET st == [t \in Task |-> IF t \in done THEN "merged" ELSE state[t]] IN
  /\ Merge(done)
  /\ IF done = Mergeable
     THEN /\ state' = Refreshed(st)
          /\ status' = "integrating"
          /\ UNCHANGED verdict
     ELSE /\ state' = st
          /\ status' = "failed"
          /\ verdict' = Said("error", {})
  /\ Persist
  /\ UNCHANGED <<attempts, branch, worktree, tips, sandbox, attributed, latest, handed>>

(* integrate killed before its only save: what it merged is still verified in  *)
(* the record, and the next integrate meets it again.                          *)
IntegrateDies(done) ==
  /\ done # {}
  /\ Merge(done)
  /\ Forget
  /\ UNCHANGED <<taskVars, tips, sandbox, runVars, handed>>

-----------------------------------------------------------------------------
Implicated(gates) == UNION {Blames[g] : g \in gates}

ReopenedLate(t, budget) == IF attempts[t] > budget THEN "failed" ELSE "pending"
ReopenedReady(t, budget) == IF attempts[t] >= budget THEN "failed" ELSE "ready"

(* attribute_failures and the first half of repair_failed reopen a task the    *)
(* same way: its sandbox goes, and it is pending again unless its budget is    *)
(* spent.                                                                      *)
Reopened(t, budget) == IF attempts[t] >= budget THEN "failed" ELSE "pending"

Retire(tasks) ==
  /\ sandbox' = [t \in Task |-> IF t \in tasks /\ worktree[t] THEN NoSandbox ELSE sandbox[t]]
  /\ worktree' = [t \in Task |-> t \notin tasks /\ worktree[t]]

Reopen(tasks, budget) ==
  /\ state' = Refreshed([t \in Task |-> IF t \in tasks THEN Reopened(t, budget) ELSE state[t]])
  /\ Retire(tasks)

(* verify, every required gate green: the sandboxes are removed, the fields    *)
(* that name them are not cleared.                                             *)
VerifyPass(failing) ==
  /\ failing \cap Required = {}
  /\ latest' = [g \in Gate |-> IF g \in failing THEN "fail" ELSE "pass"]
  /\ verdict' = Said("pass", {}) /\ status' = "passed"
  /\ sandbox' = [t \in Task |-> IF worktree[t] THEN NoSandbox ELSE sandbox[t]]
  /\ Persist
  /\ UNCHANGED <<taskVars, tips, trunk, attributed, landed, handed>>

VerifyFail(failing, budget) ==
  /\ failing \cap Required # {}
  /\ latest' = [g \in Gate |-> IF g \in failing THEN "fail" ELSE "pass"]
  /\ verdict' = Said("gates", failing \cap Required) /\ status' = "failed"
  /\ attributed' = verdict'
  /\ Reopen(Implicated(failing \cap Required), budget)
  /\ Persist
  /\ UNCHANGED <<attempts, branch, tips, trunk, landed, handed>>

NeedsAttribution ==
  verdict.kind \notin {"none", "pass"} /\ verdict # attributed

RepairFailed(budget) ==
  LET failing == IF NeedsAttribution THEN {g \in Gate : latest[g] = "fail"} ELSE {} IN
  /\ Reopen(InState("failed") \cup Implicated(failing), budget)
  /\ Persist
  /\ UNCHANGED <<attempts, branch, tips, trunk, runVars, landed, handed>>

-----------------------------------------------------------------------------
Next ==
  \/ \E wave \in SUBSET Task : Dispatch(wave)
  \/ DispatchRefused
  \/ Reload
  \/ \E t \in Task, f \in Edited : WorkerEdits(t, f)
  \/ \E t \in Task : WorkerCommits(t)
  \/ \E t \in Task, gatesPass \in BOOLEAN : Ingest(t, gatesPass)
  \/ \E t \in Task : IngestDies(t) \/ RejectResult(t)
  \/ IntegrateConflict
  \/ \E done \in SUBSET Task : IntegrateMerge(done) \/ IntegrateDies(done)
  \/ \E failing \in SUBSET Gate : VerifyPass(failing)
  \/ \E failing \in SUBSET Gate, budget \in {MaxAttempts, DefaultAttempts} :
       VerifyFail(failing, budget)
  \/ \E budget \in {MaxAttempts, DefaultAttempts} : RepairFailed(budget)

Spec == Init /\ [][Next]_vars

-----------------------------------------------------------------------------
TypeOK ==
  /\ state \in [Task -> TaskState] /\ attempts \in [Task -> Nat]
  /\ branch \in [Task -> Nat \ {0}] /\ worktree \in [Task -> BOOLEAN]
  /\ tips \in [Task -> Seq(Commit)] /\ sandbox \in [Task -> Sandbox]
  /\ trunk \in Commit
  /\ status \in RunStatus /\ verdict \in Verdict /\ attributed \in Verdict
  /\ latest \in [Gate -> {"none", "pass", "fail"}]
  /\ events \in Nat /\ saved \in Nat
  /\ landed \in [Task -> SUBSET Commit] /\ handed \in Nat

(* "Merges follow dependency order, so the integration branch is always a      *)
(* valid partial system" (ARCHITECTURE.md, stage 4): whatever was reopened,    *)
(* ingested twice or refused by git on the way, a task's work is on the        *)
(* integration branch only if the work of everything it depends on is, also    *)
(* when a command that merged it was killed.                                   *)
ValidPartialSystem ==
  \A t \in Task : landed[t] # {} => \A d \in Deps[t] : landed[d] # {}

(* No branch of a task predates its dependencies: each one contains the head   *)
(* of the integration branch from when every dependency was first merged       *)
(* (packets, attempt_branch).                                                  *)
BranchRestsOnDeps ==
  \A t \in Task : \A k \in DOMAIN tips[t], d \in Deps[t] :
    \E head \in landed[d] : IsAncestor(head, tips[t][k])

(* A sandbox that exists is checked out on the branch the task's record names, *)
(* so ingest commits to the branch integrate will merge.                       *)
SandboxOnTaskBranch ==
  \A t \in Task : sandbox[t].on # 0 => sandbox[t].on = branch[t]

(* A change reaches the integration branch only if it stays inside the write   *)
(* scope of the task that made it ("enforced twice", ARCHITECTURE.md).         *)
ScopeRespected ==
  \A c \in trunk : c.by # "merge" => c.files \subseteq {c.task}

(* A task comes back for another attempt only while its attempt budget lasts   *)
(* ("retry forever is not autonomy", ARCHITECTURE.md).                         *)
AttemptBudget ==
  [][\A t \in Task :
       state[t] \notin {"pending", "ready"} /\ state'[t] \in {"pending", "ready"}
         => attempts[t] < MaxAttempts]_vars

(* Two tasks whose outstanding work touches one path are never merged by the   *)
(* same integration ("refuses to run when two tasks touched the same path").   *)
OwnFiles(t) ==
  UNION {c.files : c \in {x \in Tip(t) \ trunk : x.task = t}} \cup sandbox[t].dirty

NoOverlapMerged ==
  [][\A s, t \in InState("verified") :
       s # t /\ state'[s] = "merged" /\ state'[t] = "merged"
         => OwnFiles(s) \cap OwnFiles(t) = {}]_vars

(* "A task becomes READY only when every dependency is MERGED" (scheduler.py), *)
(* also in the step that reopens the dependency itself.                        *)
ReadyOnlyWhenDepsMerged ==
  [][\A t \in Task : state[t] # "ready" /\ state'[t] = "ready"
       => \A d \in Deps[t] : state'[d] = "merged"]_vars

(* Admission is what remains of the run when only passing, withdrawing and     *)
(* merging are looked at.                                                      *)
WorkIn(commit) == {c \in commit : c.by # "merge"}

Promise == INSTANCE Admission WITH
  Work <- Change,
  passed <- {t \in Task : state[t] = "verified"},
  offer <- [t \in Task |-> IF state[t] = "verified" THEN WorkIn(Tip(t)) ELSE {}],
  admitted <- {t \in Task : landed[t] # {}},
  product <- WorkIn(trunk)

(* Every run of the scheduler is a run of Admission: what is merged is what    *)
(* the task gates accepted, and it is merged after what it was built on.       *)
AdmissionSpec == Promise!Spec

(* -- statements the code does not keep -------------------------------------- *)

(* "Refuses to continue if two tasks touched the same path": a conflict names  *)
(* tasks that did.                                                             *)
ConflictMeansOverlap ==
  [][verdict'.kind = "conflict" /\ verdict.kind # "conflict"
       => \E s, t \in InState("verified") :
            s # t /\ OwnFiles(s) \cap OwnFiles(t) # {}]_vars

(* max_dispatches: nothing is handed out once that many tasks have been.       *)
DispatchBudget ==
  [][MaxDispatches # 0 /\ handed >= MaxDispatches => handed' = handed]_vars

(* "Every failed required gate that carries attribution reopens its            *)
(* component's task": merged work is reopened by a required gate only.         *)
OnlyRequiredReopen ==
  [][\A t \in InState("merged") : state'[t] \in {"pending", "ready"}
       => \E g \in Required : t \in Blames[g] /\ latest'[g] = "fail"]_vars
=============================================================================
