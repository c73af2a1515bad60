--------------------------- MODULE SchedulerProofs ---------------------------
(* Theorems of Scheduler, for every set of tasks, dependency relation, gate    *)
(* set and budget; that it implements Admission; and theorems of Autopilot,    *)
(* for every number of rounds, which rest on both.                             *)
EXTENDS Autopilot, FiniteSetTheorems, SequenceTheorems, TLAPS

-----------------------------------------------------------------------------
LEMMA CommitAllType ==
  ASSUME NEW tip \in Commit, NEW t \in Task, NEW dirty \in SUBSET File,
         NEW n \in Nat, NEW by \in Author
  PROVE  /\ CommitAll(tip, t, dirty, n, by) \in Commit
         /\ tip \subseteq CommitAll(tip, t, dirty, n, by)
  BY DEF CommitAll, Commit, Change

LEMMA MergeCommitType ==
  ASSUME NEW tip \in Commit, NEW t \in Task, NEW base \in Commit, NEW n \in Nat
  PROVE  MergeCommit(t, tip, base, n) \in Commit
  BY DEF MergeCommit, Commit, Change, Author

(* refresh only ever turns a pending task whose dependencies are merged ready. *)
LEMMA RefreshedFacts ==
  ASSUME NEW st \in [Task -> TaskState]
  PROVE  /\ Refreshed(st) \in [Task -> TaskState]
         /\ \A t \in Task : \/ Refreshed(st)[t] = st[t]
                            \/ /\ st[t] = "pending" /\ Refreshed(st)[t] = "ready"
                               /\ \A d \in Deps[t] : st[d] = "merged"
  BY DEF Refreshed, TaskState

(* The attempt branch of a task exists after packets, and the branches that    *)
(* existed before point where they did.                                        *)
LEMMA AttemptBranchFacts ==
  ASSUME NEW ts \in Seq(Commit), NEW k \in Nat \ {0}, NEW base \in Commit,
         k <= Len(ts) + 1
  PROVE  /\ AttemptBranch(ts, k, base) \in Nat \ {0}
         /\ WithBranch(ts, AttemptBranch(ts, k, base), base) \in Seq(Commit)
         /\ AttemptBranch(ts, k, base)
              \in DOMAIN WithBranch(ts, AttemptBranch(ts, k, base), base)
         /\ \A i \in DOMAIN WithBranch(ts, AttemptBranch(ts, k, base), base) :
              \/ /\ i \in DOMAIN ts
                 /\ WithBranch(ts, AttemptBranch(ts, k, base), base)[i] = ts[i]
              \/ WithBranch(ts, AttemptBranch(ts, k, base), base)[i] = base
<1> DEFINE used == AttemptBranch(ts, k, base)
<1>1. DOMAIN ts = 1 .. Len(ts) /\ Len(ts) \in Nat
  BY LenProperties
<1>2. used \in Nat \ {0} /\ used <= Len(ts) + 1
  BY <1>1 DEF AttemptBranch
<1> HIDE DEF used
<1>3. CASE BranchExists(ts, used)
  BY <1>2, <1>3 DEF WithBranch, BranchExists, used
<1>4. CASE ~BranchExists(ts, used)
  <2>1. used = Len(ts) + 1
    BY <1>1, <1>2, <1>4 DEF BranchExists
  <2>2. WithBranch(ts, used, base) = Append(ts, base)
    BY <1>4 DEF WithBranch
  <2>3. /\ Append(ts, base) \in Seq(Commit)
        /\ Len(Append(ts, base)) = Len(ts) + 1
        /\ \A i \in 1 .. Len(ts) : Append(ts, base)[i] = ts[i]
        /\ Append(ts, base)[Len(ts) + 1] = base
    BY AppendProperties
  <2>4. DOMAIN Append(ts, base) = 1 .. (Len(ts) + 1)
    BY <2>3, LenProperties
  <2> QED
    BY <1>1, <1>2, <2>1, <2>2, <2>3, <2>4 DEF used
<1> QED
  BY <1>3, <1>4
-----------------------------------------------------------------------------
(* The inductive invariant.                                                    *)
BranchInSequence == \A t \in Task : branch[t] <= Len(tips[t]) + 1

StartedHasBranch ==
  \A t \in Task : state[t] \in {"dispatched", "verified", "merged"}
                    => branch[t] \in DOMAIN tips[t]

SandboxHasBranch ==
  \A t \in Task : sandbox[t].on # 0 => sandbox[t].on \in DOMAIN tips[t]

MergedIsLanded == \A t \in Task : state[t] = "merged" => landed[t] # {}

ReadyIsFounded ==
  \A t \in Task : state[t] = "ready" => \A d \in Deps[t] : landed[d] # {}

LandedIsStarted == \A t \in Task : landed[t] # {} => 1 \in DOMAIN tips[t]

LandedInTrunk == \A t \in Task : \A head \in landed[t] : head \subseteq trunk

IInv ==
  /\ TypeOK
  /\ BranchInSequence /\ StartedHasBranch
  /\ SandboxHasBranch /\ SandboxOnTaskBranch
  /\ MergedIsLanded /\ ReadyIsFounded /\ LandedIsStarted /\ LandedInTrunk
  /\ BranchRestsOnDeps

(* An empty task set of dependencies, or a sequence with no branch, is all the *)
(* initial state has.                                                          *)
LEMMA InitInvariant == Init => IInv
<1> SUFFICES ASSUME Init PROVE IInv
  OBVIOUS
<1>1. << >> \in Seq(Commit) /\ <<{}>> \in Seq(Commit)
  BY DEF Commit
<1>2. TypeOK
  <2>1. /\ state \in [Task -> TaskState] /\ attempts \in [Task -> Nat]
        /\ branch \in [Task -> Nat \ {0}] /\ trunk \in Commit
    BY DEF Init, TaskState, Commit
  <2>2. worktree \in [Task -> BOOLEAN]
    BY Zenon DEF Init
  <2>3. tips \in [Task -> Seq(Commit)]
    BY <1>1 DEF Init
  <2>4. sandbox \in [Task -> Sandbox]
    BY DEF Init, Sandbox, NoSandbox
  <2>5. /\ status \in RunStatus /\ verdict \in Verdict /\ attributed \in Verdict
        /\ latest \in [Gate -> {"none", "pass", "fail"}]
        /\ events \in Nat /\ saved \in Nat
        /\ landed \in [Task -> SUBSET Commit] /\ handed \in Nat
    BY DEF Init, RunStatus, Verdict, Said
  <2> QED
    BY <2>1, <2>2, <2>3, <2>4, <2>5 DEF TypeOK
<1>3. BranchInSequence /\ SandboxHasBranch /\ SandboxOnTaskBranch
  BY DEF Init, BranchInSequence, SandboxHasBranch, SandboxOnTaskBranch, NoSandbox
<1>4. StartedHasBranch /\ MergedIsLanded /\ ReadyIsFounded /\ LandedIsStarted /\ LandedInTrunk
  BY DEF Init, StartedHasBranch, MergedIsLanded, ReadyIsFounded, LandedIsStarted, LandedInTrunk
<1>5. BranchRestsOnDeps
  BY DEF Init, BranchRestsOnDeps
<1> QED
  BY <1>2, <1>3, <1>4, <1>5 DEF IInv

-----------------------------------------------------------------------------
(* Most steps create no branch, land nothing and only let branches grow.       *)
LEMMA GrowingStep ==
  ASSUME IInv, TypeOK', UNCHANGED <<branch, trunk, landed>>,
         \A t \in Task : /\ DOMAIN tips'[t] = DOMAIN tips[t]
                         /\ Len(tips'[t]) = Len(tips[t])
                         /\ \A k \in DOMAIN tips[t] : tips[t][k] \subseteq tips'[t][k],
         \A t \in Task : \/ sandbox'[t].on = 0
                         \/ sandbox'[t].on = sandbox[t].on,
         \A t \in Task : state'[t] \in {"dispatched", "verified", "merged"}
                           => state'[t] = state[t]
                              \/ (sandbox[t].on # 0 /\ state'[t] # "merged"),
         \A t \in Task : state'[t] = "ready"
                           => state[t] = "ready" \/ \A d \in Deps[t] : landed[d] # {}
  PROVE  IInv'
<1>1. BranchInSequence'
  BY DEF IInv, BranchInSequence
<1>2. SandboxHasBranch' /\ SandboxOnTaskBranch'
  BY DEF IInv, SandboxHasBranch, SandboxOnTaskBranch
<1>3. StartedHasBranch'
  BY DEF IInv, StartedHasBranch, SandboxHasBranch, SandboxOnTaskBranch
<1>4. MergedIsLanded'
  BY DEF IInv, MergedIsLanded
<1>5. ReadyIsFounded'
  BY DEF IInv, ReadyIsFounded
<1>6. LandedIsStarted' /\ LandedInTrunk'
  BY DEF IInv, LandedIsStarted, LandedInTrunk
<1>7. BranchRestsOnDeps'
  <2> SUFFICES ASSUME NEW t \in Task, NEW k \in DOMAIN tips[t], NEW d \in Deps[t]
               PROVE  \E head \in landed[d] : head \subseteq tips'[t][k]
    BY DEF BranchRestsOnDeps, IsAncestor
  <2>1. PICK head \in landed[d] : head \subseteq tips[t][k]
    BY DEF IInv, BranchRestsOnDeps, IsAncestor
  <2> QED
    BY <2>1
<1> QED
  BY <1>1, <1>2, <1>3, <1>4, <1>5, <1>6, <1>7 DEF IInv

LEMMA EventTypes ==
  ASSUME TypeOK, NEW wave \in SUBSET Task
  PROVE  events + Cardinality(wave) \in Nat /\ handed + Cardinality(wave) \in Nat
<1>1. Cardinality(wave) \in Nat
  BY TaskAssumption, FS_Subset, FS_CardinalityType
<1> QED
  BY <1>1 DEF TypeOK

LEMMA DispatchStep ==
  ASSUME IInv, NEW wave \in SUBSET Task, Dispatch(wave)
  PROVE  IInv'
<1> DEFINE ready == {t \in Task : Refreshed(state)[t] = "ready"}
           used == [t \in Task |-> IF t \in ready THEN AttemptBranch(tips[t], branch[t], trunk)
                                   ELSE branch[t]]
<1>1. /\ wave \subseteq ready
      /\ branch' = used
      /\ tips' = [t \in Task |-> IF t \in ready THEN WithBranch(tips[t], used[t], trunk)
                                 ELSE tips[t]]
      /\ sandbox' = [t \in Task |-> IF t \in ready THEN AddWorktree(sandbox[t], used[t])
                                    ELSE sandbox[t]]
      /\ worktree' = [t \in Task |-> t \in ready \/ worktree[t]]
      /\ state' = [t \in Task |-> IF t \in wave THEN "dispatched" ELSE Refreshed(state)[t]]
      /\ saved' = events /\ events' = events + Cardinality(wave)
      /\ handed' = handed + Cardinality(wave)
      /\ UNCHANGED <<attempts, trunk, runVars, landed>>
  BY Zenon DEF Dispatch, Packets
<1>2. /\ Refreshed(state) \in [Task -> TaskState]
      /\ \A t \in Task : \/ Refreshed(state)[t] = state[t]
                         \/ /\ state[t] = "pending" /\ Refreshed(state)[t] = "ready"
                            /\ \A d \in Deps[t] : state[d] = "merged"
  BY RefreshedFacts DEF IInv, TypeOK
<1> HIDE DEF ready
<1>3. ready \subseteq Task /\ \A t \in ready : Refreshed(state)[t] = "ready"
  BY DEF ready
<1>4. \A t \in ready : \A d \in Deps[t] : landed[d] # {}
  BY <1>2, <1>3, DepsAssumption DEF IInv, ReadyIsFounded, MergedIsLanded
<1>5. \A t \in Task : /\ tips[t] \in Seq(Commit) /\ branch[t] \in Nat \ {0} /\ trunk \in Commit
                      /\ branch[t] <= Len(tips[t]) + 1 /\ sandbox[t] \in Sandbox
  BY DEF IInv, TypeOK, BranchInSequence
<1>6. \A t \in Task : used[t] \in Nat \ {0}
  BY <1>5, AttemptBranchFacts
<1>7. \A t \in Task :
        /\ tips'[t] \in Seq(Commit)
        /\ \A i \in DOMAIN tips'[t] :
             \/ i \in DOMAIN tips[t] /\ tips'[t][i] = tips[t][i]
             \/ t \in ready /\ tips'[t][i] = trunk
        /\ t \in ready => branch'[t] \in DOMAIN tips'[t]
        /\ t \notin ready => tips'[t] = tips[t] /\ branch'[t] = branch[t]
  <2> TAKE t \in Task
  <2>1. CASE t \notin ready
    BY <1>1, <1>5, <2>1
  <2>2. CASE t \in ready
    <3>1. /\ branch'[t] = AttemptBranch(tips[t], branch[t], trunk)
          /\ tips'[t] = WithBranch(tips[t], AttemptBranch(tips[t], branch[t], trunk), trunk)
      BY <1>1, <2>2
    <3>2. LET u == AttemptBranch(tips[t], branch[t], trunk)
              new == WithBranch(tips[t], u, trunk) IN
          /\ new \in Seq(Commit) /\ u \in DOMAIN new
          /\ \A i \in DOMAIN new : \/ i \in DOMAIN tips[t] /\ new[i] = tips[t][i]
                                 \/ new[i] = trunk
      BY <1>5, AttemptBranchFacts, Zenon
    <3> QED
      BY <2>2, <3>1, <3>2
  <2> QED
    BY <2>1, <2>2
<1>8. TypeOK'
  <2>1. state' \in [Task -> TaskState]
    BY <1>1, <1>2 DEF TaskState
  <2>2. worktree' \in [Task -> BOOLEAN]
    BY <1>1, Zenon DEF IInv, TypeOK
  <2>3. branch' \in [Task -> Nat \ {0}]
    BY <1>1, <1>6
  <2>4. tips' \in [Task -> Seq(Commit)]
    BY <1>1, <1>7
  <2>5. sandbox' \in [Task -> Sandbox]
    <3>1. \A t \in Task : AddWorktree(sandbox[t], used[t]) \in Sandbox
      BY <1>5, <1>6 DEF AddWorktree, Sandbox
    <3> QED
      BY <1>1, <1>5, <3>1
  <2>6. events' \in Nat /\ saved' \in Nat /\ handed' \in Nat
    BY <1>1, EventTypes DEF IInv, TypeOK
  <2> QED
    BY <1>1, <2>1, <2>2, <2>3, <2>4, <2>5, <2>6 DEF IInv, TypeOK, runVars
<1>9. BranchInSequence'
  <2>1. \A t \in ready : branch'[t] <= Len(tips'[t])
    BY <1>3, <1>7, LenProperties
  <2> QED
    BY <1>1, <1>5, <1>7, <1>8, <2>1, LenProperties DEF BranchInSequence, TypeOK
<1>10. \A t \in Task : \A i \in DOMAIN tips[t] : i \in DOMAIN tips'[t]
  BY <1>1, <1>5 DEF WithBranch
<1>11. StartedHasBranch'
  BY <1>1, <1>2, <1>7 DEF IInv, StartedHasBranch
<1>12. SandboxHasBranch' /\ SandboxOnTaskBranch'
  BY <1>1, <1>3, <1>7 DEF IInv, SandboxHasBranch, SandboxOnTaskBranch, AddWorktree
<1>13. MergedIsLanded'
  BY <1>1, <1>2 DEF IInv, MergedIsLanded
<1>14. ReadyIsFounded'
  BY <1>1, <1>4 DEF ready, ReadyIsFounded
<1>15. LandedIsStarted' /\ LandedInTrunk'
  BY <1>1, <1>10 DEF IInv, LandedIsStarted, LandedInTrunk
<1>16. BranchRestsOnDeps'
  <2> SUFFICES ASSUME NEW t \in Task, NEW k \in DOMAIN tips'[t], NEW d \in Deps[t]
               PROVE  \E head \in landed[d] : head \subseteq tips'[t][k]
    BY <1>1 DEF BranchRestsOnDeps, IsAncestor
  <2>1. CASE k \in DOMAIN tips[t] /\ tips'[t][k] = tips[t][k]
    BY <2>1 DEF IInv, BranchRestsOnDeps, IsAncestor
  <2>2. CASE t \in ready /\ tips'[t][k] = trunk
    BY <1>4, <2>2, DepsAssumption DEF IInv, LandedInTrunk
  <2> QED
    BY <1>7, <2>1, <2>2
<1> QED
  BY <1>8, <1>9, <1>11, <1>12, <1>13, <1>14, <1>15, <1>16 DEF IInv

-----------------------------------------------------------------------------
(* One lemma per action; those that leave git alone are growing steps.         *)
LEMMA DispatchRefusedStep == IInv /\ DispatchRefused => IInv'
<1> SUFFICES ASSUME IInv, DispatchRefused PROVE IInv'
  OBVIOUS
<1>1. TypeOK'
  BY DEF IInv, TypeOK, DispatchRefused, Persist, taskVars, gitVars, runVars, ledgerVars
<1> QED
  BY <1>1, GrowingStep DEF DispatchRefused, taskVars, gitVars, ledgerVars

LEMMA ReloadStep == IInv /\ Reload => IInv'
<1> SUFFICES ASSUME IInv, Reload PROVE IInv'
  OBVIOUS
<1>1. TypeOK'
  BY DEF IInv, TypeOK, Reload, Forget, taskVars, gitVars, runVars, ledgerVars
<1> QED
  BY <1>1, GrowingStep DEF Reload, taskVars, gitVars, ledgerVars

LEMMA WorkerEditsStep ==
  ASSUME IInv, NEW t \in Task, NEW f \in Edited, WorkerEdits(t, f)
  PROVE  IInv'
<1>1. sandbox[t] \in Sandbox /\ f \in File
  BY WorkerAssumption DEF IInv, TypeOK
<1>2. sandbox' = [sandbox EXCEPT ![t] = [sandbox[t] EXCEPT !.dirty = @ \cup {f}]]
  BY DEF WorkerEdits
<1>3. [sandbox[t] EXCEPT !.dirty = @ \cup {f}] \in Sandbox
  BY <1>1 DEF Sandbox
<1>4. TypeOK'
  BY <1>2, <1>3 DEF IInv, TypeOK, WorkerEdits, taskVars, runVars, eventVars, ledgerVars
<1>5. \A s \in Task : sandbox'[s].on = sandbox[s].on
  BY <1>1, <1>2 DEF IInv, TypeOK, Sandbox
<1> QED
  BY <1>4, <1>5, GrowingStep DEF WorkerEdits, taskVars, ledgerVars

(* A commit on the branch of the sandbox replaces one tip by a longer history. *)
LEMMA CommitGrows ==
  ASSUME IInv, NEW t \in Task, sandbox[t].on # 0, NEW n \in Nat, NEW by \in Author,
         tips' = [tips EXCEPT ![t][sandbox[t].on] =
                    CommitAll(@, t, sandbox[t].dirty, n, by)]
  PROVE  /\ tips' \in [Task -> Seq(Commit)]
         /\ \A s \in Task : /\ DOMAIN tips'[s] = DOMAIN tips[s]
                            /\ Len(tips'[s]) = Len(tips[s])
                            /\ \A k \in DOMAIN tips[s] : tips[s][k] \subseteq tips'[s][k]
<1> DEFINE on == sandbox[t].on
           new == CommitAll(tips[t][on], t, sandbox[t].dirty, n, by)
           ts == [tips[t] EXCEPT ![on] = new]
<1>1. /\ tips \in [Task -> Seq(Commit)] /\ sandbox[t].dirty \in SUBSET File
      /\ on \in DOMAIN tips[t]
  BY DEF IInv, TypeOK, SandboxHasBranch, Sandbox
<1>2. on \in 1 .. Len(tips[t]) /\ tips[t][on] \in Commit
  BY <1>1, LenProperties, ElementOfSeq
<1>3. new \in Commit /\ tips[t][on] \subseteq new
  BY <1>1, <1>2, CommitAllType
<1>4. tips' = [tips EXCEPT ![t] = ts]
  BY DEF CommitAll
<1> HIDE DEF new
<1>5. /\ ts \in Seq(Commit) /\ Len(ts) = Len(tips[t])
      /\ \A k \in 1 .. Len(tips[t]) : ts[k] = IF k = on THEN new ELSE tips[t][k]
  BY <1>1, <1>2, <1>3, ExceptSeq
<1>6. DOMAIN ts = 1 .. Len(tips[t]) /\ DOMAIN tips[t] = 1 .. Len(tips[t])
  BY <1>1, <1>5, LenProperties
<1> HIDE DEF ts
<1> QED
  BY <1>1, <1>3, <1>4, <1>5, <1>6

LEMMA SandboxCleaned ==
  ASSUME IInv, NEW t \in Task, sandbox' = [sandbox EXCEPT ![t].dirty = {}]
  PROVE  /\ sandbox' \in [Task -> Sandbox]
         /\ \A s \in Task : sandbox'[s].on = sandbox[s].on
<1>1. sandbox \in [Task -> Sandbox] /\ sandbox[t] \in Sandbox
  BY DEF IInv, TypeOK
<1>2. sandbox' = [sandbox EXCEPT ![t] = [sandbox[t] EXCEPT !.dirty = {}]]
  OBVIOUS
<1>3. /\ [sandbox[t] EXCEPT !.dirty = {}] \in Sandbox
      /\ [sandbox[t] EXCEPT !.dirty = {}].on = sandbox[t].on
  BY <1>1 DEF Sandbox
<1> QED
  BY <1>1, <1>2, <1>3

LEMMA WorkerCommitsStep ==
  ASSUME IInv, NEW t \in Task, WorkerCommits(t)
  PROVE  IInv'
<1>1. /\ sandbox[t].on # 0
      /\ tips' = [tips EXCEPT ![t][sandbox[t].on] =
                    CommitAll(@, t, sandbox[t].dirty, attempts[t] + 1, "worker")]
      /\ sandbox' = [sandbox EXCEPT ![t].dirty = {}]
      /\ UNCHANGED <<taskVars, trunk, runVars, eventVars, ledgerVars>>
  BY DEF WorkerCommits
<1>2. attempts[t] + 1 \in Nat /\ "worker" \in Author
  BY DEF IInv, TypeOK, Author
<1>3. /\ tips' \in [Task -> Seq(Commit)]
      /\ \A s \in Task : /\ DOMAIN tips'[s] = DOMAIN tips[s]
                         /\ Len(tips'[s]) = Len(tips[s])
                         /\ \A k \in DOMAIN tips[s] : tips[s][k] \subseteq tips'[s][k]
  BY <1>1, <1>2, CommitGrows
<1>4. sandbox' \in [Task -> Sandbox] /\ \A s \in Task : sandbox'[s].on = sandbox[s].on
  BY <1>1, SandboxCleaned
<1>5. TypeOK'
  BY <1>1, <1>3, <1>4 DEF IInv, TypeOK, taskVars, runVars, eventVars, ledgerVars
<1> QED
  BY <1>1, <1>3, <1>4, <1>5, GrowingStep DEF taskVars, ledgerVars

LEMMA CommitWorkGrows ==
  ASSUME IInv, NEW t \in Task, sandbox[t].on # 0, NEW n \in Nat, CommitWork(t, n)
  PROVE  /\ tips' \in [Task -> Seq(Commit)] /\ sandbox' \in [Task -> Sandbox]
         /\ \A s \in Task : /\ DOMAIN tips'[s] = DOMAIN tips[s]
                            /\ Len(tips'[s]) = Len(tips[s])
                            /\ \A k \in DOMAIN tips[s] : tips[s][k] \subseteq tips'[s][k]
         /\ \A s \in Task : sandbox'[s].on = sandbox[s].on
<1>1. "fleet" \in Author
  BY DEF Author
<1> QED
  BY <1>1, CommitGrows, SandboxCleaned DEF CommitWork

LEMMA IngestDiesStep ==
  ASSUME IInv, NEW t \in Task, IngestDies(t)
  PROVE  IInv'
<1>1. /\ sandbox[t].on # 0 /\ CommitWork(t, attempts[t] + 1) /\ attempts[t] + 1 \in Nat
      /\ UNCHANGED <<taskVars, trunk, runVars, ledgerVars>>
  BY DEF IngestDies, IInv, TypeOK
<1>2. /\ tips' \in [Task -> Seq(Commit)] /\ sandbox' \in [Task -> Sandbox]
      /\ \A s \in Task : /\ DOMAIN tips'[s] = DOMAIN tips[s]
                         /\ Len(tips'[s]) = Len(tips[s])
                         /\ \A k \in DOMAIN tips[s] : tips[s][k] \subseteq tips'[s][k]
      /\ \A s \in Task : sandbox'[s].on = sandbox[s].on
  BY <1>1, CommitWorkGrows
<1>3. events' \in Nat /\ saved' \in Nat
  BY DEF IngestDies, Forget, IInv, TypeOK
<1>4. TypeOK'
  BY <1>1, <1>2, <1>3 DEF IInv, TypeOK, taskVars, runVars, ledgerVars
<1> QED
  BY <1>1, <1>2, <1>4, GrowingStep DEF taskVars, ledgerVars

LEMMA IngestStep ==
  ASSUME IInv, NEW t \in Task, NEW gatesPass \in BOOLEAN, Ingest(t, gatesPass)
  PROVE  IInv'
<1>1. /\ sandbox[t].on # 0
      /\ attempts' = [attempts EXCEPT ![t] = attempts[t] + 1]
      /\ worktree' = [worktree EXCEPT ![t] = TRUE]
      /\ saved' = events /\ events' = events
      /\ UNCHANGED <<branch, trunk, runVars, ledgerVars>>
  BY DEF Ingest, Persist
<1>2. attempts[t] + 1 \in Nat /\ "fleet" \in Author
  BY DEF IInv, TypeOK, Author
<1>3. \E s \in {"verified", "failed"} : state' = [state EXCEPT ![t] = s]
  BY DEF Ingest, Judged
<1>4. state' \in [Task -> TaskState]
  BY <1>3 DEF IInv, TypeOK, TaskState
<1>5. /\ tips' \in [Task -> Seq(Commit)] /\ sandbox' \in [Task -> Sandbox]
      /\ \A s \in Task : /\ DOMAIN tips'[s] = DOMAIN tips[s]
                         /\ Len(tips'[s]) = Len(tips[s])
                         /\ \A k \in DOMAIN tips[s] : tips[s][k] \subseteq tips'[s][k]
      /\ \A s \in Task : sandbox'[s].on = sandbox[s].on
  <2>1. CASE OutsideScope(t) # {}
    BY <2>1 DEF Ingest, IInv, TypeOK
  <2>2. CASE OutsideScope(t) = {}
    BY <1>1, <1>2, <2>2, CommitWorkGrows DEF Ingest
  <2> QED
    BY <2>1, <2>2
<1>6. worktree' \in [Task -> BOOLEAN]
  BY <1>1 DEF IInv, TypeOK
<1>7. TypeOK'
  BY <1>1, <1>2, <1>4, <1>5, <1>6 DEF IInv, TypeOK, runVars, ledgerVars
<1>8. /\ \A s \in Task : state'[s] \in {"dispatched", "verified", "merged"}
                        => state'[s] = state[s] \/ (sandbox[s].on # 0 /\ state'[s] # "merged")
      /\ \A s \in Task : state'[s] = "ready" => state[s] = "ready"
  BY <1>1, <1>3 DEF IInv, TypeOK
<1> QED
  BY <1>1, <1>5, <1>7, <1>8, GrowingStep DEF ledgerVars

LEMMA RejectResultStep ==
  ASSUME IInv, NEW t \in Task, RejectResult(t)
  PROVE  IInv'
<1>1. state' = [state EXCEPT ![t] = "failed"]
  BY DEF RejectResult
<1>2. TypeOK'
  BY <1>1 DEF IInv, TypeOK, RejectResult, Persist, TaskState, gitVars, runVars, ledgerVars
<1>3. \A s \in Task : state'[s] # "failed" => state'[s] = state[s]
  BY <1>1 DEF IInv, TypeOK
<1> QED
  BY <1>2, <1>3, GrowingStep DEF RejectResult, gitVars, ledgerVars

LEMMA IntegrateConflictStep == IInv /\ IntegrateConflict => IInv'
<1> SUFFICES ASSUME IInv, IntegrateConflict PROVE IInv'
  OBVIOUS
<1>1. Said("conflict", {}) \in Verdict /\ "integrating" \in RunStatus
  BY DEF Said, Verdict, RunStatus
<1>2. TypeOK'
  BY <1>1 DEF IInv, TypeOK, IntegrateConflict, Persist, taskVars, gitVars, ledgerVars
<1> QED
  BY <1>2, GrowingStep DEF IntegrateConflict, taskVars, gitVars, ledgerVars

(* Reopening moves tasks to failed or pending, and from there refresh may make *)
(* them ready; sandboxes only disappear.                                       *)
LEMMA ReopenFacts ==
  ASSUME IInv, NEW tasks, NEW budget \in Nat, Reopen(tasks, budget)
  PROVE  /\ state' \in [Task -> TaskState] /\ sandbox' \in [Task -> Sandbox]
         /\ worktree' \in [Task -> BOOLEAN]
         /\ \A t \in Task : sandbox'[t].on = 0 \/ sandbox'[t].on = sandbox[t].on
         /\ \A t \in Task : state'[t] \in {"dispatched", "verified", "merged"}
                             => state'[t] = state[t]
         /\ \A t \in Task : state'[t] = "ready"
                => state[t] = "ready" \/ \A d \in Deps[t] : landed[d] # {}
<1> DEFINE st == [t \in Task |-> IF t \in tasks THEN Reopened(t, budget) ELSE state[t]]
<1>1. \A t \in Task : Reopened(t, budget) \in {"failed", "pending"}
  BY DEF Reopened
<1>2. /\ st \in [Task -> TaskState]
      /\ \A t \in Task : st[t] \in {"failed", "pending"} \/ st[t] = state[t]
  BY <1>1 DEF IInv, TypeOK, TaskState
<1>3. state' = Refreshed(st)
  BY DEF Reopen
<1> HIDE DEF st
<1>4. /\ state' \in [Task -> TaskState]
      /\ \A t \in Task : \/ state'[t] = st[t]
                         \/ /\ st[t] = "pending" /\ state'[t] = "ready"
                            /\ \A d \in Deps[t] : st[d] = "merged"
  BY <1>2, <1>3, RefreshedFacts
<1>5. sandbox' \in [Task -> Sandbox] /\ \A t \in Task : sandbox'[t].on \in {0, sandbox[t].on}
  BY DEF IInv, TypeOK, Reopen, Retire, NoSandbox, Sandbox
<1>6. worktree' \in [Task -> BOOLEAN]
  BY Zenon DEF Reopen, Retire
<1>7. ASSUME NEW t \in Task, state'[t] = "ready", state[t] # "ready"
      PROVE  \A d \in Deps[t] : landed[d] # {}
  <2>1. \A d \in Deps[t] : st[d] = "merged" /\ d \in Task
    BY <1>2, <1>4, <1>7, DepsAssumption
  <2> QED
    BY <1>2, <2>1 DEF IInv, MergedIsLanded
<1> QED
  BY <1>2, <1>4, <1>5, <1>6, <1>7

LEMMA VerifyFailStep ==
  ASSUME IInv, NEW failing \in SUBSET Gate, NEW budget \in Nat, VerifyFail(failing, budget)
  PROVE  IInv'
<1>1. Said("gates", failing \cap Required) \in Verdict /\ "failed" \in RunStatus
  BY DEF Said, Verdict, RunStatus
<1>2. [g \in Gate |-> IF g \in failing THEN "fail" ELSE "pass"] \in [Gate -> {"none", "pass", "fail"}]
  OBVIOUS
<1>3. TypeOK'
  BY <1>1, <1>2, ReopenFacts DEF IInv, TypeOK, VerifyFail, Persist
<1> QED
  BY <1>3, ReopenFacts, GrowingStep DEF VerifyFail

LEMMA RepairFailedStep ==
  ASSUME IInv, NEW budget \in Nat, RepairFailed(budget)
  PROVE  IInv'
<1>1. TypeOK'
  BY ReopenFacts DEF IInv, TypeOK, RepairFailed, Persist, runVars
<1> QED
  BY <1>1, ReopenFacts, GrowingStep DEF RepairFailed

LEMMA VerifyPassStep ==
  ASSUME IInv, NEW failing \in SUBSET Gate, VerifyPass(failing)
  PROVE  IInv'
<1>1. Said("pass", {}) \in Verdict /\ "passed" \in RunStatus
  BY DEF Said, Verdict, RunStatus
<1>2. [g \in Gate |-> IF g \in failing THEN "fail" ELSE "pass"] \in [Gate -> {"none", "pass", "fail"}]
  OBVIOUS
<1>3. sandbox' \in [Task -> Sandbox] /\ \A t \in Task : sandbox'[t].on \in {0, sandbox[t].on}
  BY DEF IInv, TypeOK, VerifyPass, NoSandbox, Sandbox
<1>4. TypeOK'
  BY <1>1, <1>2, <1>3 DEF IInv, TypeOK, VerifyPass, Persist, taskVars
<1> QED
  BY <1>3, <1>4, GrowingStep DEF VerifyPass, taskVars

(* What merging does to git and to the ledger, whether or not the record       *)
(* learns of it.                                                               *)
LEMMA MergeFacts ==
  ASSUME IInv, NEW done \in SUBSET Task, Merge(done)
  PROVE  /\ trunk' \in Commit /\ trunk \subseteq trunk'
         /\ landed' \in [Task -> SUBSET Commit]
         /\ \A t \in Task : landed[t] \subseteq landed'[t]
                            /\ (t \in done => landed'[t] # {})
         /\ \A t \in done : state[t] = "verified" /\ branch[t] \in DOMAIN tips[t]
         /\ LandedInTrunk'
         /\ \A t \in Task : landed'[t] # {} => 1 \in DOMAIN tips[t]
         /\ \A t \in Task : \A k \in DOMAIN tips[t], d \in Deps[t] :
              \E h \in landed'[d] : h \subseteq tips[t][k]
<1> DEFINE head == trunk \cup UNION {MergeCommit(t, Tip(t), trunk, attempts[t]) : t \in done}
<1>1. /\ done \subseteq Mergeable
      /\ trunk' = head
      /\ landed' = [t \in Task |-> IF t \in done /\ landed[t] = {} THEN {head} ELSE landed[t]]
  BY Zenon DEF Merge
<1>2. \A t \in done : state[t] = "verified" /\ branch[t] \in DOMAIN tips[t]
  BY <1>1 DEF Mergeable, InState, IInv, StartedHasBranch
<1>3. head \in Commit
  <2>1. \A t \in done : Tip(t) \in Commit /\ attempts[t] \in Nat /\ trunk \in Commit
    BY <1>2, LenProperties, ElementOfSeq DEF Tip, IInv, TypeOK
  <2>2. \A t \in done : MergeCommit(t, Tip(t), trunk, attempts[t]) \in Commit
    BY <2>1, MergeCommitType
  <2> QED
    BY <2>2 DEF Commit, IInv, TypeOK
<1>4. trunk \subseteq head
  OBVIOUS
<1> HIDE DEF head
<1>5. landed' \in [Task -> SUBSET Commit]
  BY <1>1, <1>3 DEF IInv, TypeOK
<1>6. \A t \in Task : landed[t] \subseteq landed'[t] /\ (t \in done => landed'[t] # {})
  BY <1>1
<1>7. LandedInTrunk'
  BY <1>1, <1>4 DEF IInv, LandedInTrunk
<1>8. \A t \in Task : landed'[t] # {} => 1 \in DOMAIN tips[t]
  <2>1. \A t \in done : 1 \in DOMAIN tips[t]
    BY <1>2, LenProperties DEF IInv, TypeOK
  <2> QED
    BY <1>1, <2>1 DEF IInv, LandedIsStarted
<1>9. \A t \in Task : \A k \in DOMAIN tips[t], d \in Deps[t] :
        \E h \in landed'[d] : h \subseteq tips[t][k]
  BY <1>6, DepsAssumption DEF IInv, BranchRestsOnDeps, IsAncestor
<1> QED
  BY <1>1, <1>2, <1>3, <1>4, <1>5, <1>6, <1>7, <1>8, <1>9

LEMMA IntegrateDiesStep ==
  ASSUME IInv, NEW done \in SUBSET Task, IntegrateDies(done)
  PROVE  IInv'
<1>1. /\ Merge(done) /\ saved' = saved /\ events' = saved
      /\ UNCHANGED <<taskVars, tips, sandbox, runVars, handed>>
  BY DEF IntegrateDies, Forget
<1>2. TypeOK'
  BY <1>1, MergeFacts DEF IInv, TypeOK, taskVars, runVars
<1>3. MergedIsLanded' /\ ReadyIsFounded'
  BY <1>1, MergeFacts, DepsAssumption DEF IInv, MergedIsLanded, ReadyIsFounded, taskVars
<1>4. StartedHasBranch' /\ BranchInSequence' /\ SandboxHasBranch' /\ SandboxOnTaskBranch'
  BY <1>1 DEF IInv, StartedHasBranch, BranchInSequence, SandboxHasBranch, SandboxOnTaskBranch, taskVars
<1>5. LandedIsStarted' /\ LandedInTrunk'
  BY <1>1, MergeFacts DEF LandedIsStarted
<1>6. BranchRestsOnDeps'
  BY <1>1, MergeFacts DEF BranchRestsOnDeps, IsAncestor
<1> QED
  BY <1>2, <1>3, <1>4, <1>5, <1>6 DEF IInv

LEMMA IntegrateMergeStep ==
  ASSUME IInv, NEW done \in SUBSET Task, IntegrateMerge(done)
  PROVE  IInv'
<1> DEFINE st == [t \in Task |-> IF t \in done THEN "merged" ELSE state[t]]
<1>1. /\ Merge(done)
      /\ state' = Refreshed(st) \/ state' = st
      /\ status' \in {"integrating", "failed"}
      /\ verdict' = verdict \/ verdict' = Said("error", {})
      /\ saved' = events /\ events' = events
      /\ UNCHANGED <<attempts, branch, worktree, tips, sandbox, attributed, latest, handed>>
  BY Zenon DEF IntegrateMerge, Persist
<1>2. \A t \in Task : landed[t] \subseteq landed'[t] /\ (t \in done => landed'[t] # {})
  BY <1>1, MergeFacts
<1>3. st \in [Task -> TaskState]
  BY DEF IInv, TypeOK, TaskState
<1>4. /\ state' \in [Task -> TaskState]
      /\ \A t \in Task : \/ state'[t] = st[t]
                         \/ /\ st[t] = "pending" /\ state'[t] = "ready"
                            /\ \A d \in Deps[t] : st[d] = "merged"
  BY <1>1, <1>3, RefreshedFacts
<1>5. TypeOK'
  <2>1. Said("error", {}) \in Verdict /\ status' \in RunStatus
    BY <1>1 DEF Said, Verdict, RunStatus
  <2> QED
    BY <1>1, <1>4, <2>1, MergeFacts DEF IInv, TypeOK
<1>6. MergedIsLanded'
  <2> SUFFICES ASSUME NEW t \in Task, state'[t] = "merged" PROVE landed'[t] # {}
    BY DEF MergedIsLanded
  <2>1. t \in done \/ state[t] = "merged"
    BY <1>4
  <2> QED
    BY <1>2, <2>1 DEF IInv, MergedIsLanded
<1>7. ReadyIsFounded'
  <2> SUFFICES ASSUME NEW t \in Task, state'[t] = "ready", NEW d \in Deps[t]
               PROVE  landed'[d] # {}
    BY DEF ReadyIsFounded
  <2>1. CASE state[t] = "ready"
    BY <1>2, <2>1, DepsAssumption DEF IInv, ReadyIsFounded
  <2>2. CASE st[d] = "merged"
    BY <1>2, <2>2, DepsAssumption DEF IInv, MergedIsLanded
  <2> QED
    BY <1>4, <2>1, <2>2
<1>8. StartedHasBranch'
  <2>1. \A t \in done : branch[t] \in DOMAIN tips[t]
    BY <1>1, MergeFacts
  <2> QED
    BY <1>1, <1>4, <2>1 DEF IInv, StartedHasBranch
<1>9. BranchInSequence' /\ SandboxHasBranch' /\ SandboxOnTaskBranch'
  BY <1>1 DEF IInv, BranchInSequence, SandboxHasBranch, SandboxOnTaskBranch
<1>10. LandedIsStarted' /\ LandedInTrunk'
  BY <1>1, MergeFacts DEF LandedIsStarted
<1>11. BranchRestsOnDeps'
  BY <1>1, MergeFacts DEF BranchRestsOnDeps, IsAncestor
<1> QED
  BY <1>5, <1>6, <1>7, <1>8, <1>9, <1>10, <1>11 DEF IInv

-----------------------------------------------------------------------------
LEMMA NextInvariant == IInv /\ [Next]_vars => IInv'
<1> SUFFICES ASSUME IInv, [Next]_vars PROVE IInv'
  OBVIOUS
<1>1. ASSUME NEW wave \in SUBSET Task, Dispatch(wave) PROVE IInv'
  BY <1>1, DispatchStep
<1>2. ASSUME DispatchRefused \/ Reload \/ IntegrateConflict PROVE IInv'
  BY <1>2, DispatchRefusedStep, ReloadStep, IntegrateConflictStep
<1>3. ASSUME NEW t \in Task, NEW f \in Edited, WorkerEdits(t, f) PROVE IInv'
  BY <1>3, WorkerEditsStep
<1>4. ASSUME NEW t \in Task, WorkerCommits(t) \/ IngestDies(t) \/ RejectResult(t) PROVE IInv'
  BY <1>4, WorkerCommitsStep, IngestDiesStep, RejectResultStep
<1>5. ASSUME NEW t \in Task, NEW gatesPass \in BOOLEAN, Ingest(t, gatesPass) PROVE IInv'
  BY <1>5, IngestStep
<1>6. ASSUME NEW done \in SUBSET Task, IntegrateMerge(done) \/ IntegrateDies(done) PROVE IInv'
  BY <1>6, IntegrateMergeStep, IntegrateDiesStep
<1>7. ASSUME NEW failing \in SUBSET Gate, VerifyPass(failing) PROVE IInv'
  BY <1>7, VerifyPassStep
<1>8. ASSUME NEW failing \in SUBSET Gate, NEW budget \in {MaxAttempts, DefaultAttempts},
             VerifyFail(failing, budget) \/ RepairFailed(budget)
      PROVE  IInv'
  BY <1>8, VerifyFailStep, RepairFailedStep, BudgetAssumption
<1>9. ASSUME UNCHANGED vars PROVE IInv'
  <2>1. UNCHANGED <<state, attempts, branch, worktree, tips, sandbox, trunk, status, verdict,
                    attributed, latest, events, saved, landed, handed>>
    BY <1>9 DEF vars, taskVars, gitVars, runVars, eventVars, ledgerVars
  <2>2. TypeOK'
    BY <2>1 DEF IInv, TypeOK
  <2> QED
    BY <2>1, <2>2, GrowingStep
<1>10. ASSUME NEW budget \in {MaxAttempts, DefaultAttempts}, RepairFailed(budget) PROVE IInv'
  BY <1>10, RepairFailedStep, BudgetAssumption
<1> QED
  BY <1>1, <1>2, <1>3, <1>4, <1>5, <1>6, <1>7, <1>8, <1>9, <1>10 DEF Next

LEMMA SpecInvariant == Spec => []IInv
  BY InitInvariant, NextInvariant, PTL DEF Spec

(* The record and the repository keep their types; no task rests in SUBMITTED. *)
THEOREM TypeCorrect == Spec => []TypeOK
<1>1. IInv => TypeOK
  BY DEF IInv
<1> QED
  BY <1>1, SpecInvariant, PTL

(* The integration branch is always a valid partial system: work is on it only *)
(* with the work it depends on, for every task graph and gate set, whatever    *)
(* was reopened, re-ingested or refused by git, and wherever a command died.   *)
THEOREM PartialSystem == Spec => []ValidPartialSystem
<1>1. IInv => ValidPartialSystem
  BY DEF IInv, ValidPartialSystem, LandedIsStarted, BranchRestsOnDeps
<1> QED
  BY <1>1, SpecInvariant, PTL

(* Every branch ever created for a task contains its dependencies' first       *)
(* merges, so no worker builds and no gate runs on a tree without them.        *)
THEOREM BranchesRestOnDeps == Spec => []BranchRestsOnDeps
<1>1. IInv => BranchRestsOnDeps
  BY DEF IInv
<1> QED
  BY <1>1, SpecInvariant, PTL

(* The directory a task is judged in is checked out on the branch its record   *)
(* names.                                                                      *)
THEOREM SandboxesOnTaskBranch == Spec => []SandboxOnTaskBranch
<1>1. IInv => SandboxOnTaskBranch
  BY DEF IInv
<1> QED
  BY <1>1, SpecInvariant, PTL
-----------------------------------------------------------------------------
(* What a step can do to the state of one task.                                *)
LEMMA StateStep ==
  ASSUME IInv, Next, NEW t \in Task, state'[t] # state[t]
  PROVE  \/ state'[t] \in {"dispatched", "verified", "failed"}
         \/ state'[t] = "merged" /\ \E done \in SUBSET Task : IntegrateMerge(done)
         \/ /\ state'[t] \in {"pending", "ready"}
            /\ \/ state[t] = "pending"
               \/ \E budget \in {MaxAttempts, DefaultAttempts} : attempts[t] < budget
            /\ state'[t] = "ready" => \A d \in Deps[t] : state'[d] = "merged"
<1> DEFINE Goal ==
      \/ state'[t] \in {"dispatched", "verified", "failed"}
      \/ state'[t] = "merged" /\ \E done \in SUBSET Task : IntegrateMerge(done)
      \/ /\ state'[t] \in {"pending", "ready"}
         /\ \/ state[t] = "pending"
            \/ \E budget \in {MaxAttempts, DefaultAttempts} : attempts[t] < budget
         /\ state'[t] = "ready" => \A d \in Deps[t] : state'[d] = "merged"
<1>1. state \in [Task -> TaskState] /\ attempts \in [Task -> Nat]
  BY DEF IInv, TypeOK
<1>2. ASSUME NEW wave \in SUBSET Task, Dispatch(wave) PROVE Goal
  <2>1. \A s \in Task : \/ Refreshed(state)[s] = state[s]
                        \/ /\ state[s] = "pending" /\ Refreshed(state)[s] = "ready"
                           /\ \A d \in Deps[s] : state[d] = "merged"
    BY <1>1, RefreshedFacts
  <2>2. /\ state' = [s \in Task |-> IF s \in wave THEN "dispatched" ELSE Refreshed(state)[s]]
        /\ \A s \in wave : Refreshed(state)[s] = "ready"
    BY <1>2 DEF Dispatch
  <2>3. \A d \in Task : state[d] = "merged" => state'[d] = "merged"
    BY <2>1, <2>2
  <2> QED
    BY <2>1, <2>2, <2>3, DepsAssumption
<1>3. ASSUME NEW done \in SUBSET Task, IntegrateMerge(done) PROVE Goal
  <2> DEFINE st == [s \in Task |-> IF s \in done THEN "merged" ELSE state[s]]
  <2>1. st \in [Task -> TaskState]
    BY <1>1 DEF TaskState
  <2>2. state' = Refreshed(st) \/ state' = st
    BY <1>3, Zenon DEF IntegrateMerge
  <2>3. \A s \in Task : \/ state'[s] = st[s]
                        \/ /\ st[s] = "pending" /\ state'[s] = "ready"
                           /\ \A d \in Deps[s] : st[d] = "merged"
    BY <2>1, <2>2, RefreshedFacts
  <2>4. \A d \in Task : st[d] = "merged" => state'[d] = "merged"
    BY <2>3
  <2>5. \A s \in Task : st[s] = "merged" \/ st[s] = state[s]
    OBVIOUS
  <2> HIDE DEF st
  <2> QED
    BY <1>3, <2>3, <2>4, <2>5, DepsAssumption
<1>4. ASSUME NEW tasks, NEW budget \in {MaxAttempts, DefaultAttempts}, Reopen(tasks, budget)
      PROVE  Goal
  <2> DEFINE st == [s \in Task |-> IF s \in tasks THEN Reopened(s, budget) ELSE state[s]]
  <2>1. \A s \in Task : \/ st[s] = state[s]
                        \/ st[s] = "failed"
                        \/ st[s] = "pending" /\ attempts[s] < budget
    BY <1>1, BudgetAssumption DEF Reopened
  <2>2. st \in [Task -> TaskState]
    BY <1>1, <2>1 DEF TaskState
  <2>3. state' = Refreshed(st)
    BY <1>4 DEF Reopen
  <2> HIDE DEF st
  <2>4. \A s \in Task : \/ state'[s] = st[s]
                        \/ /\ st[s] = "pending" /\ state'[s] = "ready"
                           /\ \A d \in Deps[s] : st[d] = "merged"
    BY <2>2, <2>3, RefreshedFacts
  <2>5. \A d \in Task : st[d] = "merged" => state'[d] = "merged"
    BY <2>4
  <2> QED
    BY <2>1, <2>4, <2>5, DepsAssumption
<1>5. ASSUME NEW s \in Task, NEW gatesPass \in BOOLEAN, Ingest(s, gatesPass) PROVE Goal
  BY <1>1, <1>5 DEF Ingest, Judged
<1>6. ASSUME NEW s \in Task, RejectResult(s) PROVE Goal
  BY <1>1, <1>6 DEF RejectResult
<1>7. CASE UNCHANGED state
  BY <1>7
<1> HIDE DEF Goal
<1>8. ASSUME \/ DispatchRefused \/ Reload \/ IntegrateConflict
             \/ \E s \in Task, f \in Edited : WorkerEdits(s, f)
             \/ \E s \in Task : WorkerCommits(s) \/ IngestDies(s)
             \/ \E done \in SUBSET Task : IntegrateDies(done)
             \/ \E failing \in SUBSET Gate : VerifyPass(failing)
      PROVE  UNCHANGED state
  BY <1>8 DEF DispatchRefused, Reload, IntegrateConflict, WorkerEdits, WorkerCommits,
              IngestDies, IntegrateDies, VerifyPass, taskVars
<1>9. ASSUME NEW failing \in SUBSET Gate, NEW budget \in {MaxAttempts, DefaultAttempts},
             VerifyFail(failing, budget)
      PROVE  Goal
  BY <1>4, <1>9 DEF VerifyFail
<1>10. ASSUME NEW budget \in {MaxAttempts, DefaultAttempts}, RepairFailed(budget) PROVE Goal
  BY <1>4, <1>10 DEF RepairFailed
<1>11. Goal
  BY <1>2, <1>3, <1>5, <1>6, <1>7, <1>8, <1>9, <1>10 DEF Next
<1> QED
  BY <1>11 DEF Goal

(* A task becomes ready only with everything it depends on merged, also in the *)
(* step that reopens a dependency.                                             *)
THEOREM ReadyFollowsDeps == Spec => ReadyOnlyWhenDepsMerged
<1>1. ASSUME IInv, Next, NEW t \in Task, state[t] # "ready", state'[t] = "ready"
      PROVE  \A d \in Deps[t] : state'[d] = "merged"
  BY <1>1, StateStep
<1>2. IInv /\ [Next]_vars =>
        [\A t \in Task : state[t] # "ready" /\ state'[t] = "ready"
           => \A d \in Deps[t] : state'[d] = "merged"]_vars
  BY <1>1
<1> QED
  BY <1>2, SpecInvariant, PTL DEF Spec, ReadyOnlyWhenDepsMerged

(* No task comes back once it has spent the declared budget, as long as no     *)
(* command uses a larger one.                                                  *)
THEOREM AttemptsBounded ==
  ASSUME DefaultAttempts <= MaxAttempts
  PROVE  Spec => AttemptBudget
<1>1. ASSUME IInv, Next, NEW t \in Task, state[t] \notin {"pending", "ready"},
             state'[t] \in {"pending", "ready"}
      PROVE  attempts[t] < MaxAttempts
  <2>1. \E budget \in {MaxAttempts, DefaultAttempts} : attempts[t] < budget
    BY <1>1, StateStep
  <2> QED
    BY <1>1, <2>1, BudgetAssumption DEF IInv, TypeOK
<1>2. IInv /\ [Next]_vars =>
        [\A t \in Task :
           state[t] \notin {"pending", "ready"} /\ state'[t] \in {"pending", "ready"}
             => attempts[t] < MaxAttempts]_vars
  BY <1>1
<1> QED
  BY <1>2, SpecInvariant, PTL DEF Spec, AttemptBudget

(* What is merged together has no path in common, whatever was committed by    *)
(* whom and however old the branches are.                                      *)
THEOREM OverlapNeverMerged == Spec => NoOverlapMerged
<1>1. ASSUME IInv, Next, NEW s \in InState("verified"), NEW t \in InState("verified"), s # t,
             state'[s] = "merged", state'[t] = "merged"
      PROVE  OwnFiles(s) \cap OwnFiles(t) = {}
  <2>1. s \in Task /\ t \in Task /\ state'[s] # state[s] /\ s \in Mergeable /\ t \in Mergeable
    BY <1>1 DEF InState, Mergeable
  <2>2. PICK done \in SUBSET Task : IntegrateMerge(done)
    BY <1>1, <2>1, StateStep
  <2>3. OwnershipConflicts(Mergeable, Outstanding) = {}
    BY <2>2 DEF IntegrateMerge, Merge
  <2>4. Outstanding[s] \cap Outstanding[t] = {}
    <3>1. <<s, t>> \in Mergeable \X Mergeable /\ <<s, t>>[1] = s /\ <<s, t>>[2] = t
      BY <2>1
    <3>2. <<s, t>> \notin OwnershipConflicts(Mergeable, Outstanding)
      BY <2>3
    <3> QED
      BY <1>1, <3>1, <3>2, Zenon DEF OwnershipConflicts
  <2>5. \A u \in Mergeable : OwnFiles(u) \subseteq Outstanding[u]
    BY DEF OwnFiles, Outstanding, ChangedFiles
  <2> QED
    BY <2>1, <2>4, <2>5
<1>2. IInv /\ [Next]_vars =>
        [\A s, t \in InState("verified") :
           s # t /\ state'[s] = "merged" /\ state'[t] = "merged"
             => OwnFiles(s) \cap OwnFiles(t) = {}]_vars
  BY <1>1
<1> QED
  BY <1>2, SpecInvariant, PTL DEF Spec, NoOverlapMerged

-----------------------------------------------------------------------------
(* Scopes, when the fleet alone commits.                                       *)
Scoped(c) == \A x \in c : x.by # "merge" => x.files \subseteq {x.task}

BranchesScoped == \A t \in Task : \A k \in DOMAIN tips[t] : Scoped(tips[t][k])

ScopeInv == BranchesScoped /\ Scoped(trunk)

LEMMA CommitScoped ==
  ASSUME IInv, ScopeInv, NEW t \in Task, NEW n \in Nat, sandbox[t].on # 0,
         OutsideScope(t) = {}, CommitWork(t, n), UNCHANGED trunk
  PROVE  ScopeInv'
<1> DEFINE on == sandbox[t].on
           done == CommitAll(tips[t][on], t, sandbox[t].dirty, n, "fleet")
<1>1. tips \in [Task -> Seq(Commit)] /\ on \in DOMAIN tips[t]
  BY DEF IInv, TypeOK, SandboxHasBranch
<1>2. tips' = [tips EXCEPT ![t] = [tips[t] EXCEPT ![on] = done]]
  BY <1>1, Zenon DEF CommitWork
<1>3. sandbox[t].dirty \subseteq {t}
  BY DEF OutsideScope
<1>4. Scoped(done)
  <2>1. Scoped(tips[t][on])
    BY <1>1 DEF ScopeInv, BranchesScoped
  <2> QED
    BY <1>3, <2>1 DEF CommitAll, Scoped
<1> HIDE DEF done, on
<1>5. \A s \in Task : DOMAIN tips'[s] = DOMAIN tips[s] /\ \A k \in DOMAIN tips[s] :
        tips'[s][k] = tips[s][k] \/ tips'[s][k] = done
  BY <1>1, <1>2
<1> QED
  BY <1>4, <1>5, Zenon DEF ScopeInv, BranchesScoped

LEMMA MergeScoped ==
  ASSUME IInv, ScopeInv, NEW done \in SUBSET Task, Merge(done), UNCHANGED tips
  PROVE  ScopeInv'
<1>1. \A t \in done : branch[t] \in DOMAIN tips[t] /\ t \in Task
  BY MergeFacts
<1>2. trunk' = trunk \cup UNION {MergeCommit(t, Tip(t), trunk, attempts[t]) : t \in done}
  BY Zenon DEF Merge
<1>3. \A t \in done : Scoped(MergeCommit(t, Tip(t), trunk, attempts[t]))
  <2>1. \A t \in done : Scoped(Tip(t))
    BY <1>1 DEF ScopeInv, BranchesScoped, Tip
  <2> QED
    BY <2>1 DEF MergeCommit, Scoped
<1>4. Scoped(trunk')
  BY <1>2, <1>3, Zenon DEF ScopeInv, Scoped
<1> QED
  BY <1>4 DEF ScopeInv, BranchesScoped

LEMMA DispatchScoped ==
  ASSUME IInv, ScopeInv, NEW wave \in SUBSET Task, Dispatch(wave)
  PROVE  ScopeInv'
<1> DEFINE ready == {t \in Task : Refreshed(state)[t] = "ready"}
<1>1. /\ trunk' = trunk
      /\ tips' = [t \in Task |-> IF t \in ready
                    THEN WithBranch(tips[t], AttemptBranch(tips[t], branch[t], trunk), trunk)
                    ELSE tips[t]]
  BY DEF Dispatch, Packets
<1> HIDE DEF ready
<1>2. ASSUME NEW t \in Task, NEW k \in DOMAIN tips'[t]
      PROVE  Scoped(tips'[t][k])
  <2>1. /\ tips[t] \in Seq(Commit) /\ branch[t] \in Nat \ {0} /\ trunk \in Commit
        /\ branch[t] <= Len(tips[t]) + 1
    BY DEF IInv, TypeOK, BranchInSequence
  <2>2. \/ k \in DOMAIN tips[t] /\ tips'[t][k] = tips[t][k]
        \/ tips'[t][k] = trunk
    BY <1>1, <1>2, <2>1, AttemptBranchFacts
  <2> QED
    BY <2>2 DEF ScopeInv, BranchesScoped
<1> QED
  BY <1>1, <1>2 DEF ScopeInv, BranchesScoped

(* As long as workers leave committing to the fleet, nothing that is outside   *)
(* the scope of the task it was made for reaches the integration branch        *)
(* ("enforced twice", ARCHITECTURE.md).                                        *)
THEOREM ScopesHold ==
  ASSUME CommitStates = {}
  PROVE  Spec => []ScopeRespected
<1>1. Init => ScopeInv
  <2> SUFFICES ASSUME Init PROVE ScopeInv
    OBVIOUS
  <2>1. \A t \in Task : tips[t] = <<{}>> \/ tips[t] = << >>
    BY DEF Init
  <2>2. \A t \in Task : \A k \in DOMAIN tips[t] : tips[t][k] = {}
    BY <2>1
  <2> QED
    BY <2>2 DEF Init, ScopeInv, BranchesScoped, Scoped
<1>2. ASSUME IInv, ScopeInv, Next PROVE ScopeInv'
  <2>1. CASE UNCHANGED <<tips, trunk>>
    BY <1>2, <2>1 DEF ScopeInv, BranchesScoped
  <2>2. ASSUME NEW wave \in SUBSET Task, Dispatch(wave) PROVE ScopeInv'
    BY <1>2, <2>2, DispatchScoped
  <2>3. ASSUME NEW t \in Task, NEW gatesPass \in BOOLEAN, Ingest(t, gatesPass) PROVE ScopeInv'
    <3>1. CASE OutsideScope(t) = {}
      <4>1. CommitWork(t, attempts[t] + 1) /\ sandbox[t].on # 0 /\ trunk' = trunk
        BY <2>3, <3>1 DEF Ingest
      <4>2. attempts[t] + 1 \in Nat
        BY <1>2 DEF IInv, TypeOK
      <4> QED
        BY <1>2, <3>1, <4>1, <4>2, CommitScoped
    <3>2. CASE OutsideScope(t) # {}
      BY <2>1, <2>3, <3>2 DEF Ingest
    <3> QED
      BY <3>1, <3>2
  <2>4. ASSUME NEW t \in Task, IngestDies(t) PROVE ScopeInv'
    <3>1. /\ CommitWork(t, attempts[t] + 1) /\ sandbox[t].on # 0 /\ trunk' = trunk
          /\ OutsideScope(t) = {}
      BY <2>4 DEF IngestDies
    <3>2. attempts[t] + 1 \in Nat
      BY <1>2 DEF IInv, TypeOK
    <3> QED
      BY <1>2, <3>1, <3>2, CommitScoped
  <2>5. ASSUME NEW done \in SUBSET Task, IntegrateMerge(done) \/ IntegrateDies(done)
        PROVE  ScopeInv'
    <3>1. Merge(done) /\ tips' = tips
      BY <2>5 DEF IntegrateMerge, IntegrateDies
    <3> QED
      BY <1>2, <3>1, MergeScoped
  <2>6. ASSUME NEW t \in Task PROVE ~WorkerCommits(t)
    BY DEF WorkerCommits
  <2>7. CASE DispatchRefused \/ Reload \/ IntegrateConflict
    BY <2>1, <2>7 DEF DispatchRefused, Reload, IntegrateConflict, gitVars, taskVars
  <2>8. CASE \E t \in Task : RejectResult(t) \/ \E f \in Edited : WorkerEdits(t, f)
    BY <2>1, <2>8 DEF RejectResult, WorkerEdits, gitVars
  <2>9. CASE \/ \E failing \in SUBSET Gate : VerifyPass(failing)
             \/ \E failing \in SUBSET Gate, budget \in {MaxAttempts, DefaultAttempts} :
                  VerifyFail(failing, budget)
             \/ \E budget \in {MaxAttempts, DefaultAttempts} : RepairFailed(budget)
    BY <2>1, <2>9 DEF VerifyPass, VerifyFail, RepairFailed
  <2> QED
    BY <1>2, <2>2, <2>3, <2>4, <2>5, <2>6, <2>7, <2>8, <2>9 DEF Next
<1>3. ScopeInv /\ UNCHANGED vars => ScopeInv'
  BY DEF ScopeInv, BranchesScoped, vars, gitVars
<1>4. ScopeInv => ScopeRespected
  BY DEF ScopeInv, Scoped, ScopeRespected
<1> QED
  BY <1>1, <1>2, <1>3, <1>4, SpecInvariant, PTL DEF Spec

-----------------------------------------------------------------------------
(* Admission: the scheduler implements it, provided no worker commits to a     *)
(* branch that has already passed its gates.                                   *)

Passed == {t \in Task : state[t] = "verified"}
Offer == [t \in Task |-> IF state[t] = "verified" THEN WorkIn(Tip(t)) ELSE {}]
Admitted == {t \in Task : landed[t] # {}}
Product == WorkIn(trunk)

(* A step that lands nothing, and leaves what is verified as it was or takes   *)
(* it back, withdraws.                                                         *)
LEMMA WithdrawStep ==
  ASSUME trunk' = trunk, landed' = landed,
         \A t \in Task : state'[t] = "verified"
            => state[t] = "verified" /\ tips'[t] = tips[t] /\ branch'[t] = branch[t]
  PROVE  Promise!Next
<1> DEFINE gone == Passed \ Passed'
<1>1. gone \in SUBSET Passed
  OBVIOUS
<1>2. Passed' = Passed \ gone
  BY DEF Passed, InState
<1>3. Offer' = [t \in Task |-> IF t \in gone THEN {} ELSE Offer[t]]
  BY DEF Offer, Passed, InState, Tip, WorkIn
<1>4. Admitted' = Admitted /\ Product' = Product
  BY DEF Admitted, Product, WorkIn
<1>5. ASSUME NEW tasks \in SUBSET Passed, tasks = gone PROVE Promise!Next
  <2>1. Promise!Withdraw(tasks)
    BY <1>2, <1>3, <1>4, <1>5
       DEF Promise!Withdraw, Promise!Cleared, Passed, Offer, Admitted, Product
  <2> QED
    BY <2>1 DEF Promise!Next, Passed
<1> QED
  BY <1>1, <1>5

(* A branch holds the work it was opened on, so a task with a branch has all   *)
(* its dependencies admitted.                                                  *)
LEMMA FoundedBranch ==
  ASSUME IInv, NEW t \in Task, NEW k \in DOMAIN tips[t]
  PROVE  Deps[t] \subseteq Admitted
  BY DepsAssumption DEF IInv, BranchRestsOnDeps, Admitted

LEMMA AdmissionIngest ==
  ASSUME IInv, IInv', NEW t \in Task, NEW gatesPass \in BOOLEAN, Ingest(t, gatesPass)
  PROVE  Promise!Next
<1>1. /\ sandbox[t].on # 0
      /\ UNCHANGED <<branch, trunk, landed>>
      /\ \E s \in {"verified", "failed"} : state' = [state EXCEPT ![t] = s]
  BY DEF Ingest, Judged, ledgerVars
<1>2. \A s \in Task \ {t} : tips'[s] = tips[s] /\ state'[s] = state[s]
  BY DEF IInv, TypeOK, Ingest, CommitWork
<1>3. CASE state'[t] # "verified"
  BY <1>1, <1>2, <1>3, WithdrawStep
<1>4. CASE state'[t] = "verified"
  <2>1. Deps[t] \subseteq Admitted
    BY <1>1, FoundedBranch DEF IInv, SandboxHasBranch
  <2>2. Passed' = Passed \cup {t}
    BY <1>2, <1>4 DEF Passed, InState
  <2>3. Offer' \in [Task -> SUBSET Change]
    <3>1. \A s \in Task : state'[s] = "verified" => Tip(s)' \in Commit
      BY LenProperties, ElementOfSeq DEF IInv, TypeOK, StartedHasBranch, Tip
    <3> QED
      BY <3>1 DEF Offer, WorkIn, Commit
  <2>4. \A s \in Task \ {t} : Offer'[s] = Offer[s]
    BY <1>1, <1>2 DEF Offer, Tip, WorkIn
  <2>5. Admitted' = Admitted /\ Product' = Product
    BY <1>1 DEF Admitted, Product, WorkIn
  <2>6. Promise!Pass(t)
    BY <2>1, <2>2, <2>3, <2>4, <2>5
       DEF Promise!Pass, Passed, Offer, Admitted, Product
  <2> QED
    BY <2>6 DEF Promise!Next
<1> QED
  BY <1>3, <1>4

(* What merging shows to Admission, whether or not the record learns of it.    *)
LEMMA MergeAdmits ==
  ASSUME IInv, NEW done \in SUBSET Task, Merge(done)
  PROVE  /\ done \subseteq Passed
         /\ \A t \in done : Deps[t] \subseteq Admitted
         /\ Product' = Product \cup UNION {Offer[t] : t \in done}
         /\ Admitted' = Admitted \cup done
<1> DEFINE head == trunk \cup UNION {MergeCommit(t, Tip(t), trunk, attempts[t]) : t \in done}
<1>1. /\ done \subseteq Passed
      /\ trunk' = head
      /\ landed' = [t \in Task |-> IF t \in done /\ landed[t] = {} THEN {head} ELSE landed[t]]
  BY Zenon DEF Merge, Mergeable, Passed, InState
<1>2. \A t \in done : Deps[t] \subseteq Admitted
  BY <1>1, FoundedBranch DEF Passed, InState, IInv, StartedHasBranch
<1>3. Product' = Product \cup UNION {Offer[t] : t \in done}
  <2>1. \A t \in done : Offer[t] = WorkIn(Tip(t))
    BY <1>1 DEF Offer, Passed, InState
  <2>2. \A t \in done : /\ WorkIn(MergeCommit(t, Tip(t), trunk, attempts[t])) \subseteq WorkIn(Tip(t))
                        /\ WorkIn(Tip(t)) \subseteq WorkIn(trunk)
                             \cup WorkIn(MergeCommit(t, Tip(t), trunk, attempts[t]))
    BY DEF WorkIn, MergeCommit, IsAncestor
  <2>3. WorkIn(head) = WorkIn(trunk)
          \cup UNION {WorkIn(MergeCommit(t, Tip(t), trunk, attempts[t])) : t \in done}
    BY DEF WorkIn
  <2>4. WorkIn(head) = WorkIn(trunk) \cup UNION {WorkIn(Tip(t)) : t \in done}
    BY <2>2, <2>3
  <2>5. Product' = WorkIn(head)
    BY <1>1 DEF Product, WorkIn
  <2> QED
    BY <2>1, <2>4, <2>5 DEF Product
<1>4. Admitted' = Admitted \cup done
  BY <1>1 DEF Admitted
<1> QED
  BY <1>1, <1>2, <1>3, <1>4

(* Merging admits, once it is known what the record has noted.                 *)
LEMMA AdmitStep ==
  ASSUME IInv, NEW done \in SUBSET Task, Merge(done), NEW noted \in {{}, done},
         Passed' = Passed \ noted,
         Offer' = [t \in Task |-> IF t \in noted THEN {} ELSE Offer[t]]
  PROVE  Promise!Next
<1>1. Promise!Admit(done, noted)
  BY MergeAdmits DEF Promise!Admit, Promise!Cleared, Passed, Offer, Admitted, Product
<1>2. done \in SUBSET Passed
  BY MergeAdmits
<1> QED
  BY <1>1, <1>2 DEF Promise!Next, Passed

LEMMA AdmissionMerge ==
  ASSUME IInv, NEW done \in SUBSET Task, IntegrateMerge(done)
  PROVE  Promise!Next
<1> DEFINE st == [t \in Task |-> IF t \in done THEN "merged" ELSE state[t]]
<1>1. /\ Merge(done)
      /\ state' = Refreshed(st) \/ state' = st
      /\ UNCHANGED <<branch, tips>>
  BY Zenon DEF IntegrateMerge
<1>2. \A t \in Task : \/ state'[t] = st[t]
                      \/ st[t] = "pending" /\ state'[t] = "ready"
  <2>1. st \in [Task -> TaskState]
    BY DEF IInv, TypeOK, TaskState
  <2> QED
    BY <1>1, <2>1, RefreshedFacts
<1>3. Passed' = Passed \ done
  BY <1>2 DEF Passed
<1>4. Offer' = [t \in Task |-> IF t \in done THEN {} ELSE Offer[t]]
  BY <1>1, <1>2 DEF Offer, Tip, WorkIn
<1> QED
  BY <1>1, <1>3, <1>4, AdmitStep

LEMMA AdmissionDies ==
  ASSUME IInv, NEW done \in SUBSET Task, IntegrateDies(done)
  PROVE  Promise!Next
<1>1. Merge(done) /\ UNCHANGED <<state, branch, tips>>
  BY DEF IntegrateDies, taskVars
<1>2. Passed' = Passed \ {} /\ Offer' = [t \in Task |-> IF t \in {} THEN {} ELSE Offer[t]]
  BY <1>1 DEF Passed, Offer, Tip, WorkIn
<1> QED
  BY <1>1, <1>2, AdmitStep

-----------------------------------------------------------------------------
(* Nothing is left uncommitted in the sandbox of a verified task, so an ingest *)
(* of it that dies changes nothing that was accepted.                          *)
VerifiedIsClean == \A t \in Task : state[t] = "verified" => sandbox[t].dirty = {}

LEMMA CleanStep ==
  ASSUME "verified" \notin CommitStates, IInv, VerifiedIsClean, [Next]_vars
  PROVE  VerifiedIsClean'
<1>1. ASSUME NEW wave \in SUBSET Task, Dispatch(wave) PROVE VerifiedIsClean'
  <2>1. \A t \in Task : state'[t] = "verified" =>
          state[t] = "verified" /\ Refreshed(state)[t] # "ready"
    BY <1>1, RefreshedFacts DEF Dispatch, IInv, TypeOK
  <2>2. \A t \in Task : Refreshed(state)[t] # "ready" => sandbox'[t] = sandbox[t]
    BY <1>1 DEF Dispatch, Packets
  <2> QED
    BY <2>1, <2>2 DEF VerifiedIsClean
<1>2. ASSUME DispatchRefused \/ Reload \/ IntegrateConflict \/ UNCHANGED vars PROVE VerifiedIsClean'
  BY <1>2 DEF VerifiedIsClean, DispatchRefused, Reload, IntegrateConflict, vars, taskVars, gitVars
<1>3. ASSUME NEW t \in Task, NEW f \in Edited, WorkerEdits(t, f) PROVE VerifiedIsClean'
  <2>1. state' = state /\ state[t] # "verified" /\ \A s \in Task \ {t} : sandbox'[s] = sandbox[s]
    BY <1>3 DEF WorkerEdits, taskVars
  <2> QED
    BY <2>1 DEF VerifiedIsClean
<1>4. ASSUME NEW t \in Task, WorkerCommits(t) \/ IngestDies(t) \/ RejectResult(t)
      PROVE  VerifiedIsClean'
  <2>1. \A s \in Task : state'[s] = "verified" => state[s] = "verified"
    BY <1>4 DEF WorkerCommits, IngestDies, RejectResult, taskVars, IInv, TypeOK
  <2>2. \A s \in Task : sandbox'[s] = sandbox[s] \/ sandbox'[s].dirty = {}
    BY <1>4 DEF WorkerCommits, IngestDies, CommitWork, RejectResult, gitVars, IInv, TypeOK, Sandbox
  <2> QED
    BY <2>1, <2>2 DEF VerifiedIsClean
<1>5. ASSUME NEW t \in Task, NEW gatesPass \in BOOLEAN, Ingest(t, gatesPass) PROVE VerifiedIsClean'
  <2>1. \A s \in Task \ {t} : state'[s] = state[s] /\ sandbox'[s] = sandbox[s]
    BY <1>5 DEF Ingest, CommitWork, IInv, TypeOK
  <2>2. state'[t] = "verified" => sandbox'[t].dirty = {}
    BY <1>5 DEF Ingest, CommitWork, IInv, TypeOK, Sandbox
  <2> QED
    BY <2>1, <2>2 DEF VerifiedIsClean
<1>6. ASSUME NEW done \in SUBSET Task, IntegrateMerge(done) \/ IntegrateDies(done)
      PROVE  VerifiedIsClean'
  <2> DEFINE st == [t \in Task |-> IF t \in done THEN "merged" ELSE state[t]]
  <2>1. st \in [Task -> TaskState]
    BY DEF IInv, TypeOK, TaskState
  <2>2. sandbox' = sandbox /\ (state' = state \/ state' = st \/ state' = Refreshed(st))
    BY <1>6, Zenon DEF IntegrateMerge, IntegrateDies, taskVars
  <2>3. \A t \in Task : state'[t] = "verified" => state[t] = "verified"
    BY <2>1, <2>2, RefreshedFacts
  <2> QED
    BY <2>2, <2>3 DEF VerifiedIsClean
<1>7. ASSUME NEW failing \in SUBSET Gate, VerifyPass(failing) PROVE VerifiedIsClean'
  BY <1>7 DEF VerifyPass, taskVars, VerifiedIsClean, NoSandbox
<1>8. ASSUME NEW failing \in SUBSET Gate, NEW budget \in {MaxAttempts, DefaultAttempts},
             VerifyFail(failing, budget) \/ RepairFailed(budget)
      PROVE  VerifiedIsClean'
  <2>1. PICK tasks : Reopen(tasks, budget)
    BY <1>8 DEF VerifyFail, RepairFailed
  <2>2. \A t \in Task : state'[t] = "verified" => state[t] = "verified"
    BY <2>1, ReopenFacts, BudgetAssumption
  <2>3. \A t \in Task : sandbox'[t] = sandbox[t] \/ sandbox'[t].dirty = {}
    BY <2>1 DEF Reopen, Retire, NoSandbox
  <2> QED
    BY <2>2, <2>3 DEF VerifiedIsClean
<1>9. ASSUME NEW budget \in {MaxAttempts, DefaultAttempts}, RepairFailed(budget)
      PROVE  VerifiedIsClean'
  BY <1>8, <1>9
<1> QED
  BY <1>1, <1>2, <1>3, <1>4, <1>5, <1>6, <1>7, <1>8, <1>9 DEF Next

LEMMA AdmissionInit == Init => Promise!Init
<1> SUFFICES ASSUME Init PROVE Promise!Init
  OBVIOUS
<1>1. \A t \in Task : state[t] # "verified" /\ landed[t] = {}
  BY DEF Init
<1> QED
  BY <1>1 DEF Init, Promise!Init, InState, WorkIn

LEMMA CleanInit == Init => VerifiedIsClean
  BY DEF Init, VerifiedIsClean

(* Every step is a step of Admission or leaves what it sees alone.             *)
LEMMA AdmissionNext ==
  ASSUME "verified" \notin CommitStates, IInv, IInv', VerifiedIsClean, [Next]_vars
  PROVE  Promise!Next
<1>1. ASSUME NEW wave \in SUBSET Task, Dispatch(wave) PROVE Promise!Next
  <2> DEFINE ready == {t \in Task : Refreshed(state)[t] = "ready"}
  <2>1. \A t \in Task : t \notin ready => tips'[t] = tips[t] /\ branch'[t] = branch[t]
    BY <1>1 DEF Dispatch, Packets
  <2>2. \A t \in Task : state'[t] = "verified" => Refreshed(state)[t] = "verified"
    BY <1>1 DEF Dispatch
  <2>3. \A t \in Task : Refreshed(state)[t] = "verified" => state[t] = "verified"
    BY RefreshedFacts DEF IInv, TypeOK
  <2>4. trunk' = trunk /\ landed' = landed
    BY <1>1 DEF Dispatch
  <2> QED
    BY <2>1, <2>2, <2>3, <2>4, WithdrawStep
<1>2. ASSUME DispatchRefused \/ Reload \/ IntegrateConflict PROVE Promise!Next
  BY <1>2, WithdrawStep
     DEF DispatchRefused, Reload, IntegrateConflict, taskVars, gitVars, ledgerVars
<1>3. ASSUME NEW t \in Task, NEW f \in Edited, WorkerEdits(t, f) PROVE Promise!Next
  BY <1>3, WithdrawStep DEF WorkerEdits, taskVars, ledgerVars
<1>4. ASSUME NEW t \in Task, WorkerCommits(t) PROVE Promise!Next
  <2>1. /\ UNCHANGED <<state, branch, trunk, landed>>
        /\ state[t] # "verified" /\ \A s \in Task \ {t} : tips'[s] = tips[s]
    BY <1>4 DEF WorkerCommits, taskVars, ledgerVars, IInv, TypeOK
  <2> QED
    BY <2>1, WithdrawStep
<1>5. ASSUME NEW t \in Task, RejectResult(t) PROVE Promise!Next
  <2>1. UNCHANGED <<branch, tips, trunk, landed>> /\ state' = [state EXCEPT ![t] = "failed"]
    BY <1>5 DEF RejectResult, gitVars, ledgerVars
  <2> QED
    BY <2>1, WithdrawStep DEF IInv, TypeOK
<1>6. ASSUME NEW t \in Task, NEW gatesPass \in BOOLEAN, Ingest(t, gatesPass) PROVE Promise!Next
  BY <1>6, AdmissionIngest
<1>7. ASSUME NEW done \in SUBSET Task, IntegrateMerge(done) \/ IntegrateDies(done)
      PROVE  Promise!Next
  BY <1>7, AdmissionMerge, AdmissionDies
<1>8. ASSUME NEW failing \in SUBSET Gate, VerifyPass(failing) PROVE Promise!Next
  BY <1>8, WithdrawStep DEF VerifyPass, taskVars
<1>9. ASSUME NEW failing \in SUBSET Gate, NEW budget \in {MaxAttempts, DefaultAttempts},
             VerifyFail(failing, budget)
      PROVE  Promise!Next
  <2>1. \A t \in Task : state'[t] = "verified" => state[t] = "verified"
    BY <1>9, ReopenFacts, BudgetAssumption DEF VerifyFail
  <2> QED
    BY <1>9, <2>1, WithdrawStep DEF VerifyFail
<1>10. ASSUME NEW budget \in {MaxAttempts, DefaultAttempts}, RepairFailed(budget)
       PROVE  Promise!Next
  <2>1. \A t \in Task : state'[t] = "verified" => state[t] = "verified"
    BY <1>10, ReopenFacts, BudgetAssumption DEF RepairFailed
  <2> QED
    BY <1>10, <2>1, WithdrawStep DEF RepairFailed
<1>11. ASSUME UNCHANGED vars PROVE Promise!Next
  BY <1>11, WithdrawStep DEF vars, taskVars, gitVars, ledgerVars
<1>12. ASSUME NEW t \in Task, IngestDies(t) PROVE Promise!Next
  <2>1. UNCHANGED <<state, branch, trunk, landed>> /\ CommitWork(t, attempts[t] + 1)
    BY <1>12 DEF IngestDies, taskVars, ledgerVars
  <2>2. \A s \in Task \ {t} : tips'[s] = tips[s]
    BY <2>1 DEF CommitWork, IInv, TypeOK
  <2>3. state[t] = "verified" => tips'[t] = tips[t]
    BY <2>1 DEF CommitWork, CommitAll, VerifiedIsClean, IInv, TypeOK
  <2> QED
    BY <2>1, <2>2, <2>3, WithdrawStep
<1> QED
  BY <1>1, <1>2, <1>3, <1>4, <1>5, <1>6, <1>7, <1>8, <1>9, <1>10, <1>11, <1>12 DEF Next

(* What is merged is what the task's own gates accepted, merged after what it  *)
(* was built on, also by a command that dies on the way: the scheduler's runs  *)
(* are runs of Admission.                                                      *)
THEOREM SchedulerImplementsAdmission ==
  ASSUME "verified" \notin CommitStates
  PROVE  Spec => AdmissionSpec
<1>1. Init => Promise!Init
  BY AdmissionInit
<1>2. IInv /\ IInv' /\ VerifiedIsClean /\ [Next]_vars => [Promise!Next]_Promise!vars
  BY AdmissionNext
<1>3. Init => VerifiedIsClean
  BY CleanInit
<1>4. IInv /\ VerifiedIsClean /\ [Next]_vars => VerifiedIsClean'
  BY CleanStep
<1> QED
  BY <1>1, <1>2, <1>3, <1>4, SpecInvariant, PTL DEF Spec, AdmissionSpec, Promise!Spec

-----------------------------------------------------------------------------
(* Autopilot.                                                                  *)

QueueInTask == pc \in Stage /\ queue \subseteq Task

(* Every step of the loop is a step of the scheduler or leaves it alone.       *)
LEMMA LoopStep == QueueInTask /\ AutoNext => [Next]_vars
<1> SUFFICES ASSUME QueueInTask, AutoNext PROVE Next \/ UNCHANGED vars
  OBVIOUS
<1>1. CASE WallSpent \/ WorkersReturn \/ WorkerRaises
  BY <1>1 DEF WallSpent, WorkersReturn, WorkerRaises
<1>2. CASE DispatchWave
  <2>1. Dispatch({t \in Task : Refreshed(state)[t] = "ready"})
    BY <1>2 DEF DispatchWave
  <2> QED
    BY <2>1 DEF Next
<1>3. CASE DispatchSpent
  BY <1>3 DEF DispatchSpent, Next
<1>4. CASE \E t \in Task, f \in Edited : Work(t, f)
  BY <1>4 DEF Work, Next
<1>5. CASE \E t \in Task : WorkCommit(t)
  BY <1>5 DEF WorkCommit, Next
<1>6. CASE Settle
  <2>1. PICK t \in queue : (\E gatesPass \in BOOLEAN : Ingest(t, gatesPass)) \/ RejectResult(t)
    BY <1>6 DEF Settle
  <2>2. t \in Task
    BY DEF QueueInTask
  <2> QED
    BY <2>1, <2>2 DEF Next
<1>7. CASE IntegrateOk \/ IntegrateFails
  <2>1. Mergeable \in SUBSET Task
    BY DEF Mergeable, InState
  <2> QED
    BY <1>7, <2>1 DEF IntegrateOk, IntegrateFails, Next
<1>8. CASE Verify
  BY <1>8 DEF Verify, Next
<1>9. CASE Repair
  BY <1>9 DEF Repair, Next
<1> QED
  BY <1>1, <1>2, <1>3, <1>4, <1>5, <1>6, <1>7, <1>8, <1>9 DEF AutoNext

-----------------------------------------------------------------------------
(* The invariant of the loop: what is in flight at each of its stages, where   *)
(* sandboxes exist, and how many attempts are left.                            *)
InFlight ==
  /\ pc \in {"work", "settle"} => queue = InState("dispatched")
  /\ pc \in {"dispatch", "integrate", "verify", "repair"}
       => queue = {} /\ InState("dispatched") = {}
  /\ pc \in {"dispatch", "work", "verify", "repair"} => InState("verified") = {}

SandboxesOpen ==
  pc \in {"dispatch", "work", "settle", "integrate"}
    => \A t \in InState("dispatched") \cup InState("verified") : sandbox[t].on # 0

AttemptsLeft ==
  \A t \in Task : state[t] \in {"pending", "ready", "dispatched"} => attempts[t] < MaxAttempts

LoopInv == QueueInTask /\ InFlight /\ SandboxesOpen /\ AttemptsLeft /\ AttemptsWithinBudget

LEMMA LoopInit == AutoInit => LoopInv
<1> SUFFICES ASSUME AutoInit PROVE LoopInv
  OBVIOUS
<1>1. \A t \in Task : state[t] \in {"pending", "ready"} /\ attempts[t] = 0
  BY DEF AutoInit, Init
<1> QED
  BY <1>1, LoopAssumption, BudgetAssumption
     DEF AutoInit, LoopInv, QueueInTask, Stage, InFlight, SandboxesOpen, AttemptsLeft,
         AttemptsWithinBudget, InState

LEMMA LoopDispatch ==
  ASSUME IInv, IInv', LoopInv, DispatchWave
  PROVE  LoopInv'
<1> DEFINE wave == {t \in Task : Refreshed(state)[t] = "ready"}
<1>1. /\ pc = "dispatch" /\ queue' = wave /\ attempts' = attempts
      /\ pc' = IF wave = {} THEN "integrate" ELSE "work"
      /\ state' = [t \in Task |-> IF t \in wave THEN "dispatched" ELSE Refreshed(state)[t]]
      /\ \A t \in wave : sandbox'[t] = AddWorktree(sandbox[t], branch'[t])
  BY DEF DispatchWave, Dispatch, Packets
<1>2. \A t \in Task : \/ Refreshed(state)[t] = state[t]
                      \/ state[t] = "pending" /\ Refreshed(state)[t] = "ready"
  BY RefreshedFacts DEF IInv, TypeOK
<1>3. \A t \in Task : state[t] \notin {"dispatched", "verified"}
  BY <1>1 DEF LoopInv, InFlight, InState
<1>4. wave = InState("dispatched")' /\ InState("verified")' = {}
  BY <1>1, <1>2, <1>3 DEF InState
<1>5. \A t \in wave : sandbox'[t].on # 0
  BY <1>1 DEF AddWorktree, IInv, TypeOK
<1>6. AttemptsLeft' /\ AttemptsWithinBudget'
  BY <1>1, <1>2, <1>3 DEF LoopInv, AttemptsLeft, AttemptsWithinBudget
<1> QED
  BY <1>1, <1>4, <1>5, <1>6 DEF LoopInv, QueueInTask, Stage, InFlight, SandboxesOpen

LEMMA LoopWork ==
  ASSUME IInv, LoopInv, NEW t \in Task, WorkCommit(t) \/ \E f \in Edited : Work(t, f)
  PROVE  LoopInv'
<1>1. /\ UNCHANGED <<pc, queue, state, attempts>>
      /\ \A s \in Task : sandbox'[s].on = sandbox[s].on
  <2>1. UNCHANGED <<pc, queue, state, attempts>>
    BY DEF Work, WorkCommit, WorkerEdits, WorkerCommits, loopVars, taskVars
  <2>2. sandbox \in [Task -> Sandbox]
    BY DEF IInv, TypeOK
  <2>3. PICK left : sandbox' = [sandbox EXCEPT ![t].dirty = left]
    <3>1. CASE WorkCommit(t)
      BY <3>1 DEF WorkCommit, WorkerCommits
    <3>2. ASSUME NEW f \in Edited, Work(t, f)
          PROVE  sandbox' = [sandbox EXCEPT ![t].dirty = sandbox[t].dirty \cup {f}]
      BY <3>2 DEF Work, WorkerEdits
    <3> QED
      BY <3>1, <3>2
  <2> QED
    BY <2>1, <2>2, <2>3 DEF Sandbox
<1> QED
  BY <1>1 DEF LoopInv, QueueInTask, InFlight, SandboxesOpen, AttemptsLeft,
              AttemptsWithinBudget, InState

LEMMA LoopSettle ==
  ASSUME IInv, IInv', LoopInv, Settle
  PROVE  LoopInv'
<1>1. PICK t \in queue : /\ (\E gatesPass \in BOOLEAN : Ingest(t, gatesPass)) \/ RejectResult(t)
                         /\ queue' = queue \ {t}
  BY DEF Settle, Handled
<1>2. /\ pc = "settle" /\ pc' = IF queue' = {} THEN "integrate" ELSE "settle"
      /\ queue = InState("dispatched") /\ t \in Task /\ state[t] = "dispatched"
  BY <1>1 DEF Settle, LoopInv, QueueInTask, InFlight, InState
<1>3. /\ \A s \in Task \ {t} : state'[s] = state[s] /\ attempts'[s] = attempts[s]
                               /\ sandbox'[s].on = sandbox[s].on
      /\ state'[t] \in {"verified", "failed"} /\ attempts'[t] \in {attempts[t], attempts[t] + 1}
      /\ sandbox'[t].on = sandbox[t].on
  <2>1. CASE RejectResult(t)
    BY <1>2, <2>1 DEF RejectResult, gitVars, IInv, TypeOK
  <2>2. CASE \E gatesPass \in BOOLEAN : Ingest(t, gatesPass)
    BY <1>2, <2>2 DEF Ingest, CommitWork, Judged, IInv, TypeOK, Sandbox
  <2> QED
    BY <1>1, <2>1, <2>2
<1>4. queue' = InState("dispatched")'
  BY <1>1, <1>2, <1>3 DEF InState
<1>5. SandboxesOpen'
  BY <1>2, <1>3 DEF LoopInv, SandboxesOpen, InState
<1>6. AttemptsLeft'
  BY <1>3 DEF LoopInv, AttemptsLeft
<1>7. AttemptsWithinBudget'
  <2>1. attempts[t] \in Nat /\ attempts[t] < MaxAttempts
    BY <1>2 DEF LoopInv, AttemptsLeft, IInv, TypeOK
  <2>2. attempts'[t] <= MaxAttempts
    BY <1>3, <2>1, BudgetAssumption
  <2> QED
    BY <1>3, <2>2 DEF LoopInv, AttemptsWithinBudget
<1> QED
  BY <1>1, <1>2, <1>4, <1>5, <1>6, <1>7 DEF LoopInv, QueueInTask, Stage, InFlight

LEMMA LoopIntegrate ==
  ASSUME IInv, IInv', LoopInv, IntegrateOk \/ IntegrateFails
  PROVE  LoopInv'
<1>1. CASE IntegrateConflict /\ IntegrateFails
  BY <1>1 DEF IntegrateFails, IntegrateConflict, taskVars, LoopInv, QueueInTask, Stage,
              InFlight, SandboxesOpen, AttemptsLeft, AttemptsWithinBudget
<1>2. ASSUME NEW done \in SUBSET Mergeable, IntegrateMerge(done),
             \/ done = Mergeable /\ IntegrateOk
             \/ IntegrateFails /\ pc' = "stopped"
      PROVE  LoopInv'
  <2> DEFINE st == [t \in Task |-> IF t \in done THEN "merged" ELSE state[t]]
  <2>1. attempts' = attempts /\ (state' = Refreshed(st) \/ state' = st)
    BY <1>2 DEF IntegrateMerge
  <2>2. \A t \in Task : st[t] = "merged" \/ (st[t] = state[t] /\ t \notin done)
    OBVIOUS
  <2>3. \A t \in Task : state'[t] = st[t] \/ (st[t] = "pending" /\ state'[t] = "ready")
    <3>1. st \in [Task -> TaskState]
      BY DEF IInv, TypeOK, TaskState
    <3> QED
      BY <2>1, <3>1, RefreshedFacts
  <2> HIDE DEF st
  <2>4. AttemptsLeft' /\ AttemptsWithinBudget'
    BY <2>1, <2>2, <2>3 DEF LoopInv, AttemptsLeft, AttemptsWithinBudget
  <2>5. CASE done = Mergeable /\ IntegrateOk
    <3>1. pc = "integrate" /\ pc' = "verify" /\ queue' = queue
      BY <2>5 DEF IntegrateOk
    <3>2. \A t \in Task : state'[t] \notin {"dispatched", "verified"}
      BY <2>2, <2>3, <2>5, <3>1 DEF LoopInv, InFlight, Mergeable, InState
    <3> QED
      BY <2>4, <3>1, <3>2
         DEF LoopInv, QueueInTask, Stage, InFlight, SandboxesOpen, InState
  <2>6. CASE IntegrateFails /\ pc' = "stopped"
    BY <2>4, <2>6 DEF IntegrateFails, LoopInv, QueueInTask, Stage, InFlight, SandboxesOpen
  <2> QED
    BY <1>2, <2>5, <2>6
<1>3. CASE IntegrateOk
  BY <1>2, <1>3 DEF IntegrateOk
<1>4. CASE IntegrateFails
  BY <1>1, <1>2, <1>4 DEF IntegrateFails
<1> QED
  BY <1>3, <1>4

(* Reopening with the loop's own budget leaves an attempt to every task that   *)
(* is dispatchable again.                                                      *)
LEMMA LoopReopen ==
  ASSUME IInv, LoopInv, NEW tasks, Reopen(tasks, MaxAttempts), attempts' = attempts
  PROVE  AttemptsLeft' /\ AttemptsWithinBudget'
<1> DEFINE st == [t \in Task |-> IF t \in tasks THEN Reopened(t, MaxAttempts) ELSE state[t]]
<1>1. /\ st \in [Task -> TaskState]
      /\ \A t \in Task : \/ st[t] = state[t] \/ st[t] = "failed"
                         \/ st[t] = "pending" /\ attempts[t] < MaxAttempts
  BY BudgetAssumption DEF IInv, TypeOK, TaskState, Reopened
<1>2. state' = Refreshed(st)
  BY DEF Reopen
<1> HIDE DEF st
<1>3. \A t \in Task : state'[t] = st[t] \/ (st[t] = "pending" /\ state'[t] = "ready")
  BY <1>1, <1>2, RefreshedFacts
<1> QED
  BY <1>1, <1>3 DEF LoopInv, AttemptsLeft, AttemptsWithinBudget

LEMMA LoopVerify ==
  ASSUME IInv, LoopInv, Verify \/ Repair
  PROVE  LoopInv'
<1>1. ASSUME NEW failing \in SUBSET Gate, VerifyPass(failing), Verify, pc' = "stopped"
      PROVE  LoopInv'
  BY <1>1 DEF Verify, VerifyPass, taskVars, LoopInv, QueueInTask, Stage, InFlight,
              SandboxesOpen, AttemptsLeft, AttemptsWithinBudget
<1>2. ASSUME NEW tasks, Reopen(tasks, MaxAttempts), attempts' = attempts, queue' = queue,
             pc \in {"verify", "repair"}, pc' \in {"repair", "stopped", "dispatch"}
      PROVE  LoopInv'
  <2>1. AttemptsLeft' /\ AttemptsWithinBudget'
    BY <1>2, LoopReopen
  <2>2. \A t \in Task : state'[t] \notin {"dispatched", "verified"}
    BY <1>2, ReopenFacts, BudgetAssumption DEF LoopInv, InFlight, InState
  <2> QED
    BY <1>2, <2>1, <2>2 DEF LoopInv, QueueInTask, Stage, InFlight, SandboxesOpen, InState
<1>3. ASSUME NEW failing \in SUBSET Gate, VerifyFail(failing, MaxAttempts), Verify, pc' = "repair"
      PROVE  LoopInv'
  BY <1>2, <1>3 DEF Verify, VerifyFail
<1>4. CASE Repair
  BY <1>2, <1>4 DEF Repair, RepairFailed
<1> QED
  BY <1>1, <1>3, <1>4 DEF Verify

LEMMA LoopNext == IInv /\ IInv' /\ LoopInv /\ [AutoNext]_autoVars => LoopInv'
<1> SUFFICES ASSUME IInv, IInv', LoopInv, [AutoNext]_autoVars PROVE LoopInv'
  OBVIOUS
<1>1. CASE DispatchWave
  BY <1>1, LoopDispatch
<1>2. CASE \E t \in Task : WorkCommit(t) \/ \E f \in Edited : Work(t, f)
  BY <1>2, LoopWork
<1>3. CASE Settle
  BY <1>3, LoopSettle
<1>4. CASE IntegrateOk \/ IntegrateFails
  BY <1>4, LoopIntegrate
<1>5. CASE Verify \/ Repair
  BY <1>5, LoopVerify
<1>6. CASE WallSpent \/ DispatchSpent \/ WorkersReturn \/ WorkerRaises \/ UNCHANGED autoVars
  <2>1. UNCHANGED <<state, attempts, sandbox, queue>>
    BY <1>6 DEF WallSpent, DispatchSpent, DispatchRefused, WorkersReturn, WorkerRaises,
                autoVars, loopVars, vars, taskVars, gitVars
  <2>2. \/ pc' = pc \/ pc' \in {"stopped", "crashed"}
        \/ pc = "dispatch" /\ pc' = "integrate"
        \/ pc = "work" /\ pc' = "settle"
    BY <1>6 DEF WallSpent, DispatchSpent, WorkersReturn, WorkerRaises, autoVars, loopVars
  <2> QED
    BY <2>1, <2>2 DEF LoopInv, QueueInTask, Stage, InFlight, SandboxesOpen, AttemptsLeft,
                      AttemptsWithinBudget, InState
<1> QED
  BY <1>1, <1>2, <1>3, <1>4, <1>5, <1>6 DEF AutoNext

LEMMA AutoInvariant == AutoSafety => [](IInv /\ LoopInv)
<1>1. AutoInit => IInv /\ LoopInv
  BY InitInvariant, LoopInit DEF AutoInit
<1>2. IInv /\ LoopInv /\ [AutoNext]_autoVars => (IInv /\ LoopInv)'
  <2> SUFFICES ASSUME IInv, LoopInv, [AutoNext]_autoVars PROVE IInv' /\ LoopInv'
    OBVIOUS
  <2>1. [Next]_vars
    BY LoopStep DEF autoVars, LoopInv
  <2> QED
    BY <2>1, NextInvariant, LoopNext
<1> QED
  BY <1>1, <1>2, PTL DEF AutoSafety

-----------------------------------------------------------------------------
(* The autopilot only does what the scheduler's commands could have done, so   *)
(* every invariant of Scheduler is one of its runs.                            *)
THEOREM AutopilotDrivesScheduler == AutoSafety => Spec
<1>1. AutoInit => Init
  BY DEF AutoInit
<1>2. LoopInv /\ [AutoNext]_autoVars => [Next]_vars
  BY LoopStep DEF autoVars, LoopInv
<1> QED
  BY <1>1, <1>2, AutoInvariant, PTL DEF AutoSafety, Spec

(* However many rounds there are, no task is judged more than max_attempts     *)
(* times.                                                                      *)
THEOREM AutopilotAttempts == AutoSafety => []AttemptsWithinBudget
<1>1. LoopInv => AttemptsWithinBudget
  BY DEF LoopInv
<1> QED
  BY <1>1, AutoInvariant, PTL

(* Each round starts with nothing in flight and integrates only tasks whose    *)
(* sandbox exists.                                                             *)
THEOREM AutopilotSettles == AutoSafety => []RoundStartsSettled
<1>1. LoopInv => RoundStartsSettled
  BY DEF LoopInv, RoundStartsSettled, InFlight, SandboxesOpen, InState, Mergeable
<1> QED
  BY <1>1, AutoInvariant, PTL

-----------------------------------------------------------------------------
(* One process forgets no dispatch event: what it counts is what it handed     *)
(* out, and a wave is at most all tasks.                                       *)
Counted == events = handed /\ DispatchOverrun

LEMMA CountedStep ==
  ASSUME IInv, LoopInv, Counted, AutoNext
  PROVE  Counted'
<1>1. CASE UNCHANGED <<events, handed>>
  BY <1>1 DEF Counted, DispatchOverrun
<1>2. CASE DispatchWave
  <2>1. PICK wave \in SUBSET Task : Dispatch(wave)
    BY <1>2 DEF DispatchWave
  <2>2. /\ Cardinality(wave) \in Nat /\ Cardinality(Task) \in Nat
        /\ Cardinality(wave) <= Cardinality(Task)
    BY TaskAssumption, FS_Subset, FS_CardinalityType
  <2>3. /\ events' = events + Cardinality(wave) /\ handed' = handed + Cardinality(wave)
        /\ MaxDispatches # 0 => ~(events >= MaxDispatches)
    BY <2>1 DEF Dispatch, BudgetSpent
  <2>4. events \in Nat /\ handed \in Nat /\ MaxDispatches \in Nat
    BY BudgetAssumption DEF IInv, TypeOK
  <2> QED
    BY <2>2, <2>3, <2>4 DEF Counted, DispatchOverrun
<1>3. CASE DispatchSpent
  BY <1>1, <1>3 DEF DispatchSpent, DispatchRefused, Persist, ledgerVars
<1>4. CASE \E t \in Task : WorkCommit(t) \/ \E f \in Edited : Work(t, f)
  BY <1>1, <1>4 DEF Work, WorkCommit, WorkerEdits, WorkerCommits, eventVars, ledgerVars
<1>5. CASE Settle
  BY <1>1, <1>5 DEF Settle, Ingest, RejectResult, Persist, ledgerVars
<1>6. CASE IntegrateOk \/ IntegrateFails
  BY <1>1, <1>6 DEF IntegrateOk, IntegrateFails, IntegrateMerge, IntegrateConflict, Persist, ledgerVars
<1>7. CASE Verify \/ Repair
  BY <1>1, <1>7 DEF Verify, VerifyPass, VerifyFail, Repair, RepairFailed, Persist
<1>8. CASE WallSpent \/ WorkersReturn \/ WorkerRaises
  BY <1>1, <1>8 DEF WallSpent, WorkersReturn, WorkerRaises, vars, eventVars, ledgerVars
<1> QED
  BY <1>2, <1>3, <1>4, <1>5, <1>6, <1>7, <1>8 DEF AutoNext

(* The dispatch limit is overrun by less than one wave, in one process.        *)
THEOREM AutopilotOverrun == AutoSafety => []DispatchOverrun
<1>1. AutoInit => Counted
  <2> SUFFICES ASSUME AutoInit PROVE Counted
    OBVIOUS
  <2>1. Cardinality(Task) \in Nat /\ MaxDispatches \in Nat
    BY TaskAssumption, BudgetAssumption, FS_CardinalityType
  <2> QED
    BY <2>1 DEF AutoInit, Init, Counted, DispatchOverrun
<1>2. IInv /\ LoopInv /\ Counted /\ [AutoNext]_autoVars => Counted'
  <2>1. Counted /\ UNCHANGED autoVars => Counted'
    BY DEF Counted, DispatchOverrun, autoVars, vars, eventVars, ledgerVars
  <2> QED
    BY <2>1, CountedStep
<1>3. Counted => DispatchOverrun
  BY DEF Counted
<1> QED
  BY <1>1, <1>2, <1>3, AutoInvariant, PTL DEF AutoSafety

(* The unattended loop, too, lands only work that passed its own gates, and     *)
(* only on what it was built on.                                               *)
THEOREM AutopilotImplementsAdmission ==
  ASSUME "verified" \notin CommitStates
  PROVE  AutoSafety => AdmissionSpec
<1>1. Spec => AdmissionSpec
  BY SchedulerImplementsAdmission
<1> QED
  BY <1>1, AutopilotDrivesScheduler

-----------------------------------------------------------------------------
(* What Terminates rests on besides fairness: every step of the process that is *)
(* not a worker's begins one of the rounds allowed, goes to a later stage of    *)
(* the round, or handles one more result.                                      *)
StageNumber ==
  [dispatch |-> 0, work |-> 1, settle |-> 2, integrate |-> 3, verify |-> 4, repair |-> 5,
   stopped |-> 6, crashed |-> 6]

Forward ==
  \/ round' = round + 1 /\ round' <= MaxRounds
  \/ round' = round /\ StageNumber[pc] < StageNumber[pc']
  \/ round' = round /\ pc' = pc /\ queue' \subseteq queue /\ queue' # queue

AtWork == \E t \in Task : WorkCommit(t) \/ \E f \in Edited : Work(t, f)

(* The unattended loop never goes back, whatever gates, git and workers do     *)
(* ("retry forever is not autonomy").                                          *)
THEOREM AutopilotGoesForward == AutoSafety => [][AtWork \/ Forward]_autoVars
<1>1. AutoInit => round \in Nat
  BY DEF AutoInit
<1>2. round \in Nat /\ [AutoNext]_autoVars => (round \in Nat)'
  BY DEF AutoNext, autoVars, loopVars, WallSpent, DispatchWave, DispatchSpent, Work, WorkCommit,
         WorkersReturn, WorkerRaises, Settle, IntegrateOk, IntegrateFails, Verify, Repair
<1>3. round \in Nat /\ [AutoNext]_autoVars => [AtWork \/ Forward]_autoVars
  <2> SUFFICES ASSUME round \in Nat, AutoNext PROVE AtWork \/ Forward
    OBVIOUS
  <2>1. CASE WallSpent \/ DispatchWave \/ DispatchSpent
    BY <2>1 DEF WallSpent, DispatchWave, DispatchSpent, Forward, StageNumber
  <2>2. CASE AtWork
    BY <2>2
  <2>3. CASE WorkersReturn \/ WorkerRaises
    BY <2>3 DEF WorkersReturn, WorkerRaises, Forward, StageNumber
  <2>4. CASE Settle
    <3>1. PICK t \in queue : queue' = queue \ {t}
      BY <2>4 DEF Settle, Handled
    <3>2. /\ pc = "settle" /\ round' = round
          /\ pc' = IF queue' = {} THEN "integrate" ELSE "settle"
      BY <2>4 DEF Settle
    <3> QED
      BY <3>1, <3>2 DEF Forward, StageNumber
  <2>5. CASE IntegrateOk \/ IntegrateFails
    BY <2>5 DEF IntegrateOk, IntegrateFails, Forward, StageNumber
  <2>6. CASE Verify
    BY <2>6 DEF Verify, Forward, StageNumber
  <2>7. CASE Repair
    <3>1. CASE InState("ready")' = {} \/ LastRound
      BY <2>7, <3>1 DEF Repair, Forward, StageNumber
    <3>2. CASE InState("ready")' # {} /\ ~LastRound
      BY <2>7, <3>2, LoopAssumption DEF Repair, Forward, LastRound
    <3> QED
      BY <3>1, <3>2
  <2> QED
    BY <2>1, <2>2, <2>3, <2>4, <2>5, <2>6, <2>7 DEF AutoNext, AtWork
<1> QED
  BY <1>1, <1>2, <1>3, PTL DEF AutoSafety
=============================================================================
