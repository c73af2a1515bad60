------------------------------ MODULE Worktree ------------------------------
(* Git as minifleet/worktree.py uses it: commits, branches and sandboxes      *)
(* (worktrees) as values, with one operator per method of Repo that decides   *)
(* something.                                                                  *)
(*                                                                             *)
(* A commit is the set of changes in its history, so "is an ancestor of" is    *)
(* set inclusion and two commits differ in the files touched by the changes    *)
(* that one has and the other has not.  A change that is later undone by       *)
(* another change still counts as a difference: contents are not modelled.     *)
(* AddWorktreeKept, WithBranchFrozen and OwnershipConflictsNone are mistakes    *)
(* the code avoids; no specification uses them.                                 *)
EXTENDS Naturals, Sequences

CONSTANTS Task,        \* tasks; each owns one file, named like the task
          Outside      \* a file that is in no task's write scope

ASSUME OutsideAssumption == Outside \notin Task

File == Task \cup {Outside}

(* Who records a change: the fleet at ingest, the worker by itself, or a       *)
(* merge (which touches no file of its own: merges with conflicts abort).      *)
Author == {"fleet", "worker", "merge"}

Change == [task : Task, files : SUBSET File, n : Nat, by : Author]
Commit == SUBSET Change

(* A sandbox directory: the number of the branch checked out there (0 when     *)
(* the directory does not exist) and the files with uncommitted edits.         *)
Sandbox == [on : Nat, dirty : SUBSET File]
NoSandbox == [on |-> 0, dirty |-> {}]

IsAncestor(ancestor, descendant) == ancestor \subseteq descendant

ChangedFiles(tip, dirty, base) ==
  UNION {c.files : c \in (tip \ base) \cup (base \ tip)} \cup dirty

(* The branches of a task are numbered 1 (task/<c>), 2 (task/<c>-a2), ... in   *)
(* the order they are created; tips[k] is the commit branch k points to.       *)
BranchExists(tips, k) == k \in DOMAIN tips

AttemptBranch(tips, current, base) ==
  IF /\ BranchExists(tips, current)
     /\ tips[current] # base
     /\ IsAncestor(tips[current], base)
  THEN Len(tips) + 1
  ELSE current

AddWorktreeKept(sandbox, branch) ==
  IF sandbox.on # 0 THEN sandbox ELSE [on |-> branch, dirty |-> {}]

(* add_worktree: a directory already on the branch is left as it is, any       *)
(* other is replaced by a clean checkout; a branch that does not exist is      *)
(* created at the baseline.                                                    *)
AddWorktree(sandbox, branch) ==
  IF sandbox.on = branch THEN sandbox ELSE [on |-> branch, dirty |-> {}]

WithBranchFrozen(tips, branch, base) ==
  IF BranchExists(tips, branch) THEN tips ELSE Append(tips, {})

WithBranch(tips, branch, base) ==
  IF BranchExists(tips, branch) THEN tips ELSE Append(tips, base)

(* commit_all: nothing to commit leaves the branch where it is.                *)
CommitAll(tip, t, dirty, n, by) ==
  IF dirty = {} THEN tip
  ELSE tip \cup {[task |-> t, files |-> dirty, n |-> n, by |-> by]}

(* merge --no-ff: a branch already contained in the baseline is up to date,    *)
(* otherwise both histories are joined by a merge commit.                      *)
MergeCommit(t, tip, base, n) ==
  IF IsAncestor(tip, base) THEN {}
  ELSE tip \cup {[task |-> t, files |-> {}, n |-> n, by |-> "merge"]}

OwnershipConflictsNone(tasks, changed) == {}

(* Two different branches conflict when a path is in the changed files of both.*)
OwnershipConflicts(tasks, changed) ==
  {p \in tasks \X tasks : p[1] # p[2] /\ changed[p[1]] \cap changed[p[2]] # {}}
=============================================================================
