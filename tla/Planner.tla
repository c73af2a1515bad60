------------------------------- MODULE Planner -------------------------------
(* minifleet/architect.py: from the components of an intent to a design that   *)
(* may be dispatched.  repair breaks the dependency cycles that find_cycles     *)
(* reports, check searches again and refuses what is left, and integrate later *)
(* merges in the batches of topological_batches.  find_cycles is modelled edge *)
(* by edge: the order it looks at nodes and edges in is the order of the       *)
(* intent's lists, which may be any.                                           *)
EXTENDS Naturals, Sequences, FiniteSets

CONSTANTS
  Node,      \* task ids of the design
  Dangling,  \* ids a component names although no component has them
  Unscoped,  \* tasks whose component declares no files
  Order      \* [Node -> Nat], the order of the ids as strings

ASSUME PlanAssumption ==
  /\ IsFiniteSet(Node) /\ Node \cap Dangling = {}
  /\ Unscoped \subseteq Node /\ Order \in [Node -> Nat]

VARIABLES
  deps,      \* Task.depends_on
  early,     \* tasks the repair has marked READY
  phase,     \* what design() is doing, or how it ended
  colour, stack, todo, cycles,  \* find_cycles; todo: edges a frame has not looked at
  remaining, done, depth, batch \* topological_batches; depth: the batch of a task

planVars   == <<deps, early>>
searchVars == <<colour, stack, todo, cycles>>
batchVars  == <<remaining, done, depth, batch>>
vars == <<planVars, phase, searchVars, batchVars>>

Id == Node \cup Dangling
Phase == {"repair", "check", "batch", "batched", "refused", "raised"}

(* graph.get(node, [])                                                         *)
Succ(n) == IF n \in Node THEN deps[n] ELSE {}

StartSearch ==
  /\ colour' = [n \in Id |-> 0] /\ stack' = << >>
  /\ todo' = [n \in Id |-> {}] /\ cycles' = {}

Init ==
  /\ deps \in [Node -> SUBSET Id]
  /\ early = {}
  /\ phase = "repair"
  /\ colour = [n \in Id |-> 0] /\ stack = << >>
  /\ todo = [n \in Id |-> {}] /\ cycles = {}
  /\ remaining = Node /\ done = {} /\ depth = [n \in Node |-> 0] /\ batch = 0

-----------------------------------------------------------------------------
(* find_cycles                                                                 *)
Searching == phase \in {"repair", "check"}
Top == stack[Len(stack)]
SearchOver == stack = << >> /\ \A n \in Node : colour[n] # 0

EnterRoot(n) ==
  /\ Searching /\ stack = << >> /\ colour[n] = 0
  /\ colour' = [colour EXCEPT ![n] = 1]
  /\ stack' = << n >>
  /\ todo' = [todo EXCEPT ![n] = Succ(n)]
  /\ UNCHANGED <<planVars, phase, cycles, batchVars>>

StackAll(m) == {stack[i] : i \in 1 .. Len(stack)}
StackFrom(m) == {stack[i] : i \in {k \in 1 .. Len(stack) : \E j \in 1 .. k : stack[j] = m}}

VisitingAny(m) == colour[m] # 0
Visiting(m) == colour[m] = 1

LookAt(m) == Searching /\ stack # << >> /\ m \in todo[Top]

BackEdge(m) ==
  /\ LookAt(m) /\ Visiting(m)
  /\ cycles' = cycles \cup {StackFrom(m)}
  /\ todo' = [todo EXCEPT ![Top] = @ \ {m}]
  /\ UNCHANGED <<planVars, phase, colour, stack, batchVars>>

TreeEdge(m) ==
  /\ LookAt(m) /\ ~Visiting(m) /\ colour[m] = 0
  /\ colour' = [colour EXCEPT ![m] = 1]
  /\ stack' = Append(stack, m)
  /\ todo' = [todo EXCEPT ![Top] = @ \ {m}, ![m] = Succ(m)]
  /\ UNCHANGED <<planVars, phase, cycles, batchVars>>

OtherEdge(m) ==
  /\ LookAt(m) /\ ~Visiting(m) /\ colour[m] # 0
  /\ todo' = [todo EXCEPT ![Top] = @ \ {m}]
  /\ UNCHANGED <<planVars, phase, colour, stack, cycles, batchVars>>

LeftWhite == 0
Left == 2

Leave ==
  /\ Searching /\ stack # << >> /\ todo[Top] = {}
  /\ colour' = [colour EXCEPT ![Top] = Left]
  /\ stack' = SubSeq(stack, 1, Len(stack) - 1)
  /\ UNCHANGED <<planVars, phase, todo, cycles, batchVars>>

-----------------------------------------------------------------------------
(* The victim of a cycle loses its dependencies inside that cycle.             *)
Victim(cycle) == CHOOSE n \in cycle : \A m \in cycle : Order[n] <= Order[m]
Broken(n) == deps[n] \ UNION {cycle \in cycles : Victim(cycle) = n}

Known(ds) == ds \cap Node

(* repair, after its find_cycles has returned: a task without a write scope is *)
(* given one and marked READY, cycles are broken, dangling ids dropped.        *)
Repair ==
  /\ phase = "repair" /\ SearchOver
  /\ early' = Unscoped
  /\ deps' = [n \in Node |-> Known(Broken(n))]
  /\ phase' = "check"
  /\ StartSearch
  /\ UNCHANGED batchVars

ApprovedAlways == TRUE
Approved == cycles = {}

(* check; contracts or gates that do not exist are other reasons to refuse.    *)
Check ==
  /\ phase = "check" /\ SearchOver
  /\ phase' \in IF Approved THEN {"batch", "refused"} ELSE {"refused"}
  /\ UNCHANGED <<planVars, searchVars, batchVars>>

WaveEager == {n \in remaining : deps[n] = {} \/ deps[n] \cap done # {}}
Wave == {n \in remaining : deps[n] \subseteq done}

(* topological_batches, one turn of its loop.                                  *)
Batch ==
  /\ phase = "batch"
  /\ Wave # {}
  /\ batch' = batch + 1
  /\ depth' = [n \in Node |-> IF n \in Wave THEN batch' ELSE depth[n]]
  /\ done' = done \cup Wave
  /\ remaining' = remaining \ Wave
  /\ UNCHANGED <<planVars, phase, searchVars>>

EndOfBatches ==
  /\ phase = "batch"
  /\ Wave = {}
  /\ phase' = IF remaining = {} THEN "batched" ELSE "raised"
  /\ UNCHANGED <<planVars, searchVars, batchVars>>

Next ==
  \/ \E n \in Node : EnterRoot(n)
  \/ \E m \in Id : BackEdge(m) \/ TreeEdge(m) \/ OtherEdge(m)
  \/ Leave
  \/ Repair \/ Check \/ Batch \/ EndOfBatches

Safety == Init /\ [][Next]_vars

(* design() and topological_batches are sequential code that waits for nobody. *)
Spec == Safety /\ WF_vars(Next)

-----------------------------------------------------------------------------
TypeOK ==
  /\ deps \in [Node -> SUBSET Id] /\ early \subseteq Node
  /\ phase \in Phase /\ (phase # "repair" => \A n \in Node : deps[n] \subseteq Node)
  /\ colour \in [Id -> {0, 1, 2}] /\ stack \in Seq(Id)
  /\ todo \in [Id -> SUBSET Id] /\ cycles \subseteq SUBSET Id
  /\ remaining \subseteq Node /\ done \subseteq Node
  /\ depth \in [Node -> Nat] /\ batch \in Nat

(* What a dependency cycle is, without any search: a set of tasks each of      *)
(* which waits for another of the set.                                         *)
Trap(S) == S # {} /\ \A n \in S : Succ(n) \cap S # {}
Acyclic == \A S \in SUBSET Node : ~Trap(S)

(* find_cycles returns something exactly when there is a cycle, whatever order *)
(* the nodes and edges come in.                                                *)
SearchIsExact == Searching /\ SearchOver => (cycles = {} <=> Acyclic)

(* Everything it returns is a cycle, not a path that leads to one, so the      *)
(* repair takes no dependency from a task that only waits for a cycle.         *)
Ring(S) == Trap(S) /\ \A n \in S : \E m \in S : n \in Succ(m)
FoundAreCycles == \A cycle \in cycles : Ring(cycle)

(* integrate never fails for the graph: a design that passed the review can be *)
(* batched to the end.                                                         *)
NeverRaises == phase # "raised"

(* "Merges follow dependency order": a task is in a later batch than all it    *)
(* depends on.                                                                 *)
BatchesRespectDeps ==
  \A n \in done : \A d \in deps[n] : d \in done /\ depth[d] < depth[n]

(* The review comes to an end, and so does the batching.                       *)
Decides == <>(phase \in {"batched", "refused"})

(* -- statements the code does not keep -------------------------------------- *)

(* "Repairable defects (... a dependency cycle ...) are fixed mechanically"    *)
(* (ARCHITECTURE.md): after the repair the review finds no cycle.              *)
CyclesRepaired == phase = "check" /\ SearchOver => cycles = {}

(* "A task becomes READY only when every dependency is MERGED" (scheduler.py): *)
(* a new design has no task that is READY and depends on another.              *)
ReadyMeansFree ==
  phase \in {"batch", "batched"} => \A n \in early : deps[n] = {}
=============================================================================
