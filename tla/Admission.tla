------------------------------ MODULE Admission ------------------------------
(* What the scheduler promises about admission, without branches, sandboxes,   *)
(* attempts or verdicts: "a broken module never reaches the integration        *)
(* branch" and "merges follow dependency order" (ARCHITECTURE.md).  A task's   *)
(* work is first accepted by the task's own gates, may be withdrawn again, and *)
(* enters the product exactly as it was accepted, after the work the task      *)
(* depends on.  The one who admits may not live to note it, and then admits    *)
(* the same work again.                                                        *)
CONSTANTS Task, Deps, Work

VARIABLES passed,    \* tasks whose current work passed their own gates
          offer,     \* that work; {} for the others
          admitted,  \* tasks whose work has entered the product
          product    \* all the work in the product

vars == <<passed, offer, admitted, product>>

Init ==
  /\ passed = {} /\ offer = [t \in Task |-> {}]
  /\ admitted = {} /\ product = {}

(* The gates accept some work of t, built on everything t depends on.          *)
Pass(t) ==
  /\ Deps[t] \subseteq admitted
  /\ passed' = passed \cup {t}
  /\ offer' \in [Task -> SUBSET Work]
  /\ \A s \in Task \ {t} : offer'[s] = offer[s]
  /\ UNCHANGED <<admitted, product>>

Cleared(tasks) == [t \in Task |-> IF t \in tasks THEN {} ELSE offer[t]]

Withdraw(tasks) ==
  /\ passed' = passed \ tasks
  /\ offer' = Cleared(tasks)
  /\ UNCHANGED <<admitted, product>>

(* noted: the tasks the record has as merged.                                  *)
Admit(tasks, noted) ==
  /\ \A t \in tasks : Deps[t] \subseteq admitted
  /\ product' = product \cup UNION {offer[t] : t \in tasks}
  /\ admitted' = admitted \cup tasks
  /\ passed' = passed \ noted
  /\ offer' = Cleared(noted)

Next ==
  \/ \E t \in Task : Pass(t)
  \/ \E tasks \in SUBSET passed :
       Withdraw(tasks) \/ \E noted \in {{}, tasks} : Admit(tasks, noted)

Spec == Init /\ [][Next]_vars
=============================================================================
