----------------------------- MODULE Supervisor -----------------------------
(* minifleet/deploy.py under cmd_deploy (cli.py): a child process is started,  *)
(* its output is read by a thread into a queue, the caller waits for the ready *)
(* line until a deadline, probes what was started and tears it down.  Four     *)
(* parties run at once: the caller, the reader thread, the child, and a        *)
(* process the child may leave behind with the same output pipe.               *)
EXTENDS Naturals, Sequences

CONSTANTS
  PipeSize,   \* lines the pipe holds before its writers block
  QueueBound  \* bound: lines the reader is ahead of the waiting caller

ASSUME SizeAssumption ==
  PipeSize \in Nat \ {0} /\ QueueBound \in Nat \ {0}

VARIABLES
  pc,        \* the caller
  late,      \* the deadline of wait_ready has passed
  ready,     \* how wait_ready ended
  code,      \* what stop returns
  child, stubborn, signals,  \* the process; stubborn: it ignores SIGTERM
  helper,    \* a process that inherited the child's output
  pipe, spoke,               \* unread output; spoke: a ready line was written
  reader, held, closed,      \* the reader thread, its line, stdout closed
  lines      \* the queue between reader and caller; "eof" is its None

callerVars == <<pc, late, ready, code>>
childVars  == <<child, stubborn, signals>>
pipeVars   == <<helper, pipe, spoke>>
readerVars == <<reader, held, closed, lines>>
vars == <<callerVars, childVars, pipeVars, readerVars>>

Line == {"noise", "bare", "ready"}  \* "bare": the ready prefix without a port
Item == Line \cup {"eof"}
Waiting == {"check", "get"}
Place == {"start"} \cup Waiting \cup {"probe", "stop", "terminating", "killing", "close", "done"}

WritersKept == child # "none"
Writers == child = "running" \/ helper = "alive"

Init ==
  /\ pc = "start" /\ late = FALSE /\ ready = "none" /\ code = "none"
  /\ child = "none" /\ stubborn \in BOOLEAN /\ signals = {}
  /\ helper = "none" /\ pipe = << >> /\ spoke = FALSE
  /\ reader = "off" /\ held = "eof" /\ closed = FALSE /\ lines = << >>

-----------------------------------------------------------------------------
(* start; Popen may raise, and then stop finds no process.                     *)
Start ==
  /\ pc = "start"
  /\ \/ pc' = "check" /\ child' = "running" /\ reader' = "read"
     \/ pc' = "stop" /\ UNCHANGED <<child, reader>>
  /\ UNCHANGED <<late, ready, code, stubborn, signals, pipeVars, held, closed, lines>>

(* wait_ready ends: only a ready line with a port is worth a probe.            *)
ConcludePortless(result) ==
  /\ ready' = result
  /\ pc' = IF result \in {"ready", "bare"} THEN "probe" ELSE "stop"
Conclude(result) ==
  /\ ready' = result
  /\ pc' = IF result = "ready" THEN "probe" ELSE "stop"

DeadlineForgotten == FALSE
DeadlinePassed == late

(* The top of wait_ready's loop.                                               *)
Check ==
  /\ pc = "check"
  /\ IF DeadlinePassed
     THEN Conclude("timeout")
     ELSE pc' = "get" /\ UNCHANGED ready
  /\ UNCHANGED <<late, code, childVars, pipeVars, readerVars>>

(* _lines.get: a line, the end of the output, or queue.Empty.                  *)
GetLine ==
  /\ pc = "get" /\ lines # << >>
  /\ lines' = Tail(lines)
  /\ IF Head(lines) = "noise"
     THEN pc' = "check" /\ UNCHANGED ready
     ELSE Conclude(Head(lines))
  /\ UNCHANGED <<late, code, childVars, pipeVars, reader, held, closed>>

GetEmpty ==
  /\ pc = "get" /\ lines = << >> /\ late
  /\ Conclude("timeout")
  /\ UNCHANGED <<late, code, childVars, pipeVars, readerVars>>

Deadline ==
  /\ pc \in Waiting /\ ~late
  /\ late' = TRUE
  /\ UNCHANGED <<pc, ready, code, childVars, pipeVars, readerVars>>

(* smoke and soak, whatever they find: every request has a timeout.            *)
Probe ==
  /\ pc = "probe"
  /\ pc' = "stop"
  /\ UNCHANGED <<late, ready, code, childVars, pipeVars, readerVars>>

(* An interrupt ends the try block early; its finally still calls stop.        *)
Interrupt ==
  /\ pc \in Waiting \cup {"probe"}
  /\ pc' = "stop"
  /\ UNCHANGED <<late, ready, code, childVars, pipeVars, readerVars>>

-----------------------------------------------------------------------------
(* stop                                                                        *)
Terminate ==
  /\ pc = "stop"
  /\ CASE child = "none"    -> pc' = "done" /\ code' = "0" /\ UNCHANGED signals
       [] child = "exited"  -> pc' = "close" /\ UNCHANGED <<code, signals>>
       [] child = "running" -> /\ pc' = "terminating"
                               /\ signals' = signals \cup {"TERM"}
                               /\ UNCHANGED code
  /\ UNCHANGED <<late, ready, child, stubborn, pipeVars, readerVars>>

EscalateNot == {}
Escalation == {"KILL"}

(* proc.wait returns when the child is gone, or its timeout expires.           *)
Reaped ==
  /\ pc \in {"terminating", "killing"} /\ child = "exited"
  /\ pc' = "close"
  /\ UNCHANGED <<late, ready, code, childVars, pipeVars, readerVars>>

TermTimeout ==
  /\ pc = "terminating" /\ child = "running"
  /\ pc' = "killing"
  /\ signals' = signals \cup Escalation
  /\ UNCHANGED <<late, ready, code, child, stubborn, pipeVars, readerVars>>

KillTimeout ==
  /\ pc = "killing" /\ child = "running"
  /\ pc' = "done" /\ code' = "-9"
  /\ UNCHANGED <<late, ready, childVars, pipeVars, readerVars>>

(* A file object waits in close() for the thread that is inside its read().    *)
MayClose == reader # "read"

Close ==
  /\ pc = "close" /\ MayClose
  /\ closed' = TRUE
  /\ pc' = "done" /\ code' = "exit"
  /\ UNCHANGED <<late, ready, childVars, pipeVars, reader, held, lines>>

-----------------------------------------------------------------------------
(* The child and what it leaves behind.                                        *)
Write(line) ==
  /\ child = "running" /\ Len(pipe) < PipeSize
  /\ pipe' = Append(pipe, line)
  /\ spoke' = (spoke \/ line # "noise")
  /\ UNCHANGED <<callerVars, childVars, helper, readerVars>>

Spawn ==
  /\ child = "running" /\ helper = "none"
  /\ helper' = "alive"
  /\ UNCHANGED <<callerVars, childVars, pipe, spoke, readerVars>>

HelperExits ==
  /\ helper = "alive"
  /\ helper' = "gone"
  /\ UNCHANGED <<callerVars, childVars, pipe, spoke, readerVars>>

ChildExits ==
  /\ child = "running"
  /\ child' = "exited"
  /\ UNCHANGED <<callerVars, stubborn, signals, pipeVars, readerVars>>

(* SIGKILL, or SIGTERM to a child that does not ignore it.                     *)
ChildDies ==
  /\ "KILL" \in signals \/ ("TERM" \in signals /\ ~stubborn)
  /\ ChildExits

-----------------------------------------------------------------------------
(* _pump.  Nobody takes from the queue once wait_ready has returned.           *)
Room == pc \notin Waiting \/ Len(lines) < QueueBound
QueuedFirst(item) == IF item = "eof" THEN << item >> \o lines ELSE Append(lines, item)
Queued(item) == IF pc \in Waiting THEN Append(lines, item) ELSE lines

ReadLine ==
  /\ reader = "read" /\ pipe # << >>
  /\ held' = Head(pipe) /\ pipe' = Tail(pipe)
  /\ reader' = "put"
  /\ UNCHANGED <<callerVars, childVars, helper, spoke, closed, lines>>

(* Reading a closed file raises and ends the thread.                           *)
PutLine ==
  /\ reader = "put" /\ Room
  /\ lines' = Queued(held)
  /\ reader' = IF closed THEN "end" ELSE "read"
  /\ UNCHANGED <<callerVars, childVars, pipeVars, held, closed>>

ReadEof ==
  /\ reader = "read" /\ pipe = << >> /\ ~Writers
  /\ lines' = Queued("eof")
  /\ reader' = "end"
  /\ UNCHANGED <<callerVars, childVars, pipeVars, held, closed>>

-----------------------------------------------------------------------------
Caller ==
  \/ Start \/ Check \/ GetLine \/ GetEmpty \/ Probe
  \/ Terminate \/ Reaped \/ TermTimeout \/ KillTimeout \/ Close
Reader == ReadLine \/ PutLine \/ ReadEof

Next ==
  \/ Caller \/ Reader \/ Deadline \/ Interrupt
  \/ \E line \in Line : Write(line)
  \/ Spawn \/ HelperExits \/ ChildExits \/ ChildDies

Safety == Init /\ [][Next]_vars

(* Threads run, clocks advance and signals arrive.  Nothing is asked of the    *)
(* child or of its helper: they may talk or keep silent for ever.              *)
Spec ==
  /\ Safety
  /\ WF_vars(Caller) /\ WF_vars(Reader) /\ WF_vars(Deadline) /\ WF_vars(ChildDies)

-----------------------------------------------------------------------------
TypeOK ==
  /\ pc \in Place /\ late \in BOOLEAN
  /\ ready \in {"none", "timeout"} \cup Item /\ code \in {"none", "0", "-9", "exit"}
  /\ child \in {"none", "running", "exited"} /\ stubborn \in BOOLEAN
  /\ signals \subseteq {"TERM", "KILL"}
  /\ helper \in {"none", "alive", "gone"} /\ pipe \in Seq(Line) /\ spoke \in BOOLEAN
  /\ reader \in {"off", "read", "put", "end"} /\ held \in Item /\ closed \in BOOLEAN
  /\ lines \in Seq(Item)
  /\ pc = "probe" => ready = "ready"

(* "Never leak the child": when the command is over the child is gone, or has  *)
(* been sent the one signal it cannot ignore - whatever was raised, and        *)
(* whether or not a ready line ever came.                                      *)
NeverLeaked == pc = "done" => child # "running" \/ "KILL" \in signals

(* "The child exited without ever announcing a port" is said only of a child   *)
(* that did: no ready line is lost between the pipe, the thread and the queue. *)
EofMeansSilent == ready = "eof" => ~spoke /\ child = "exited"

(* wait_ready does not hang, not even on a child that never stops talking.     *)
WaitEnds == pc \in Waiting ~> pc \notin Waiting

(* The command comes to its end, unless a process that outlives the child      *)
(* keeps the child's output open.                                              *)
EndsAlone == []<>(helper # "alive") => <>(pc = "done")

(* -- a statement the code does not keep -------------------------------------- *)

(* "The process is always torn down" (deploy.py): the command comes to its end *)
(* whatever the child has started.                                             *)
TornDown == <>(pc = "done")
=============================================================================
