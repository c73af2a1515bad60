-------------------------- MODULE SupervisorProofs --------------------------
(* Theorems about Supervisor: for pipes and queues of any size, the child is   *)
(* never leaked and a ready line is never lost on its way to the caller.       *)
EXTENDS Supervisor, TLAPS

Spoken == {"bare", "ready"}

(* The thread exists as soon as the child does, and stop alone closes.         *)
Wired ==
  /\ child = "none" => reader = "off" /\ helper = "none" /\ ~spoke /\ lines = << >>
  /\ pc = "start" => child = "none" /\ ready = "none" /\ ~closed
  /\ pc \in Waiting \cup {"probe", "terminating", "killing", "close"} => child # "none"
  /\ pc \in Waiting => ready = "none" /\ ~closed
  /\ reader = "put" => held \in Line

(* A killed child has been sent the signal before stop waits for the second    *)
(* time; stop never returns early with the child alive.                        *)
Teardown ==
  /\ pc = "killing" => "KILL" \in signals
  /\ pc = "close" => child = "exited"

(* While the caller waits, a ready line that was written is in the pipe, in    *)
(* the hand of the thread or in the queue.                                     *)
InFlight ==
  pc \in Waiting /\ spoke =>
    \/ \E i \in 1 .. Len(pipe) : pipe[i] \in Spoken
    \/ reader = "put" /\ held \in Spoken
    \/ \E i \in 1 .. Len(lines) : lines[i] \in Spoken

(* The end of the output is the last thing in the queue.                       *)
EofIsLast ==
  pc \in Waiting => \A i \in 1 .. Len(lines) : lines[i] = "eof" =>
    i = Len(lines) /\ reader = "end" /\ pipe = << >> /\ ~Writers

IInv == TypeOK /\ Wired /\ Teardown /\ NeverLeaked /\ InFlight /\ EofIsLast /\ EofMeansSilent

LEMMA InitInv == Init => IInv
<1> SUFFICES ASSUME Init PROVE IInv
  OBVIOUS
<1>1. << >> \in Seq(Line) /\ << >> \in Seq(Item)
  OBVIOUS
<1>2. TypeOK
  BY <1>1 DEF Init, TypeOK, Place, Waiting, Item
<1>3. Wired /\ Teardown /\ NeverLeaked /\ InFlight /\ EofIsLast /\ EofMeansSilent
  BY DEF Init, Wired, Teardown, NeverLeaked, InFlight, EofIsLast, EofMeansSilent, Waiting
<1> QED
  BY <1>2, <1>3 DEF IInv

-----------------------------------------------------------------------------
(* What the parties do while nobody waits for a line.                          *)
LEMMA CallerStep ==
  ASSUME IInv, Start \/ Check \/ GetEmpty \/ Probe \/ Deadline \/ Interrupt
  PROVE  IInv'
<1>1. /\ UNCHANGED <<stubborn, signals, pipeVars, held, closed, lines>>
      /\ pc' \in Waiting \cup {"stop"} /\ late' \in BOOLEAN \cup {late} /\ code' = code
      /\ child' \in {child, "running"} /\ reader' \in {reader, "read"}
      /\ pc' \in Waiting => pc \in {"start"} \cup Waiting /\ ready' = ready
      /\ ready' \in {ready, "timeout"}
  BY DEF Start, Check, GetEmpty, Probe, Deadline, Interrupt, Conclude, DeadlinePassed, Waiting,
         childVars, pipeVars, readerVars
<1>2. TypeOK'
  BY <1>1 DEF IInv, TypeOK, Waiting, Place, pipeVars
<1>3. CASE Start
  BY <1>2, <1>3
     DEF Start, IInv, TypeOK, Wired, Teardown, NeverLeaked, InFlight, EofIsLast, EofMeansSilent,
         Waiting, pipeVars
<1>4. CASE ~Start
  <2>1. pc \in Waiting \cup {"probe"} /\ UNCHANGED <<child, reader>>
    BY <1>4 DEF Check, GetEmpty, Probe, Deadline, Interrupt, Waiting, childVars, readerVars
  <2>2. Wired' /\ Teardown' /\ NeverLeaked'
    BY <1>1, <2>1 DEF IInv, Wired, Teardown, NeverLeaked, Waiting, pipeVars
  <2>3. InFlight' /\ EofIsLast' /\ EofMeansSilent'
    BY <1>1, <2>1
       DEF IInv, InFlight, EofIsLast, EofMeansSilent, Waiting, Writers, pipeVars
  <2> QED
    BY <1>2, <2>2, <2>3 DEF IInv
<1> QED
  BY <1>3, <1>4

LEMMA StopStep ==
  ASSUME IInv, Terminate \/ Reaped \/ TermTimeout \/ KillTimeout \/ Close
  PROVE  IInv'
<1>1. UNCHANGED <<ready, child, pipeVars, reader, held, lines>>
  BY DEF Terminate, Reaped, TermTimeout, KillTimeout, Close, childVars, readerVars
<1>2. pc' \notin Waiting \cup {"start", "probe"}
  BY DEF Terminate, Reaped, TermTimeout, KillTimeout, Close, Waiting, IInv, TypeOK
<1>3. TypeOK'
  <2>1. /\ pc' \in {"terminating", "killing", "close", "done"}
        /\ code' \in {code, "0", "-9", "exit"} /\ signals' \subseteq signals \cup {"TERM", "KILL"}
        /\ closed' \in {closed, TRUE} /\ UNCHANGED <<late, stubborn>>
    BY DEF Terminate, Reaped, TermTimeout, KillTimeout, Close, Escalation, IInv, TypeOK,
           childVars, readerVars
  <2>2. pc' \in Place /\ pc' # "probe" /\ signals' \subseteq {"TERM", "KILL"}
    BY <2>1 DEF IInv, TypeOK, Place
  <2>3. /\ code' \in {"none", "0", "-9", "exit"} /\ closed' \in BOOLEAN
        /\ late' \in BOOLEAN /\ stubborn' \in BOOLEAN
    BY <2>1 DEF IInv, TypeOK
  <2> QED
    BY <1>1, <2>2, <2>3 DEF IInv, TypeOK, pipeVars
<1>4. Wired' /\ Teardown' /\ NeverLeaked'
  BY <1>1, <1>2
     DEF IInv, TypeOK, Wired, Teardown, NeverLeaked, Terminate, Reaped, TermTimeout, KillTimeout,
         Close, Escalation, pipeVars, childVars
<1>5. InFlight' /\ EofIsLast' /\ EofMeansSilent'
  BY <1>1, <1>2 DEF IInv, InFlight, EofIsLast, EofMeansSilent, pipeVars
<1> QED
  BY <1>3, <1>4, <1>5 DEF IInv

(* Taking a line: the line taken is the oldest, so an eof that is taken was    *)
(* the only thing left and nothing was written that could still come.          *)
LEMMA GetLineStep ==
  ASSUME IInv, GetLine
  PROVE  IInv'
<1>1. /\ lines \in Seq(Item) /\ lines # << >> /\ lines' = Tail(lines)
      /\ Head(lines) = lines[1] /\ Len(lines) \in Nat \ {0}
      /\ Len(lines') = Len(lines) - 1
      /\ \A i \in 1 .. Len(lines') : lines'[i] = lines[i + 1]
      /\ lines[1] \in Item
  BY DEF GetLine, IInv, TypeOK
<1>2. lines' \in Seq(Item)
  BY <1>1
<1>3. TypeOK' /\ Wired' /\ Teardown' /\ NeverLeaked'
  BY <1>1, <1>2
     DEF GetLine, Conclude, IInv, TypeOK, Wired, Teardown, NeverLeaked, Waiting, Place, Item,
         Line, childVars, pipeVars
<1>4. InFlight'
  <2> SUFFICES ASSUME pc' \in Waiting, spoke'
               PROVE  \/ \E i \in 1 .. Len(pipe) : pipe[i] \in Spoken
                      \/ reader = "put" /\ held \in Spoken
                      \/ \E i \in 1 .. Len(lines') : lines'[i] \in Spoken
    BY DEF InFlight, GetLine, pipeVars
  <2>1. lines[1] = "noise" /\ spoke /\ pc \in Waiting
    BY <1>1 DEF GetLine, Conclude, Waiting, pipeVars
  <2>2. ASSUME NEW i \in 1 .. Len(lines), lines[i] \in Spoken
        PROVE  \E j \in 1 .. Len(lines') : lines'[j] \in Spoken
    <3>1. i # 1
      BY <2>1, <2>2 DEF Spoken
    <3>2. i - 1 \in 1 .. Len(lines') /\ lines'[i - 1] = lines[i]
      BY <1>1, <3>1
    <3> QED
      BY <2>2, <3>2
  <2> QED
    BY <2>1, <2>2 DEF IInv, InFlight
<1>5. EofIsLast'
  <2> SUFFICES ASSUME NEW i \in 1 .. Len(lines'), lines'[i] = "eof"
               PROVE  i = Len(lines') /\ reader = "end" /\ pipe = << >> /\ ~Writers
    BY DEF EofIsLast, GetLine, Writers, childVars, pipeVars
  <2>1. i + 1 \in 1 .. Len(lines) /\ lines[i + 1] = "eof" /\ pc \in Waiting
    BY <1>1 DEF GetLine, Waiting
  <2>2. i + 1 = Len(lines) /\ reader = "end" /\ pipe = << >> /\ ~Writers
    BY <2>1 DEF IInv, EofIsLast
  <2>3. i \in Nat /\ Len(lines') = Len(lines) - 1
    BY <1>1
  <2> QED
    BY <2>2, <2>3
<1>6. EofMeansSilent'
  <2>1. CASE lines[1] = "eof"
    <3>1. Len(lines) = 1 /\ reader = "end" /\ pipe = << >> /\ child = "exited"
      <4>1. 1 \in 1 .. Len(lines) /\ pc \in Waiting
        BY <1>1 DEF GetLine, Waiting
      <4>2. 1 = Len(lines) /\ reader = "end" /\ pipe = << >> /\ ~Writers
        BY <2>1, <4>1 DEF IInv, EofIsLast
      <4>3. child = "exited"
        BY <4>1, <4>2 DEF IInv, TypeOK, Wired, Writers
      <4> QED
        BY <4>2, <4>3
    <3>2. ~spoke
      BY <2>1, <3>1 DEF GetLine, IInv, InFlight, Waiting, Spoken
    <3> QED
      BY <3>1, <3>2 DEF GetLine, EofMeansSilent, childVars, pipeVars
  <2>2. CASE lines[1] # "eof"
    BY <1>1, <2>2 DEF GetLine, Conclude, IInv, EofMeansSilent, Wired, Waiting, childVars, pipeVars
  <2> QED
    BY <2>1, <2>2
<1> QED
  BY <1>3, <1>4, <1>5, <1>6 DEF IInv

-----------------------------------------------------------------------------
LEMMA WriteStep ==
  ASSUME IInv, NEW line \in Line, Write(line)
  PROVE  IInv'
<1>1. /\ pipe \in Seq(Line) /\ pipe' = Append(pipe, line) /\ pipe' \in Seq(Line)
      /\ Len(pipe') = Len(pipe) + 1 /\ Len(pipe) \in Nat
      /\ pipe'[Len(pipe')] = line
      /\ \A i \in 1 .. Len(pipe) : pipe'[i] = pipe[i]
  BY DEF Write, IInv, TypeOK
<1>2. child = "running" /\ spoke' = (spoke \/ line # "noise") /\ spoke' \in BOOLEAN
  BY DEF Write, IInv, TypeOK
<1>3. TypeOK' /\ Wired' /\ Teardown' /\ NeverLeaked'
  BY <1>1, <1>2 DEF Write, IInv, TypeOK, Wired, Teardown, NeverLeaked, callerVars, childVars, readerVars
<1>4. InFlight'
  <2>1. CASE line # "noise"
    <3>1. line \in Spoken /\ Len(pipe') \in 1 .. Len(pipe')
      BY <1>1, <2>1 DEF Line, Spoken
    <3> QED
      BY <1>1, <3>1 DEF InFlight
  <2>2. CASE line = "noise"
    <3>1. 1 .. Len(pipe) \subseteq 1 .. Len(pipe')
      BY <1>1
    <3>2. (\E i \in 1 .. Len(pipe) : pipe[i] \in Spoken)
             => \E i \in 1 .. Len(pipe') : pipe'[i] \in Spoken
      BY <1>1, <3>1
    <3> QED
      BY <1>2, <2>2, <3>2 DEF Write, IInv, InFlight, callerVars, readerVars
  <2> QED
    BY <2>1, <2>2
<1>5. EofIsLast'
  BY <1>2 DEF Write, IInv, EofIsLast, Writers, callerVars, childVars, readerVars
<1>6. EofMeansSilent'
  BY <1>2 DEF Write, IInv, EofMeansSilent, callerVars, childVars
<1> QED
  BY <1>3, <1>4, <1>5, <1>6 DEF IInv

LEMMA ProcessStep ==
  ASSUME IInv, Spawn \/ HelperExits \/ ChildExits
  PROVE  IInv'
<1>1. UNCHANGED <<callerVars, stubborn, signals, pipe, spoke, readerVars>>
  BY DEF Spawn, HelperExits, ChildExits, childVars, pipeVars
<1>2. /\ child' \in {child, "exited"} /\ helper' \in {helper, "alive", "gone"}
      /\ child' = "none" => child = "none" /\ helper' = helper
      /\ child = "none" => child' = "none"
      /\ child = "exited" => child' = "exited"
      /\ Writers' => Writers
  BY DEF Spawn, HelperExits, ChildExits, Writers, childVars, pipeVars, IInv, Wired
<1>3. TypeOK' /\ Wired' /\ Teardown' /\ NeverLeaked'
  BY <1>1, <1>2 DEF IInv, TypeOK, Wired, Teardown, NeverLeaked, callerVars, readerVars
<1>4. InFlight' /\ EofMeansSilent'
  BY <1>1, <1>2 DEF IInv, InFlight, EofMeansSilent, callerVars, readerVars
<1>5. EofIsLast'
  BY <1>1, <1>2 DEF IInv, EofIsLast, callerVars, readerVars
<1> QED
  BY <1>3, <1>4, <1>5 DEF IInv

LEMMA ReadLineStep ==
  ASSUME IInv, ReadLine
  PROVE  IInv'
<1>1. /\ pipe \in Seq(Line) /\ pipe # << >> /\ pipe' = Tail(pipe) /\ pipe' \in Seq(Line)
      /\ held' = pipe[1] /\ pipe[1] \in Line /\ Len(pipe) \in Nat \ {0}
      /\ Len(pipe') = Len(pipe) - 1
      /\ \A i \in 1 .. Len(pipe') : pipe'[i] = pipe[i + 1]
  BY DEF ReadLine, IInv, TypeOK
<1>2. TypeOK' /\ Wired' /\ Teardown' /\ NeverLeaked'
  BY <1>1
     DEF ReadLine, IInv, TypeOK, Wired, Teardown, NeverLeaked, Item, Waiting, callerVars, childVars
<1>3. InFlight'
  <2> SUFFICES ASSUME pc \in Waiting, spoke
               PROVE  \/ \E i \in 1 .. Len(pipe') : pipe'[i] \in Spoken
                      \/ held' \in Spoken
                      \/ \E i \in 1 .. Len(lines) : lines[i] \in Spoken
    BY DEF InFlight, ReadLine, callerVars
  <2>1. ASSUME NEW i \in 1 .. Len(pipe), pipe[i] \in Spoken, i # 1
        PROVE  \E j \in 1 .. Len(pipe') : pipe'[j] \in Spoken
    <3>1. i - 1 \in 1 .. Len(pipe') /\ pipe'[i - 1] = pipe[i]
      BY <1>1, <2>1
    <3> QED
      BY <2>1, <3>1
  <2> QED
    BY <1>1, <2>1 DEF ReadLine, IInv, InFlight
<1>4. EofIsLast' /\ EofMeansSilent'
  BY DEF ReadLine, IInv, EofIsLast, EofMeansSilent, callerVars, childVars
<1> QED
  BY <1>2, <1>3, <1>4 DEF IInv

(* What the thread puts into the queue goes to its end.                        *)
LEMMA QueueGrows ==
  ASSUME lines \in Seq(Item), NEW item \in Item, lines' = Queued(item)
  PROVE  /\ lines' \in Seq(Item) /\ Len(lines) \in Nat
         /\ pc \in Waiting => /\ Len(lines') = Len(lines) + 1
                              /\ lines'[Len(lines')] = item
                              /\ \A i \in 1 .. Len(lines) : lines'[i] = lines[i]
<1>1. CASE pc \in Waiting
  BY <1>1 DEF Queued
<1>2. CASE pc \notin Waiting
  BY <1>2 DEF Queued
<1> QED
  BY <1>1, <1>2

LEMMA PutLineStep ==
  ASSUME IInv, PutLine
  PROVE  IInv'
<1>1. held \in Line /\ held \in Item /\ lines \in Seq(Item) /\ lines' = Queued(held) /\ held # "eof"
  BY DEF PutLine, IInv, Wired, TypeOK, Line, Item
<1>2. /\ lines' \in Seq(Item) /\ Len(lines) \in Nat
      /\ pc \in Waiting => /\ Len(lines') = Len(lines) + 1
                           /\ lines'[Len(lines')] = held
                           /\ \A i \in 1 .. Len(lines) : lines'[i] = lines[i]
  BY <1>1, QueueGrows
<1>3. TypeOK' /\ Wired' /\ Teardown' /\ NeverLeaked'
  BY <1>2
     DEF PutLine, IInv, TypeOK, Wired, Teardown, NeverLeaked, Waiting, callerVars, childVars, pipeVars
<1>4. InFlight'
  <2> SUFFICES ASSUME pc \in Waiting, spoke
               PROVE  \/ \E i \in 1 .. Len(pipe) : pipe[i] \in Spoken
                      \/ \E i \in 1 .. Len(lines') : lines'[i] \in Spoken
    BY DEF InFlight, PutLine, callerVars, pipeVars
  <2>1. Len(lines') \in 1 .. Len(lines') /\ 1 .. Len(lines) \subseteq 1 .. Len(lines')
    BY <1>2
  <2> QED
    BY <1>2, <2>1 DEF PutLine, IInv, InFlight
<1>5. EofIsLast'
  <2>1. ASSUME pc \in Waiting, NEW i \in 1 .. Len(lines') PROVE lines'[i] # "eof"
    <3>1. CASE i = Len(lines')
      BY <1>1, <1>2, <2>1, <3>1
    <3>2. CASE i # Len(lines')
      <4>1. i \in 1 .. Len(lines) /\ lines'[i] = lines[i]
        BY <1>2, <2>1, <3>2
      <4> QED
        BY <2>1, <4>1 DEF PutLine, IInv, EofIsLast
    <3> QED
      BY <3>1, <3>2
  <2> QED
    BY <2>1 DEF PutLine, EofIsLast, callerVars
<1>6. EofMeansSilent'
  BY DEF PutLine, IInv, EofMeansSilent, callerVars, childVars, pipeVars
<1> QED
  BY <1>3, <1>4, <1>5, <1>6 DEF IInv

LEMMA ReadEofStep ==
  ASSUME IInv, ReadEof
  PROVE  IInv'
<1>1. "eof" \in Item /\ lines \in Seq(Item) /\ lines' = Queued("eof")
  BY DEF ReadEof, IInv, TypeOK, Item
<1>2. /\ lines' \in Seq(Item) /\ Len(lines) \in Nat
      /\ pc \in Waiting => /\ Len(lines') = Len(lines) + 1
                           /\ \A i \in 1 .. Len(lines) : lines'[i] = lines[i]
  BY <1>1, QueueGrows
<1>3. TypeOK' /\ Wired' /\ Teardown' /\ NeverLeaked'
  BY <1>2
     DEF ReadEof, IInv, TypeOK, Wired, Teardown, NeverLeaked, Waiting, callerVars, childVars, pipeVars
<1>4. InFlight'
  <2> SUFFICES ASSUME pc \in Waiting, spoke
               PROVE  \E i \in 1 .. Len(lines') : lines'[i] \in Spoken
    BY DEF InFlight, ReadEof, callerVars, pipeVars
  <2>1. PICK i \in 1 .. Len(lines) : lines[i] \in Spoken
    BY DEF ReadEof, IInv, InFlight
  <2> QED
    BY <1>2, <2>1
<1>5. EofIsLast'
  <2>1. ASSUME pc \in Waiting, NEW i \in 1 .. Len(lines'), i # Len(lines')
        PROVE  lines'[i] # "eof"
    <3>1. i \in 1 .. Len(lines) /\ lines'[i] = lines[i]
      BY <1>2, <2>1
    <3> QED
      BY <2>1, <3>1 DEF ReadEof, IInv, EofIsLast
  <2> QED
    BY <2>1 DEF ReadEof, EofIsLast, Writers, callerVars, childVars, pipeVars
<1>6. EofMeansSilent'
  BY DEF ReadEof, IInv, EofMeansSilent, callerVars, childVars, pipeVars
<1> QED
  BY <1>3, <1>4, <1>5, <1>6 DEF IInv

-----------------------------------------------------------------------------
LEMMA StutterStep ==
  ASSUME IInv, UNCHANGED vars
  PROVE  IInv'
BY DEF IInv, TypeOK, Wired, Teardown, NeverLeaked, InFlight, EofIsLast, EofMeansSilent, Writers,
       vars, callerVars, childVars, pipeVars, readerVars

LEMMA StepInv == IInv /\ [Next]_vars => IInv'
<1> SUFFICES ASSUME IInv, [Next]_vars PROVE IInv'
  OBVIOUS
<1>1. CASE Start \/ Check \/ GetEmpty \/ Probe \/ Deadline \/ Interrupt
  BY <1>1, CallerStep
<1>2. CASE Terminate \/ Reaped \/ TermTimeout \/ KillTimeout \/ Close
  BY <1>2, StopStep
<1>3. CASE GetLine
  BY <1>3, GetLineStep
<1>4. CASE \E line \in Line : Write(line)
  BY <1>4, WriteStep
<1>5. CASE Spawn \/ HelperExits \/ ChildExits \/ ChildDies
  BY <1>5, ProcessStep DEF ChildDies
<1>6. CASE ReadLine
  BY <1>6, ReadLineStep
<1>7. CASE PutLine
  BY <1>7, PutLineStep
<1>8. CASE ReadEof
  BY <1>8, ReadEofStep
<1>9. CASE UNCHANGED vars
  BY <1>9, StutterStep
<1> QED
  BY <1>1, <1>2, <1>3, <1>4, <1>5, <1>6, <1>7, <1>8, <1>9 DEF Next, Caller, Reader

(* deploy never leaks its child: stop returns only when the child is gone or   *)
(* has been killed, whatever was raised before it and whatever the child does. *)
THEOREM ChildNeverLeaked == Safety => []NeverLeaked
<1>1. IInv => NeverLeaked
  BY DEF IInv
<1> QED
  BY <1>1, InitInv, StepInv, PTL DEF Safety

(* Type correctness: the caller, the reader thread, the queue and the processes *)
(* stay in the states the code names, and a port is known when it is probed.    *)
THEOREM Types == Safety => []TypeOK
<1>1. IInv => TypeOK
  BY DEF IInv
<1> QED
  BY <1>1, InitInv, StepInv, PTL DEF Safety

(* wait_ready reports an early exit only of a child that never wrote a ready   *)
(* line: no size of pipe or queue loses one.                                   *)
THEOREM NoReadyLineLost == Safety => []EofMeansSilent
<1>1. IInv => EofMeansSilent
  BY DEF IInv
<1> QED
  BY <1>1, InitInv, StepInv, PTL DEF Safety
=============================================================================
