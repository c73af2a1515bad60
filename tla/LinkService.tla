----------------------------- MODULE LinkService -----------------------------
(* examples/linksvc: a threaded HTTP server (server.py) over one SQLite table  *)
(* (storage.py) behind the routes of api.py.  One thread serves a connection   *)
(* and keeps it for the next request; the process is stopped by a signal,      *)
(* killed and started again; clients come, ask and leave when they like.       *)
EXTENDS Naturals, FiniteSets, FiniteSetsExt

CONSTANTS
  Code, Reserved,  \* short codes; those a route of their own shadows
  Url, Key, Conn,
  MaxClicks,       \* bound: clients ask for a link clicked less often
  None

Row == [url : Url, key : Key \cup {None}, expired : BOOLEAN, clicks : Nat]

ASSUME ServiceAssumption ==
  /\ IsFiniteSet(Conn) /\ Reserved \subseteq Code /\ MaxClicks \in Nat
  /\ None \notin Code \cup Url \cup Key /\ None \notin Row

VARIABLES
  db,       \* code -> its row, or None; it outlives the process
  phase,    \* the process
  conn,     \* connection -> where its thread is
  gone,     \* the connections whose client has left
  promised, \* history: the links that 201 answers named
  settled   \* history: code -> redirects answered, or lost with client or process

history == <<promised, settled>>
vars == <<db, phase, conn, gone, history>>

Create == [op : {"create"}, url : Url, alias : Code \cup {None}, key : Key \cup {None}]
Visit == [op : {"visit"}, code : Code]
Request == Create \cup Visit \cup {[op |-> "read"]}
Link == [code : Code, url : Url, key : Key \cup {None}]

Closed == [at |-> "closed"]
Queued == [at |-> "queued"]  \* in the backlog: no thread has it yet
Idle   == [at |-> "idle"]    \* its thread waits for a request
Asked(r) == [at |-> "asked", req |-> r]
Found(r, row) == [at |-> "found", req |-> r, row |-> row]
Plain == [at |-> "answer", status |-> "other"]  \* nothing is promised or counted
Named(link) == [at |-> "answer", status |-> "201", link |-> link]
Sent(code) == [at |-> "answer", status |-> "302", code |-> code]
Asks(c, op) == conn[c].at = "asked" /\ conn[c].req.op = op
Redirects(c, k) == conn[c].at = "answer" /\ conn[c].status = "302" /\ conn[c].code = k

Up == phase \in {"announced", "serving", "stopping", "closing"}

Init ==
  /\ db = [k \in Code |-> None] /\ phase = "down"
  /\ conn = [c \in Conn |-> Closed] /\ gone = Conn
  /\ promised = {} /\ settled = [k \in Code |-> 0]

-----------------------------------------------------------------------------
(* serve: the port is bound and the ready line printed; the table is kept.     *)
Start ==
  /\ phase \in {"down", "exited"}
  /\ phase' = "announced"
  /\ UNCHANGED <<db, conn, gone, history>>

(* The signal handlers are set and serve_forever begins.                       *)
Install ==
  /\ phase = "announced"
  /\ phase' = "serving"
  /\ UNCHANGED <<db, conn, gone, history>>

(* The process is gone; what it had counted is not answered any more.          *)
Die ==
  /\ phase' = "down"
  /\ conn' = [c \in Conn |-> Closed] /\ gone' = Conn
  /\ settled' = [k \in Code |->
       settled[k] + Cardinality({c \in Conn : Redirects(c, k)})]
  /\ UNCHANGED <<db, promised>>

(* SIGTERM has its default effect until its handler is there; the handler      *)
(* calls stop, which acts once.                                                *)
Sigterm ==
  \/ phase = "announced" /\ Die
  \/ phase = "serving" /\ phase' = "stopping" /\ UNCHANGED <<db, conn, gone, history>>

Kill == Up /\ Die

(* serve_forever returns at its next poll and server_close closes the socket:  *)
(* connections in the backlog are reset.                                       *)
LoopEndsNever == FALSE /\ UNCHANGED vars  \* shutdown called in the handler itself
LoopEnds ==
  /\ phase = "stopping"
  /\ phase' = "closing"
  /\ conn' = [c \in Conn |-> IF conn[c] = Queued THEN Closed ELSE conn[c]]
  /\ gone' = gone \cup {c \in Conn : conn[c] = Queued}
  /\ UNCHANGED <<db, history>>

(* block_on_close: the threads are joined, then the store is closed.           *)
JoinedAnyway == TRUE
Joined == \A c \in Conn : conn[c] = Closed
Exit ==
  /\ phase = "closing" /\ Joined
  /\ phase' = "exited"
  /\ UNCHANGED <<db, conn, gone, history>>

-----------------------------------------------------------------------------
(* The clients                                                                 *)
Connect(c) ==
  /\ conn[c] = Closed /\ phase \in {"announced", "serving", "stopping"}
  /\ conn' = [conn EXCEPT ![c] = Queued]
  /\ gone' = gone \ {c}
  /\ UNCHANGED <<db, phase, history>>

Leave(c) ==
  /\ c \notin gone
  /\ gone' = gone \cup {c}
  /\ UNCHANGED <<db, phase, conn, history>>

Ask(c, r) ==
  /\ conn[c] = Idle /\ c \notin gone
  /\ r.op = "visit" /\ db[r.code] # None => db[r.code].clicks < MaxClicks
  /\ conn' = [conn EXCEPT ![c] = Asked(r)]
  /\ UNCHANGED <<db, phase, gone, history>>

(* Time passes for a link that was made with a ttl.                            *)
Expire(k) ==
  /\ db[k] # None /\ ~db[k].expired
  /\ db' = [db EXCEPT ![k].expired = TRUE]
  /\ UNCHANGED <<phase, conn, gone, history>>

-----------------------------------------------------------------------------
(* The thread of a connection                                                  *)
Accept(c) ==
  /\ conn[c] = Queued /\ phase \in {"serving", "stopping"}
  /\ conn' = [conn EXCEPT ![c] = Idle]
  /\ UNCHANGED <<db, phase, gone, history>>

(* The next read of a connection finds its end.                                *)
Drop(c) ==
  /\ conn[c] = Idle /\ c \in gone
  /\ conn' = [conn EXCEPT ![c] = Closed]
  /\ UNCHANGED <<db, phase, gone, history>>

To(c, state) ==
  /\ conn' = [conn EXCEPT ![c] = state]
  /\ UNCHANGED <<phase, gone, history>>

(* _create before the store: 429 from the limiter, 400 or 413 for the payload.  *)
Refuse(c) ==
  /\ Asks(c, "create")
  /\ To(c, Plain)
  /\ UNCHANGED db

(* What handle does not catch (a body that is no UTF-8, a ttl that is no       *)
(* float) ends the thread and the connection without an answer.                *)
Fault(c) ==
  /\ Asks(c, "create")
  /\ conn' = [conn EXCEPT ![c] = Closed] /\ gone' = gone \cup {c}
  /\ UNCHANGED <<db, phase, history>>

(* LinkStore.create, under its lock: the link of the key, or a new row, or a   *)
(* clash.  A drawn code is a free one that no route shadows.                   *)
WithKeyNone(key) == {}
WithKey(key) == {k \in Code : key # None /\ db[k] # None /\ db[k].key = key}
TakenNever(k) == FALSE
Taken(k) == db[k] # None
Drawn == {k \in Code \ Reserved : ~Taken(k)}
LinkOf(k, key) == [code |-> k, url |-> db[k].url, key |-> key]
NewRow(r) == [url |-> r.url, key |-> r.key, expired |-> FALSE, clicks |-> 0]

CreateKnown(c) ==
  /\ Asks(c, "create")
  /\ \E k \in WithKey(conn[c].req.key) : To(c, Named(LinkOf(k, conn[c].req.key)))
  /\ UNCHANGED db

CreateNew(c) ==
  /\ Asks(c, "create")
  /\ LET r == conn[c].req
     IN /\ WithKey(r.key) = {}
        /\ \E k \in IF r.alias = None THEN Drawn ELSE {r.alias} :
             /\ ~Taken(k)
             /\ db' = [db EXCEPT ![k] = NewRow(r)]
             /\ To(c, Named([code |-> k, url |-> r.url, key |-> r.key]))

CreateFails(c) ==
  /\ Asks(c, "create")
  /\ LET r == conn[c].req
     IN /\ WithKey(r.key) = {}
        /\ IF r.alias = None THEN Drawn = {} ELSE Taken(r.alias)
  /\ To(c, Plain)
  /\ UNCHANGED db

(* _redirect: the row is read and judged, then counted in a step of its own.   *)
Look(c) ==
  /\ Asks(c, "visit")
  /\ LET k == conn[c].req.code
     IN To(c, CASE k \in Reserved  -> Plain \* the route of that name
                [] db[k] = None    -> Plain \* 404
                [] db[k].expired   -> Plain \* 410
                [] OTHER           -> Found(conn[c].req, db[k]))
  /\ UNCHANGED db

CountedFromRow(c) == conn[c].row.clicks + 1
Counted(c) == db[conn[c].req.code].clicks + 1
Click(c) ==
  /\ conn[c].at = "found"
  /\ db' = [db EXCEPT ![conn[c].req.code].clicks = Counted(c)]
  /\ To(c, Sent(conn[c].req.code))

(* stats, top, healthz, readyz, metrics and everything that is not found.      *)
Read(c) ==
  /\ Asks(c, "read")
  /\ To(c, Plain)
  /\ UNCHANGED db

(* The answer is written; a broken pipe is swallowed, the next read ends.      *)
Reply(c) ==
  /\ conn[c].at = "answer"
  /\ conn' = [conn EXCEPT ![c] = Idle]
  /\ promised' = IF conn[c].status = "201" /\ c \notin gone
                 THEN promised \cup {conn[c].link} ELSE promised
  /\ settled' = [k \in Code |-> settled[k] + (IF Redirects(c, k) THEN 1 ELSE 0)]
  /\ UNCHANGED <<db, phase, gone>>

-----------------------------------------------------------------------------
Serve(c) ==
  \/ Accept(c) \/ Drop(c) \/ Refuse(c) \/ Fault(c) \/ CreateKnown(c)
  \/ CreateNew(c) \/ CreateFails(c) \/ Look(c) \/ Click(c) \/ Read(c) \/ Reply(c)

Next ==
  \/ Start \/ Install \/ Sigterm \/ Kill \/ LoopEnds \/ Exit
  \/ \E c \in Conn : Connect(c) \/ Leave(c) \/ Serve(c)
  \/ \E c \in Conn : \E r \in Request : Ask(c, r)
  \/ \E k \in Code : Expire(k)

(* The scheduler of the process runs each of its threads, and the stop.        *)
Fairness ==
  /\ WF_vars(LoopEnds) /\ WF_vars(Exit)
  /\ \A c \in Conn : WF_vars(Serve(c))

Spec == Init /\ [][Next]_vars /\ Fairness
-----------------------------------------------------------------------------
State ==
  {Closed, Queued, Idle, Plain} \cup [at : {"asked"}, req : Request]
    \cup [at : {"found"}, req : Visit, row : Row]
    \cup [at : {"answer"}, status : {"201"}, link : Link]
    \cup [at : {"answer"}, status : {"302"}, code : Code]
(* No thread outlives the store it uses: once the process has ended there is   *)
(* no connection, and from the moment the socket is closed none waits for a    *)
(* thread (`serve`, block_on_close).                                           *)
Drained ==
  /\ phase \in {"down", "exited"} => \A c \in Conn : conn[c] = Closed
  /\ phase = "closing" => \A c \in Conn : conn[c] # Queued

(* Types, and with them the life of the threads.                               *)
TypeOK ==
  /\ Drained
  /\ db \in [Code -> Row \cup {None}]
  /\ phase \in {"down", "announced", "serving", "stopping", "closing", "exited"}
  /\ conn \in [Conn -> State] /\ gone \subseteq Conn
  /\ promised \subseteq Link
  /\ settled \in [Code -> Nat]

(* A link named by a 201 answer stays what the answer said, across kills,      *)
(* restarts and whatever other clients create (`LinkStore.create`, WAL).       *)
PromisesKept ==
  \A p \in promised :
    db[p.code] # None /\ db[p.code].url = p.url /\ db[p.code].key = p.key

(* All the answers given to one idempotency key name one link, however often   *)
(* and from however many connections it is sent, before and after a restart.   *)
OneLinkPerKey ==
  \A p, q \in promised : p.key # None /\ p.key = q.key => p = q

(* The clicks of a link are its redirects: those answered, those whose client  *)
(* or process went before the answer, those on their way.  None is lost when   *)
(* threads count at the same time, and a kill loses none (`record_click`).     *)
ClicksExact ==
  \A k \in Code :
    LET sending == {c \in Conn : Redirects(c, k)}
        counted == IF db[k] = None THEN 0 ELSE db[k].clicks
    IN counted = settled[k] + Cardinality(sending)

(* A stop comes to its end when no client stays for ever.                      *)
Ending == phase \in {"stopping", "closing"}
LetGo == \A c \in Conn : []<>(c \in gone)
DrainEnds == LetGo => (Ending ~> ~Ending)

(* C-INTERFACES: "SIGTERM and SIGINT must drain in-flight requests and leave   *)
(* exit status 0".                                                             *)
StopEnds == Ending ~> ~Ending
=============================================================================
