-------------------------- MODULE LinkServiceProofs --------------------------
(* Theorems about LinkService: for any number of connections, codes and keys   *)
(* what an answer promised stays true, a key has one link, and no click is     *)
(* lost or counted twice.                                                      *)
EXTENDS LinkService, FiniteSetTheorems, TLAPS

-----------------------------------------------------------------------------
Kept(p) == db[p.code] # None /\ db[p.code].url = p.url /\ db[p.code].key = p.key
Answers(c) == conn[c].at = "answer" /\ conn[c].status = "201"

(* A thread that is about to answer, or to count, still finds its row.         *)
AnswersTrue == \A c \in Conn : Answers(c) => Kept(conn[c].link)
FoundStays == \A c \in Conn : conn[c].at = "found" => db[conn[c].req.code] # None

(* The unique index on the idempotency key.                                    *)
KeyUnique ==
  \A j, k \in Code :
    db[j] # None /\ db[k] # None /\ db[j].key # None /\ db[j].key = db[k].key => j = k

Sending(k) == {c \in Conn : Redirects(c, k)}
CountOf(k) == IF db[k] = None THEN 0 ELSE db[k].clicks

IInv ==
  TypeOK /\ PromisesKept /\ AnswersTrue /\ FoundStays /\ KeyUnique /\ ClicksExact

-----------------------------------------------------------------------------
LEMMA States ==
  /\ Closed \in State /\ Queued \in State /\ Idle \in State /\ Plain \in State
  /\ \A r \in Request : Asked(r) \in State
  /\ \A r \in Visit, row \in Row : Found(r, row) \in State
  /\ \A p \in Link : Named(p) \in State
  /\ \A k \in Code : Sent(k) \in State
  BY DEF State, Closed, Queued, Idle, Plain, Asked, Found, Named, Sent

LEMMA Fields ==
  ASSUME NEW s \in State
  PROVE  /\ s.at = "asked" => s.req \in Request
         /\ s.at = "found" => s.req \in Visit /\ s.row \in Row
         /\ s.at = "answer" /\ s.status = "201" => s.link \in Link
         /\ s.at = "answer" /\ s.status = "302" => s.code \in Code
  BY DEF State, Closed, Queued, Idle, Plain

LEMMA Requests ==
  ASSUME NEW r \in Request
  PROVE  /\ r.op = "create" => /\ r.url \in Url /\ r.alias \in Code \cup {None}
                               /\ r.key \in Key \cup {None}
         /\ r.op = "visit" => r \in Visit /\ r.code \in Code
  BY DEF Request, Create, Visit

(* ClicksExact in the words of this module.                                    *)
LEMMA ClicksAre ==
  /\ ClicksExact <=> \A k \in Code : CountOf(k) = settled[k] + Cardinality(Sending(k))
  /\ ClicksExact' <=> \A k \in Code : CountOf(k)' = settled'[k] + Cardinality(Sending(k)')
  BY DEF ClicksExact, CountOf, Sending

LEMMA FiniteSending ==
  \A k : IsFiniteSet(Sending(k)) /\ Cardinality(Sending(k)) \in Nat
<1> TAKE k
<1>1. Sending(k) \in SUBSET Conn /\ IsFiniteSet(Conn)
  BY ServiceAssumption DEF Sending
<1>2. IsFiniteSet(Sending(k))
  BY <1>1, FS_Subset
<1> QED
  BY <1>2, FS_CardinalityType

(* A row that is there stays, and stays what it promised.                      *)
KeptNext(p) == db'[p.code] # None /\ db'[p.code].url = p.url /\ db'[p.code].key = p.key
RowsStay ==
  \A k \in Code : db[k] # None =>
    db'[k] # None /\ db'[k].url = db[k].url /\ db'[k].key = db[k].key

(* What a step must show of the thread it moves from conn[c] to s.             *)
Quiet(s) == s.at # "answer" \/ s.status # "302"
Sound(s) ==
  /\ s \in State
  /\ s.at = "answer" /\ s.status = "201" => KeptNext(s.link)
  /\ s.at = "found" => db'[s.req.code] # None
Moves(c, s) ==
  /\ conn' = [conn EXCEPT ![c] = s] /\ phase' = phase /\ gone' \subseteq Conn
  /\ phase \notin {"down", "exited"} /\ (s = Queued => phase # "closing")

LEMMA MovedTypes ==
  ASSUME TypeOK, NEW c \in Conn, NEW s \in State, Moves(c, s)
  PROVE  /\ Drained' /\ phase' \in {"down", "announced", "serving", "stopping", "closing", "exited"}
         /\ conn' \in [Conn -> State] /\ gone' \subseteq Conn
<1>1. conn' = [conn EXCEPT ![c] = s] /\ phase' = phase
  BY DEF Moves
<1>2. Drained'
  <2>1. phase' \notin {"down", "exited"}
    BY DEF Moves
  <2>2. ASSUME phase' = "closing", NEW d \in Conn PROVE conn'[d] # Queued
    BY <1>1, <2>2 DEF Moves, TypeOK, Drained
  <2> QED
    BY <2>1, <2>2 DEF Drained
<1> QED
  BY <1>1, <1>2 DEF TypeOK, Moves

LEMMA MovedThreads ==
  ASSUME TypeOK, AnswersTrue, FoundStays, RowsStay, NEW c \in Conn, NEW s, Sound(s),
         conn' = [conn EXCEPT ![c] = s]
  PROVE  AnswersTrue' /\ FoundStays'
<1>1. conn'[c] = s /\ \A d \in Conn : d # c => conn'[d] = conn[d]
  BY DEF TypeOK
<1>2. AnswersTrue'
  <2> SUFFICES ASSUME NEW d \in Conn, Answers(d)' PROVE KeptNext(conn'[d].link)
    BY DEF AnswersTrue, Kept, KeptNext
  <2>1. CASE d = c
    BY <1>1, <2>1 DEF Sound, Answers
  <2>2. CASE d # c
    <3>1. Answers(d) /\ conn'[d] = conn[d]
      BY <1>1, <2>2 DEF Answers
    <3>2. Kept(conn[d].link) /\ conn[d].link.code \in Code
      BY <3>1, Fields DEF AnswersTrue, Answers, TypeOK, Link
    <3> QED
      BY <3>1, <3>2 DEF Kept, KeptNext, RowsStay
  <2> QED
    BY <2>1, <2>2
<1>3. FoundStays'
  <2> SUFFICES ASSUME NEW d \in Conn, conn'[d].at = "found" PROVE db'[conn'[d].req.code] # None
    BY DEF FoundStays
  <2>1. CASE d = c
    BY <1>1, <2>1 DEF Sound
  <2>2. CASE d # c
    <3>1. conn'[d] = conn[d] /\ conn[d].at = "found"
      BY <1>1, <2>2
    <3>2. conn[d].req \in Visit
      BY <3>1, Fields DEF TypeOK
    <3>3. conn[d].req.code \in Code
      BY <3>2 DEF Visit
    <3> QED
      BY <3>1, <3>3 DEF FoundStays, RowsStay
  <2> QED
    BY <2>1, <2>2
<1> QED
  BY <1>2, <1>3

LEMMA PromisesStay ==
  ASSUME TypeOK, PromisesKept, RowsStay, promised' = promised
  PROVE  PromisesKept'
<1> SUFFICES ASSUME NEW p \in promised
             PROVE  db'[p.code] # None /\ db'[p.code].url = p.url /\ db'[p.code].key = p.key
  BY DEF PromisesKept
<1>1. p.code \in Code
  BY DEF TypeOK, Link
<1> QED
  BY <1>1 DEF PromisesKept, RowsStay

(* Nobody starts or ends a redirect and no row is counted.                     *)
LEMMA ClicksStay ==
  ASSUME ClicksExact, settled' = settled,
         \A c \in Conn, k \in Code : Redirects(c, k)' <=> Redirects(c, k),
         \A k \in Code : CountOf(k)' = CountOf(k)
  PROVE  ClicksExact'
<1>1. \A k \in Code : Sending(k)' = Sending(k)
  BY DEF Sending
<1> QED
  BY <1>1, ClicksAre

LEMMA QuietMove ==
  ASSUME TypeOK, NEW c \in Conn, NEW s, Quiet(conn[c]), Quiet(s),
         conn' = [conn EXCEPT ![c] = s]
  PROVE  \A d \in Conn, k \in Code : Redirects(d, k)' <=> Redirects(d, k)
<1> TAKE d \in Conn, k \in Code
<1>1. CASE d = c
  BY <1>1 DEF TypeOK, Quiet, Redirects
<1>2. CASE d # c
  BY <1>2 DEF TypeOK, Redirects
<1> QED
  BY <1>1, <1>2

(* Every step of a thread, a connection or a client that leaves the table be.  *)
LEMMA MoveInv ==
  ASSUME IInv, NEW c \in Conn, NEW s, Moves(c, s), Sound(s), Quiet(conn[c]), Quiet(s),
         UNCHANGED <<db, history>>
  PROVE  IInv'
<1>0. /\ TypeOK /\ PromisesKept /\ AnswersTrue /\ FoundStays /\ KeyUnique /\ ClicksExact
      /\ db' = db /\ promised' = promised /\ settled' = settled
      /\ conn' = [conn EXCEPT ![c] = s] /\ s \in State
  BY DEF IInv, history, Moves, Sound
<1>1. RowsStay
  BY <1>0 DEF RowsStay
<1>2. TypeOK'
  BY <1>0, MovedTypes DEF TypeOK
<1>3. AnswersTrue' /\ FoundStays'
  BY <1>0, <1>1, MovedThreads
<1>4. PromisesKept'
  BY <1>0, <1>1, PromisesStay
<1>5. ClicksExact'
  <2>1. \A d \in Conn, k \in Code : Redirects(d, k)' <=> Redirects(d, k)
    BY <1>0, QuietMove
  <2>2. \A k \in Code : CountOf(k)' = CountOf(k)
    BY <1>0 DEF CountOf
  <2> QED
    BY <1>0, <2>1, <2>2, ClicksStay
<1>6. KeyUnique'
  BY <1>0 DEF KeyUnique
<1> QED
  BY <1>2, <1>3, <1>4, <1>5, <1>6 DEF IInv

-----------------------------------------------------------------------------
(* The process                                                                 *)
Phases == {"down", "announced", "serving", "stopping", "closing", "exited"}

LEMMA InitInv == Init => IInv
<1> SUFFICES ASSUME Init PROVE IInv
  OBVIOUS
<1>1. TypeOK
  BY States DEF Init, TypeOK, Drained
<1>2. \A c \in Conn : conn[c].at = "closed"
  BY DEF Init, Closed
<1>3. AnswersTrue /\ FoundStays /\ PromisesKept /\ KeyUnique
  BY <1>2 DEF Init, AnswersTrue, FoundStays, PromisesKept, KeyUnique, Answers
<1>4. \A k : Sending(k) = {}
  BY <1>2 DEF Sending, Redirects
<1>5. ClicksExact
  <2>1. \A k \in Code : CountOf(k) = 0 /\ settled[k] = 0
    BY DEF Init, CountOf
  <2>2. Cardinality({}) = 0
    BY FS_EmptySet
  <2> QED
    BY <1>4, <2>1, <2>2, ClicksAre
<1> QED
  BY <1>1, <1>3, <1>5 DEF IInv

LEMMA StillInv ==
  ASSUME IInv, UNCHANGED <<db, conn, history>>, phase' \in Phases, gone' \subseteq Conn, Drained'
  PROVE  IInv'
<1>1. TypeOK' /\ PromisesKept' /\ AnswersTrue' /\ FoundStays' /\ KeyUnique'
  BY DEF IInv, history, TypeOK, Phases, PromisesKept, AnswersTrue, Answers, Kept,
         FoundStays, KeyUnique
<1>2. ClicksExact'
  BY ClicksStay DEF IInv, history, Redirects, CountOf
<1> QED
  BY <1>1, <1>2 DEF IInv

LEMMA StartInv == ASSUME IInv, Start PROVE IInv'
  BY StillInv DEF Start, Phases, Drained, IInv, TypeOK

LEMMA InstallInv == ASSUME IInv, Install PROVE IInv'
  BY StillInv DEF Install, Phases, Drained, IInv, TypeOK

LEMMA ExitInv == ASSUME IInv, Exit PROVE IInv'
<1>1. Drained'
  BY DEF Exit, Joined, Drained
<1> QED
  BY <1>1, StillInv DEF Exit, Phases, IInv, TypeOK

LEMMA LeaveInv == ASSUME IInv, NEW c \in Conn, Leave(c) PROVE IInv'
<1>1. Drained' /\ phase' \in Phases /\ gone' \subseteq Conn
  BY DEF Leave, Drained, Phases, IInv, TypeOK
<1> QED
  BY <1>1, StillInv DEF Leave

LEMMA DieInv == ASSUME IInv, Die PROVE IInv'
<1>1. /\ phase' = "down" /\ conn' = [c \in Conn |-> Closed] /\ gone' = Conn
      /\ settled' = [k \in Code |-> settled[k] + Cardinality(Sending(k))]
      /\ db' = db /\ promised' = promised
  BY DEF Die, Sending
<1>2. \A c \in Conn : conn'[c].at = "closed"
  BY <1>1 DEF Closed
<1>3. TypeOK'
  <2>1. settled' \in [Code -> Nat]
    BY <1>1, FiniteSending DEF IInv, TypeOK
  <2>2. Drained'
    BY <1>1 DEF Drained
  <2> QED
    BY <1>1, <2>1, <2>2, States DEF IInv, TypeOK
<1>4. PromisesKept' /\ KeyUnique'
  BY <1>1 DEF IInv, PromisesKept, KeyUnique
<1>5. AnswersTrue' /\ FoundStays'
  BY <1>2 DEF AnswersTrue, Answers, FoundStays
<1>6. ClicksExact'
  <2>1. \A k \in Code : Sending(k)' = {}
    BY <1>2 DEF Sending, Redirects
  <2>2. \A k \in Code : CountOf(k)' = CountOf(k) /\ settled[k] \in Nat
    BY <1>1 DEF CountOf, IInv, TypeOK
  <2>3. \A k \in Code : CountOf(k) = settled[k] + Cardinality(Sending(k))
    BY ClicksAre DEF IInv
  <2>4. \A k \in Code : settled'[k] = CountOf(k)
    BY <1>1, <2>3
  <2>5. \A k \in Code : settled[k] \in Nat /\ Cardinality(Sending(k)) \in Nat
    BY FiniteSending DEF IInv, TypeOK
  <2>6. \A k \in Code : CountOf(k) \in Nat
    BY <2>3, <2>5
  <2>7. \A k \in Code : CountOf(k)' = settled'[k] + Cardinality(Sending(k)')
    <3> TAKE k \in Code
    <3>1. Cardinality(Sending(k)') = 0
      BY <2>1, FS_EmptySet
    <3> QED
      BY <2>2, <2>4, <2>6, <3>1
  <2> QED
    BY <2>7, ClicksAre
<1> QED
  BY <1>3, <1>4, <1>5, <1>6 DEF IInv

LEMMA SigtermInv == ASSUME IInv, Sigterm PROVE IInv'
<1>1. CASE phase = "announced" /\ Die
  BY <1>1, DieInv
<1>2. CASE phase = "serving" /\ phase' = "stopping" /\ UNCHANGED <<db, conn, gone, history>>
  BY <1>2, StillInv DEF Phases, Drained, IInv, TypeOK
<1> QED
  BY <1>1, <1>2 DEF Sigterm

LEMMA LoopEndsInv == ASSUME IInv, LoopEnds PROVE IInv'
<1>1. /\ phase' = "closing" /\ db' = db /\ promised' = promised /\ settled' = settled
      /\ conn' = [c \in Conn |-> IF conn[c] = Queued THEN Closed ELSE conn[c]]
      /\ gone' \subseteq Conn
  BY DEF LoopEnds, history, IInv, TypeOK
<1>2. \A c \in Conn : \/ conn'[c] = conn[c]
                      \/ conn[c].at = "queued" /\ conn'[c].at = "closed"
  BY <1>1 DEF Queued, Closed
<1>3. Drained'
  BY <1>1 DEF Drained, Queued, Closed
<1>4. TypeOK'
  BY <1>1, <1>3, States DEF IInv, TypeOK
<1>5. PromisesKept' /\ KeyUnique'
  BY <1>1 DEF IInv, PromisesKept, KeyUnique
<1>6. AnswersTrue' /\ FoundStays'
  BY <1>1, <1>2 DEF IInv, AnswersTrue, Answers, FoundStays, Kept
<1>7. ClicksExact'
  <2>1. \A c \in Conn, k \in Code : Redirects(c, k)' <=> Redirects(c, k)
    BY <1>2 DEF Redirects
  <2>2. \A k \in Code : CountOf(k)' = CountOf(k)
    BY <1>1 DEF CountOf
  <2> QED
    BY <1>1, <2>1, <2>2, ClicksStay DEF IInv
<1> QED
  BY <1>4, <1>5, <1>6, <1>7 DEF IInv

LEMMA ExpireInv == ASSUME IInv, NEW k \in Code, Expire(k) PROVE IInv'
<1>1. /\ db[k] # None /\ db' = [db EXCEPT ![k].expired = TRUE]
      /\ UNCHANGED <<phase, conn, gone, promised, settled>>
  BY DEF Expire, history
<1>2. db[k] \in Row /\ None \notin Row
  BY <1>1, ServiceAssumption DEF IInv, TypeOK
<1>3. /\ db'[k] \in Row /\ db'[k].url = db[k].url /\ db'[k].key = db[k].key
      /\ db'[k].clicks = db[k].clicks
  BY <1>1, <1>2 DEF Row, IInv, TypeOK
<1>4. \A j \in Code : j # k => db'[j] = db[j]
  BY <1>1 DEF IInv, TypeOK
<1>5. db'[k] # None
  BY <1>2, <1>3
<1>6. RowsStay
  BY <1>3, <1>4, <1>5 DEF RowsStay
<1>7. TypeOK'
  <2>1. db' \in [Code -> Row \cup {None}]
    BY <1>1, <1>3 DEF IInv, TypeOK
  <2> QED
    BY <1>1, <2>1 DEF IInv, TypeOK, Drained
<1>8. PromisesKept'
  BY <1>1, <1>6, PromisesStay DEF IInv
<1>9. KeyUnique'
  BY <1>1, <1>3, <1>4 DEF IInv, KeyUnique
<1>10. AnswersTrue' /\ FoundStays'
  <2>1. \A c \in Conn : /\ Answers(c) => conn[c].link.code \in Code
                        /\ conn[c].at = "found" => conn[c].req.code \in Code
    BY Fields DEF IInv, TypeOK, Answers, Link, Visit
  <2> QED
    BY <1>1, <1>6, <2>1 DEF IInv, RowsStay, AnswersTrue, Answers, FoundStays, Kept
<1>11. ClicksExact'
  <2>1. \A j \in Code : CountOf(j)' = CountOf(j)
    BY <1>1, <1>3, <1>4, <1>5 DEF CountOf
  <2>2. \A c \in Conn, j \in Code : Redirects(c, j)' <=> Redirects(c, j)
    BY <1>1 DEF Redirects
  <2> QED
    BY <1>1, <2>1, <2>2, ClicksStay DEF IInv
<1> QED
  BY <1>7, <1>8, <1>9, <1>10, <1>11 DEF IInv

-----------------------------------------------------------------------------
(* The threads                                                                 *)
LEMMA ThreadUp ==
  ASSUME TypeOK, NEW c \in Conn, conn[c] # Closed
  PROVE  phase \notin {"down", "exited"}
  BY DEF TypeOK, Drained

LEMMA Places ==
  ASSUME TypeOK, NEW c \in Conn
  PROVE  /\ conn[c].at # "closed" => phase \notin {"down", "exited"}
         /\ conn[c].at = "asked" => conn[c].req \in Request
         /\ conn[c].at # "answer" => Quiet(conn[c])
  BY ThreadUp, Fields DEF TypeOK, Closed, Quiet

(* A thread that answers without a promise, ends, or waits.                    *)
LEMMA PlainStates ==
  /\ Quiet(Closed) /\ Quiet(Queued) /\ Quiet(Idle) /\ Quiet(Plain)
  /\ Sound(Closed) /\ Sound(Queued) /\ Sound(Idle) /\ Sound(Plain)
  /\ Closed # Queued /\ Idle # Queued /\ Plain # Queued
  BY States DEF Quiet, Sound, Closed, Queued, Idle, Plain

LEMMA PlainInv ==
  ASSUME IInv, NEW c \in Conn, NEW s \in {Closed, Idle, Plain},
         conn[c].at \notin {"closed", "answer"},
         conn' = [conn EXCEPT ![c] = s], gone' \subseteq Conn,
         UNCHANGED <<db, phase, history>>
  PROVE  IInv'
<1>1. phase \notin {"down", "exited"} /\ Quiet(conn[c])
  BY Places DEF IInv
<1>2. Moves(c, s) /\ Sound(s) /\ Quiet(s)
  BY <1>1, PlainStates DEF Moves
<1> QED
  BY <1>1, <1>2, MoveInv

LEMMA ConnectInv == ASSUME IInv, NEW c \in Conn, Connect(c) PROVE IInv'
<1>1. Moves(c, Queued) /\ Quiet(conn[c])
  BY DEF Connect, Moves, IInv, TypeOK, Quiet, Closed
<1> QED
  BY <1>1, PlainStates, MoveInv DEF Connect

LEMMA AskInv == ASSUME IInv, NEW c \in Conn, NEW r \in Request, Ask(c, r) PROVE IInv'
<1>1. conn[c].at = "idle" /\ conn' = [conn EXCEPT ![c] = Asked(r)]
  BY DEF Ask, Idle
<1>2. Asked(r) # Queued /\ Quiet(Asked(r)) /\ Sound(Asked(r))
  BY States DEF Asked, Queued, Quiet, Sound
<1>3. Moves(c, Asked(r)) /\ Quiet(conn[c])
  BY <1>1, <1>2, Places DEF Moves, Ask, IInv, TypeOK
<1> QED
  BY <1>2, <1>3, MoveInv DEF Ask

LEMMA WaitingInv ==
  ASSUME IInv, NEW c \in Conn, Accept(c) \/ Drop(c) \/ Refuse(c) \/ Fault(c) \/ Read(c) \/ CreateFails(c)
  PROVE  IInv'
<1>1. conn[c].at \notin {"closed", "answer"}
  BY DEF Accept, Drop, Refuse, Fault, Read, CreateFails, Asks, Queued, Idle
<1>2. \E s \in {Closed, Idle, Plain} : conn' = [conn EXCEPT ![c] = s]
  BY DEF Accept, Drop, Refuse, Fault, Read, CreateFails, To
<1>3. gone' \subseteq Conn /\ UNCHANGED <<db, phase, history>>
  BY DEF Accept, Drop, Refuse, Fault, Read, CreateFails, To, IInv, TypeOK
<1> QED
  BY <1>1, <1>2, <1>3, PlainInv

LEMMA CreateKnownInv == ASSUME IInv, NEW c \in Conn, CreateKnown(c) PROVE IInv'
<1> DEFINE r == conn[c].req
<1>1. conn[c].at = "asked" /\ r.op = "create" /\ TypeOK
  BY DEF CreateKnown, Asks, IInv
<1>2. r \in Request /\ r.key \in Key \cup {None} /\ Quiet(conn[c])
  BY <1>1, Places, Requests
<1>3. PICK k \in WithKey(r.key) : To(c, Named(LinkOf(k, r.key)))
  BY DEF CreateKnown
<1>4. k \in Code /\ db[k] # None /\ db[k].key = r.key /\ db[k] \in Row
  BY <1>1, <1>3 DEF WithKey, TypeOK
<1> DEFINE link == LinkOf(k, r.key)
<1>5. link.code = k /\ link.url = db[k].url /\ link.key = r.key /\ link \in Link
  BY <1>2, <1>4 DEF LinkOf, Link, Row
<1> HIDE DEF link
<1>6. db' = db
  BY DEF CreateKnown
<1>7. KeptNext(link)
  BY <1>4, <1>5, <1>6 DEF KeptNext
<1>8. /\ Named(link).at = "answer" /\ Named(link).status = "201"
      /\ Named(link).link = link /\ Named(link) \in State
  BY <1>5, States DEF Named
<1>9. Sound(Named(link)) /\ Quiet(Named(link)) /\ Named(link) # Queued
  BY <1>7, <1>8 DEF Sound, Quiet, Queued
<1>10. Moves(c, Named(link))
  BY <1>1, <1>3, <1>9, Places DEF To, Moves, link, TypeOK
<1> QED
  BY <1>2, <1>3, <1>6, <1>9, <1>10, MoveInv DEF To

LEMMA LookInv == ASSUME IInv, NEW c \in Conn, Look(c) PROVE IInv'
<1> DEFINE r == conn[c].req
           k == r.code
<1>1. conn[c].at = "asked" /\ r.op = "visit" /\ TypeOK /\ db' = db
  BY DEF Look, Asks, IInv
<1>2. r \in Visit /\ k \in Code /\ Quiet(conn[c])
  BY <1>1, Places, Requests
<1>3. \/ To(c, Plain)
      \/ db[k] # None /\ To(c, Found(r, db[k]))
  BY DEF Look
<1>4. CASE To(c, Plain)
  BY <1>1, <1>4, PlainInv DEF To, IInv, TypeOK
<1>5. CASE db[k] # None /\ To(c, Found(r, db[k]))
  <2> DEFINE s == Found(r, db[k])
  <2>1. db[k] \in Row
    BY <1>1, <1>2, <1>5 DEF TypeOK
  <2>2. s \in State /\ s.at = "found" /\ s.req = r
    BY <1>2, <2>1, States DEF Found
  <2>3. To(c, s)
    BY <1>5
  <2> HIDE DEF s
  <2>4. Sound(s) /\ Quiet(s) /\ s # Queued
    BY <1>1, <1>5, <2>2 DEF Sound, Quiet, Queued
  <2>5. Moves(c, s)
    BY <1>1, <2>3, <2>4, Places DEF To, Moves, TypeOK
  <2> QED
    BY <1>1, <1>2, <2>3, <2>4, <2>5, MoveInv DEF To
<1> QED
  BY <1>3, <1>4, <1>5

LEMMA CreateNewInv == ASSUME IInv, NEW c \in Conn, CreateNew(c) PROVE IInv'
<1> DEFINE r == conn[c].req
           row == NewRow(r)
<1>0. /\ TypeOK /\ PromisesKept /\ AnswersTrue /\ FoundStays /\ KeyUnique /\ ClicksExact
      /\ None \notin Row /\ None \notin Code
  BY ServiceAssumption DEF IInv
<1>1. conn[c].at = "asked" /\ r.op = "create" /\ WithKey(r.key) = {}
  BY DEF CreateNew, Asks
<1>2. /\ r.url \in Url /\ r.alias \in Code \cup {None} /\ r.key \in Key \cup {None}
      /\ Quiet(conn[c]) /\ phase \notin {"down", "exited"}
  BY <1>0, <1>1, Places, Requests
<1>3. PICK k \in IF r.alias = None THEN Drawn ELSE {r.alias} :
        /\ ~Taken(k) /\ db' = [db EXCEPT ![k] = row]
        /\ To(c, Named([code |-> k, url |-> r.url, key |-> r.key]))
  BY DEF CreateNew
<1> DEFINE link == [code |-> k, url |-> r.url, key |-> r.key]
<1>4. k \in Code /\ db[k] = None
  BY <1>2, <1>3 DEF Taken, Drawn
<1>5. row \in Row /\ row.url = r.url /\ row.key = r.key /\ row.clicks = 0
  BY <1>2 DEF NewRow, Row
<1> HIDE DEF row
<1>6. row # None /\ db'[k] = row /\ \A j \in Code : j # k => db'[j] = db[j]
  BY <1>0, <1>3, <1>4, <1>5 DEF TypeOK
<1>7. RowsStay
  BY <1>4, <1>6 DEF RowsStay
<1>8. link.code = k /\ link.url = r.url /\ link.key = r.key /\ link \in Link
  BY <1>2, <1>4 DEF Link
<1>9. conn' = [conn EXCEPT ![c] = Named(link)] /\ UNCHANGED <<phase, gone, promised, settled>>
  BY <1>3 DEF To, history
<1> HIDE DEF link
<1>10. KeptNext(link)
  BY <1>5, <1>6, <1>8 DEF KeptNext
<1>11. /\ Named(link) \in State /\ Named(link).at = "answer" /\ Named(link).status = "201"
       /\ Named(link).link = link
  BY <1>8, States DEF Named
<1>12. Sound(Named(link)) /\ Quiet(Named(link)) /\ Named(link) # Queued
  BY <1>10, <1>11 DEF Sound, Quiet, Queued
<1>13. Moves(c, Named(link))
  BY <1>0, <1>2, <1>9, <1>12 DEF Moves, TypeOK
<1>14. TypeOK'
  <2>1. /\ Drained' /\ phase' \in Phases /\ conn' \in [Conn -> State] /\ gone' \subseteq Conn
    BY <1>0, <1>11, <1>13, MovedTypes DEF Phases
  <2>2. db' \in [Code -> Row \cup {None}]
    BY <1>0, <1>3, <1>5 DEF TypeOK
  <2> QED
    BY <1>0, <1>9, <2>1, <2>2 DEF TypeOK, Phases
<1>15. AnswersTrue' /\ FoundStays'
  BY <1>0, <1>7, <1>9, <1>12, MovedThreads
<1>16. PromisesKept'
  BY <1>0, <1>7, <1>9, PromisesStay
<1>17. KeyUnique'
  <2> SUFFICES ASSUME NEW i \in Code, NEW j \in Code, db'[i] # None, db'[j] # None,
                      db'[i].key # None, db'[i].key = db'[j].key
               PROVE  i = j
    BY DEF KeyUnique
  <2>1. \A n \in Code : db[n] # None /\ r.key # None => db[n].key # r.key
    BY <1>1 DEF WithKey
  <2>2. CASE i # k /\ j # k
    BY <1>0, <1>6, <2>2 DEF KeyUnique
  <2>3. CASE i = k /\ j # k
    BY <1>5, <1>6, <2>1, <2>3
  <2>4. CASE i # k /\ j = k
    BY <1>5, <1>6, <2>1, <2>4
  <2> QED
    BY <2>2, <2>3, <2>4
<1>18. ClicksExact'
  <2>1. \A d \in Conn, j \in Code : Redirects(d, j)' <=> Redirects(d, j)
    BY <1>0, <1>2, <1>9, <1>12, QuietMove
  <2>2. \A j \in Code : CountOf(j)' = CountOf(j)
    BY <1>4, <1>5, <1>6 DEF CountOf
  <2> QED
    BY <1>0, <1>9, <2>1, <2>2, ClicksStay
<1> QED
  BY <1>14, <1>15, <1>16, <1>17, <1>18 DEF IInv

LEMMA ClickInv == ASSUME IInv, NEW c \in Conn, Click(c) PROVE IInv'
<1> DEFINE k == conn[c].req.code
           row == [db[k] EXCEPT !.clicks = Counted(c)]
<1>0. /\ TypeOK /\ PromisesKept /\ AnswersTrue /\ FoundStays /\ KeyUnique /\ ClicksExact
      /\ None \notin Row
  BY ServiceAssumption DEF IInv
<1>1. /\ conn[c].at = "found" /\ db' = [db EXCEPT ![k].clicks = Counted(c)]
      /\ conn' = [conn EXCEPT ![c] = Sent(k)] /\ UNCHANGED <<phase, gone, promised, settled>>
  BY DEF Click, To, history
<1>2. k \in Code /\ db[k] # None
  <2>1. conn[c].req \in Visit
    BY <1>0, <1>1, Fields DEF TypeOK
  <2> QED
    BY <1>0, <1>1, <2>1 DEF Visit, FoundStays
<1>3. db[k] \in Row /\ db[k].clicks \in Nat
  BY <1>0, <1>2 DEF TypeOK, Row
<1>4. /\ row \in Row /\ row.url = db[k].url /\ row.key = db[k].key
      /\ row.clicks = db[k].clicks + 1
  BY <1>3 DEF Row, Counted
<1>5. db'[k] = row /\ \A j \in Code : j # k => db'[j] = db[j]
  BY <1>0, <1>1, <1>2 DEF TypeOK
<1>6. db' \in [Code -> Row \cup {None}]
  BY <1>0, <1>1, <1>4 DEF TypeOK
<1> HIDE DEF row
<1>7. row # None
  BY <1>0, <1>4
<1>8. RowsStay
  BY <1>4, <1>5, <1>7 DEF RowsStay
<1>9. /\ Sent(k) \in State /\ Sent(k).at = "answer" /\ Sent(k).status = "302"
      /\ Sent(k).code = k
  BY <1>2, States DEF Sent
<1> HIDE DEF k
<1>10. Sound(Sent(k)) /\ Sent(k) # Queued
  BY <1>9 DEF Sound, Queued
<1>11. phase \notin {"down", "exited"}
  BY <1>0, <1>1, Places
<1>12. Moves(c, Sent(k))
  BY <1>0, <1>1, <1>10, <1>11 DEF Moves, TypeOK
<1>13. TypeOK'
  <2>1. /\ Drained' /\ phase' \in Phases /\ conn' \in [Conn -> State] /\ gone' \subseteq Conn
    BY <1>0, <1>9, <1>12, MovedTypes DEF Phases
  <2> QED
    BY <1>0, <1>1, <1>6, <2>1 DEF TypeOK, Phases
<1>14. AnswersTrue' /\ FoundStays'
  BY <1>0, <1>1, <1>8, <1>10, MovedThreads
<1>15. PromisesKept'
  BY <1>0, <1>1, <1>8, PromisesStay
<1>16. KeyUnique'
  BY <1>0, <1>2, <1>4, <1>5 DEF KeyUnique
<1>17. ClicksExact'
  <2>1. PICK n \in Code : n = k
    BY <1>2
  <2>2. conn'[c] = Sent(n) /\ \A d \in Conn : d # c => conn'[d] = conn[d]
    BY <1>0, <1>1, <2>1 DEF TypeOK
  <2>3. /\ Sent(n).at = "answer" /\ Sent(n).status = "302" /\ Sent(n).code = n
    BY <1>9, <2>1
  <2>4. c \notin Sending(n) /\ Sending(n)' = Sending(n) \cup {c}
    BY <1>1, <2>2, <2>3 DEF Sending, Redirects
  <2>5. \A j \in Code : j # n => Sending(j)' = Sending(j)
    BY <1>1, <2>2, <2>3 DEF Sending, Redirects
  <2>6. Cardinality(Sending(n) \cup {c}) = Cardinality(Sending(n)) + 1
    BY <2>4, FiniteSending, FS_AddElement
  <2>7. \A j \in Code : CountOf(j) = settled[j] + Cardinality(Sending(j))
    BY <1>0, ClicksAre
  <2>8. CountOf(n)' = CountOf(n) + 1 /\ \A j \in Code : j # n => CountOf(j)' = CountOf(j)
    BY <1>2, <1>4, <1>5, <1>7, <2>1 DEF CountOf
  <2>9. \A j \in Code : settled'[j] = settled[j] /\ settled[j] \in Nat
    BY <1>0, <1>1 DEF TypeOK
  <2>10. \A j \in Code : CountOf(j)' = settled'[j] + Cardinality(Sending(j)')
    <3> TAKE j \in Code
    <3>1. Cardinality(Sending(j)) \in Nat
      BY FiniteSending
    <3>2. CASE j = n
      <4>1. Cardinality(Sending(n)') = Cardinality(Sending(n)) + 1
        BY <2>4, <2>6
      <4>2. CountOf(n)' = settled'[n] + Cardinality(Sending(n)')
        BY <2>7, <2>8, <2>9, <3>1, <3>2, <4>1
      <4> QED
        BY <3>2, <4>2
    <3>3. CASE j # n
      BY <2>5, <2>7, <2>8, <2>9, <3>3
    <3> QED
      BY <3>2, <3>3
  <2> QED
    BY <2>10, ClicksAre
<1> QED
  BY <1>13, <1>14, <1>15, <1>16, <1>17 DEF IInv

LEMMA ReplyInv == ASSUME IInv, NEW c \in Conn, Reply(c) PROVE IInv'
<1>0. /\ TypeOK /\ PromisesKept /\ AnswersTrue /\ FoundStays /\ KeyUnique /\ ClicksExact
  BY DEF IInv
<1>1. /\ conn[c].at = "answer" /\ conn' = [conn EXCEPT ![c] = Idle]
      /\ promised' = IF conn[c].status = "201" /\ c \notin gone
                     THEN promised \cup {conn[c].link} ELSE promised
      /\ settled' = [k \in Code |-> settled[k] + (IF Redirects(c, k) THEN 1 ELSE 0)]
      /\ UNCHANGED <<db, phase, gone>>
  BY DEF Reply
<1>2. Moves(c, Idle)
  BY <1>0, <1>1, Places, PlainStates DEF Moves, TypeOK
<1>3. RowsStay
  BY <1>1 DEF RowsStay
<1>4. TypeOK'
  <2>1. /\ Drained' /\ phase' \in Phases /\ conn' \in [Conn -> State] /\ gone' \subseteq Conn
    BY <1>0, <1>2, States, MovedTypes DEF Phases
  <2>2. promised' \subseteq Link
    BY <1>0, <1>1, Fields DEF TypeOK
  <2>3. settled' \in [Code -> Nat]
    BY <1>0, <1>1 DEF TypeOK
  <2> QED
    BY <1>0, <1>1, <2>1, <2>2, <2>3 DEF TypeOK, Phases
<1>5. AnswersTrue' /\ FoundStays'
  BY <1>0, <1>1, <1>3, PlainStates, MovedThreads
<1>6. PromisesKept'
  <2> SUFFICES ASSUME NEW p \in promised' PROVE Kept(p)
    BY <1>1 DEF PromisesKept, Kept
  <2>1. CASE p \in promised
    BY <1>0, <2>1 DEF PromisesKept, Kept
  <2>2. CASE p \notin promised
    BY <1>0, <1>1, <2>2 DEF AnswersTrue, Answers
  <2> QED
    BY <2>1, <2>2
<1>7. KeyUnique'
  BY <1>0, <1>1 DEF KeyUnique
<1>8. ClicksExact'
  <2>1. conn'[c].at = "idle" /\ \A d \in Conn : d # c => conn'[d] = conn[d]
    BY <1>0, <1>1 DEF TypeOK, Idle
  <2>2. \A k : Sending(k)' = Sending(k) \ {c}
    BY <2>1 DEF Sending, Redirects
  <2>3. \A k \in Code : CountOf(k) = settled[k] + Cardinality(Sending(k)) /\ CountOf(k)' = CountOf(k)
    BY <1>0, <1>1, ClicksAre DEF CountOf
  <2>4. \A k \in Code : CountOf(k)' = settled'[k] + Cardinality(Sending(k)')
    <3> TAKE k \in Code
    <3>1. /\ IsFiniteSet(Sending(k)) /\ Cardinality(Sending(k)) \in Nat
          /\ settled[k] \in Nat
      BY <1>0, FiniteSending DEF TypeOK
    <3>2. CASE Redirects(c, k)
      <4>1. c \in Sending(k)
        BY <3>2 DEF Sending
      <4>2. Cardinality(Sending(k) \ {c}) = Cardinality(Sending(k)) - 1
        BY <3>1, <4>1, FS_RemoveElement
      <4>3. settled'[k] = settled[k] + 1
        BY <1>1, <3>2
      <4>4. Cardinality(Sending(k)') = Cardinality(Sending(k)) - 1
        BY <2>2, <4>2
      <4> QED
        BY <2>3, <3>1, <4>3, <4>4
    <3>3. CASE ~Redirects(c, k)
      <4>1. Sending(k) \ {c} = Sending(k)
        BY <3>3 DEF Sending
      <4>2. settled'[k] = settled[k] + 0
        BY <1>1, <3>3
      <4>3. Cardinality(Sending(k)') = Cardinality(Sending(k))
        BY <2>2, <4>1
      <4> QED
        BY <2>3, <3>1, <4>2, <4>3
    <3> QED
      BY <3>2, <3>3
  <2> QED
    BY <2>4, ClicksAre
<1> QED
  BY <1>4, <1>5, <1>6, <1>7, <1>8 DEF IInv

LEMMA NextInv == IInv /\ [Next]_vars => IInv'
<1> SUFFICES ASSUME IInv, [Next]_vars PROVE IInv'
  OBVIOUS
<1>1. CASE Start \/ Install \/ Sigterm \/ Kill \/ LoopEnds \/ Exit
  BY <1>1, StartInv, InstallInv, SigtermInv, DieInv, LoopEndsInv, ExitInv DEF Kill
<1>2. ASSUME NEW c \in Conn, Connect(c) \/ Leave(c) PROVE IInv'
  BY <1>2, ConnectInv, LeaveInv
<1>3. ASSUME NEW c \in Conn, Serve(c) PROVE IInv'
  BY <1>3, WaitingInv, CreateKnownInv, CreateNewInv, LookInv, ClickInv, ReplyInv DEF Serve
<1>4. ASSUME NEW c \in Conn, NEW r \in Request, Ask(c, r) PROVE IInv'
  BY <1>4, AskInv
<1>5. ASSUME NEW k \in Code, Expire(k) PROVE IInv'
  BY <1>5, ExpireInv
<1>6. CASE UNCHANGED vars
  <2>1. Drained'
    BY <1>6 DEF vars, IInv, TypeOK, Drained
  <2> QED
    BY <1>6, <2>1, StillInv DEF vars, IInv, TypeOK, Phases
<1> QED
  BY <1>1, <1>2, <1>3, <1>4, <1>5, <1>6 DEF Next

LEMMA Invariant == Spec => []IInv
<1>1. Init => IInv
  BY InitInv
<1>2. IInv /\ [Next]_vars => IInv'
  BY NextInv
<1> QED
  BY <1>1, <1>2, PTL DEF Spec

-----------------------------------------------------------------------------
(* No thread outlives the process and the store, whatever the number of        *)
(* connections (`serve`, block_on_close).                                      *)
THEOREM Types == Spec => []TypeOK
<1>1. IInv => TypeOK
  BY DEF IInv
<1> QED
  BY <1>1, Invariant, PTL

(* What a 201 answer named is there for ever (`LinkStore.create`).             *)
THEOREM Promises == Spec => []PromisesKept
<1>1. IInv => PromisesKept
  BY DEF IInv
<1> QED
  BY <1>1, Invariant, PTL

(* Two answers to one key name the same link (`LinkStore.create`).             *)
THEOREM OneLink == Spec => []OneLinkPerKey
<1>1. IInv => OneLinkPerKey
  <2> SUFFICES ASSUME IInv, NEW p \in promised, NEW q \in promised,
                      p.key # None, p.key = q.key
               PROVE  p = q
    BY DEF OneLinkPerKey
  <2>1. p \in Link /\ q \in Link
    BY DEF IInv, TypeOK
  <2>2. /\ p.code \in Code /\ db[p.code] # None
        /\ db[p.code].url = p.url /\ db[p.code].key = p.key
        /\ q.code \in Code /\ db[q.code] # None
        /\ db[q.code].url = q.url /\ db[q.code].key = q.key
    BY <2>1 DEF IInv, PromisesKept, Link
  <2>3. p.code = q.code
    BY <2>2 DEF IInv, KeyUnique
  <2> QED
    BY <2>1, <2>2, <2>3 DEF Link
<1> QED
  BY <1>1, Invariant, PTL

(* Every redirect is counted once, and only redirects are (`record_click`).    *)
THEOREM Clicks == Spec => []ClicksExact
<1>1. IInv => ClicksExact
  BY DEF IInv
<1> QED
  BY <1>1, Invariant, PTL
=============================================================================
