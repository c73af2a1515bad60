----------------------------- MODULE TokenBucket -----------------------------
(* examples/linksvc/linksvc/ratelimit.py: one bucket per key, the least        *)
(* recently used forgotten beyond MaxKeys, shared by the threads of a server.  *)
(* A call reads the clock first and takes the lock afterwards: that is two     *)
(* steps.  Time is counted in ticks and tokens in units, Cost units to the     *)
(* token, so that a bucket can hold a part of one.                             *)
EXTENDS Naturals, Sequences, SequencesExt, FiniteSets

CONSTANTS
  Key, Thread,
  Rate,     \* units a bucket gains in a tick
  Cost,     \* units in a token
  Burst,    \* tokens a bucket holds
  MaxKeys,
  Horizon,  \* bound: the last tick
  None

ASSUME LimiterAssumption ==
  /\ Rate \in Nat \ {0} /\ Cost \in Nat \ {0} /\ Burst \in Nat \ {0}
  /\ MaxKeys \in Nat \ {0} /\ Horizon \in Nat
  /\ None \notin Nat

VARIABLES
  clock,
  call,    \* thread -> the call it is in: its key and its reading of the clock
  bucket,  \* key -> its tokens and the reading they were counted at
  order,   \* the tracked keys, the least recently used first
  born, admitted, rewound,  \* history of a bucket: the reading it began with, the
                            \* tokens it gave, the ticks late writes set it back
  due,     \* history: the reading from which a denied caller was told to return
  since    \* history: key -> the keys used after its last use

history == <<born, admitted, rewound, due, since>>
vars == <<clock, call, bucket, order, history>>

Least(a, b) == IF a <= b THEN a ELSE b
Capacity == Burst * Cost
Empty == [tokens |-> 0, last |-> 0]
Tracked(k) == \E i \in 1..Len(order) : order[i] = k

Init ==
  /\ clock = 0 /\ call = [t \in Thread |-> None]
  /\ bucket = [k \in Key |-> Empty] /\ order = << >>
  /\ born = [k \in Key |-> 0] /\ admitted = [k \in Key |-> 0]
  /\ rewound = [k \in Key |-> 0] /\ due = [k \in Key |-> None]
  /\ since = [k \in Key |-> {}]

Tick ==
  /\ clock < Horizon
  /\ clock' = clock + 1
  /\ UNCHANGED <<call, bucket, order, history>>

-----------------------------------------------------------------------------
(* The refill gains nothing when the reading is older than the bucket's.       *)
Refilled(k, now) ==
  IF ~Tracked(k) THEN Capacity
  ELSE Least(Capacity, bucket[k].tokens
         + (IF now >= bucket[k].last THEN (now - bucket[k].last) * Rate ELSE 0))

(* (1 - tokens) / rate, in whole ticks as the retry-after header rounds it.    *)
WaitShort(tokens) == (Cost - tokens) \div Rate
Wait(tokens) == (Cost - tokens + Rate - 1) \div Rate

(* _remember: the key becomes the most recently used one.                      *)
TouchedKept(k) == IF Tracked(k) THEN order ELSE Append(order, k)
Place(k) == CHOOSE i \in 1..Len(order) : order[i] = k
Without(k) == IF Tracked(k) THEN RemoveAt(order, Place(k)) ELSE order
Touched(k) == Append(Without(k), k)
FittingLate(keys) == IF Len(keys) > MaxKeys + 1 THEN Tail(keys) ELSE keys
Fitting(keys) == IF Len(keys) > MaxKeys THEN Tail(keys) ELSE keys
RememberUnmoved(k, tokens, now) ==
  /\ bucket' = [bucket EXCEPT ![k] = [tokens |-> tokens, last |-> bucket[k].last]]
  /\ order' = Fitting(Touched(k))
Remember(k, tokens, now) ==
  /\ bucket' = [bucket EXCEPT ![k] = [tokens |-> tokens, last |-> now]]
  /\ order' = Fitting(Touched(k))

Record(k, now, given) ==
  /\ born' = IF Tracked(k) THEN born ELSE [born EXCEPT ![k] = now]
  /\ admitted' = [admitted EXCEPT ![k] = (IF Tracked(k) THEN @ ELSE 0) + given]
  /\ rewound' = [rewound EXCEPT ![k] =
       IF ~Tracked(k) THEN 0
       ELSE IF now < bucket[k].last THEN @ + (bucket[k].last - now) ELSE @]
  /\ since' = [o \in Key |-> IF o = k THEN {} ELSE since[o] \cup {k}]

-----------------------------------------------------------------------------
ReadClock(t, k) ==
  /\ call[t] = None
  /\ call' = [call EXCEPT ![t] = [key |-> k, now |-> clock]]
  /\ UNCHANGED <<clock, bucket, order, history>>

Admit(t) ==
  /\ call[t] # None
  /\ LET k == call[t].key
         now == call[t].now
     IN /\ Refilled(k, now) >= Cost
        /\ Remember(k, Refilled(k, now) - Cost, now)
        /\ Record(k, now, 1)
        /\ due' = [due EXCEPT ![k] = None]
  /\ call' = [call EXCEPT ![t] = None]
  /\ UNCHANGED clock

Deny(t) ==
  /\ call[t] # None
  /\ LET k == call[t].key
         now == call[t].now
     IN /\ Refilled(k, now) < Cost
        /\ Remember(k, Refilled(k, now), now)
        /\ Record(k, now, 0)
        /\ due' = [due EXCEPT ![k] = now + Wait(Refilled(k, now))]
  /\ call' = [call EXCEPT ![t] = None]
  /\ UNCHANGED clock

(* reset(key) and reset(): the buckets and what was owed to them are forgotten. *)
Forget(keys, rest) ==
  /\ order' = rest
  /\ due' = [k \in Key |-> IF k \in keys THEN None ELSE due[k]]
  /\ UNCHANGED <<clock, call, bucket, born, admitted, rewound, since>>

ResetKey(k) == Forget({k}, Without(k))
ResetAll == Forget(Key, << >>)

Next ==
  \/ Tick
  \/ \E t \in Thread : (\E k \in Key : ReadClock(t, k)) \/ Admit(t) \/ Deny(t)
  \/ \E k \in Key : ResetKey(k)
  \/ ResetAll

Spec == Init /\ [][Next]_vars

-----------------------------------------------------------------------------
Reading == 0..Horizon
TypeOK ==
  /\ clock \in Reading
  /\ call \in [Thread -> {None} \cup [key : Key, now : Reading]]
  /\ bucket \in [Key -> [tokens : 0..Capacity, last : Reading]]
  /\ order \in Seq(Key) /\ Len(order) <= MaxKeys
  /\ born \in [Key -> Reading] /\ admitted \in [Key -> Nat]
  /\ rewound \in [Key -> Nat] /\ due \in [Key -> {None} \cup Nat]
  /\ since \in [Key -> SUBSET Key]

(* What a bucket holds and has given never exceeds its burst and the refill of *)
(* the time it has counted; the ticks that late threads set it back are        *)
(* counted again, and nothing else is (`allow`).                               *)
TokensAccounted ==
  \A k \in Key : Tracked(k) =>
    bucket[k].tokens + Cost * admitted[k] + Rate * born[k]
      <= Capacity + Rate * (bucket[k].last + rewound[k])

(* A key is forgotten only when MaxKeys other keys have been used since it     *)
(* was: no client loses its bucket, and gains a new burst, before its turn     *)
(* (`_remember`).                                                              *)
Evicted(k) == Tracked(k) /\ ~Tracked(k)' /\ bucket' # bucket
ForgottenInTurn ==
  [][\A k \in Key : Evicted(k) => Cardinality(since'[k]) >= MaxKeys]_vars

(* A caller that was denied and returns with a reading no earlier than the one *)
(* it was told is not denied again unless a token of that key was given in     *)
(* between, whatever other threads wrote late or early (`allow`).              *)
RetryHonoured ==
  [][\A t \in Thread :
       Deny(t) => LET k == call[t].key
                  IN due[k] # None /\ Tracked(k) => call[t].now < due[k]]_vars

(* The class comment: no key is admitted more than its burst and the refill of *)
(* the time that has passed since its bucket began.                            *)
AdmissionBounded ==
  \A k \in Key : Tracked(k) =>
    Cost * admitted[k] <= Capacity + Rate * (clock - born[k])
=============================================================================
