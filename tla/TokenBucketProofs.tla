-------------------------- MODULE TokenBucketProofs --------------------------
(* Theorems about TokenBucket: for every rate, burst, table size and number of *)
(* threads the tokens are accounted for, a key is forgotten in turn, and the   *)
(* wait a denied caller is told is long enough.                                *)
EXTENDS TokenBucket, SequenceTheorems, FiniteSetTheorems, TLAPS

-----------------------------------------------------------------------------
(* The table                                                                   *)
OnlyOnce == \A i, j \in 1..Len(order) : order[i] = order[j] => i = j

(* The keys behind a key in the table have been used after it.                 *)
UsedSince ==
  /\ \A k \in Key : IsFiniteSet(since[k])
  /\ \A i, j \in 1..Len(order) : i < j => order[j] \in since[order[i]]

(* Every denial leaves a debt that its wait pays.                              *)
WaitPays ==
  \A k \in Key : Tracked(k) /\ due[k] # None =>
    due[k] >= bucket[k].last
      /\ bucket[k].tokens + Rate * (due[k] - bucket[k].last) >= Cost

IInv == TypeOK /\ OnlyOnce /\ UsedSince /\ WaitPays /\ TokensAccounted

LEMMA Removed ==
  ASSUME NEW s \in Seq(Key), NEW i \in 1..Len(s)
  PROVE  /\ RemoveAt(s, i) \in Seq(Key)
         /\ Len(RemoveAt(s, i)) = Len(s) - 1
         /\ \A j \in 1..Len(s) - 1 : RemoveAt(s, i)[j] = s[IF j < i THEN j ELSE j + 1]
<1>0. Len(s) \in Nat /\ i \in Int /\ \A j \in 1..Len(s) : s[j] \in Key
  BY LenProperties
<1> DEFINE front == SubSeq(s, 1, i - 1)
           back == SubSeq(s, i + 1, Len(s))
<1>1. front \in Seq(Key) /\ Len(front) = i - 1 /\ \A j \in 1..i - 1 : front[j] = s[j]
  <2>1. \A j \in 1..i - 1 : s[j] \in Key
    BY <1>0
  <2>2. /\ front \in Seq(Key)
        /\ Len(front) = IF 1 <= i - 1 THEN (i - 1) - 1 + 1 ELSE 0
        /\ \A j \in 1..(i - 1) - 1 + 1 : front[j] = s[1 + j - 1]
    BY <1>0, <2>1, SubSeqProperties
  <2> QED
    BY <1>0, <2>2
<1>2. /\ back \in Seq(Key) /\ Len(back) = Len(s) - i
      /\ \A j \in 1..Len(s) - i : back[j] = s[i + j]
  <2>1. \A j \in i + 1..Len(s) : s[j] \in Key
    BY <1>0
  <2>2. /\ back \in Seq(Key)
        /\ Len(back) = IF i + 1 <= Len(s) THEN Len(s) - (i + 1) + 1 ELSE 0
        /\ \A j \in 1..Len(s) - (i + 1) + 1 : back[j] = s[i + 1 + j - 1]
    BY <1>0, <2>1, SubSeqProperties
  <2> QED
    BY <1>0, <2>2
<1>3. /\ front \o back \in Seq(Key)
      /\ Len(front \o back) = Len(front) + Len(back)
      /\ \A j \in 1..Len(front) + Len(back) :
           (front \o back)[j] = IF j <= Len(front) THEN front[j] ELSE back[j - Len(front)]
  BY <1>1, <1>2, ConcatProperties
<1>4. RemoveAt(s, i) = front \o back
  BY DEF RemoveAt
<1> HIDE DEF front, back
<1>5. Len(front) + Len(back) = Len(s) - 1
  BY <1>0, <1>1, <1>2
<1>6. \A j \in 1..Len(s) - 1 :
        (front \o back)[j] = s[IF j < i THEN j ELSE j + 1]
  <2> TAKE j \in 1..Len(s) - 1
  <2>1. CASE j < i
    <3>1. j \in 1..i - 1 /\ j \in 1..Len(front) + Len(back) /\ j <= Len(front)
      BY <1>0, <1>1, <1>5, <2>1
    <3>2. (front \o back)[j] = front[j] /\ front[j] = s[j]
      BY <3>1, <1>1, <1>3
    <3> QED
      BY <2>1, <3>2
  <2>2. CASE ~(j < i)
    <3>1. /\ j - Len(front) \in 1..Len(s) - i /\ j \in 1..Len(front) + Len(back)
          /\ ~(j <= Len(front)) /\ i + (j - Len(front)) = j + 1
      BY <1>0, <1>1, <1>5, <2>2
    <3>2. (front \o back)[j] = back[j - Len(front)]
      BY <3>1, <1>3
    <3>3. back[j - Len(front)] = s[i + (j - Len(front))]
      BY <3>1, <1>2
    <3> QED
      BY <2>2, <3>1, <3>2, <3>3
  <2> QED
    BY <2>1, <2>2
<1> QED
  BY <1>3, <1>4, <1>5, <1>6

(* Where the keys of the table are when k has been taken out of it.            *)
Moved(k, i) == IF Tracked(k) /\ i >= Place(k) THEN i + 1 ELSE i
Rest(k) == IF Tracked(k) THEN Len(order) - 1 ELSE Len(order)

LEMMA PlaceOf ==
  ASSUME NEW k, Tracked(k)
  PROVE  Place(k) \in 1..Len(order) /\ order[Place(k)] = k
  BY DEF Place, Tracked

LEMMA WithoutKey ==
  ASSUME order \in Seq(Key), OnlyOnce, NEW k \in Key
  PROVE  /\ Without(k) \in Seq(Key) /\ Len(Without(k)) = Rest(k) /\ Rest(k) \in Nat
         /\ \A i \in 1..Rest(k) : /\ Moved(k, i) \in 1..Len(order)
                                  /\ Without(k)[i] = order[Moved(k, i)]
                                  /\ Without(k)[i] # k
         /\ \A i, j \in 1..Rest(k) : i < j => Moved(k, i) < Moved(k, j)
         /\ \A i \in 1..Len(order) : order[i] # k => \E j \in 1..Rest(k) : i = Moved(k, j)
<1>0. Len(order) \in Nat /\ \A i \in 1..Len(order) : order[i] \in Key
  BY LenProperties
<1>1. CASE Tracked(k)
  <2>1. Place(k) \in 1..Len(order) /\ order[Place(k)] = k
    BY <1>1, PlaceOf
  <2> DEFINE p == Place(k)
  <2>2. /\ RemoveAt(order, p) \in Seq(Key) /\ Len(RemoveAt(order, p)) = Len(order) - 1
        /\ \A j \in 1..Len(order) - 1 :
             RemoveAt(order, p)[j] = order[IF j < p THEN j ELSE j + 1]
    BY <2>1, Removed
  <2>3. Without(k) = RemoveAt(order, p) /\ Rest(k) = Len(order) - 1
    BY <1>1 DEF Without, Rest
  <2>4. \A i \in Int : Moved(k, i) = IF i < p THEN i ELSE i + 1
    BY <1>1, <2>1, <1>0 DEF Moved
  <2> HIDE DEF p
  <2>5. p \in 1..Len(order) /\ order[p] = k
    BY <2>1 DEF p
  <2>6. \A i \in 1..Rest(k) : Moved(k, i) \in 1..Len(order) /\ Moved(k, i) # p
    <3> TAKE i \in 1..Rest(k)
    <3>1. i \in Int /\ 1 <= i /\ i <= Len(order) - 1
      BY <1>0, <2>3
    <3>2. Moved(k, i) = IF i < p THEN i ELSE i + 1
      BY <3>1, <2>4
    <3> QED
      BY <1>0, <2>5, <3>1, <3>2
  <2>7. \A i \in 1..Rest(k) : Without(k)[i] = order[Moved(k, i)]
    <3> TAKE i \in 1..Rest(k)
    <3>1. i \in Int /\ i \in 1..Len(order) - 1
      BY <1>0, <2>3
    <3>2. Moved(k, i) = IF i < p THEN i ELSE i + 1
      BY <3>1, <2>4
    <3>3. RemoveAt(order, p)[i] = order[IF i < p THEN i ELSE i + 1]
      BY <3>1, <2>2
    <3> QED
      BY <2>3, <3>2, <3>3
  <2>8. \A i \in 1..Rest(k) : Without(k)[i] # k
    BY <2>5, <2>6, <2>7 DEF OnlyOnce
  <2>9. \A i \in 1..Len(order) : order[i] # k => \E j \in 1..Rest(k) : i = Moved(k, j)
    <3> TAKE i \in 1..Len(order)
    <3> HAVE order[i] # k
    <3>1. i # p
      BY <2>5
    <3>2. CASE i < p
      BY <1>0, <2>3, <2>4, <2>5, <3>2
    <3>3. CASE i > p
      <4>1. i - 1 \in 1..Rest(k) /\ Moved(k, i - 1) = i
        BY <1>0, <2>3, <2>4, <2>5, <3>3
      <4> QED
        BY <4>1
    <3> QED
      BY <1>0, <2>5, <3>1, <3>2, <3>3
  <2>10. \A i, j \in 1..Rest(k) : i < j => Moved(k, i) < Moved(k, j)
    <3> TAKE i, j \in 1..Rest(k)
    <3>1. i \in Int /\ j \in Int
      BY <1>0, <2>3
    <3>2. /\ Moved(k, i) = IF i < p THEN i ELSE i + 1
          /\ Moved(k, j) = IF j < p THEN j ELSE j + 1
      BY <3>1, <2>4
    <3> QED
      BY <1>0, <2>5, <3>1, <3>2
  <2> QED
    BY <1>0, <2>2, <2>3, <2>5, <2>6, <2>7, <2>8, <2>9, <2>10
<1>2. CASE ~Tracked(k)
  <2>1. Without(k) = order /\ Rest(k) = Len(order) /\ \A i : Moved(k, i) = i
    BY <1>2 DEF Without, Rest, Moved
  <2>2. \A i \in 1..Len(order) : order[i] # k
    BY <1>2 DEF Tracked
  <2> QED
    BY <1>0, <2>1, <2>2
<1> QED
  BY <1>1, <1>2

LEMMA TouchedKey ==
  ASSUME order \in Seq(Key), OnlyOnce, NEW k \in Key
  PROVE  /\ Touched(k) \in Seq(Key) /\ Len(Touched(k)) = Rest(k) + 1 /\ Rest(k) \in Nat
         /\ \A i \in 1..Rest(k) : Touched(k)[i] = order[Moved(k, i)] /\ Touched(k)[i] # k
         /\ Touched(k)[Rest(k) + 1] = k
<1>1. Without(k) \in Seq(Key) /\ Len(Without(k)) = Rest(k) /\ Rest(k) \in Nat
  BY WithoutKey
<1>2. \A i \in 1..Rest(k) : Without(k)[i] = order[Moved(k, i)] /\ Without(k)[i] # k
  BY WithoutKey
<1>3. /\ Append(Without(k), k) \in Seq(Key)
      /\ Len(Append(Without(k), k)) = Len(Without(k)) + 1
      /\ \A i \in 1..Len(Without(k)) : Append(Without(k), k)[i] = Without(k)[i]
      /\ Append(Without(k), k)[Len(Without(k)) + 1] = k
  BY <1>1, AppendProperties
<1> QED
  BY <1>1, <1>2, <1>3 DEF Touched

(* The shape of the table with k at its end, before anything is dropped.       *)
LEMMA TouchedShape ==
  ASSUME order \in Seq(Key), OnlyOnce, UsedSince, NEW k \in Key,
         since' = [o \in Key |-> IF o = k THEN {} ELSE since[o] \cup {k}]
  PROVE  \A i, j \in 1..Rest(k) + 1 : i < j =>
           Touched(k)[i] # Touched(k)[j] /\ Touched(k)[j] \in since'[Touched(k)[i]]
<1>0. Rest(k) \in Nat /\ Len(order) \in Nat /\ \A i \in 1..Len(order) : order[i] \in Key
  BY TouchedKey, LenProperties
<1>1. /\ \A i \in 1..Rest(k) : Touched(k)[i] = order[Moved(k, i)] /\ Touched(k)[i] # k
      /\ Touched(k)[Rest(k) + 1] = k
  BY TouchedKey
<1>2. /\ \A i \in 1..Rest(k) : Moved(k, i) \in 1..Len(order)
      /\ \A i, j \in 1..Rest(k) : i < j => Moved(k, i) < Moved(k, j)
  BY WithoutKey
<1> TAKE i, j \in 1..Rest(k) + 1
<1> HAVE i < j
<1>3. i \in 1..Rest(k) /\ i \in Int /\ j \in Int
  BY <1>0
<1>4. Touched(k)[i] \in Key /\ Touched(k)[i] # k
  BY <1>0, <1>1, <1>2, <1>3
<1>5. since'[Touched(k)[i]] = since[Touched(k)[i]] \cup {k}
  BY <1>4
<1>6. CASE j = Rest(k) + 1
  BY <1>1, <1>4, <1>5, <1>6
<1>7. CASE j \in 1..Rest(k)
  <2> DEFINE a == Moved(k, i)
             b == Moved(k, j)
  <2>1. a \in 1..Len(order) /\ b \in 1..Len(order) /\ a < b
    BY <1>2, <1>3, <1>7
  <2>2. Touched(k)[i] = order[a] /\ Touched(k)[j] = order[b]
    BY <1>1, <1>3, <1>7
  <2> HIDE DEF a, b
  <2>3. a # b
    BY <2>1
  <2>4. order[a] # order[b] /\ order[b] \in since[order[a]]
    BY <2>1, <2>3 DEF OnlyOnce, UsedSince
  <2> QED
    BY <1>5, <2>2, <2>4
<1> QED
  BY <1>0, <1>3, <1>6, <1>7

Cut(k) == IF Len(Touched(k)) > MaxKeys THEN 1 ELSE 0

LEMMA Fitted ==
  ASSUME order \in Seq(Key), OnlyOnce, NEW k \in Key, order' = Fitting(Touched(k))
  PROVE  /\ order' \in Seq(Key) /\ Len(order') = Rest(k) + 1 - Cut(k)
         /\ \A i \in 1..Len(order') : /\ i + Cut(k) \in 1..Rest(k) + 1
                                      /\ order'[i] = Touched(k)[i + Cut(k)]
<1>1. /\ Touched(k) \in Seq(Key) /\ Len(Touched(k)) = Rest(k) + 1 /\ Rest(k) \in Nat
  BY TouchedKey
<1>2. CASE Len(Touched(k)) > MaxKeys
  <2>1. Touched(k) # << >>
    BY <1>1, EmptySeq
  <2>2. /\ Tail(Touched(k)) \in Seq(Key)
        /\ Len(Tail(Touched(k))) = Len(Touched(k)) - 1
        /\ \A i \in 1..Len(Tail(Touched(k))) : Tail(Touched(k))[i] = Touched(k)[i + 1]
    BY <1>1, <2>1, HeadTailProperties
  <2>3. order' = Tail(Touched(k)) /\ Cut(k) = 1
    BY <1>2 DEF Fitting, Cut
  <2> QED
    BY <1>1, <2>2, <2>3
<1>3. CASE ~(Len(Touched(k)) > MaxKeys)
  <2>1. order' = Touched(k) /\ Cut(k) = 0
    BY <1>3 DEF Fitting, Cut
  <2> QED
    BY <1>1, <2>1
<1> QED
  BY <1>2, <1>3

(* What a call does to the table.                                              *)
LEMMA TableStep ==
  ASSUME order \in Seq(Key), Len(order) <= MaxKeys, OnlyOnce, UsedSince, NEW k \in Key,
         order' = Fitting(Touched(k)),
         since' = [o \in Key |-> IF o = k THEN {} ELSE since[o] \cup {k}]
  PROVE  /\ order' \in Seq(Key) /\ Len(order') <= MaxKeys /\ OnlyOnce' /\ UsedSince'
         /\ \A o : Tracked(o)' /\ o # k => Tracked(o)
<1>0. /\ Rest(k) \in Nat /\ Len(order) \in Nat /\ MaxKeys \in Nat \ {0}
      /\ Len(Touched(k)) = Rest(k) + 1
  BY TouchedKey, LenProperties, LimiterAssumption
<1>1. /\ order' \in Seq(Key) /\ Len(order') = Rest(k) + 1 - Cut(k)
      /\ \A i \in 1..Len(order') : /\ i + Cut(k) \in 1..Rest(k) + 1
                                   /\ order'[i] = Touched(k)[i + Cut(k)]
  BY Fitted
<1>2. Cut(k) \in {0, 1} /\ Len(order') \in Nat
  BY <1>0, <1>1 DEF Cut
<1>3. Len(order') <= MaxKeys
  <2>1. CASE Tracked(k)
    BY <1>0, <1>1, <1>2, <2>1 DEF Rest, Cut
  <2>2. CASE ~Tracked(k)
    BY <1>0, <1>1, <1>2, <2>2 DEF Rest, Cut
  <2> QED
    BY <2>1, <2>2
<1>4. \A i, j \in 1..Len(order') : i < j =>
        order'[i] # order'[j] /\ order'[j] \in since'[order'[i]]
  <2> TAKE i, j \in 1..Len(order')
  <2> HAVE i < j
  <2>1. /\ i + Cut(k) \in 1..Rest(k) + 1 /\ j + Cut(k) \in 1..Rest(k) + 1
        /\ i + Cut(k) < j + Cut(k)
        /\ order'[i] = Touched(k)[i + Cut(k)] /\ order'[j] = Touched(k)[j + Cut(k)]
    BY <1>1, <1>2
  <2> DEFINE a == i + Cut(k)
             b == j + Cut(k)
  <2>2. /\ a \in 1..Rest(k) + 1 /\ b \in 1..Rest(k) + 1 /\ a < b
        /\ order'[i] = Touched(k)[a] /\ order'[j] = Touched(k)[b]
    BY <2>1
  <2> HIDE DEF a, b
  <2>3. Touched(k)[a] # Touched(k)[b] /\ Touched(k)[b] \in since'[Touched(k)[a]]
    BY <2>2, TouchedShape
  <2> QED
    BY <2>2, <2>3
<1>5. OnlyOnce'
  <2> SUFFICES ASSUME NEW i \in 1..Len(order'), NEW j \in 1..Len(order'),
                      order'[i] = order'[j]
               PROVE  i = j
    BY DEF OnlyOnce
  <2>1. ~(i < j) /\ ~(j < i)
    BY <1>4
  <2> QED
    BY <1>2, <2>1
<1>6. UsedSince'
  <2>1. \A o \in Key : IsFiniteSet(since'[o])
    <3> TAKE o \in Key
    <3>1. IsFiniteSet({}) /\ IsFiniteSet(since[o])
      BY FS_EmptySet DEF UsedSince
    <3>2. IsFiniteSet(since[o] \cup {k})
      BY <3>1, FS_AddElement
    <3> QED
      BY <3>1, <3>2
  <2> QED
    BY <1>4, <2>1 DEF UsedSince
<1>7. \A o : Tracked(o)' /\ o # k => Tracked(o)
  <2> SUFFICES ASSUME NEW o, NEW i \in 1..Len(order'), order'[i] = o, o # k
               PROVE  Tracked(o)
    BY DEF Tracked
  <2>1. i + Cut(k) \in 1..Rest(k) + 1 /\ o = Touched(k)[i + Cut(k)]
    BY <1>1
  <2>2. i + Cut(k) \in 1..Rest(k)
    <3>1. Touched(k)[Rest(k) + 1] = k
      BY TouchedKey
    <3> QED
      BY <1>0, <2>1, <3>1
  <2>3. o = order[Moved(k, i + Cut(k))]
    BY <2>1, <2>2, TouchedKey
  <2>4. Moved(k, i + Cut(k)) \in 1..Len(order)
    BY <2>2, WithoutKey
  <2> QED
    BY <2>3, <2>4 DEF Tracked
<1> QED
  BY <1>1, <1>3, <1>5, <1>6, <1>7

(* reset takes keys out of the table and changes nothing else about it.        *)
LEMMA ResetStep ==
  ASSUME order \in Seq(Key), Len(order) <= MaxKeys, OnlyOnce, UsedSince, NEW k \in Key,
         order' = Without(k), since' = since
  PROVE  /\ order' \in Seq(Key) /\ Len(order') <= MaxKeys /\ OnlyOnce' /\ UsedSince'
         /\ \A o : Tracked(o)' => Tracked(o) /\ o # k
<1>0. /\ order' \in Seq(Key) /\ Len(order') = Rest(k) /\ Rest(k) \in Nat
      /\ Len(order) \in Nat /\ MaxKeys \in Nat
  BY WithoutKey, LenProperties, LimiterAssumption
<1>1. \A i \in 1..Rest(k) : /\ Moved(k, i) \in 1..Len(order)
                            /\ order'[i] = order[Moved(k, i)] /\ order'[i] # k
  BY WithoutKey
<1>2. \A i, j \in 1..Len(order') : i < j =>
        order'[i] # order'[j] /\ order'[j] \in since[order'[i]]
  <2> TAKE i, j \in 1..Len(order')
  <2> HAVE i < j
  <2> DEFINE a == Moved(k, i)
             b == Moved(k, j)
  <2>1. /\ a \in 1..Len(order) /\ b \in 1..Len(order)
        /\ order'[i] = order[a] /\ order'[j] = order[b]
    BY <1>0, <1>1
  <2>2. a < b
    BY <1>0, WithoutKey
  <2> HIDE DEF a, b
  <2>3. a # b
    BY <2>1, <2>2
  <2>4. order[a] # order[b] /\ order[b] \in since[order[a]]
    BY <2>1, <2>2, <2>3 DEF OnlyOnce, UsedSince
  <2> QED
    BY <2>1, <2>4
<1>3. OnlyOnce'
  <2> SUFFICES ASSUME NEW i \in 1..Len(order'), NEW j \in 1..Len(order'),
                      order'[i] = order'[j]
               PROVE  i = j
    BY DEF OnlyOnce
  <2>1. ~(i < j) /\ ~(j < i)
    BY <1>2
  <2> QED
    BY <1>0, <2>1
<1>4. UsedSince'
  BY <1>2 DEF UsedSince
<1>5. \A o : Tracked(o)' => Tracked(o) /\ o # k
  BY <1>0, <1>1 DEF Tracked
<1>6. Len(order') <= MaxKeys
  BY <1>0 DEF Rest
<1> QED
  BY <1>0, <1>3, <1>4, <1>5, <1>6

-----------------------------------------------------------------------------
(* The tokens                                                                  *)
LEMMA Products ==
  /\ Capacity \in Nat /\ Cost <= Capacity
  /\ \A a, b \in Nat : a * b \in Nat
  /\ \A a \in Int : Rate * a \in Int /\ a * Rate = Rate * a /\ Cost * a \in Int
  /\ \A a, b \in Int : Rate * (a - b) = Rate * a - Rate * b
  /\ \A a, b \in Int : Rate * (a + b) = Rate * a + Rate * b
  /\ \A a, b \in Int : a <= b => Rate * a <= Rate * b
  /\ \A a, b \in Int : Cost * (a + b) = Cost * a + Cost * b
  /\ Cost * 0 = 0 /\ Cost * 1 = Cost
<1>1. Rate \in Nat \ {0} /\ Cost \in Nat \ {0} /\ Burst \in Nat \ {0}
  BY LimiterAssumption
<1>2. \A a, b \in Nat : a * b \in Nat
  OBVIOUS
<1>3. \A a \in Int : Rate * a \in Int /\ a * Rate = Rate * a /\ Cost * a \in Int
  BY <1>1
<1>4. \A a, b \in Int : Rate * (a - b) = Rate * a - Rate * b
  BY <1>1
<1>5. \A a, b \in Int : Rate * (a + b) = Rate * a + Rate * b
  BY <1>1
<1>6. \A a, b \in Int : a <= b => Rate * a <= Rate * b
  <2> TAKE a, b \in Int
  <2> HAVE a <= b
  <2>1. b - a \in Nat
    OBVIOUS
  <2>2. Rate * (b - a) \in Nat
    BY <1>1, <1>2, <2>1
  <2>3. Rate * (b - a) = Rate * b - Rate * a
    BY <1>4
  <2>4. Rate * a \in Int /\ Rate * b \in Int
    BY <1>3
  <2> QED
    BY <2>2, <2>3, <2>4
<1>7. \A a, b \in Int : Cost * (a + b) = Cost * a + Cost * b
  BY <1>1
<1>8. Cost * 0 = 0 /\ Cost * 1 = Cost
  BY <1>1
<1>9. Capacity \in Nat /\ Cost <= Capacity
  <2>1. Burst - 1 \in Nat
    BY <1>1
  <2>2. (Burst - 1) * Cost \in Nat
    BY <1>1, <1>2, <2>1
  <2>3. Burst * Cost = (Burst - 1) * Cost + Cost
    BY <1>1
  <2> QED
    BY <1>1, <2>2, <2>3 DEF Capacity
<1> QED
  BY <1>2, <1>3, <1>4, <1>5, <1>6, <1>7, <1>8, <1>9

LEMMA Division ==
  ASSUME NEW n \in Nat, NEW r \in Nat, r > 0
  PROVE  n \div r \in Nat /\ n < r * (n \div r) + r
  OBVIOUS

(* The wait is long enough, and not negative.                                  *)
LEMMA WaitSuffices ==
  ASSUME NEW tokens \in Nat, tokens < Cost
  PROVE  Wait(tokens) \in Nat /\ Rate * Wait(tokens) >= Cost - tokens
<1> DEFINE n == Cost - tokens + Rate - 1
<1>1. n \in Nat /\ Rate \in Nat \ {0} /\ Cost \in Nat
  BY LimiterAssumption
<1>2. Wait(tokens) = n \div Rate
  BY DEF Wait
<1> HIDE DEF n
<1>3. n \div Rate \in Nat /\ n < Rate * (n \div Rate) + Rate
  BY <1>1, Division
<1>4. Rate * (n \div Rate) \in Int
  BY <1>3, Products
<1>5. n = Cost - tokens + Rate - 1
  BY DEF n
<1> QED
  BY <1>1, <1>2, <1>3, <1>4, <1>5

(* What a bucket holds when it is used: its burst, or what the time has added. *)
LEMMA RefilledFacts ==
  ASSUME TypeOK, NEW k \in Key, NEW now \in Reading
  PROVE  /\ Refilled(k, now) \in 0..Capacity
         /\ ~Tracked(k) => Refilled(k, now) = Capacity
         /\ Tracked(k) /\ now < bucket[k].last => Refilled(k, now) = bucket[k].tokens
         /\ Tracked(k) /\ now >= bucket[k].last =>
              LET filled == bucket[k].tokens + (Rate * now - Rate * bucket[k].last)
              IN Refilled(k, now) <= filled
                   /\ (Refilled(k, now) = Capacity \/ Refilled(k, now) = filled)
<1>1. /\ bucket[k].tokens \in 0..Capacity /\ bucket[k].last \in Nat
      /\ now \in Nat /\ Capacity \in Nat
  <2>1. Capacity \in Nat
    BY Products
  <2>2. bucket \in [Key -> [tokens : 0..Capacity, last : Reading]]
    BY DEF TypeOK
  <2>3. Reading \subseteq Nat
    BY LimiterAssumption DEF Reading
  <2> QED
    BY <2>1, <2>2, <2>3
<1>2. CASE ~Tracked(k)
  BY <1>1, <1>2 DEF Refilled
<1>3. CASE Tracked(k) /\ now < bucket[k].last
  <2>1. Refilled(k, now) = Least(Capacity, bucket[k].tokens + 0)
    BY <1>1, <1>3 DEF Refilled
  <2> QED
    BY <1>1, <1>3, <2>1 DEF Least
<1>4. CASE Tracked(k) /\ now >= bucket[k].last
  <2> DEFINE gain == (now - bucket[k].last) * Rate
  <2>1. Refilled(k, now) = Least(Capacity, bucket[k].tokens + gain)
    BY <1>4 DEF Refilled
  <2>2. gain \in Nat
    <3>1. now - bucket[k].last \in Nat
      BY <1>1, <1>4
    <3> QED
      BY <3>1, Products, LimiterAssumption
  <2>3. gain = Rate * now - Rate * bucket[k].last
    <3>1. now - bucket[k].last \in Int /\ now \in Int /\ bucket[k].last \in Int
      BY <1>1
    <3>2. gain = Rate * (now - bucket[k].last)
      BY <3>1, Products
    <3> QED
      BY <3>1, <3>2, Products
  <2> HIDE DEF gain
  <2> QED
    BY <1>1, <1>4, <2>1, <2>2, <2>3 DEF Least
<1> QED
  BY <1>1, <1>2, <1>3, <1>4

(* One call, admitted (given = 1) or denied (given = 0).                       *)
Left(k, now, given) == Refilled(k, now) - Cost * given
Owed(k, now, given) == IF given = 1 THEN None ELSE now + Wait(Refilled(k, now))
Used(k, now, given) ==
  /\ given = IF Refilled(k, now) >= Cost THEN 1 ELSE 0
  /\ Remember(k, Left(k, now, given), now)
  /\ Record(k, now, given)
  /\ due' = [due EXCEPT ![k] = Owed(k, now, given)]

LEMMA CallIsUse ==
  ASSUME TypeOK, NEW t \in Thread, Admit(t) \/ Deny(t)
  PROVE  /\ \E k \in Key, now \in Reading, given \in {0, 1} : Used(k, now, given)
         /\ call' = [call EXCEPT ![t] = None] /\ UNCHANGED clock
<1> DEFINE k == call[t].key
           now == call[t].now
<1>1. call[t] # None
  BY DEF Admit, Deny
<1>2. k \in Key /\ now \in Reading
  BY <1>1 DEF TypeOK
<1>3. Refilled(k, now) \in Int /\ Cost \in Nat /\ Cost * 0 = 0 /\ Cost * 1 = Cost
  BY <1>2, RefilledFacts, Products, LimiterAssumption
<1>4. CASE Admit(t)
  <2>1. /\ Refilled(k, now) >= Cost
        /\ Remember(k, Refilled(k, now) - Cost, now) /\ Record(k, now, 1)
        /\ due' = [due EXCEPT ![k] = None]
    BY <1>4 DEF Admit
  <2>2. Left(k, now, 1) = Refilled(k, now) - Cost /\ Owed(k, now, 1) = None
    BY <1>3 DEF Left, Owed
  <2> HIDE DEF k, now
  <2>3. Used(k, now, 1)
    BY <2>1, <2>2 DEF Used
  <2> QED
    BY <1>2, <1>4, <2>3 DEF Admit
<1>5. CASE Deny(t)
  <2>1. /\ Refilled(k, now) < Cost
        /\ Remember(k, Refilled(k, now), now) /\ Record(k, now, 0)
        /\ due' = [due EXCEPT ![k] = now + Wait(Refilled(k, now))]
    BY <1>5 DEF Deny
  <2>2. Left(k, now, 0) = Refilled(k, now) /\ Owed(k, now, 0) = now + Wait(Refilled(k, now))
    BY <1>3 DEF Left, Owed
  <2>3. ~(Refilled(k, now) >= Cost)
    BY <1>3, <2>1
  <2> HIDE DEF k, now
  <2>4. Used(k, now, 0)
    BY <2>1, <2>2, <2>3 DEF Used
  <2> QED
    BY <1>2, <1>5, <2>4 DEF Deny
<1> QED
  BY <1>4, <1>5

LEMMA UseEffects ==
  ASSUME TypeOK, NEW k \in Key, NEW now \in Reading, NEW given \in {0, 1},
         Used(k, now, given)
  PROVE  /\ bucket' = [bucket EXCEPT ![k] = [tokens |-> Left(k, now, given), last |-> now]]
         /\ order' = Fitting(Touched(k))
         /\ since' = [o \in Key |-> IF o = k THEN {} ELSE since[o] \cup {k}]
         /\ due' = [due EXCEPT ![k] = Owed(k, now, given)]
         /\ Left(k, now, given) \in 0..Capacity
         /\ given = 0 => Refilled(k, now) < Cost /\ Left(k, now, given) = Refilled(k, now)
         /\ Owed(k, now, given) \in {None} \cup Nat
<1>1. /\ Refilled(k, now) \in 0..Capacity /\ Cost \in Nat /\ Capacity \in Nat
      /\ Cost * 0 = 0 /\ Cost * 1 = Cost
  BY RefilledFacts, Products, LimiterAssumption
<1>2. given = IF Refilled(k, now) >= Cost THEN 1 ELSE 0
  BY DEF Used
<1>3. Left(k, now, given) \in 0..Capacity
  <2>1. CASE given = 1
    BY <1>1, <1>2, <2>1 DEF Left
  <2>2. CASE given = 0
    BY <1>1, <1>2, <2>2 DEF Left
  <2> QED
    BY <2>1, <2>2
<1>4. given = 0 => Refilled(k, now) < Cost /\ Left(k, now, given) = Refilled(k, now)
  BY <1>1, <1>2 DEF Left
<1>5. Owed(k, now, given) \in {None} \cup Nat
  <2>1. given = 0 => Wait(Refilled(k, now)) \in Nat
    BY <1>1, <1>4, WaitSuffices
  <2>2. now \in Nat
    BY LimiterAssumption DEF Reading
  <2> QED
    BY <2>1, <2>2 DEF Owed
<1> QED
  BY <1>3, <1>4, <1>5 DEF Used, Remember, Record

LEMMA UseType ==
  ASSUME TypeOK, OnlyOnce, UsedSince, NEW k \in Key, NEW now \in Reading,
         NEW given \in {0, 1}, Used(k, now, given)
  PROVE  /\ bucket' \in [Key -> [tokens : 0..Capacity, last : Reading]]
         /\ order' \in Seq(Key) /\ Len(order') <= MaxKeys
         /\ born' \in [Key -> Reading] /\ admitted' \in [Key -> Nat]
         /\ rewound' \in [Key -> Nat] /\ due' \in [Key -> {None} \cup Nat]
         /\ since' \in [Key -> SUBSET Key]
<1>0. /\ bucket' = [bucket EXCEPT ![k] = [tokens |-> Left(k, now, given), last |-> now]]
      /\ order' = Fitting(Touched(k))
      /\ since' = [o \in Key |-> IF o = k THEN {} ELSE since[o] \cup {k}]
      /\ due' = [due EXCEPT ![k] = Owed(k, now, given)]
      /\ Left(k, now, given) \in 0..Capacity
      /\ Owed(k, now, given) \in {None} \cup Nat
  BY UseEffects
<1>1. bucket' \in [Key -> [tokens : 0..Capacity, last : Reading]]
  BY <1>0 DEF TypeOK
<1>2. order' \in Seq(Key) /\ Len(order') <= MaxKeys
  <2>1. order \in Seq(Key) /\ Len(order) <= MaxKeys
    BY DEF TypeOK
  <2> QED
    BY <1>0, <2>1, TableStep
<1>3. born' \in [Key -> Reading]
  BY DEF TypeOK, Used, Record
<1>4. admitted' \in [Key -> Nat]
  <2>1. (IF Tracked(k) THEN admitted[k] ELSE 0) + given \in Nat
    BY DEF TypeOK
  <2> QED
    BY <2>1 DEF TypeOK, Used, Record
<1>5. rewound' \in [Key -> Nat]
  <2>1. rewound[k] \in Nat /\ bucket[k].last \in Nat /\ now \in Nat
    BY LimiterAssumption DEF TypeOK, Reading
  <2>2. CASE ~Tracked(k)
    BY <2>2 DEF TypeOK, Used, Record
  <2>3. CASE Tracked(k) /\ now < bucket[k].last
    <3>1. rewound[k] + (bucket[k].last - now) \in Nat
      BY <2>1, <2>3
    <3>2. rewound' = [rewound EXCEPT ![k] = rewound[k] + (bucket[k].last - now)]
      BY <2>3 DEF Used, Record
    <3> QED
      BY <3>1, <3>2 DEF TypeOK
  <2>4. CASE Tracked(k) /\ ~(now < bucket[k].last)
    <3>1. rewound' = [rewound EXCEPT ![k] = rewound[k]]
      BY <2>4 DEF Used, Record
    <3> QED
      BY <2>1, <3>1 DEF TypeOK
  <2> QED
    BY <2>2, <2>3, <2>4
<1>6. due' \in [Key -> {None} \cup Nat]
  BY <1>0 DEF TypeOK
<1>7. since' \in [Key -> SUBSET Key]
  BY <1>0 DEF TypeOK
<1> QED
  BY <1>1, <1>2, <1>3, <1>4, <1>5, <1>6, <1>7

(* A call writes its own bucket and none of the others.                        *)
LEMMA UseWrites ==
  ASSUME TypeOK, OnlyOnce, UsedSince, NEW k \in Key, NEW now \in Reading,
         NEW given \in {0, 1}, Used(k, now, given)
  PROVE  /\ bucket'[k].tokens = Left(k, now, given) /\ bucket'[k].last = now
         /\ due'[k] = Owed(k, now, given)
         /\ \A o \in Key : Tracked(o)' /\ o # k =>
              /\ Tracked(o) /\ bucket'[o] = bucket[o] /\ due'[o] = due[o]
              /\ admitted'[o] = admitted[o] /\ born'[o] = born[o]
              /\ rewound'[o] = rewound[o]
<1>0. /\ bucket' = [bucket EXCEPT ![k] = [tokens |-> Left(k, now, given), last |-> now]]
      /\ order' = Fitting(Touched(k))
      /\ since' = [o \in Key |-> IF o = k THEN {} ELSE since[o] \cup {k}]
      /\ due' = [due EXCEPT ![k] = Owed(k, now, given)]
  BY UseEffects
<1>1. /\ bucket'[k].tokens = Left(k, now, given) /\ bucket'[k].last = now
      /\ due'[k] = Owed(k, now, given)
  BY <1>0 DEF TypeOK
<1>2. \A o : Tracked(o)' /\ o # k => Tracked(o)
  <2>1. order \in Seq(Key) /\ Len(order) <= MaxKeys
    BY DEF TypeOK
  <2> QED
    BY <1>0, <2>1, TableStep
<1>3. \A o \in Key : o # k => bucket'[o] = bucket[o] /\ due'[o] = due[o]
  BY <1>0 DEF TypeOK
<1>4. \A o \in Key : o # k => admitted'[o] = admitted[o] /\ born'[o] = born[o]
                            /\ rewound'[o] = rewound[o]
  BY DEF TypeOK, Used, Record
<1> QED
  BY <1>1, <1>2, <1>3, <1>4

LEMMA UseWaitPays ==
  ASSUME TypeOK, OnlyOnce, UsedSince, WaitPays, NEW k \in Key, NEW now \in Reading,
         NEW given \in {0, 1}, Used(k, now, given)
  PROVE  WaitPays'
<1> SUFFICES ASSUME NEW o \in Key, Tracked(o)', due'[o] # None
             PROVE  /\ due'[o] >= bucket'[o].last
                    /\ bucket'[o].tokens + Rate * (due'[o] - bucket'[o].last) >= Cost
  BY DEF WaitPays
<1>1. CASE o = k
  <2>1. /\ bucket'[k].tokens = Left(k, now, given) /\ bucket'[k].last = now
        /\ due'[k] = Owed(k, now, given)
    BY UseWrites
  <2>2. given = 0
    BY <1>1, <2>1 DEF Owed
  <2> DEFINE held == Refilled(k, now)
             wait == Wait(held)
  <2>3. bucket'[k].tokens = held /\ due'[k] = now + wait /\ held < Cost
    BY <2>1, <2>2, UseEffects DEF Owed
  <2>4. held \in Nat /\ now \in Nat /\ Cost \in Nat
    BY RefilledFacts, LimiterAssumption, Products DEF Reading
  <2>5. wait \in Nat /\ Rate * wait >= Cost - held
    BY <2>3, <2>4, WaitSuffices
  <2> HIDE DEF held, wait
  <2>6. (now + wait) - now = wait /\ now + wait >= now /\ Rate * wait \in Int
    BY <2>4, <2>5, Products
  <2> QED
    BY <1>1, <2>1, <2>3, <2>4, <2>5, <2>6
<1>2. CASE o # k
  <2>1. Tracked(o)
    BY <1>2, UseWrites
  <2>2. bucket'[o] = bucket[o] /\ due'[o] = due[o]
    BY <1>2, UseWrites
  <2> QED
    BY <2>1, <2>2 DEF WaitPays
<1> QED
  BY <1>1, <1>2

LEMMA UseAccounted ==
  ASSUME TypeOK, OnlyOnce, UsedSince, TokensAccounted, NEW k \in Key, NEW now \in Reading,
         NEW given \in {0, 1}, Used(k, now, given)
  PROVE  TokensAccounted'
<1> SUFFICES ASSUME NEW o \in Key, Tracked(o)'
             PROVE  bucket'[o].tokens + Cost * admitted'[o] + Rate * born'[o]
                      <= Capacity + Rate * (bucket'[o].last + rewound'[o])
  BY Products DEF TokensAccounted, Capacity
<1>1. CASE o = k
  <2>1. bucket'[k].tokens = Left(k, now, given) /\ bucket'[k].last = now
    BY UseWrites
  <2> DEFINE held == Refilled(k, now)
  <2>2. /\ held \in Int /\ now \in Int /\ Cost \in Int /\ Capacity \in Int
        /\ held <= Capacity
    <3>1. held \in 0..Capacity /\ now \in Nat
      BY RefilledFacts, LimiterAssumption DEF Reading
    <3>2. Cost \in Int /\ Capacity \in Int
      BY LimiterAssumption, Products
    <3> HIDE DEF held
    <3> QED
      BY <3>1, <3>2
  <2>3. Left(k, now, given) = held - Cost * given /\ given \in Int /\ Cost * given \in Int
    BY Products DEF Left
  <2>4. CASE ~Tracked(k)
    <3>1. admitted'[k] = given /\ born'[k] = now /\ rewound'[k] = 0
      <4>1. admitted' = [admitted EXCEPT ![k] = 0 + given]
        BY <2>4 DEF Used, Record
      <4>2. born' = [born EXCEPT ![k] = now]
        BY <2>4 DEF Used, Record
      <4>3. rewound' = [rewound EXCEPT ![k] = 0]
        BY <2>4 DEF Used, Record
      <4> QED
        BY <4>1, <4>2, <4>3 DEF TypeOK
    <3>2. now + 0 = now /\ Rate * now \in Int
      BY <2>2, Products
    <3> HIDE DEF held
    <3> QED
      BY <1>1, <2>1, <2>2, <2>3, <3>1, <3>2
  <2>5. CASE Tracked(k)
    <3> DEFINE tok == bucket[k].tokens
               last == bucket[k].last
               adm == admitted[k]
               beg == born[k]
               rew == rewound[k]
    <3>1. tok \in Int /\ last \in Int /\ adm \in Int /\ beg \in Int /\ rew \in Int
      BY Products, LimiterAssumption DEF TypeOK, Reading
    <3>2. tok + Cost * adm + Rate * beg <= Capacity + Rate * (last + rew)
      BY <2>5 DEF TokensAccounted
    <3>3. admitted'[k] = adm + given /\ born'[k] = beg
      <4>1. admitted' = [admitted EXCEPT ![k] = admitted[k] + given]
        BY <2>5 DEF Used, Record
      <4>2. born' = born
        BY <2>5 DEF Used, Record
      <4> QED
        BY <4>1, <4>2 DEF TypeOK
    <3>4. Cost * (adm + given) = Cost * adm + Cost * given
      BY <2>3, <3>1, Products
    <3>5. Rate * (last + rew) = Rate * last + Rate * rew
      BY <3>1, Products
    <3>6. /\ Rate * last \in Int /\ Rate * rew \in Int /\ Rate * beg \in Int
          /\ Cost * adm \in Int /\ Rate * now \in Int
      BY <2>2, <3>1, Products
    <3>7. CASE now < last
      <4>1. held = tok
        BY <2>5, <3>7, RefilledFacts
      <4>2. rewound'[k] = rew + (last - now)
        BY <2>5, <3>7 DEF TypeOK, Used, Record
      <4> HIDE DEF held, tok, last, adm, beg, rew
      <4>3. now + (rew + (last - now)) = last + rew
        BY <2>2, <3>1
      <4> QED
        BY <1>1, <2>1, <2>2, <2>3, <3>1, <3>2, <3>3, <3>4, <3>5, <3>6, <4>1, <4>2, <4>3
    <3>8. CASE ~(now < last)
      <4>1. held <= tok + (Rate * now - Rate * last)
        BY <2>2, <2>5, <3>1, <3>8, RefilledFacts
      <4>2. rewound'[k] = rew
        BY <2>5, <3>8 DEF TypeOK, Used, Record
      <4>3. Rate * (now + rew) = Rate * now + Rate * rew
        BY <2>2, <3>1, Products
      <4> HIDE DEF held, tok, last, adm, beg, rew
      <4> QED
        BY <1>1, <2>1, <2>2, <2>3, <3>1, <3>2, <3>3, <3>4, <3>5, <3>6, <4>1, <4>2, <4>3
    <3> QED
      BY <3>7, <3>8
  <2> QED
    BY <2>4, <2>5
<1>2. CASE o # k
  <2>1. Tracked(o)
    BY <1>2, UseWrites
  <2>2. bucket'[o] = bucket[o]
    BY <1>2, UseWrites
  <2>3. admitted'[o] = admitted[o] /\ born'[o] = born[o] /\ rewound'[o] = rewound[o]
    BY <1>2, UseWrites
  <2> QED
    BY <2>1, <2>2, <2>3 DEF TokensAccounted
<1> QED
  BY <1>1, <1>2

-----------------------------------------------------------------------------
(* The invariant                                                               *)
LEMMA InitInv == Init => IInv
<1> SUFFICES ASSUME Init PROVE IInv
  OBVIOUS
<1>1. order = << >> /\ Len(order) = 0 /\ order \in Seq(Key)
  BY EmptySeq DEF Init
<1>2. \A k : ~Tracked(k)
  BY <1>1 DEF Tracked
<1>3. TypeOK
  <2>1. 0 \in Reading /\ 0 \in 0..Capacity /\ 0 <= MaxKeys
    BY Products, LimiterAssumption DEF Reading
  <2> QED
    BY <1>1, <2>1 DEF Init, TypeOK, Empty
<1>4. OnlyOnce /\ UsedSince
  BY <1>1, FS_EmptySet DEF Init, OnlyOnce, UsedSince
<1> QED
  BY <1>2, <1>3, <1>4 DEF IInv, WaitPays, TokensAccounted

LEMMA TickInv == ASSUME IInv, Tick PROVE IInv'
<1>1. UNCHANGED <<call, bucket, order, born, admitted, rewound, due, since>>
  BY DEF Tick, history
<1>2. clock' \in Reading
  BY LimiterAssumption DEF IInv, TypeOK, Reading, Tick
<1> QED
  BY <1>1, <1>2 DEF IInv, TypeOK, OnlyOnce, UsedSince, WaitPays, TokensAccounted, Tracked

LEMMA ReadClockInv ==
  ASSUME IInv, NEW t \in Thread, NEW k \in Key, ReadClock(t, k) PROVE IInv'
<1>1. UNCHANGED <<clock, bucket, order, born, admitted, rewound, due, since>>
  BY DEF ReadClock, history
<1>2. call' \in [Thread -> {None} \cup [key : Key, now : Reading]]
  BY DEF IInv, TypeOK, ReadClock
<1> QED
  BY <1>1, <1>2 DEF IInv, TypeOK, OnlyOnce, UsedSince, WaitPays, TokensAccounted, Tracked

LEMMA CallInv ==
  ASSUME IInv, NEW t \in Thread, Admit(t) \/ Deny(t) PROVE IInv'
<1>1. TypeOK /\ OnlyOnce /\ UsedSince /\ WaitPays /\ TokensAccounted
  BY DEF IInv
<1>2. PICK k \in Key, now \in Reading, given \in {0, 1} : Used(k, now, given)
  BY <1>1, CallIsUse
<1>3. call' = [call EXCEPT ![t] = None] /\ clock' = clock
  BY <1>1, CallIsUse
<1>4. TypeOK'
  <2>1. call' \in [Thread -> {None} \cup [key : Key, now : Reading]] /\ clock' \in Reading
    BY <1>1, <1>3 DEF TypeOK
  <2>2. /\ bucket' \in [Key -> [tokens : 0..Capacity, last : Reading]]
        /\ order' \in Seq(Key) /\ Len(order') <= MaxKeys
        /\ born' \in [Key -> Reading] /\ admitted' \in [Key -> Nat]
        /\ rewound' \in [Key -> Nat] /\ due' \in [Key -> {None} \cup Nat]
        /\ since' \in [Key -> SUBSET Key]
    BY <1>1, <1>2, UseType
  <2> QED
    BY <2>1, <2>2 DEF TypeOK, Capacity, Reading
<1>5. OnlyOnce' /\ UsedSince'
  <2>1. /\ order' = Fitting(Touched(k))
        /\ since' = [o \in Key |-> IF o = k THEN {} ELSE since[o] \cup {k}]
    BY <1>1, <1>2, UseEffects
  <2>2. order \in Seq(Key) /\ Len(order) <= MaxKeys
    BY <1>1 DEF TypeOK
  <2> QED
    BY <1>1, <2>1, <2>2, TableStep
<1>6. WaitPays'
  BY <1>1, <1>2, UseWaitPays
<1>7. TokensAccounted'
  BY <1>1, <1>2, UseAccounted
<1> QED
  BY <1>4, <1>5, <1>6, <1>7 DEF IInv

LEMMA ResetKeyInv == ASSUME IInv, NEW k \in Key, ResetKey(k) PROVE IInv'
<1>1. /\ order' = Without(k)
      /\ due' = [o \in Key |-> IF o \in {k} THEN None ELSE due[o]]
      /\ UNCHANGED <<clock, call, bucket, born, admitted, rewound, since>>
  BY DEF ResetKey, Forget
<1>2. /\ order' \in Seq(Key) /\ Len(order') <= MaxKeys /\ OnlyOnce' /\ UsedSince'
      /\ \A o : Tracked(o)' => Tracked(o) /\ o # k
  <2>1. order \in Seq(Key) /\ Len(order) <= MaxKeys /\ OnlyOnce /\ UsedSince
    BY DEF IInv, TypeOK
  <2> QED
    BY <1>1, <2>1, ResetStep
<1>3. TypeOK'
  BY <1>1, <1>2 DEF IInv, TypeOK
<1>4. WaitPays' /\ TokensAccounted'
  BY <1>1, <1>2 DEF IInv, WaitPays, TokensAccounted
<1> QED
  BY <1>2, <1>3, <1>4 DEF IInv

LEMMA ResetAllInv == ASSUME IInv, ResetAll PROVE IInv'
<1>1. /\ order' = << >>
      /\ due' = [o \in Key |-> IF o \in Key THEN None ELSE due[o]]
      /\ UNCHANGED <<clock, call, bucket, born, admitted, rewound, since>>
  BY DEF ResetAll, Forget
<1>2. order' \in Seq(Key) /\ Len(order') = 0
  BY <1>1, EmptySeq
<1>3. \A k : ~Tracked(k)'
  BY <1>2 DEF Tracked
<1>4. TypeOK'
  BY <1>1, <1>2, LimiterAssumption DEF IInv, TypeOK
<1>5. OnlyOnce' /\ UsedSince'
  BY <1>1, <1>2 DEF IInv, OnlyOnce, UsedSince
<1>6. WaitPays' /\ TokensAccounted'
  BY <1>3 DEF WaitPays, TokensAccounted
<1> QED
  BY <1>4, <1>5, <1>6 DEF IInv

LEMMA NextInv == IInv /\ [Next]_vars => IInv'
<1> SUFFICES ASSUME IInv, [Next]_vars PROVE IInv'
  OBVIOUS
<1>1. CASE Tick
  BY <1>1, TickInv
<1>2. ASSUME NEW t \in Thread, NEW k \in Key, ReadClock(t, k) PROVE IInv'
  BY <1>2, ReadClockInv
<1>3. ASSUME NEW t \in Thread, Admit(t) \/ Deny(t) PROVE IInv'
  BY <1>3, CallInv
<1>4. ASSUME NEW k \in Key, ResetKey(k) PROVE IInv'
  BY <1>4, ResetKeyInv
<1>5. CASE ResetAll
  BY <1>5, ResetAllInv
<1>6. CASE UNCHANGED vars
  BY <1>6 DEF vars, history, IInv, TypeOK, OnlyOnce, UsedSince, WaitPays,
              TokensAccounted, Tracked
<1> QED
  BY <1>1, <1>2, <1>3, <1>4, <1>5, <1>6 DEF Next

LEMMA Invariant == Spec => []IInv
<1>1. Init => IInv
  BY InitInv
<1>2. IInv /\ [Next]_vars => IInv'
  BY NextInv
<1> QED
  BY <1>1, <1>2, PTL DEF Spec

(* Every bucket holds between nothing and its burst and the table never        *)
(* exceeds its size (`allow`, `_remember`).                                    *)
THEOREM Types == Spec => []TypeOK
<1>1. IInv => TypeOK
  BY DEF IInv
<1> QED
  BY <1>1, Invariant, PTL

(* A bucket never holds and never has given more than its burst and the refill *)
(* of the time it has counted (`allow`).                                       *)
THEOREM Accounted == Spec => []TokensAccounted
<1>1. IInv => TokensAccounted
  BY DEF IInv
<1> QED
  BY <1>1, Invariant, PTL

-----------------------------------------------------------------------------
(* The actions                                                                 *)
LEMMA EvictedInTurn ==
  ASSUME IInv, NEW u \in Key, NEW now \in Reading, NEW given \in {0, 1},
         Used(u, now, given), NEW k \in Key, Tracked(k), ~Tracked(k)'
  PROVE  Cardinality(since'[k]) >= MaxKeys
<1>0. TypeOK /\ OnlyOnce /\ UsedSince /\ order \in Seq(Key) /\ Len(order) <= MaxKeys
  BY DEF IInv, TypeOK
<1>1. /\ order' = Fitting(Touched(u))
      /\ since' = [o \in Key |-> IF o = u THEN {} ELSE since[o] \cup {u}]
  BY <1>0, UseEffects
<1>2. /\ Rest(u) \in Nat /\ Len(Touched(u)) = Rest(u) + 1
      /\ \A i \in 1..Rest(u) : Touched(u)[i] = order[Moved(u, i)]
      /\ Touched(u)[Rest(u) + 1] = u
  BY <1>0, TouchedKey
<1>3. /\ Len(order') = Rest(u) + 1 - Cut(u)
      /\ \A i \in 1..Len(order') : order'[i] = Touched(u)[i + Cut(u)]
  BY <1>0, <1>1, Fitted
<1>4. MaxKeys \in Nat \ {0} /\ Cut(u) \in {0, 1}
  BY LimiterAssumption DEF Cut
<1>5. \A j \in 1..Rest(u) + 1 : Touched(u)[j] = k => Cut(u) = 1 /\ j = 1
  <2> SUFFICES ASSUME NEW j \in 1..Rest(u) + 1, Touched(u)[j] = k,
                      ~(Cut(u) = 1 /\ j = 1)
               PROVE  FALSE
    OBVIOUS
  <2> DEFINE i == j - Cut(u)
  <2>1. i \in 1..Len(order') /\ i + Cut(u) = j
    BY <1>2, <1>3, <1>4
  <2> HIDE DEF i
  <2>2. order'[i] = k
    BY <1>3, <2>1
  <2> QED
    BY <2>1, <2>2 DEF Tracked
<1>6. PICK j \in 1..Rest(u) + 1 : Touched(u)[j] = k
  <2>1. PICK i \in 1..Len(order) : order[i] = k
    BY DEF Tracked
  <2>2. CASE k = u
    <3>1. Rest(u) + 1 \in 1..Rest(u) + 1
      BY <1>2
    <3> QED
      BY <1>2, <2>2, <3>1
  <2>3. CASE k # u
    <3>1. PICK j \in 1..Rest(u) : i = Moved(u, j)
      BY <1>0, <2>1, <2>3, WithoutKey
    <3>2. j \in 1..Rest(u) + 1
      BY <1>2
    <3> QED
      BY <1>2, <2>1, <3>1, <3>2
  <2> QED
    BY <2>2, <2>3
<1>7. Cut(u) = 1 /\ Touched(u)[1] = k
  BY <1>5, <1>6
<1>8. Rest(u) + 1 > MaxKeys
  BY <1>2, <1>7 DEF Cut
<1>9. \A a, b \in 1..Rest(u) + 1 : a < b =>
        Touched(u)[a] # Touched(u)[b] /\ Touched(u)[b] \in since'[Touched(u)[a]]
  BY <1>0, <1>1, TouchedShape
<1> DEFINE behind == [i \in 1..MaxKeys |-> Touched(u)[i + 1]]
<1>10. behind \in Injection(1..MaxKeys, since'[k])
  <2>1. \A i \in 1..MaxKeys : Touched(u)[i + 1] \in since'[k]
    <3> TAKE i \in 1..MaxKeys
    <3>1. 1 \in 1..Rest(u) + 1 /\ i + 1 \in 1..Rest(u) + 1 /\ 1 < i + 1
      BY <1>2, <1>4, <1>8
    <3> QED
      BY <3>1, <1>7, <1>9
  <2>2. \A a, b \in 1..MaxKeys : Touched(u)[a + 1] = Touched(u)[b + 1] => a = b
    <3> SUFFICES ASSUME NEW a \in 1..MaxKeys, NEW b \in 1..MaxKeys, a < b
                 PROVE  Touched(u)[a + 1] # Touched(u)[b + 1]
      <4>1. \A a, b \in 1..MaxKeys : a < b \/ b < a \/ a = b
        BY <1>4
      <4> QED
        BY <4>1
    <3>1. a + 1 \in 1..Rest(u) + 1 /\ b + 1 \in 1..Rest(u) + 1 /\ a + 1 < b + 1
      BY <1>2, <1>4, <1>8
    <3> QED
      BY <3>1, <1>9
  <2> QED
    BY <2>1, <2>2 DEF Injection, IsInjective
<1>11. IsFiniteSet(since'[k])
  <2>1. UsedSince'
    BY <1>0, <1>1, TableStep
  <2> QED
    BY <2>1 DEF UsedSince
<1> HIDE DEF behind
<1>12. Cardinality(1..MaxKeys) <= Cardinality(since'[k])
  BY <1>10, <1>11, FS_Injection
<1>13. Cardinality(1..MaxKeys) = MaxKeys
  BY <1>4, FS_Interval
<1>14. Cardinality(since'[k]) \in Nat
  BY <1>11, FS_CardinalityType
<1> QED
  BY <1>4, <1>12, <1>13, <1>14

(* No client loses its bucket before MaxKeys others have been served after it  *)
(* (`_remember`).                                                              *)
THEOREM Forgotten == Spec => ForgottenInTurn
<1>1. IInv /\ [Next]_vars =>
        [\A k \in Key : Evicted(k) => Cardinality(since'[k]) >= MaxKeys]_vars
  <2> SUFFICES ASSUME IInv, [Next]_vars, NEW k \in Key, Evicted(k)
               PROVE  Cardinality(since'[k]) >= MaxKeys
    OBVIOUS
  <2>1. Tracked(k) /\ ~Tracked(k)' /\ bucket' # bucket
    BY DEF Evicted
  <2>2. PICK t \in Thread : Admit(t) \/ Deny(t)
    BY <2>1 DEF Next, vars, Tick, ReadClock, ResetKey, ResetAll, Forget
  <2>3. PICK u \in Key, now \in Reading, given \in {0, 1} : Used(u, now, given)
    BY <2>2, CallIsUse DEF IInv
  <2> QED
    BY <2>1, <2>3, EvictedInTurn
<1> QED
  BY <1>1, Invariant, PTL DEF Spec, ForgottenInTurn

(* A caller that waits as long as it was told is served unless its key was     *)
(* served in between (`retry_after`, `_create`).                               *)
THEOREM Honoured == Spec => RetryHonoured
<1> DEFINE Early(t) == Deny(t) => LET k == call[t].key
                                  IN due[k] # None /\ Tracked(k) => call[t].now < due[k]
<1>1. IInv => [\A t \in Thread : Early(t)]_vars
  <2> SUFFICES ASSUME IInv, NEW t \in Thread, Deny(t), due[call[t].key] # None,
                      Tracked(call[t].key), ~(call[t].now < due[call[t].key])
               PROVE  FALSE
    BY DEF Early
  <2> DEFINE k == call[t].key
             now == call[t].now
             last == bucket[k].last
             tok == bucket[k].tokens
  <2>1. k \in Key /\ now \in Reading /\ TypeOK
    BY DEF Deny, IInv, TypeOK
  <2>2. Refilled(k, now) < Cost
    BY DEF Deny
  <2>3. /\ due[k] \in Int /\ last \in Int /\ tok \in Int /\ now \in Int
        /\ Cost \in Int /\ Capacity \in Int /\ Cost <= Capacity
    <3>1. due[k] \in Nat /\ last \in Reading /\ tok \in 0..Capacity
      BY <2>1 DEF TypeOK
    <3>2. Cost \in Int /\ Capacity \in Int /\ Cost <= Capacity /\ Horizon \in Int
      BY Products, LimiterAssumption
    <3> HIDE DEF k, now, last, tok
    <3> QED
      BY <2>1, <3>1, <3>2 DEF Reading
  <2>4. due[k] >= last /\ tok + Rate * (due[k] - last) >= Cost
    BY <2>1 DEF IInv, WaitPays
  <2>5. now >= due[k]
    BY <2>3
  <2> HIDE DEF k, now
  <2>6. Tracked(k)
    BY DEF k
  <2>7. now >= last
    BY <2>3, <2>4, <2>5
  <2>8. \/ Refilled(k, now) = Capacity
        \/ Refilled(k, now) = tok + (Rate * now - Rate * last)
    BY <2>1, <2>6, <2>7, RefilledFacts
  <2>9. /\ Rate * (due[k] - last) = Rate * due[k] - Rate * last
        /\ Rate * due[k] <= Rate * now
        /\ Rate * due[k] \in Int /\ Rate * last \in Int /\ Rate * now \in Int
    BY <2>3, <2>5, Products
  <2> HIDE DEF last, tok
  <2> QED
    BY <2>2, <2>3, <2>4, <2>8, <2>9
<1> QED
  BY <1>1, Invariant, PTL DEF RetryHonoured
=============================================================================
