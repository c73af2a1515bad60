---------------------------- MODULE CompilerProofs ----------------------------
(* Theorems about Compiler, for every document.                                *)
(*                                                                             *)
(* First the gates: the ids of the concatenated sections (CheckIds), and when   *)
(* two of them are equal (ChecksFacts).  Then the components: what each          *)
(* deliverable keeps while it is added or given away (AddBuilds, GiveBuilds).    *)
(* Then the bullets: a bullet finds a gate exactly when the document gives it    *)
(* one (BulletNamed).  Last the invariant, step by step, and the theorems.       *)
EXTENDS Compiler, SequenceTheorems, FiniteSetTheorems, TLAPS

-----------------------------------------------------------------------------
(* Sequences of records with an id.                                            *)
Ids(s) == {g.id : g \in ToSet(s)}

LEMMA ConcatElements ==
  ASSUME NEW S, NEW s \in Seq(S), NEW t \in Seq(S)
  PROVE  /\ s \o t \in Seq(S)
         /\ ToSet(s \o t) = ToSet(s) \cup ToSet(t)
<1>1. s \o t \in Seq(S)
  BY ConcatProperties
<1>2. ToSet(s \o t) \subseteq ToSet(s) \cup ToSet(t)
  BY ConcatProperties, LenProperties DEF ToSet
<1>3. ASSUME NEW i \in DOMAIN s PROVE s[i] \in ToSet(s \o t)
  <2>1. i \in DOMAIN (s \o t) /\ (s \o t)[i] = s[i]
    BY ConcatProperties, LenProperties
  <2> QED
    BY <2>1 DEF ToSet
<1>4. ASSUME NEW i \in DOMAIN t PROVE t[i] \in ToSet(s \o t)
  <2>1. i + Len(s) \in DOMAIN (s \o t) /\ (s \o t)[i + Len(s)] = t[i]
    BY ConcatProperties, LenProperties
  <2> QED
    BY <2>1 DEF ToSet
<1> QED
  BY <1>1, <1>2, <1>3, <1>4 DEF ToSet

LEMMA ConcatUnique ==
  ASSUME NEW S, NEW s \in Seq(S), NEW t \in Seq(S)
  PROVE  Unique(s \o t) <=> Unique(s) /\ Unique(t) /\ Ids(s) \cap Ids(t) = {}
<1>0. /\ Len(s) \in Nat /\ DOMAIN s = 1..Len(s) /\ Len(t) \in Nat /\ DOMAIN t = 1..Len(t)
      /\ DOMAIN (s \o t) = 1..(Len(s) + Len(t))
      /\ \A i \in DOMAIN s : (s \o t)[i] = s[i]
      /\ \A i \in DOMAIN t : (s \o t)[i + Len(s)] = t[i]
  BY ConcatProperties, LenProperties
<1>1. ASSUME Unique(s \o t) PROVE Unique(s) /\ Unique(t)
  <2>1. Unique(s)
    BY <1>0, <1>1 DEF Unique
  <2>2. ASSUME NEW i \in DOMAIN t, NEW j \in DOMAIN t, t[i].id = t[j].id PROVE i = j
    <3>1. i + Len(s) \in DOMAIN (s \o t) /\ j + Len(s) \in DOMAIN (s \o t)
      BY <1>0
    <3>2. i + Len(s) = j + Len(s)
      BY <1>0, <1>1, <2>2, <3>1 DEF Unique
    <3> QED
      BY <1>0, <3>2
  <2> QED
    BY <2>1, <2>2 DEF Unique
<1>2. ASSUME Unique(s \o t), NEW i \in DOMAIN s, NEW j \in DOMAIN t, s[i].id = t[j].id PROVE FALSE
  <2>1. i \in DOMAIN (s \o t) /\ j + Len(s) \in DOMAIN (s \o t)
    BY <1>0
  <2>2. i = j + Len(s)
    BY <1>0, <1>2, <2>1 DEF Unique
  <2> QED
    BY <1>0, <2>2
<1>3. ASSUME Unique(s), Unique(t), Ids(s) \cap Ids(t) = {} PROVE Unique(s \o t)
  <2> SUFFICES ASSUME NEW i \in DOMAIN (s \o t), NEW j \in DOMAIN (s \o t),
                      (s \o t)[i].id = (s \o t)[j].id
               PROVE  i = j
    BY DEF Unique
  <2>1. \A k \in DOMAIN (s \o t) : k \in DOMAIN s \/ k - Len(s) \in DOMAIN t
    BY <1>0
  <2>2. \A k \in DOMAIN s : (s \o t)[k].id \in Ids(s)
    BY <1>0 DEF Ids, ToSet
  <2>3. \A k \in DOMAIN (s \o t) : k - Len(s) \in DOMAIN t =>
           (s \o t)[k] = t[k - Len(s)] /\ (s \o t)[k].id \in Ids(t)
    BY <1>0 DEF Ids, ToSet
  <2>4. CASE i \in DOMAIN s /\ j \in DOMAIN s
    BY <1>0, <1>3, <2>4 DEF Unique
  <2>5. CASE i - Len(s) \in DOMAIN t /\ j - Len(s) \in DOMAIN t
    <3>1. i - Len(s) = j - Len(s)
      BY <1>3, <2>3, <2>5 DEF Unique
    <3> QED
      BY <1>0, <3>1
  <2> QED
    BY <1>3, <2>1, <2>2, <2>3, <2>4, <2>5
<1> QED
  BY <1>1, <1>2, <1>3 DEF Ids, ToSet

LEMMA OneElement ==
  ASSUME NEW S, NEW e \in S
  PROVE  <<e>> \in Seq(S) /\ ToSet(<<e>>) = {e} /\ Unique(<<e>>)
BY DEF ToSet, Unique

LEMMA NoElement ==
  ASSUME NEW S
  PROVE  << >> \in Seq(S) /\ ToSet(<< >>) = {} /\ Unique(<< >>)
BY DEF ToSet, Unique

(* A finite set as a sequence has each element once.                           *)
LEMMA SetToSeqFacts ==
  ASSUME NEW S, IsFiniteSet(S)
  PROVE  SetToSeq(S) \in Seq(S) /\ ToSet(SetToSeq(S)) = S /\ IsInjective(SetToSeq(S))
<1> DEFINE n == Cardinality(S)
           q == SetToSeq(S)
<1>1. n \in Nat /\ ExistsBijection(1..n, S)
  BY FS_CardinalityType
<1>2. \E f \in [1..n -> S] : IsInjective(f)
  BY <1>1 DEF ExistsBijection, Bijection, Injection, IsInjective
<1>3. q \in [1..n -> S] /\ IsInjective(q)
  BY <1>2 DEF SetToSeq
<1> HIDE DEF q
<1>4. q \in Injection(1..n, S)
  BY <1>3 DEF Injection, IsInjective
<1>5. Cardinality(1..n) = n
  BY <1>1, FS_Interval
<1>6. q \in Surjection(1..n, S)
  BY <1>4, <1>5, FS_Injection
<1>7. ToSet(q) = S
  BY <1>3, <1>6 DEF Surjection, ToSet
<1>8. q \in Seq(S)
  BY <1>1, <1>3, SeqDef
<1> QED
  BY <1>3, <1>7, <1>8 DEF q

-----------------------------------------------------------------------------
(* The gates of a document.                                                    *)
GateName == Seq(Word)
GateRecord == [id : GateName, attributed : SUBSET ComponentName,
               threshold : Nat, paths : SUBSET Path]

LEMMA TupleFacts ==
  /\ \A a, b, c : <<a>> # <<b, c>> /\ << >> # <<a>> /\ << >> # <<a, b>>
  /\ \A a, b : <<a>> = <<b>> <=> a = b
  /\ \A a, b, c, d : <<a, b>> = <<c, d>> <=> a = c /\ b = d
  /\ \A a, b : <<a>>[1] = a /\ <<a, b>>[1] = a /\ <<a, b>>[2] = b
<1>1. ASSUME NEW a, NEW b, NEW c PROVE <<a>> # <<b, c>> /\ << >> # <<a>> /\ << >> # <<a, b>>
  <2>1. Len(<<a>>) = 1 /\ Len(<<b, c>>) = 2 /\ Len(<<a, b>>) = 2 /\ Len(<< >>) = 0
    OBVIOUS
  <2> QED
    BY <2>1
<1> QED
  BY <1>1

LEMMA NameTyped ==
  ASSUME NEW a \in Word, NEW b \in Word
  PROVE  <<a>> \in GateName /\ <<a, b>> \in GateName
BY DEF GateName

LEMMA MappedSeq ==
  ASSUME NEW S, NEW T, NEW s \in Seq(S), NEW f, f = [i \in DOMAIN s |-> f[i]],
         \A i \in DOMAIN s : f[i] \in T
  PROVE  f \in Seq(T) /\ DOMAIN f = DOMAIN s
<1>1. Len(s) \in Nat /\ DOMAIN s = 1..Len(s)
  BY LenProperties
<1>2. f \in [1..Len(s) -> T]
  BY <1>1
<1> QED
  BY <1>1, <1>2, SeqDef

LEMMA GateTyped ==
  ASSUME NEW id \in GateName
  PROVE  /\ Gate(id) \in GateRecord /\ Gate(id).id = id
         /\ \A at \in SUBSET ComponentName :
              LET g == [Gate(id) EXCEPT !.attributed = at]
              IN  g \in GateRecord /\ g.id = id
         /\ \A n \in Nat :
              LET g == [Gate(id) EXCEPT !.threshold = n]
              IN  g \in GateRecord /\ g.id = id /\ g.threshold = n
         /\ \A paths \in SUBSET Path :
              LET g == [Gate(id) EXCEPT !.paths = paths]
              IN  g \in GateRecord /\ g.id = id /\ g.paths = paths
BY DEF Gate, GateRecord

LEMMA OnlyFacts ==
  ASSUME NEW condition \in BOOLEAN, NEW id \in GateName
  PROVE  /\ Only(condition, id) \in Seq(GateRecord)
         /\ Ids(Only(condition, id)) = IF condition THEN {id} ELSE {}
         /\ Unique(Only(condition, id))
<1>1. Gate(id) \in GateRecord /\ Gate(id).id = id
  BY GateTyped
<1> QED
  BY <1>1, OneElement, NoElement DEF Only, Ids

LEMMA HarnessFacts ==
  ASSUME doc \in Document, Known \subseteq ComponentName
  PROVE  /\ HarnessGates(doc) \in Seq(GateRecord)
         /\ Ids(HarnessGates(doc)) =
              {<<"harness", m>> : m \in ToSet(HarnessModules(doc))}
                \cup (IF HarnessModules(doc) = << >> /\ HarnessDir(doc) THEN {<<"harness">>} ELSE {})
         /\ Unique(HarnessGates(doc)) <=> IsInjective(HarnessModules(doc))
<1> DEFINE ms == HarnessModules(doc)
           hs == HarnessGates(doc)
           at == IF doc.harness.attributed # {} THEN doc.harness.attributed ELSE Known
<1>1. ms \in Seq(Word) /\ at \in SUBSET ComponentName
  <2>1. doc.harness \in Harness
    BY DocumentAssumption
  <2>2. doc.harness.modules \in Seq(Word) /\ doc.harness.attributed \subseteq ComponentName
    BY <2>1 DEF Harness
  <2> QED
    BY <2>2, EmptySeq DEF HarnessModules
<1>2. CASE ms # << >>
  <2>1. hs = [i \in DOMAIN ms |-> [Gate(<<"harness", ms[i]>>) EXCEPT !.attributed = at]]
    BY <1>2 DEF HarnessGates
  <2> HIDE DEF ms, hs, at
  <2>2. \A i \in DOMAIN ms : ms[i] \in Word /\ <<"harness", ms[i]>> \in GateName
    BY <1>1, ElementOfSeq, LenProperties, NameTyped, WordAssumption
  <2>3. DOMAIN hs = DOMAIN ms /\ \A i \in DOMAIN ms : hs[i] \in GateRecord /\ hs[i].id = <<"harness", ms[i]>>
    BY <1>1, <2>1, <2>2, GateTyped
  <2>4. hs \in Seq(GateRecord)
    BY <1>1, <2>1, <2>3, MappedSeq
  <2>5. Ids(hs) = {<<"harness", m>> : m \in ToSet(ms)}
    BY <2>3 DEF Ids, ToSet
  <2>6. Unique(hs) <=> IsInjective(ms)
    BY <2>3, TupleFacts DEF Unique, IsInjective
  <2> QED
    BY <1>2, <2>4, <2>5, <2>6 DEF ms, hs
<1>3. CASE ms = << >>
  <2>1. IsInjective(ms) /\ ToSet(ms) = {}
    BY <1>3 DEF IsInjective, ToSet
  <2>2. CASE HarnessDir(doc)
    <3>1. hs = << [Gate(<<"harness">>) EXCEPT !.attributed = Known] >>
      BY <1>3, <2>2 DEF HarnessGates
    <3>2. /\ [Gate(<<"harness">>) EXCEPT !.attributed = Known] \in GateRecord
          /\ [Gate(<<"harness">>) EXCEPT !.attributed = Known].id = <<"harness">>
      BY NameTyped, WordAssumption, GateTyped
    <3> HIDE DEF ms, hs
    <3>3. PICK e \in GateRecord : e.id = <<"harness">> /\ hs = <<e>>
      BY <3>1, <3>2
    <3>4. hs \in Seq(GateRecord) /\ Unique(hs) /\ Ids(hs) = {<<"harness">>}
      BY <3>3, OneElement DEF Ids
    <3> QED
      BY <1>3, <2>1, <2>2, <3>4 DEF ms, hs
  <2>3. CASE ~HarnessDir(doc)
    <3>1. hs = << >>
      BY <1>3, <2>3 DEF HarnessGates
    <3> HIDE DEF ms, hs
    <3>2. hs \in Seq(GateRecord) /\ Unique(hs) /\ Ids(hs) = {}
      BY <3>1, NoElement DEF Ids
    <3> QED
      BY <1>3, <2>1, <2>3, <3>2 DEF ms, hs
  <2> QED
    BY <2>2, <2>3
<1> QED
  BY <1>2, <1>3

LEMMA ProbeFacts ==
  ASSUME doc \in Document
  PROVE  /\ ProbeGates(doc) \in Seq(GateRecord)
         /\ Ids(ProbeGates(doc)) = {<<"probe", m>> : m \in ToSet(doc.probes)}
         /\ Unique(ProbeGates(doc)) <=> IsInjective(doc.probes)
<1> DEFINE ps == ProbeGates(doc)
<1>1. doc.probes \in Seq(Word)
  BY DocumentAssumption
<1>2. ps = [i \in DOMAIN doc.probes |-> Gate(<<"probe", doc.probes[i]>>)]
  BY DEF ProbeGates
<1> HIDE DEF ps
<1>3. \A i \in DOMAIN doc.probes : doc.probes[i] \in Word /\ <<"probe", doc.probes[i]>> \in GateName
  BY <1>1, ElementOfSeq, LenProperties, NameTyped, WordAssumption
<1>4. /\ DOMAIN ps = DOMAIN doc.probes
      /\ \A i \in DOMAIN ps : ps[i] \in GateRecord /\ ps[i].id = <<"probe", doc.probes[i]>>
  BY <1>2, <1>3, GateTyped
<1>5. ps \in Seq(GateRecord)
  BY <1>1, <1>2, <1>4, MappedSeq
<1>6. Ids(ps) = {<<"probe", m>> : m \in ToSet(doc.probes)}
  BY <1>4 DEF Ids, ToSet
<1>7. Unique(ps) <=> IsInjective(doc.probes)
  BY <1>4, TupleFacts DEF Unique, IsInjective
<1> QED
  BY <1>5, <1>6, <1>7 DEF ps

LEMMA BudgetFacts ==
  ASSUME doc \in Document
  PROVE  /\ BudgetGates(doc) \in Seq(GateRecord) /\ Unique(BudgetGates(doc))
         /\ ToSet(BudgetGates(doc)) = {BudgetGate(doc, m) : m \in DOMAIN doc.budgets}
         /\ \A m \in DOMAIN doc.budgets :
              /\ BudgetGate(doc, m) \in GateRecord /\ BudgetGate(doc, m).id = <<"budget", m>>
              /\ BudgetGate(doc, m).threshold = doc.budgets[m]
<1> DEFINE bs == BudgetGates(doc)
           ms == SetToSeq(DOMAIN doc.budgets)
<1>1. /\ IsFiniteSet(DOMAIN doc.budgets) /\ DOMAIN doc.budgets \subseteq Word
      /\ \A m \in DOMAIN doc.budgets : doc.budgets[m] \in Nat
  BY DocumentAssumption
<1>2. ms \in Seq(DOMAIN doc.budgets) /\ ToSet(ms) = DOMAIN doc.budgets /\ IsInjective(ms)
  BY <1>1, SetToSeqFacts
<1>3. bs = [i \in DOMAIN ms |-> BudgetGate(doc, ms[i])]
  BY DEF BudgetGates
<1>4. ASSUME NEW m \in DOMAIN doc.budgets
      PROVE  /\ BudgetGate(doc, m) \in GateRecord /\ BudgetGate(doc, m).id = <<"budget", m>>
             /\ BudgetGate(doc, m).threshold = doc.budgets[m]
  <2>1. <<"budget", m>> \in GateName
    BY <1>1, NameTyped, WordAssumption
  <2>2. doc.budgets[m] \in Nat
    BY <1>1
  <2> QED
    BY <2>1, <2>2, GateTyped DEF BudgetGate
<1> HIDE DEF bs, ms
<1>5. \A i \in DOMAIN ms : ms[i] \in DOMAIN doc.budgets
  BY <1>2, LenProperties
<1>6. DOMAIN bs = DOMAIN ms /\ \A i \in DOMAIN ms : bs[i] \in GateRecord /\ bs[i].id = <<"budget", ms[i]>>
  BY <1>3, <1>4, <1>5
<1>7. bs \in Seq(GateRecord)
  BY <1>2, <1>3, <1>6, MappedSeq
<1>8. Unique(bs)
  BY <1>2, <1>6, TupleFacts DEF Unique, IsInjective
<1>9. ToSet(bs) = {BudgetGate(doc, m) : m \in DOMAIN doc.budgets}
  BY <1>2, <1>3 DEF ToSet
<1> QED
  BY <1>4, <1>7, <1>8, <1>9 DEF bs

(* The ids of the checks, and when no two checks share one.                    *)
CheckIds ==
  {<<"unit">>, <<"regression">>}
    \cup {<<"harness", m>> : m \in ToSet(HarnessModules(doc))}
    \cup (IF HarnessModules(doc) = << >> /\ HarnessDir(doc) THEN {<<"harness">>} ELSE {})
    \cup (IF doc.service THEN {<<"service">>} ELSE {})
    \cup (IF Roots # {} /\ doc.stdlib THEN {<<"stdlib-only">>} ELSE {})
    \cup (IF doc.offline THEN {<<"no-network">>} ELSE {})
    \cup {<<"probe", m>> : m \in ToSet(doc.probes)}
    \cup (IF doc.deploy = "ok" THEN {<<"deploy">>} ELSE {})
    \cup {<<"budget", m>> : m \in DOMAIN doc.budgets}

LEMMA JoinSeqs ==
  ASSUME NEW s \in Seq(GateRecord), NEW t \in Seq(GateRecord), Ids(s) \cap Ids(t) = {}
  PROVE  /\ s \o t \in Seq(GateRecord) /\ ToSet(s \o t) = ToSet(s) \cup ToSet(t)
         /\ Ids(s \o t) = Ids(s) \cup Ids(t)
         /\ Unique(s \o t) <=> Unique(s) /\ Unique(t)
BY ConcatElements, ConcatUnique DEF Ids

LEMMA ChecksFacts ==
  ASSUME doc \in Document, Known \subseteq ComponentName
  PROVE  /\ Checks(doc) \in Seq(GateRecord) /\ Ids(Checks(doc)) = CheckIds
         /\ Unique(Checks(doc)) <=> IsInjective(HarnessModules(doc)) /\ IsInjective(doc.probes)
         /\ \A g \in ToSet(Checks(doc)) : g.id[1] = "budget" =>
              g.id[2] \in DOMAIN doc.budgets /\ g.threshold = doc.budgets[g.id[2]]
         /\ \A m \in DOMAIN doc.budgets : BudgetGate(doc, m) \in ToSet(Checks(doc))
<1> DEFINE s1 == << Gate(<<"unit">>) >>
           s2 == HarnessGates(doc)
           s3 == Only(doc.service, <<"service">>)
           s4 == Only(Roots # {} /\ doc.stdlib, <<"stdlib-only">>)
           s5 == Only(doc.offline, <<"no-network">>)
           s6 == << Gate(<<"regression">>) >>
           s7 == ProbeGates(doc)
           s8 == Only(doc.deploy = "ok", <<"deploy">>)
           s9 == BudgetGates(doc)
<1>1. Checks(doc) = s1 \o s2 \o s3 \o (s4 \o s5) \o s6 \o s7 \o s8 \o s9
  BY DEF Checks, PolicyGates
<1>2. {doc.service, doc.stdlib, doc.offline} \subseteq BOOLEAN
  BY DocumentAssumption
<1>3. /\ <<"unit">> \in GateName /\ <<"regression">> \in GateName /\ <<"service">> \in GateName
      /\ <<"stdlib-only">> \in GateName /\ <<"no-network">> \in GateName /\ <<"deploy">> \in GateName
  BY NameTyped, WordAssumption
<1>4. s1 \in Seq(GateRecord) /\ Ids(s1) = {<<"unit">>} /\ Unique(s1)
  BY <1>3, GateTyped, OneElement DEF Ids
<1>5. s6 \in Seq(GateRecord) /\ Ids(s6) = {<<"regression">>} /\ Unique(s6)
  BY <1>3, GateTyped, OneElement DEF Ids
<1>6. /\ s3 \in Seq(GateRecord) /\ Unique(s3)
      /\ Ids(s3) = IF doc.service THEN {<<"service">>} ELSE {}
  BY <1>2, <1>3, OnlyFacts
<1>7. /\ s4 \in Seq(GateRecord) /\ Unique(s4)
      /\ Ids(s4) = IF Roots # {} /\ doc.stdlib THEN {<<"stdlib-only">>} ELSE {}
  <2>1. (Roots # {} /\ doc.stdlib) \in BOOLEAN
    OBVIOUS
  <2> QED
    BY <1>3, <2>1, OnlyFacts
<1>8. /\ s5 \in Seq(GateRecord) /\ Unique(s5)
      /\ Ids(s5) = IF doc.offline THEN {<<"no-network">>} ELSE {}
  BY <1>2, <1>3, OnlyFacts
<1>9. /\ s8 \in Seq(GateRecord) /\ Unique(s8)
      /\ Ids(s8) = IF doc.deploy = "ok" THEN {<<"deploy">>} ELSE {}
  BY <1>3, OnlyFacts
<1>10. /\ s2 \in Seq(GateRecord) /\ s7 \in Seq(GateRecord) /\ s9 \in Seq(GateRecord)
       /\ Ids(s2) = {<<"harness", m>> : m \in ToSet(HarnessModules(doc))}
                \cup (IF HarnessModules(doc) = << >> /\ HarnessDir(doc) THEN {<<"harness">>} ELSE {})
       /\ Ids(s7) = {<<"probe", m>> : m \in ToSet(doc.probes)}
       /\ Unique(s2) <=> IsInjective(HarnessModules(doc))
       /\ Unique(s7) <=> IsInjective(doc.probes)
  BY HarnessFacts, ProbeFacts, BudgetFacts
<1>11. Ids(s9) = {<<"budget", m>> : m \in DOMAIN doc.budgets} /\ Unique(s9)
  <2>1. /\ Unique(s9) /\ ToSet(s9) = {BudgetGate(doc, m) : m \in DOMAIN doc.budgets}
        /\ \A m \in DOMAIN doc.budgets : BudgetGate(doc, m).id = <<"budget", m>>
    BY BudgetFacts
  <2> HIDE DEF s9
  <2>2. ASSUME NEW x \in Ids(s9) PROVE \E m \in DOMAIN doc.budgets : x = <<"budget", m>>
    BY <2>1, Zenon DEF Ids
  <2>3. ASSUME NEW m \in DOMAIN doc.budgets PROVE <<"budget", m>> \in Ids(s9)
    BY <2>1, Zenon DEF Ids
  <2> QED
    BY <2>1, <2>2, <2>3
<1> HIDE DEF s1, s2, s3, s4, s5, s6, s7, s8, s9
<1>a. \A g \in Ids(s1) : g[1] = "unit"
  BY <1>4, TupleFacts
<1>b. \A g \in Ids(s2) : g[1] = "harness"
  BY <1>10, TupleFacts
<1>c. \A g \in Ids(s3) : g[1] = "service"
  BY <1>6, TupleFacts
<1>d. \A g \in Ids(s4) : g[1] = "stdlib-only"
  BY <1>7, TupleFacts
<1>e. \A g \in Ids(s5) : g[1] = "no-network"
  BY <1>8, TupleFacts
<1>f. \A g \in Ids(s6) : g[1] = "regression"
  BY <1>5, TupleFacts
<1>g. \A g \in Ids(s7) : g[1] = "probe"
  BY <1>10, TupleFacts
<1>h. \A g \in Ids(s8) : g[1] = "deploy"
  BY <1>9, TupleFacts
<1>i. \A g \in Ids(s9) : g[1] = "budget"
  BY <1>11, TupleFacts
<1>12. /\ \A g \in Ids(s1) : g[1] = "unit"
       /\ \A g \in Ids(s2) : g[1] = "harness"
       /\ \A g \in Ids(s3) : g[1] = "service"
       /\ \A g \in Ids(s4) : g[1] = "stdlib-only"
       /\ \A g \in Ids(s5) : g[1] = "no-network"
       /\ \A g \in Ids(s6) : g[1] = "regression"
       /\ \A g \in Ids(s7) : g[1] = "probe"
       /\ \A g \in Ids(s8) : g[1] = "deploy"
       /\ \A g \in Ids(s9) : g[1] = "budget"
  BY <1>a, <1>b, <1>c, <1>d, <1>e, <1>f, <1>g, <1>h, <1>i
<1> DEFINE c2 == s1 \o s2
           c3 == c2 \o s3
           c45 == s4 \o s5
           c5 == c3 \o c45
           c6 == c5 \o s6
           c7 == c6 \o s7
           c8 == c7 \o s8
           c9 == c8 \o s9
<1>13. /\ c2 \in Seq(GateRecord) /\ Ids(c2) = Ids(s1) \cup Ids(s2)
       /\ Unique(c2) <=> Unique(s1) /\ Unique(s2)
       /\ \A g \in Ids(c2) : g[1] \in {"unit", "harness"}
  <2>1. Ids(s1) \cap Ids(s2) = {}
    BY <1>12
  <2> QED
    BY <1>4, <1>10, <1>12, <2>1, JoinSeqs
<1>14. /\ c3 \in Seq(GateRecord) /\ Ids(c3) = Ids(c2) \cup Ids(s3)
       /\ Unique(c3) <=> Unique(c2) /\ Unique(s3)
       /\ \A g \in Ids(c3) : g[1] \in {"unit", "harness", "service"}
  <2> HIDE DEF c2
  <2>1. Ids(c2) \cap Ids(s3) = {}
    BY <1>12, <1>13
  <2> QED
    BY <1>6, <1>12, <1>13, <2>1, JoinSeqs
<1>15. /\ c45 \in Seq(GateRecord) /\ Ids(c45) = Ids(s4) \cup Ids(s5)
       /\ Unique(c45) <=> Unique(s4) /\ Unique(s5)
       /\ \A g \in Ids(c45) : g[1] \in {"stdlib-only", "no-network"}
  <2>1. Ids(s4) \cap Ids(s5) = {}
    BY <1>12
  <2> QED
    BY <1>7, <1>8, <1>12, <2>1, JoinSeqs
<1> HIDE DEF c2, c3, c45
<1>16. /\ c5 \in Seq(GateRecord) /\ Ids(c5) = Ids(c3) \cup Ids(c45)
       /\ Unique(c5) <=> Unique(c3) /\ Unique(c45)
       /\ \A g \in Ids(c5) : g[1] \in {"unit", "harness", "service", "stdlib-only", "no-network"}
  <2>1. Ids(c3) \cap Ids(c45) = {}
    BY <1>14, <1>15
  <2> QED
    BY <1>14, <1>15, <2>1, JoinSeqs
<1> HIDE DEF c5
<1>17. /\ c6 \in Seq(GateRecord) /\ Ids(c6) = Ids(c5) \cup Ids(s6)
       /\ Unique(c6) <=> Unique(c5) /\ Unique(s6)
       /\ \A g \in Ids(c6) : g[1] \notin {"probe", "deploy", "budget"}
  <2>1. Ids(c5) \cap Ids(s6) = {}
    BY <1>12, <1>16
  <2> QED
    BY <1>5, <1>12, <1>16, <2>1, JoinSeqs
<1> HIDE DEF c6
<1>18. /\ c7 \in Seq(GateRecord) /\ Ids(c7) = Ids(c6) \cup Ids(s7)
       /\ Unique(c7) <=> Unique(c6) /\ Unique(s7)
       /\ \A g \in Ids(c7) : g[1] \notin {"deploy", "budget"}
  <2>1. Ids(c6) \cap Ids(s7) = {}
    BY <1>12, <1>17
  <2> QED
    BY <1>10, <1>12, <1>17, <2>1, JoinSeqs
<1> HIDE DEF c7
<1>19. /\ c8 \in Seq(GateRecord) /\ Ids(c8) = Ids(c7) \cup Ids(s8)
       /\ Unique(c8) <=> Unique(c7) /\ Unique(s8)
       /\ \A g \in Ids(c8) : g[1] # "budget"
  <2>1. Ids(c7) \cap Ids(s8) = {}
    BY <1>12, <1>18
  <2> QED
    BY <1>9, <1>12, <1>18, <2>1, JoinSeqs
<1> HIDE DEF c8
<1>20. /\ c9 \in Seq(GateRecord) /\ Ids(c9) = Ids(c8) \cup Ids(s9)
       /\ ToSet(c9) = ToSet(c8) \cup ToSet(s9)
       /\ Unique(c9) <=> Unique(c8) /\ Unique(s9)
  <2>1. Ids(c8) \cap Ids(s9) = {}
    BY <1>12, <1>19
  <2> QED
    BY <1>10, <1>19, <2>1, JoinSeqs
<1>21. Checks(doc) = c9
  BY <1>1 DEF c2, c3, c45, c5, c6, c7, c8
<1> HIDE DEF c9
<1>22. /\ ToSet(s9) = {BudgetGate(doc, m) : m \in DOMAIN doc.budgets}
       /\ \A m \in DOMAIN doc.budgets :
            BudgetGate(doc, m).id = <<"budget", m>> /\ BudgetGate(doc, m).threshold = doc.budgets[m]
  BY BudgetFacts DEF s9
<1>23. \A g \in ToSet(c9) : g.id[1] = "budget" =>
         g.id[2] \in DOMAIN doc.budgets /\ g.threshold = doc.budgets[g.id[2]]
  <2> SUFFICES ASSUME NEW g \in ToSet(c9), g.id[1] = "budget"
               PROVE  g.id[2] \in DOMAIN doc.budgets /\ g.threshold = doc.budgets[g.id[2]]
    OBVIOUS
  <2>1. g \in ToSet(s9)
    BY <1>19, <1>20 DEF Ids
  <2> QED
    BY <1>22, <2>1, TupleFacts
<1>24. Ids(c9) = CheckIds
  BY <1>4, <1>5, <1>6, <1>7, <1>8, <1>9, <1>10, <1>11, <1>13, <1>14, <1>15, <1>16, <1>17, <1>18,
     <1>19, <1>20 DEF CheckIds
<1>25. Unique(c9) <=> IsInjective(HarnessModules(doc)) /\ IsInjective(doc.probes)
  BY <1>4, <1>5, <1>6, <1>7, <1>8, <1>9, <1>10, <1>11, <1>13, <1>14, <1>15, <1>16, <1>17, <1>18,
     <1>19, <1>20
<1> QED
  BY <1>20, <1>21, <1>22, <1>23, <1>24, <1>25

-----------------------------------------------------------------------------
(* The inductive invariant.                                                    *)
ComponentRecord == [id : ComponentName, owns : SUBSET Path, deps : SUBSET ComponentName]

(* What deriving the components keeps, up to the compiled draft.               *)
Typed ==
  /\ comps \in Seq(ComponentRecord) /\ used \in Seq(Seq(Word)) /\ Len(used) = Len(comps)
  /\ doc.title /\ doc.deliverables # << >>

(* What is no longer to do is owned, and nothing else is.                      *)
Owned ==
  /\ \A i \in Indices \ todo : \E k \in DOMAIN comps : PathOf(i) \in comps[k].owns
  /\ \A k \in DOMAIN comps : \A p \in comps[k].owns : \E i \in Indices \ todo : p = PathOf(i)

(* A component stands for one of its files: its stem is that file's, and every *)
(* stem seen has a component with the plain id.                                *)
StemsUsed ==
  /\ \A k \in DOMAIN comps :
       comps[k].id.stem = used[k] /\ \E p \in comps[k].owns : Stem(p) = used[k]
  /\ \A k \in DOMAIN used : Id("", used[k], 1) \in Known
  /\ \A i \in Indices \ todo : Parsed(Item(i)) /\ ~IsTest(PathOf(i)) =>
       \E k \in DOMAIN used : used[k] = Stem(PathOf(i))

DepsDeclared ==
  \A k \in DOMAIN comps :
    comps[k].deps = {} \/ \E i \in Indices : Parsed(Item(i)) /\ comps[k].deps = Item(i).deps

(* Files that differ, with stems shared by at most two, end in components that *)
(* differ in their ids and share no file.                                      *)
Apart ==
  Distinct =>
    \A k, l \in DOMAIN comps :
      k # l => comps[k].id # comps[l].id /\ comps[k].owns \cap comps[l].owns = {}

Built == Typed /\ Owned /\ StemsUsed /\ DepsDeclared /\ Apart

Derived ==
  /\ todo = {} /\ gates = Append(Checks(doc), LayoutGate(doc))
  /\ ~DependsOnUnknown /\ doc.deploy # "broken"

BoundAll ==
  /\ criteria = [i \in DOMAIN doc.acceptance |->
                   [tag |-> doc.acceptance[i], gates |-> Bound(doc.acceptance[i])]]
  /\ doc.acceptance # << >> /\ doc.limits # "no number"
  /\ \A i \in DOMAIN doc.acceptance : Named(doc.acceptance[i]) # {}

RefusedWithReason ==
  phase \in {"refused", "raised"} => Faulty \/ ~Distinct \/ ~NamesResolve

IInv ==
  /\ doc \in Document /\ todo \subseteq Indices
  /\ phase \in {"components", "acceptance", "validate", "compiled"} => Built
  /\ phase \in {"acceptance", "validate", "compiled"} => Derived
  /\ phase \in {"validate", "compiled"} => BoundAll
  /\ phase \in {"compiled", "loaded"} => Valid
  /\ RefusedWithReason

-----------------------------------------------------------------------------
(* One more element.                                                           *)
LEMMA AppendFacts ==
  ASSUME NEW S, NEW s \in Seq(S), NEW e \in S, NEW t, t = Append(s, e)
  PROVE  /\ t \in Seq(S) /\ Len(t) = Len(s) + 1 /\ Len(s) \in Nat
         /\ DOMAIN s = 1..Len(s) /\ DOMAIN t = 1..(Len(s) + 1)
         /\ t[Len(s) + 1] = e /\ \A i \in DOMAIN s : t[i] = s[i]
BY AppendProperties, LenProperties

LEMMA StemTyped ==
  ASSUME NEW p \in Path
  PROVE  Stem(p) \in Seq(Word)
<1>1. p.stem \in Word /\ "test" \in Word
  BY WordAssumption DEF Path
<1>2. <<p.stem>> \in Seq(Word) /\ <<"test", p.stem>> \in Seq(Word)
  BY <1>1
<1> QED
  BY <1>2 DEF Stem

LEMMA ItemTyped ==
  ASSUME doc \in Document, NEW i \in Indices
  PROVE  /\ Item(i) \in Deliverable /\ PathOf(i) \in Path
         /\ Item(i).deps \subseteq ComponentName /\ Item(i).of \subseteq ComponentName
<1>1. doc.deliverables \in Seq(Deliverable)
  BY DocumentAssumption
<1>2. doc.deliverables[i] \in Deliverable
  BY <1>1, ElementOfSeq, LenProperties DEF Indices
<1> QED
  BY <1>2 DEF Item, PathOf, Deliverable

LEMMA SeenTyped ==
  ASSUME Typed, NEW s
  PROVE  /\ Seen(s) \in Nat
         /\ Seen(s) = 0 <=> \A k \in DOMAIN used : used[k] # s
<1> DEFINE S == {i \in DOMAIN used : used[i] = s}
<1>1. Len(used) \in Nat /\ DOMAIN used = 1..Len(used)
  BY LenProperties DEF Typed
<1>2. IsFiniteSet(DOMAIN used)
  BY <1>1, FS_Interval
<1>3. IsFiniteSet(S)
  BY <1>2, FS_Subset
<1> QED
  BY <1>3, FS_CardinalityType, FS_EmptySet DEF Seen

LEMMA IdStem ==
  ASSUME NEW prefix, NEW stem, NEW n
  PROVE  Id(prefix, stem, n).stem = stem
BY DEF Id

LEMMA IdsDiffer ==
  ASSUME NEW stem, NEW prefix, NEW n \in Nat
  PROVE  /\ prefix # "" => Id(prefix, stem, 1) # Id("", stem, 1)
         /\ n # 1 => Id("", stem, n) # Id("", stem, 1)
BY DEF Id

LEMMA IdTyped ==
  ASSUME Typed, NEW p \in Path
  PROVE  ComponentId(p) \in ComponentName /\ ComponentId(p).stem = Stem(p)
<1>1. Stem(p) \in Seq(Word) /\ Seen(Stem(p)) \in Nat
  BY StemTyped, SeenTyped
<1>2. "" \in Word /\ Parent[p.dir] \in Word
  BY WordAssumption DEF Path
<1>3. \A prefix \in Word, n \in Nat :
        Id(prefix, Stem(p), n) \in ComponentName /\ Id(prefix, Stem(p), n).stem = Stem(p)
  BY <1>1 DEF Id, ComponentName
<1>4. 1 \in Nat /\ Seen(Stem(p)) + 1 \in Nat
  BY <1>1
<1> QED
  BY <1>2, <1>3, <1>4 DEF ComponentId

LEMMA ThreeApart ==
  ASSUME NEW i, NEW j, NEW k, i # j, i # k, j # k
  PROVE  Cardinality({i, j, k}) = 3
<1>1. IsFiniteSet({i}) /\ Cardinality({i}) = 1
  BY FS_Singleton
<1>2. IsFiniteSet({i} \cup {j}) /\ Cardinality({i} \cup {j}) = 2
  BY <1>1, FS_AddElement
<1>3. Cardinality(({i} \cup {j}) \cup {k}) = 3
  BY <1>2, FS_AddElement
<1>4. ({i} \cup {j}) \cup {k} = {i, j, k}
  OBVIOUS
<1> QED
  BY <1>3, <1>4

(* A new component has an id of its own when the documents' stems are shared   *)
(* by at most two files.                                                       *)
LEMMA FreshId ==
  ASSUME Built, Distinct, todo \subseteq Indices, NEW i \in todo, PathOf(i) \in Path,
         NEW k \in DOMAIN comps
  PROVE  ComponentId(PathOf(i)) # comps[k].id /\ PathOf(i) \notin comps[k].owns
<1> DEFINE p == PathOf(i)
<1>1. p \notin comps[k].owns
  BY DEF Built, Owned, Distinct
<1>2. DOMAIN used = DOMAIN comps
  BY LenProperties DEF Built, Typed
<1>3. /\ Seen(Stem(p)) \in Nat
      /\ Seen(Stem(p)) = 0 <=> \A l \in DOMAIN used : used[l] # Stem(p)
      /\ ComponentId(p).stem = Stem(p)
  BY SeenTyped, IdTyped DEF Built
<1>4. CASE used[k] # Stem(p)
  <2>1. comps[k].id.stem # Stem(p)
    BY <1>4 DEF Built, StemsUsed
  <2> QED
    BY <1>1, <1>3, <2>1
<1>5. CASE used[k] = Stem(p)
  <2>1. PICK l \in DOMAIN comps : comps[l].id = Id("", Stem(p), 1)
    BY <1>2, <1>5 DEF Built, StemsUsed, Known
  <2>2. used[l] = Stem(p)
    <3>1. Id("", Stem(p), 1).stem = Stem(p)
      BY IdStem
    <3> QED
      BY <2>1, <3>1 DEF Built, StemsUsed
  <2>3. l = k
    <3> SUFFICES ASSUME l # k PROVE FALSE
      OBVIOUS
    <3>1. PICK p1 \in comps[k].owns : Stem(p1) = Stem(p)
      BY <1>5 DEF Built, StemsUsed
    <3>2. PICK p2 \in comps[l].owns : Stem(p2) = Stem(p)
      BY <2>2 DEF Built, StemsUsed
    <3>3. p1 # p2
      BY DEF Built, Apart
    <3>4. PICK j1 \in Indices \ todo : p1 = PathOf(j1)
      BY DEF Built, Owned
    <3>5. PICK j2 \in Indices \ todo : p2 = PathOf(j2)
      BY DEF Built, Owned
    <3>6. i # j1 /\ i # j2 /\ j1 # j2
      BY <3>3, <3>4, <3>5
    <3>7. Cardinality({i, j1, j2}) = 3
      BY <3>6, ThreeApart
    <3>8. /\ i \in Indices /\ j1 \in Indices /\ j2 \in Indices
          /\ Stem(PathOf(i)) = Stem(PathOf(j1)) /\ Stem(PathOf(j1)) = Stem(PathOf(j2))
      BY <3>1, <3>2, <3>4, <3>5
    <3> QED
      BY <3>7, <3>8 DEF Distinct
  <2>4. Seen(Stem(p)) # 0
    BY <1>2, <1>3, <1>5
  <2>5. ComponentId(p) = IF Parent[p.dir] # "" THEN Id(Parent[p.dir], Stem(p), 1)
                         ELSE Id("", Stem(p), Seen(Stem(p)) + 1)
    BY <2>4 DEF ComponentId
  <2>6. Seen(Stem(p)) + 1 # 1
    BY <1>3, <2>4
  <2>a. /\ Parent[p.dir] # "" => Id(Parent[p.dir], Stem(p), 1) # Id("", Stem(p), 1)
        /\ Id("", Stem(p), Seen(Stem(p)) + 1) # Id("", Stem(p), 1)
    <3> DEFINE n == Seen(Stem(p)) + 1
    <3>1. n \in Nat /\ n # 1
      BY <1>3, <2>6
    <3> HIDE DEF n
    <3>2. Id("", Stem(p), n) # Id("", Stem(p), 1)
      BY <3>1, IdsDiffer
    <3> QED
      BY <3>2, IdsDiffer DEF n
  <2>7. ComponentId(p) # Id("", Stem(p), 1)
    BY <2>5, <2>a
  <2> QED
    BY <1>1, <2>1, <2>3, <2>7
<1> QED
  BY <1>4, <1>5

(* A deliverable that becomes a component of its own.                          *)
LEMMA AddBuilds ==
  ASSUME Built, doc \in Document, todo \subseteq Indices, NEW i \in todo,
         Parsed(Item(i)), NEW deps, deps = {} \/ deps = Item(i).deps,
         Add(PathOf(i), deps), todo' = todo \ {i}, doc' = doc
  PROVE  Built'
<1> DEFINE p == PathOf(i)
           c == Component(ComponentId(p), p, deps)
           n == Len(comps) + 1
<1>0. i \in Indices
  OBVIOUS
<1>1. p \in Path /\ deps \subseteq ComponentName /\ Stem(p) \in Seq(Word)
  BY <1>0, ItemTyped, StemTyped
<1>2. ComponentId(p) \in ComponentName /\ ComponentId(p).stem = Stem(p)
  BY <1>1, IdTyped DEF Built
<1>3. c \in ComponentRecord /\ c.id = ComponentId(p) /\ c.owns = {p} /\ c.deps = deps
  BY <1>1, <1>2 DEF Component, ComponentRecord
<1>4. comps' = Append(comps, c) /\ used' = Append(used, Stem(p))
  BY DEF Add
<1> HIDE DEF c
<1>5. /\ comps' \in Seq(ComponentRecord) /\ Len(comps') = n /\ DOMAIN comps = 1..Len(comps)
      /\ DOMAIN comps' = 1..n /\ comps'[n] = c /\ \A k \in DOMAIN comps : comps'[k] = comps[k]
      /\ Len(comps) \in Nat
  BY <1>3, <1>4, AppendFacts DEF Built, Typed
<1>6. /\ used' \in Seq(Seq(Word)) /\ Len(used') = n /\ DOMAIN used = 1..Len(comps)
      /\ DOMAIN used' = 1..n /\ used'[n] = Stem(p) /\ \A k \in DOMAIN used : used'[k] = used[k]
  BY <1>1, <1>4, AppendFacts DEF Built, Typed
<1>7. /\ Indices' = Indices /\ (Indices \ todo)' = (Indices \ todo) \cup {i}
      /\ \A j : PathOf(j)' = PathOf(j) /\ Item(j)' = Item(j)
  BY <1>0 DEF Indices, PathOf, Item
<1>8. n \in DOMAIN comps' /\ \A k \in DOMAIN comps' : k = n \/ k \in DOMAIN comps
  BY <1>5
<1>9. DOMAIN comps \subseteq DOMAIN comps' /\ DOMAIN used = DOMAIN comps /\ DOMAIN used' = DOMAIN comps'
  BY <1>5, <1>6
<1> HIDE DEF n, p
<1>10. Typed'
  BY <1>5, <1>6 DEF Built, Typed
<1>11. Owned'
  <2>1. ASSUME NEW j \in Indices \ todo PROVE \E k \in DOMAIN comps' : PathOf(j) \in comps'[k].owns
    BY <1>5, <1>9 DEF Built, Owned
  <2>2. PathOf(i) \in comps'[n].owns
    BY <1>3, <1>5 DEF p
  <2>3. ASSUME NEW k \in DOMAIN comps', NEW q \in comps'[k].owns
        PROVE  \E j \in (Indices \ todo)' : q = PathOf(j)
    <3>1. CASE k = n
      BY <1>3, <1>5, <1>7, <2>3, <3>1 DEF p
    <3>2. CASE k \in DOMAIN comps
      <4>1. \E j \in Indices \ todo : q = PathOf(j)
        BY <1>5, <2>3, <3>2 DEF Built, Owned
      <4> QED
        BY <1>7, <4>1
    <3> QED
      BY <1>8, <3>1, <3>2
  <2> QED
    BY <1>7, <1>8, <2>1, <2>2, <2>3 DEF Owned
<1>12. Known' = Known \cup {ComponentId(p)}
  BY <1>3, <1>5, <1>8, <1>9 DEF Known
<1>13. StemsUsed'
  <2>1. ASSUME NEW k \in DOMAIN comps'
        PROVE  comps'[k].id.stem = used'[k] /\ \E q \in comps'[k].owns : Stem(q) = used'[k]
    BY <1>2, <1>3, <1>5, <1>6, <1>8, <1>9 DEF Built, StemsUsed
  <2>2. ASSUME NEW k \in DOMAIN used' PROVE Id("", used'[k], 1) \in Known'
    <3>1. CASE k \in DOMAIN used
      BY <1>6, <1>12, <3>1 DEF Built, StemsUsed
    <3>2. CASE k = n
      <4>1. Seen(Stem(p)) = 0 <=> \A l \in DOMAIN used : used[l] # Stem(p)
        BY SeenTyped DEF Built
      <4>2. CASE Seen(Stem(p)) = 0
        BY <1>6, <1>12, <3>2, <4>2 DEF ComponentId
      <4>3. CASE Seen(Stem(p)) # 0
        BY <1>6, <1>12, <3>2, <4>1, <4>3 DEF Built, StemsUsed
      <4> QED
        BY <4>2, <4>3
    <3> QED
      BY <1>8, <1>9, <3>1, <3>2
  <2>3. ASSUME NEW j \in (Indices \ todo)', Parsed(Item(j)), ~IsTest(PathOf(j))
        PROVE  \E k \in DOMAIN used' : used'[k] = Stem(PathOf(j))
    <3>1. CASE j = i
      BY <1>6, <1>8, <1>9, <3>1 DEF p
    <3>2. CASE j \in Indices \ todo
      BY <1>6, <1>9, <2>3, <3>2 DEF Built, StemsUsed
    <3> QED
      BY <1>7, <3>1, <3>2
  <2> QED
    BY <1>7, <2>1, <2>2, <2>3 DEF StemsUsed
<1>14. DepsDeclared'
  <2>1. ASSUME NEW k \in DOMAIN comps'
        PROVE  comps'[k].deps = {} \/ \E j \in Indices : Parsed(Item(j)) /\ comps'[k].deps = Item(j).deps
    <3>1. CASE k = n
      BY <1>0, <1>3, <1>5, <3>1
    <3>2. CASE k \in DOMAIN comps
      BY <1>5, <3>2 DEF Built, DepsDeclared
    <3> QED
      BY <1>8, <3>1, <3>2
  <2> QED
    BY <1>7, <2>1 DEF DepsDeclared
<1>15. Apart'
  <2>1. Distinct' => Distinct
    BY <1>7 DEF Distinct
  <2> SUFFICES ASSUME Distinct, NEW k \in DOMAIN comps', NEW l \in DOMAIN comps', k # l
               PROVE  comps'[k].id # comps'[l].id /\ comps'[k].owns \cap comps'[l].owns = {}
    BY <2>1 DEF Apart
  <2>2. \A m \in DOMAIN comps : c.id # comps[m].id /\ p \notin comps[m].owns
    BY <1>1, <1>3, FreshId DEF p
  <2>3. CASE k \in DOMAIN comps /\ l \in DOMAIN comps
    BY <1>5, <2>3 DEF Built, Apart
  <2>4. CASE k = n /\ l \in DOMAIN comps
    BY <1>3, <1>5, <2>2, <2>4
  <2>5. CASE k \in DOMAIN comps /\ l = n
    BY <1>3, <1>5, <2>2, <2>5
  <2> QED
    BY <1>8, <2>3, <2>4, <2>5
<1> QED
  BY <1>10, <1>11, <1>13, <1>14, <1>15 DEF Built

(* A deliverable that a component takes over.                                  *)
LEMMA GiveBuilds ==
  ASSUME Built, doc \in Document, todo \subseteq Indices, NEW i \in todo,
         Parsed(Item(i)) => IsTest(PathOf(i)),
         NEW is \in SUBSET DOMAIN comps, Give(is, PathOf(i)),
         todo' = todo \ {i}, doc' = doc, used' = used
  PROVE  Built'
<1> DEFINE p == PathOf(i)
<1>0. i \in Indices /\ p \in Path
  BY ItemTyped
<1>1. PICK m \in DOMAIN comps : comps' = [comps EXCEPT ![m].owns = @ \cup {p}]
  BY DEF Give
<1>2. /\ comps \in Seq(ComponentRecord) /\ Len(comps) \in Nat /\ DOMAIN comps = 1..Len(comps)
      /\ \A k \in DOMAIN comps : comps[k] \in ComponentRecord
  BY LenProperties, ElementOfSeq DEF Built, Typed
<1>3. /\ [comps[m] EXCEPT !.owns = @ \cup {p}] \in ComponentRecord
      /\ comps' = [comps EXCEPT ![m] = [comps[m] EXCEPT !.owns = @ \cup {p}]]
  <2>1. comps[m] \in ComponentRecord
    BY <1>2
  <2> QED
    BY <1>0, <1>1, <2>1 DEF ComponentRecord
<1>4. comps' \in Seq(ComponentRecord) /\ Len(comps') = Len(comps) /\ DOMAIN comps' = DOMAIN comps
  BY <1>2, <1>3, ExceptSeq
<1>5. \A k \in DOMAIN comps :
        /\ comps'[k].id = comps[k].id /\ comps'[k].deps = comps[k].deps
        /\ comps'[k].owns = IF k = m THEN comps[k].owns \cup {p} ELSE comps[k].owns
  <2> TAKE k \in DOMAIN comps
  <2>1. CASE k = m
    BY <1>1, <1>2, <2>1 DEF ComponentRecord
  <2>2. CASE k # m
    BY <1>1, <1>2, <2>2
  <2> QED
    BY <2>1, <2>2
<1>6. /\ Indices' = Indices /\ (Indices \ todo)' = (Indices \ todo) \cup {i}
      /\ \A j : PathOf(j)' = PathOf(j) /\ Item(j)' = Item(j)
  BY <1>0 DEF Indices, PathOf, Item
<1>7. Known' = Known
  BY <1>4, <1>5 DEF Known
<1>8. Typed'
  BY <1>4 DEF Built, Typed
<1>9. Owned'
  <2>1. ASSUME NEW j \in Indices \ todo PROVE \E k \in DOMAIN comps' : PathOf(j) \in comps'[k].owns
    BY <1>4, <1>5 DEF Built, Owned
  <2>2. PathOf(i) \in comps'[m].owns
    BY <1>5
  <2>3. ASSUME NEW k \in DOMAIN comps', NEW q \in comps'[k].owns
        PROVE  \E j \in (Indices \ todo)' : q = PathOf(j)
    <3>1. CASE q = p
      BY <1>6, <3>1
    <3>2. CASE q \in comps[k].owns
      <4>1. \E j \in Indices \ todo : q = PathOf(j)
        BY <1>4, <2>3, <3>2 DEF Built, Owned
      <4> QED
        BY <1>6, <4>1
    <3> QED
      BY <1>4, <1>5, <2>3, <3>1, <3>2
  <2> QED
    BY <1>4, <1>6, <2>1, <2>2, <2>3 DEF Owned
<1>10. StemsUsed'
  <2>1. ASSUME NEW k \in DOMAIN comps'
        PROVE  comps'[k].id.stem = used'[k] /\ \E q \in comps'[k].owns : Stem(q) = used'[k]
    <3>1. comps[k].id.stem = used[k] /\ \E q \in comps[k].owns : Stem(q) = used[k]
      BY <1>4 DEF Built, StemsUsed
    <3> QED
      BY <1>4, <1>5, <3>1
  <2>2. ASSUME NEW j \in (Indices \ todo)', Parsed(Item(j)), ~IsTest(PathOf(j))
        PROVE  \E k \in DOMAIN used : used[k] = Stem(PathOf(j))
    BY <1>6, <2>2 DEF Built, StemsUsed
  <2>3. \A k \in DOMAIN used : Id("", used[k], 1) \in Known
    BY DEF Built, StemsUsed
  <2> QED
    BY <1>6, <1>7, <2>1, <2>2, <2>3 DEF StemsUsed
<1>11. DepsDeclared'
  BY <1>4, <1>5, <1>6 DEF Built, DepsDeclared
<1>12. Apart'
  <2>1. Distinct' => Distinct
    BY <1>6 DEF Distinct
  <2> SUFFICES ASSUME Distinct, NEW k \in DOMAIN comps, NEW l \in DOMAIN comps, k # l
               PROVE  comps'[k].id # comps'[l].id /\ comps'[k].owns \cap comps'[l].owns = {}
    BY <1>4, <2>1 DEF Apart
  <2>2. \A n \in DOMAIN comps : p \notin comps[n].owns
    BY <1>0 DEF Built, Owned, Distinct
  <2>3. comps[k].id # comps[l].id /\ comps[k].owns \cap comps[l].owns = {}
    BY DEF Built, Apart
  <2> QED
    BY <1>5, <2>2, <2>3
<1> QED
  BY <1>8, <1>9, <1>10, <1>11, <1>12 DEF Built

(* A module that is no longer to do is known by its plain name.                *)
LEMMA ModulesKnown ==
  ASSUME Built, NEW j \in Indices \ todo, Parsed(Item(j)), ~IsTest(PathOf(j))
  PROVE  Plain(PathOf(j).stem) \in Known
<1>1. PICK k \in DOMAIN used : used[k] = Stem(PathOf(j))
  BY DEF Built, StemsUsed
<1>2. Stem(PathOf(j)) = <<PathOf(j).stem>>
  BY DEF Stem, IsTest
<1> QED
  BY <1>1, <1>2 DEF Built, StemsUsed, Plain

(* What names its component is reached when every module has one.              *)
LEMMA NamesAttach ==
  ASSUME Built, NamesResolve, todo \subseteq Indices, NEW i \in todo, Deriving(i), Attached(Item(i))
  PROVE  AttachTo(Item(i).of) # {}
<1>1. PICK name \in Item(i).of : TRUE
  BY DEF Attached
<1>2. PICK j \in Indices : /\ Parsed(Item(j)) /\ ~IsTest(PathOf(j))
                           /\ name = Plain(PathOf(j).stem)
  BY <1>1 DEF NamesResolve, Item
<1>3. j \notin todo
  <2>1. Pass(Item(j)) = 1 /\ Pass(Item(i)) = 3
    BY <1>2 DEF Pass, Parsed, PathOf
  <2> QED
    BY <2>1 DEF Deriving
<1>4. name \in Known
  BY <1>2, <1>3, ModulesKnown
<1> QED
  BY <1>1, <1>4 DEF AttachTo, Known

-----------------------------------------------------------------------------
(* The gates once they are derived, and the bullets bound to them.             *)
LEMMA KnownTyped ==
  ASSUME Typed
  PROVE  Known \subseteq ComponentName
<1>1. \A k \in DOMAIN comps : comps[k] \in ComponentRecord
  BY ElementOfSeq, LenProperties DEF Typed
<1> QED
  BY <1>1 DEF Known, ComponentRecord

LEMMA KindFacts ==
  /\ <<"unit">> \in CheckIds /\ <<"regression">> \in CheckIds
  /\ <<"service">> \in CheckIds <=> doc.service
  /\ <<"stdlib-only">> \in CheckIds <=> Roots # {} /\ doc.stdlib
  /\ <<"deploy">> \in CheckIds <=> doc.deploy = "ok"
  /\ \A m \in DOMAIN doc.budgets : <<"budget", m>> \in CheckIds
  /\ \A g \in CheckIds : g[1] # "layout"
  /\ \A g : g \in CheckIds /\ g[1] = "harness" <=>
       \/ \E m \in ToSet(HarnessModules(doc)) : g = <<"harness", m>>
       \/ HarnessModules(doc) = << >> /\ HarnessDir(doc) /\ g = <<"harness">>
<1> DEFINE ms == HarnessModules(doc)
           dir == HarnessDir(doc)
           roots == Roots # {}
           ps == ToSet(doc.probes)
<1>1. \A g : g \in CheckIds <=>
        \/ g = <<"unit">> \/ g = <<"regression">>
        \/ \E m \in ToSet(ms) : g = <<"harness", m>>
        \/ ms = << >> /\ dir /\ g = <<"harness">>
        \/ doc.service /\ g = <<"service">>
        \/ roots /\ doc.stdlib /\ g = <<"stdlib-only">>
        \/ doc.offline /\ g = <<"no-network">>
        \/ \E m \in ps : g = <<"probe", m>>
        \/ doc.deploy = "ok" /\ g = <<"deploy">>
        \/ \E m \in DOMAIN doc.budgets : g = <<"budget", m>>
  BY DEF CheckIds
<1> HIDE DEF ms, dir, roots, ps
<1>2. <<"unit">> \in CheckIds /\ <<"regression">> \in CheckIds
  BY <1>1
<1>3. <<"service">> \in CheckIds <=> doc.service
  BY <1>1, TupleFacts
<1>4. <<"stdlib-only">> \in CheckIds <=> roots /\ doc.stdlib
  BY <1>1, TupleFacts
<1>5. <<"deploy">> \in CheckIds <=> doc.deploy = "ok"
  BY <1>1, TupleFacts
<1>6. \A m \in DOMAIN doc.budgets : <<"budget", m>> \in CheckIds
  BY <1>1
<1>7. \A g \in CheckIds : g[1] # "layout"
  BY <1>1, TupleFacts
<1>8. ASSUME NEW g
      PROVE  g \in CheckIds /\ g[1] = "harness" <=>
               (\E m \in ToSet(ms) : g = <<"harness", m>>) \/ (ms = << >> /\ dir /\ g = <<"harness">>)
  BY <1>1, TupleFacts
<1> QED
  BY <1>2, <1>3, <1>4, <1>5, <1>6, <1>7, <1>8 DEF ms, dir, roots

LEMMA DerivedGates ==
  ASSUME doc \in Document, Typed, gates = Append(Checks(doc), LayoutGate(doc))
  PROVE  /\ Bindable = CheckIds /\ GateIds = CheckIds \cup {<<"layout">>}
         /\ Unique(gates) <=> IsInjective(HarnessModules(doc)) /\ IsInjective(doc.probes)
         /\ BudgetsAgree
         /\ \E i \in DOMAIN gates : gates[i].id = <<"layout">> /\ gates[i].paths = Paths
         /\ \A m \in DOMAIN doc.budgets : \E i \in DOMAIN gates :
              gates[i].id = <<"budget", m>> /\ gates[i].threshold = doc.budgets[m]
<1> DEFINE s == Checks(doc)
           t == << LayoutGate(doc) >>
<1>1. LayoutGate(doc) \in GateRecord /\ LayoutGate(doc).id = <<"layout">> /\ LayoutGate(doc).paths = Paths
  <2>1. Paths \subseteq Path
    BY ItemTyped DEF Paths, PathOf, Item, Indices
  <2>2. <<"layout">> \in GateName
    BY NameTyped, WordAssumption
  <2> QED
    BY <2>1, <2>2, GateTyped DEF LayoutGate, Paths
<1>2. /\ s \in Seq(GateRecord) /\ Ids(s) = CheckIds
      /\ Unique(s) <=> IsInjective(HarnessModules(doc)) /\ IsInjective(doc.probes)
      /\ \A g \in ToSet(s) : g.id[1] = "budget" =>
           g.id[2] \in DOMAIN doc.budgets /\ g.threshold = doc.budgets[g.id[2]]
      /\ \A m \in DOMAIN doc.budgets : BudgetGate(doc, m) \in ToSet(s)
  BY KnownTyped, ChecksFacts
<1>3. t \in Seq(GateRecord) /\ ToSet(t) = {LayoutGate(doc)} /\ Unique(t)
  BY <1>1, OneElement
<1>4. gates = s \o t
  BY <1>1, <1>2, AppendIsConcat
<1> HIDE DEF s, t
<1>5. Ids(t) = {<<"layout">>}
  <2>1. Ids(t) = {g.id : g \in {LayoutGate(doc)}}
    BY <1>3, Zenon DEF Ids
  <2>2. {g.id : g \in {LayoutGate(doc)}} = {LayoutGate(doc).id}
    BY Zenon
  <2> QED
    BY <1>1, <2>1, <2>2
<1>6. <<"layout">> \notin CheckIds
  BY KindFacts, TupleFacts
<1>7. Ids(s) \cap Ids(t) = {}
  BY <1>2, <1>5, <1>6
<1>8. /\ ToSet(gates) = ToSet(s) \cup {LayoutGate(doc)} /\ Ids(gates) = CheckIds \cup {<<"layout">>}
      /\ Unique(gates) <=> Unique(s)
  BY <1>2, <1>3, <1>4, <1>5, <1>7, JoinSeqs
<1>9. GateIds = Ids(gates)
  BY DEF GateIds, Ids, ToSet
<1>10. BudgetsAgree
  <2> SUFFICES ASSUME NEW i \in DOMAIN gates, gates[i].id[1] = "budget"
               PROVE  /\ gates[i].id[2] \in DOMAIN doc.budgets
                      /\ gates[i].threshold = doc.budgets[gates[i].id[2]]
    BY DEF BudgetsAgree
  <2>1. gates[i] \in ToSet(gates)
    BY DEF ToSet
  <2>2. gates[i] # LayoutGate(doc)
    BY <1>1, TupleFacts
  <2> QED
    BY <1>2, <1>8, <2>1, <2>2
<1>11. \E i \in DOMAIN gates : gates[i].id = <<"layout">> /\ gates[i].paths = Paths
  <2>1. LayoutGate(doc) \in ToSet(gates)
    BY <1>8
  <2> QED
    BY <1>1, <2>1 DEF ToSet
<1>12. ASSUME NEW m \in DOMAIN doc.budgets
       PROVE  \E i \in DOMAIN gates :
                gates[i].id = <<"budget", m>> /\ gates[i].threshold = doc.budgets[m]
  <2>1. BudgetGate(doc, m) \in ToSet(gates)
    BY <1>2, <1>8
  <2>2. BudgetGate(doc, m).id = <<"budget", m>> /\ BudgetGate(doc, m).threshold = doc.budgets[m]
    BY BudgetFacts
  <2> QED
    BY <2>1, <2>2 DEF ToSet
<1> QED
  BY <1>2, <1>6, <1>8, <1>9, <1>10, <1>11, <1>12 DEF Bindable

LEMMA RootsOwned ==
  ASSUME Owned, todo = {}
  PROVE  Roots # {} <=> \E j \in Indices : ~IsTest(PathOf(j))
BY DEF Owned, Roots

(* A bullet names a gate exactly when the document gives it what it asks for.  *)
LEMMA BulletNamed ==
  ASSUME doc \in Document, Typed, Owned, Derived, NEW tag
  PROVE  Named(tag) = {} <=> NamesNothing(tag)
<1>1. Bindable = CheckIds /\ (Roots # {} <=> \E j \in Indices : ~IsTest(PathOf(j)))
  BY DerivedGates, RootsOwned DEF Derived
<1> DEFINE ms == HarnessModules(doc)
           hs == OfKind("harness")
           roots == \E j \in Indices : ~IsTest(PathOf(j))
<1>2. /\ doc.deploy \in {"none", "ok", "broken"} /\ doc.deploy # "broken"
      /\ ms # << >> => HarnessDir(doc) /\ ToSet(ms) # {}
  <2>1. doc.harness.modules \in Seq(Word)
    BY DocumentAssumption DEF Harness
  <2>2. ms # << >> => doc.harness.dir /\ ms \in Seq(Word)
    BY <2>1 DEF HarnessModules
  <2>3. ms # << >> => 1 \in DOMAIN ms
    BY <2>2, EmptySeq, LenProperties
  <2> QED
    BY <2>2, <2>3, DocumentAssumption DEF HarnessDir, Derived, ToSet
<1>3. \A g : g \in hs <=> \/ \E m \in ToSet(ms) : g = <<"harness", m>>
                          \/ ms = << >> /\ HarnessDir(doc) /\ g = <<"harness">>
  BY <1>1, KindFacts DEF OfKind
<1>4. hs # {} <=> HarnessDir(doc)
  <2> HIDE DEF hs, ms
  <2>1. CASE ms = << >>
    <3>1. ToSet(ms) = {}
      BY <2>1, NoElement
    <3>2. \A g : g \in hs <=> HarnessDir(doc) /\ g = <<"harness">>
      BY <1>3, <2>1, <3>1
    <3> QED
      BY <3>2
  <2>2. CASE ms # << >>
    <3>1. PICK m \in ToSet(ms) : TRUE
      BY <1>2, <2>2
    <3> QED
      BY <1>2, <1>3, <2>2, <3>1
  <2> QED
    BY <2>1, <2>2
<1>5. \A t : TagGate(t) = IF t = "policy" THEN <<"stdlib-only">> ELSE <<t>>
  BY DEF TagGate
<1>6. /\ <<"unit">> \in Bindable /\ <<"regression">> \in Bindable
      /\ <<"service">> \in Bindable <=> doc.service
      /\ <<"stdlib-only">> \in Bindable <=> roots /\ doc.stdlib
      /\ <<"deploy">> \in Bindable <=> doc.deploy = "ok"
  BY <1>1, KindFacts
<1>7. \A t : tag = <<t>> /\ t # "harness" => tag \notin hs
  BY <1>3, TupleFacts
<1>8. ASSUME NEW t \in Tagged, tag = <<t>>
      PROVE  Named(tag) = {g \in Bindable : g = TagGate(t)}
  <2>1. tag # << >> /\ tag # <<"harness">> /\ tag \notin hs
    BY <1>7, <1>8, TupleFacts DEF Tagged
  <2>2. Named(tag) = ({tag} \cap hs) \cup {g \in Bindable : \E u \in Tagged : tag = <<u>> /\ g = TagGate(u)}
    BY <2>1 DEF Named
  <2>3. \A u : tag = <<u>> <=> u = t
    BY <1>8, TupleFacts
  <2> QED
    BY <2>1, <2>2, <2>3
<1> HIDE DEF ms, hs, roots
<1>9. CASE tag = << >>
  <2>1. Named(tag) # {}
    BY <1>9 DEF Named, hs
  <2>2. tag # <<"service">> /\ tag # <<"deploy">> /\ tag # <<"policy">> /\ tag # <<"harness">>
    BY <1>9, TupleFacts
  <2> QED
    BY <1>9, <2>1, <2>2 DEF NamesNothing
<1>10. CASE tag = <<"harness">>
  <2>1. Named(tag) = hs
    BY <1>10, TupleFacts DEF Named, hs
  <2>2. tag # <<"service">> /\ tag # <<"deploy">> /\ tag # <<"policy">>
    BY <1>10, TupleFacts
  <2>3. NamesNothing(tag) <=> ~HarnessDir(doc)
    BY <1>10, <2>2 DEF NamesNothing
  <2> QED
    BY <1>4, <2>1, <2>3
<1>11. CASE tag = <<"service">>
  <2>1. Named(tag) = {g \in Bindable : g = <<"service">>}
    BY <1>5, <1>8, <1>11 DEF Tagged
  <2>2. NamesNothing(tag) <=> ~doc.service
    BY <1>11 DEF NamesNothing
  <2> QED
    BY <1>6, <2>1, <2>2
<1>12. CASE tag = <<"deploy">>
  <2>1. Named(tag) = {g \in Bindable : g = <<"deploy">>}
    BY <1>5, <1>8, <1>12 DEF Tagged
  <2>2. tag # <<"service">>
    BY <1>12, TupleFacts
  <2>3. NamesNothing(tag) <=> doc.deploy = "none"
    BY <1>12, <2>2 DEF NamesNothing
  <2> QED
    BY <1>2, <1>6, <2>1, <2>3
<1>13. CASE tag = <<"policy">>
  <2>1. Named(tag) = {g \in Bindable : g = <<"stdlib-only">>}
    BY <1>5, <1>8, <1>13 DEF Tagged
  <2>2. tag # <<"service">> /\ tag # <<"deploy">>
    BY <1>13, TupleFacts
  <2>3. NamesNothing(tag) <=> ~(doc.stdlib /\ roots)
    BY <1>13, <2>2 DEF NamesNothing, roots
  <2> QED
    BY <1>6, <2>1, <2>3
<1>14. CASE tag \in {<<"unit">>, <<"regression">>}
  <2>1. Named(tag) = {g \in Bindable : g = tag}
    BY <1>5, <1>8, <1>14 DEF Tagged
  <2>2. tag # <<"service">> /\ tag # <<"deploy">> /\ tag # <<"policy">> /\ tag # <<"harness">>
    BY <1>14, TupleFacts
  <2>3. ~NamesNothing(tag)
    BY <1>14, <2>2 DEF NamesNothing
  <2> QED
    BY <1>6, <1>14, <2>1, <2>3
<1>15. CASE /\ tag \notin {<< >>, <<"unit">>, <<"regression">>} /\ tag # <<"service">>
            /\ tag # <<"deploy">> /\ tag # <<"policy">> /\ tag # <<"harness">>
  <2>1. Named(tag) = {tag} \cap hs
    <3>1. \A t \in Tagged : tag # <<t>>
      BY <1>15 DEF Tagged
    <3>2. Named(tag) = ({tag} \cap hs) \cup {g \in Bindable : \E u \in Tagged : tag = <<u>> /\ g = TagGate(u)}
      BY <1>15 DEF Named, hs
    <3> QED
      BY <3>1, <3>2
  <2>2. NamesNothing(tag) <=> tag \notin {<<"harness", m>> : m \in ToSet(ms)}
    BY <1>15 DEF NamesNothing, ms
  <2> QED
    BY <1>3, <1>15, <2>1, <2>2
<1> QED
  BY <1>9, <1>10, <1>11, <1>12, <1>13, <1>14, <1>15

LEMMA BoundResolves ==
  ASSUME doc \in Document, Typed, Derived, NEW tag
  PROVE  /\ Named(tag) \subseteq Bound(tag) /\ Bound(tag) \subseteq GateIds
         /\ tag = <<"deploy">> => \A m \in DOMAIN doc.budgets : <<"budget", m>> \in Bound(tag)
<1>1. Bindable = CheckIds /\ GateIds = CheckIds \cup {<<"layout">>}
  BY DerivedGates DEF Derived
<1>2. \A kind : OfKind(kind) \subseteq Bindable
  BY DEF OfKind
<1>3. Named(tag) \subseteq Bindable
  <2>1. <<"regression">> \in Bindable
    BY <1>1, KindFacts
  <2>2. \/ Named(tag) = {<<"regression">>} \/ Named(tag) = OfKind("harness")
        \/ Named(tag) = ({tag} \cap OfKind("harness"))
             \cup {g \in Bindable : \E t \in Tagged : tag = <<t>> /\ g = TagGate(t)}
    <3>1. CASE tag = << >>
      BY <3>1 DEF Named
    <3>2. CASE tag = <<"harness">>
      BY <3>2, TupleFacts DEF Named
    <3>3. CASE tag # << >> /\ tag # <<"harness">>
      BY <3>3 DEF Named
    <3> QED
      BY <3>1, <3>2, <3>3
  <2> QED
    BY <1>2, <2>1, <2>2
<1>4. Named(tag) \subseteq Bound(tag) /\ Bound(tag) \subseteq Bindable
  BY <1>2, <1>3 DEF Bound
<1>5. ASSUME tag = <<"deploy">>, NEW m \in DOMAIN doc.budgets PROVE <<"budget", m>> \in Bound(tag)
  <2>1. <<"budget", m>> \in OfKind("budget")
    BY <1>1, KindFacts, TupleFacts DEF OfKind
  <2> QED
    BY <1>5, <2>1 DEF Bound
<1> QED
  BY <1>1, <1>4, <1>5

LEMMA CriteriaBound ==
  ASSUME doc \in Document, BoundAll
  PROVE  /\ doc.acceptance \in Seq(Seq(Word)) /\ criteria # << >>
         /\ DOMAIN criteria = DOMAIN doc.acceptance /\ Len(criteria) = Len(doc.acceptance)
         /\ \A i \in DOMAIN criteria : criteria[i].gates = Bound(doc.acceptance[i])
<1>1. doc.acceptance \in Seq(Seq(Word))
  BY DocumentAssumption
<1>2. Len(doc.acceptance) \in Nat /\ DOMAIN doc.acceptance = 1..Len(doc.acceptance)
  BY <1>1, LenProperties
<1>3. DOMAIN criteria = DOMAIN doc.acceptance
  BY DEF BoundAll
<1>4. Len(criteria) = Len(doc.acceptance)
  BY <1>2, <1>3
<1>5. criteria # << >>
  <2>1. Len(doc.acceptance) # 0
    BY <1>1, EmptySeq DEF BoundAll
  <2>2. 1 \in DOMAIN criteria
    BY <1>2, <1>3, <2>1
  <2> QED
    BY <2>2
<1> QED
  BY <1>1, <1>3, <1>4, <1>5 DEF BoundAll

(* A document without a fault has a draft that holds.                          *)
LEMMA FaultlessIsValid ==
  ASSUME doc \in Document, Built, Derived, BoundAll, ~Faulty, Distinct
  PROVE  Valid
<1>0. Typed /\ Owned /\ DepsDeclared /\ Apart
  BY DEF Built
<1>1. doc.limits = "fine" /\ IsInjective(doc.probes) /\ IsInjective(HarnessModules(doc))
  BY DEF Faulty
<1>2. comps # << >>
  <2>1. 1 \in Indices
    <3>1. doc.deliverables \in Seq(Deliverable) /\ doc.deliverables # << >>
      BY <1>0, DocumentAssumption DEF Typed
    <3> QED
      BY <3>1, EmptySeq, LenProperties DEF Indices
  <2>2. PICK k \in DOMAIN comps : PathOf(1) \in comps[k].owns
    BY <1>0, <2>1 DEF Owned, Derived
  <2> QED
    BY <2>2
<1>3. UniqueIds
  BY <1>0, <1>1, DerivedGates DEF UniqueIds, Unique, Apart, Derived
<1>4. CriteriaResolve
  <2>1. ASSUME NEW i \in DOMAIN criteria PROVE criteria[i].gates \subseteq GateIds
    BY <1>0, CriteriaBound, BoundResolves
  <2> QED
    BY <2>1, CriteriaBound DEF CriteriaResolve
<1>5. BudgetsAgree
  BY <1>0, DerivedGates DEF Derived
<1>6. DepsResolve
  <2> SUFFICES ASSUME NEW k \in DOMAIN comps PROVE comps[k].deps \subseteq Known
    BY DEF DepsResolve
  <2>1. CASE comps[k].deps = {}
    BY <2>1
  <2>2. CASE \E i \in Indices : Parsed(Item(i)) /\ comps[k].deps = Item(i).deps
    BY <2>2 DEF Derived, DependsOnUnknown, Indices, Item
  <2> QED
    BY <1>0, <2>1, <2>2 DEF DepsDeclared
<1>7. ScopesDisjoint
  BY <1>0 DEF Apart, ScopesDisjoint
<1> QED
  BY <1>1, <1>2, <1>3, <1>4, <1>5, <1>6, <1>7 DEF Valid

(* A draft that holds shows no fault of its document.                          *)
LEMMA ValidIsFaultless ==
  ASSUME doc \in Document, Built, Derived, BoundAll, Valid
  PROVE  ~Faulty
<1>1. doc.title /\ doc.deliverables # << >> /\ doc.acceptance # << >>
  BY DEF Built, Typed, BoundAll
<1>2. doc.limits = "fine"
  BY DocumentAssumption DEF BoundAll, Valid
<1>3. doc.deploy # "broken"
  BY DEF Derived
<1>4. IsInjective(doc.probes) /\ IsInjective(HarnessModules(doc))
  BY DerivedGates DEF Built, Derived, Valid, UniqueIds
<1>5. \A i \in DOMAIN doc.acceptance : ~NamesNothing(doc.acceptance[i])
  BY BulletNamed DEF Built, BoundAll
<1> QED
  BY <1>1, <1>2, <1>3, <1>4, <1>5 DEF Faulty

LEMMA OneIndex ==
  ASSUME NEW S, NEW k \in S, \A l \in S : l = k
  PROVE  Cardinality(S) = 1
<1>1. S = {k}
  OBVIOUS
<1> QED
  BY <1>1, FS_Singleton

LEMMA DraftLosesNothing ==
  ASSUME doc \in Document, Built, Derived, BoundAll, Valid
  PROVE  NothingLost
<1>0. Typed /\ Owned
  BY DEF Built
<1>1. ASSUME NEW p \in Paths PROVE Cardinality(OwnersOf(p)) = 1
  <2>1. PICK i \in Indices : p = PathOf(i)
    BY DEF Paths, PathOf, Item, Indices
  <2>2. PICK k \in DOMAIN comps : p \in comps[k].owns
    BY <1>0, <2>1 DEF Owned, Derived
  <2>3. ASSUME NEW l \in OwnersOf(p) PROVE l = k
    <3>1. l \in DOMAIN comps /\ p \in comps[l].owns
      BY DEF OwnersOf
    <3>2. comps[l].id = comps[k].id
      BY <2>2, <3>1 DEF Valid, ScopesDisjoint
    <3> QED
      BY <3>1, <3>2 DEF Valid, UniqueIds, Unique
  <2>4. k \in OwnersOf(p)
    BY <2>2 DEF OwnersOf
  <2> QED
    BY <2>3, <2>4, OneIndex
<1>2. /\ \E i \in DOMAIN gates : gates[i].id = <<"layout">> /\ gates[i].paths = Paths
      /\ \A m \in DOMAIN doc.budgets : \E i \in DOMAIN gates :
           gates[i].id = <<"budget", m>> /\ gates[i].threshold = doc.budgets[m]
  BY <1>0, DerivedGates DEF Derived
<1>3. Len(criteria) = Len(doc.acceptance)
  BY CriteriaBound
<1>4. ASSUME NEW i \in DOMAIN criteria
      PROVE  /\ criteria[i].gates # {}
             /\ doc.acceptance[i] = <<"deploy">> =>
                  \A m \in DOMAIN doc.budgets : <<"budget", m>> \in criteria[i].gates
  <2> DEFINE tag == doc.acceptance[i]
  <2>1. criteria[i].gates = Bound(tag) /\ Named(tag) # {}
    BY CriteriaBound DEF BoundAll
  <2> HIDE DEF tag
  <2>2. /\ Named(tag) \subseteq Bound(tag)
        /\ tag = <<"deploy">> => \A m \in DOMAIN doc.budgets : <<"budget", m>> \in Bound(tag)
    BY <1>0, BoundResolves
  <2> QED
    BY <2>1, <2>2 DEF tag
<1> QED
  BY <1>1, <1>2, <1>3, <1>4 DEF NothingLost

-----------------------------------------------------------------------------
(* Every step keeps the invariant.                                             *)
LEMMA IInvInit ==
  Init => IInv
<1> SUFFICES ASSUME Init PROVE IInv
  OBVIOUS
<1>1. doc \in Document /\ todo = Indices /\ comps = << >> /\ used = << >>
  BY DEF Init, Indices
<1>2. phase = "components" => Built
  <2> SUFFICES ASSUME phase = "components" PROVE Built
    OBVIOUS
  <2>1. doc.title /\ doc.deliverables # << >>
    BY DEF Init
  <2>2. Typed
    BY <1>1, <2>1 DEF Typed
  <2>3. DOMAIN comps = {} /\ DOMAIN used = {} /\ Indices \ todo = {}
    BY <1>1
  <2>4. Owned /\ StemsUsed /\ DepsDeclared /\ Apart
    BY <2>3 DEF Owned, StemsUsed, DepsDeclared, Apart
  <2> QED
    BY <2>2, <2>4 DEF Built
<1>3. RefusedWithReason
  BY DEF Init, RefusedWithReason, Faulty
<1>4. phase \in {"components", "refused"}
  BY DEF Init
<1> QED
  BY <1>1, <1>2, <1>3, <1>4 DEF IInv

(* What the document alone decides does not change.                            *)
LEMMA DocumentDecides ==
  ASSUME doc' = doc
  PROVE  (Faulty' <=> Faulty) /\ (Distinct' <=> Distinct) /\ (NamesResolve' <=> NamesResolve)
         /\ Indices' = Indices
<1>1. Indices' = Indices /\ \A j : PathOf(j)' = PathOf(j) /\ Item(j)' = Item(j)
  BY DEF Indices, PathOf, Item
<1>2. \A tag : NamesNothing(tag)' <=> NamesNothing(tag)
  BY <1>1 DEF NamesNothing, HarnessDir, HarnessModules
<1>3. Faulty' <=> Faulty
  BY <1>2 DEF Faulty, HarnessModules
<1>4. Distinct' <=> Distinct
  BY DEF Distinct, Indices, PathOf, Item
<1>5. NamesResolve' <=> NamesResolve
  BY <1>1 DEF NamesResolve
<1> QED
  BY <1>1, <1>3, <1>4, <1>5

LEMMA BuiltKept ==
  ASSUME Built, UNCHANGED <<doc, todo, comps, used>>
  PROVE  Built'
<1>1. Indices' = Indices /\ \A j : PathOf(j)' = PathOf(j) /\ Item(j)' = Item(j)
  BY DEF Indices, PathOf, Item
<1>2. Distinct' <=> Distinct
  BY DocumentDecides
<1>3. Typed' /\ Owned' /\ DepsDeclared'
  BY <1>1 DEF Built, Typed, Owned, DepsDeclared
<1>4. Known' = Known
  BY DEF Known
<1>5. StemsUsed'
  BY <1>1, <1>4 DEF Built, StemsUsed
<1>6. Apart'
  BY <1>2 DEF Built, Apart
<1> QED
  BY <1>3, <1>5, <1>6 DEF Built

LEMMA DerivedKept ==
  ASSUME Derived, UNCHANGED <<doc, todo, comps, used, gates>>
  PROVE  Derived' /\ \A tag : Named(tag)' = Named(tag) /\ Bound(tag)' = Bound(tag)
<1>1. Known' = Known /\ Roots' = Roots
  BY DEF Known, Roots
<1>2. Checks(doc)' = Checks(doc) /\ LayoutGate(doc)' = LayoutGate(doc)
  BY <1>1 DEF Checks, HarnessGates, PolicyGates, LayoutGate
<1>3. DependsOnUnknown' <=> DependsOnUnknown
  BY <1>1 DEF DependsOnUnknown
<1>4. \A kind : OfKind(kind)' = OfKind(kind)
  BY DEF OfKind, Bindable, GateIds
<1>5. Bindable' = Bindable
  BY DEF Bindable, GateIds
<1>6. \A tag : Named(tag)' = Named(tag)
  BY <1>4, <1>5 DEF Named
<1> QED
  BY <1>2, <1>3, <1>4, <1>6 DEF Derived, Bound

LEMMA ValidKept ==
  ASSUME Valid, UNCHANGED <<doc, todo, comps, used, gates, criteria>>
  PROVE  Valid'
<1>1. Known' = Known /\ GateIds' = GateIds
  BY DEF Known, GateIds
<1>2. UniqueIds' /\ BudgetsAgree'
  BY DEF Valid, UniqueIds, Unique, BudgetsAgree
<1>3. CriteriaResolve' /\ DepsResolve'
  BY <1>1 DEF Valid, CriteriaResolve, DepsResolve
<1>4. ScopesDisjoint'
  BY DEF Valid, ScopesDisjoint
<1> QED
  BY <1>2, <1>3, <1>4 DEF Valid

LEMMA BoundKept ==
  ASSUME BoundAll, Derived, UNCHANGED <<doc, todo, comps, used, gates, criteria>>
  PROVE  BoundAll'
BY DerivedKept DEF BoundAll

LEMMA ComponentsStep ==
  ASSUME IInv, NEW i \in todo, AddModule(i) \/ AddTest(i) \/ Attach(i)
  PROVE  IInv'
<1>1. phase = "components" /\ Built /\ doc \in Document /\ todo \subseteq Indices
  BY DEF IInv, AddModule, AddTest, Attach, Deriving
<1>2. doc' = doc /\ todo' = todo \ {i}
  BY DEF AddModule, AddTest, Attach
<1>3. Indices' = Indices
  BY <1>2, DocumentDecides
<1>4. ASSUME phase' = "components", Built' PROVE IInv'
  BY <1>1, <1>2, <1>3, <1>4 DEF IInv, RefusedWithReason
<1>5. CASE AddModule(i)
  <2>1. Built'
    BY <1>1, <1>2, <1>5, AddBuilds DEF AddModule
  <2>2. phase' = "components"
    BY <1>1, <1>5 DEF AddModule
  <2> QED
    BY <1>4, <2>1, <2>2
<1>6. CASE AddTest(i)
  <2>1. CASE Owners(PathOf(i)) = {}
    <3>1. Parsed(Item(i)) /\ Add(PathOf(i), {})
      BY <1>6, <2>1 DEF AddTest
    <3>2. Built'
      BY <1>1, <1>2, <3>1, AddBuilds
    <3> QED
      BY <1>1, <1>4, <1>6, <3>2 DEF AddTest
  <2>2. CASE Owners(PathOf(i)) # {}
    <3>1. /\ Give(Owners(PathOf(i)), PathOf(i)) /\ used' = used /\ IsTest(PathOf(i))
          /\ Owners(PathOf(i)) \in SUBSET DOMAIN comps
      BY <1>6, <2>2 DEF AddTest, Owners
    <3>2. Built'
      BY <1>1, <1>2, <3>1, GiveBuilds
    <3> QED
      BY <1>1, <1>4, <1>6, <3>2 DEF AddTest
  <2> QED
    BY <2>1, <2>2
<1>7. CASE Attach(i)
  <2>1. CASE AttachTo(Item(i).of) = {}
    <3>1. phase' = "refused"
      BY <1>7, <2>1 DEF Attach
    <3>2. ~NamesResolve
      BY <1>1, <1>7, <2>1, NamesAttach DEF Attach
    <3>3. ~NamesResolve'
      BY <1>2, <3>2, DocumentDecides
    <3> QED
      BY <1>1, <1>2, <1>3, <3>1, <3>3 DEF IInv, RefusedWithReason
  <2>2. CASE AttachTo(Item(i).of) # {}
    <3>1. /\ Give(AttachTo(Item(i).of), PathOf(i)) /\ used' = used /\ ~Parsed(Item(i))
          /\ AttachTo(Item(i).of) \in SUBSET DOMAIN comps
      BY <1>7, <2>2 DEF Attach, AttachTo, Parsed
    <3>2. Built'
      BY <1>1, <1>2, <3>1, GiveBuilds
    <3>3. phase' = "components"
      BY <1>1, <1>7, <2>2 DEF Attach
    <3> QED
      BY <1>4, <3>2, <3>3
  <2> QED
    BY <2>1, <2>2
<1> QED
  BY <1>5, <1>6, <1>7

LEMMA DeriveStep ==
  ASSUME IInv, DeriveGates
  PROVE  IInv'
<1>1. /\ phase = "components" /\ Built /\ doc \in Document /\ todo \subseteq Indices /\ todo = {}
      /\ UNCHANGED <<doc, todo, comps, used, criteria>>
  BY DEF IInv, DeriveGates
<1>2. Built' /\ Indices' = Indices /\ (Faulty' <=> Faulty) /\ (NamesResolve' <=> NamesResolve)
  BY <1>1, BuiltKept, DocumentDecides
<1>3. Known' = Known /\ Roots' = Roots
  BY <1>1 DEF Known, Roots
<1>4. CASE DependsOnUnknown
  <2>1. ~NamesResolve
    <3> SUFFICES ASSUME NamesResolve PROVE FALSE
      OBVIOUS
    <3>1. PICK i \in Indices : Parsed(Item(i)) /\ ~(Item(i).deps \subseteq Known)
      BY <1>4 DEF DependsOnUnknown, Indices, Item
    <3>2. PICK name \in Item(i).deps : name \notin Known
      BY <3>1
    <3>3. PICK j \in Indices : /\ Parsed(Item(j)) /\ ~IsTest(PathOf(j))
                               /\ name = Plain(PathOf(j).stem)
      BY <3>2 DEF NamesResolve, Item
    <3>4. name \in Known
      BY <1>1, <3>3, ModulesKnown
    <3> QED
      BY <3>2, <3>4
  <2>2. phase' = "refused"
    BY <1>4 DEF DeriveGates
  <2> QED
    BY <1>1, <1>2, <2>1, <2>2 DEF IInv, RefusedWithReason
<1>5. CASE ~DependsOnUnknown /\ doc.deploy = "broken"
  <2>1. phase' = "raised" /\ Faulty
    BY <1>5 DEF DeriveGates, Faulty
  <2> QED
    BY <1>1, <1>2, <2>1 DEF IInv, RefusedWithReason
<1>6. CASE ~DependsOnUnknown /\ doc.deploy # "broken"
  <2>1. phase' = "acceptance" /\ gates' = Append(Checks(doc), LayoutGate(doc))
    BY <1>6 DEF DeriveGates
  <2>2. Checks(doc)' = Checks(doc) /\ LayoutGate(doc)' = LayoutGate(doc)
    BY <1>1, <1>3 DEF Checks, HarnessGates, PolicyGates, LayoutGate
  <2>3. ~DependsOnUnknown'
    BY <1>1, <1>3, <1>6 DEF DependsOnUnknown
  <2>4. Derived'
    BY <1>1, <1>6, <2>1, <2>2, <2>3 DEF Derived
  <2> QED
    BY <1>1, <1>2, <2>1, <2>4 DEF IInv, RefusedWithReason
<1> QED
  BY <1>4, <1>5, <1>6

LEMMA BindStep ==
  ASSUME IInv, Bind
  PROVE  IInv'
<1>1. /\ phase = "acceptance" /\ Built /\ Derived /\ doc \in Document /\ todo \subseteq Indices
      /\ UNCHANGED <<doc, todo, comps, used, gates>>
  BY DEF IInv, Bind
<1>2. Built' /\ Indices' = Indices /\ (Faulty' <=> Faulty)
  BY <1>1, BuiltKept, DocumentDecides
<1>3. Derived' /\ \A tag : Named(tag)' = Named(tag) /\ Bound(tag)' = Bound(tag)
  BY <1>1, DerivedKept
<1>4. CASE \/ doc.acceptance = << >> \/ doc.limits = "no number"
           \/ \E i \in DOMAIN doc.acceptance : Named(doc.acceptance[i]) = {}
  <2>1. phase' = "refused"
    BY <1>4 DEF Bind
  <2>2. Faulty
    BY <1>1, <1>4, BulletNamed DEF Faulty, Built
  <2> QED
    BY <1>1, <1>2, <2>1, <2>2 DEF IInv, RefusedWithReason
<1>5. CASE /\ doc.acceptance # << >> /\ doc.limits # "no number"
           /\ \A i \in DOMAIN doc.acceptance : Named(doc.acceptance[i]) # {}
  <2>1. phase' = "validate"
    BY <1>5 DEF Bind
  <2>2. criteria' = [i \in DOMAIN doc.acceptance |->
                       [tag |-> doc.acceptance[i], gates |-> Bound(doc.acceptance[i])]]
    BY DEF Bind
  <2>3. BoundAll'
    BY <1>1, <1>3, <1>5, <2>2 DEF BoundAll
  <2> QED
    BY <1>1, <1>2, <1>3, <2>1, <2>3 DEF IInv, RefusedWithReason
<1> QED
  BY <1>4, <1>5

LEMMA ValidateStep ==
  ASSUME IInv, Validate
  PROVE  IInv'
<1>1. /\ doc \in Document /\ todo \subseteq Indices
      /\ UNCHANGED <<doc, todo, comps, used, gates, criteria>>
  BY DEF IInv, Validate, draft
<1>2. Indices' = Indices /\ (Faulty' <=> Faulty) /\ (Distinct' <=> Distinct) /\ (Valid => Valid')
  BY <1>1, DocumentDecides, ValidKept
<1>3. CASE phase = "validate"
  <2>1. Built /\ Derived /\ BoundAll
    BY <1>3 DEF IInv
  <2>2. Built' /\ Derived' /\ BoundAll'
    BY <1>1, <2>1, BuiltKept, DerivedKept, BoundKept
  <2>3. CASE Valid
    BY <1>1, <1>2, <1>3, <2>2, <2>3 DEF Validate, IInv, RefusedWithReason
  <2>4. CASE ~Valid
    <3>1. Faulty \/ ~Distinct
      BY <1>1, <2>1, <2>4, FaultlessIsValid
    <3> QED
      BY <1>1, <1>2, <1>3, <2>4, <3>1 DEF Validate, IInv, RefusedWithReason
  <2> QED
    BY <2>3, <2>4
<1>4. CASE phase = "redrafted"
  BY <1>1, <1>2, <1>4 DEF Validate, IInv, RefusedWithReason
<1> QED
  BY <1>3, <1>4 DEF Validate

LEMMA IInvStep ==
  ASSUME IInv, [Next]_vars
  PROVE  IInv'
<1>1. ASSUME NEW i \in todo, AddModule(i) \/ AddTest(i) \/ Attach(i) PROVE IInv'
  BY <1>1, ComponentsStep
<1>2. CASE DeriveGates
  BY <1>2, DeriveStep
<1>3. CASE Bind
  BY <1>3, BindStep
<1>4. CASE Validate
  BY <1>4, ValidateStep
<1>5. CASE Redraft
  <2>1. phase' = "redrafted" /\ UNCHANGED <<doc, todo, used>>
    BY <1>5 DEF Redraft
  <2>2. Indices' = Indices
    BY <2>1, DocumentDecides
  <2> QED
    BY <2>1, <2>2 DEF IInv, RefusedWithReason
<1>6. CASE UNCHANGED vars
  <2>1. UNCHANGED <<doc, phase, todo, comps, used, gates, criteria>>
    BY <1>6 DEF vars
  <2>2. (Built => Built') /\ (Derived => Derived')
    BY <2>1, BuiltKept, DerivedKept
  <2>3. (Derived /\ BoundAll => BoundAll') /\ (Valid => Valid')
    BY <2>1, BoundKept, ValidKept
  <2>4. RefusedWithReason => RefusedWithReason'
    BY <2>1, DocumentDecides DEF RefusedWithReason
  <2>5. Indices' = Indices
    BY <2>1, DocumentDecides
  <2> QED
    BY <2>1, <2>2, <2>3, <2>4, <2>5 DEF IInv
<1> QED
  BY <1>1, <1>2, <1>3, <1>4, <1>5, <1>6 DEF Next

LEMMA IInvAlways ==
  Spec => []IInv
BY IInvInit, IInvStep, PTL DEF Spec

-----------------------------------------------------------------------------
(* What validate accepts, freshly compiled or redrafted, has one owner for     *)
(* each file, no id twice, and criteria on gates declared once.                *)
THEOREM AcceptedIsActionable ==
  Spec => []Actionable
<1>1. ASSUME IInv PROVE Actionable
  <2> SUFFICES ASSUME phase \in {"compiled", "loaded"}
               PROVE  /\ \A i, j \in DOMAIN comps : i # j =>
                           comps[i].id # comps[j].id /\ comps[i].owns \cap comps[j].owns = {}
                      /\ criteria # << >>
                      /\ \A i \in DOMAIN criteria : \A g \in criteria[i].gates :
                           Cardinality({j \in DOMAIN gates : gates[j].id = g}) = 1
    BY DEF Actionable
  <2>1. Valid
    BY <1>1 DEF IInv
  <2>2. \A i, j \in DOMAIN comps : i # j =>
          comps[i].id # comps[j].id /\ comps[i].owns \cap comps[j].owns = {}
    BY <2>1 DEF Valid, UniqueIds, Unique, ScopesDisjoint
  <2>3. ASSUME NEW i \in DOMAIN criteria, NEW g \in criteria[i].gates
        PROVE  Cardinality({j \in DOMAIN gates : gates[j].id = g}) = 1
    <3>1. PICK k \in DOMAIN gates : gates[k].id = g
      BY <2>1 DEF Valid, CriteriaResolve, GateIds
    <3>2. \A l \in {j \in DOMAIN gates : gates[j].id = g} : l = k
      BY <2>1, <3>1 DEF Valid, UniqueIds, Unique
    <3> QED
      BY <3>1, <3>2, OneIndex
  <2> QED
    BY <2>1, <2>2, <2>3 DEF Valid, CriteriaResolve
<1> QED
  BY <1>1, IInvAlways, PTL

(* A compiled draft has an owner for each deliverable, the layout of the whole *)
(* document, a gate for each bullet and one for each budget.                   *)
THEOREM CompiledLosesNothing ==
  Spec => []NothingLost
<1>1. ASSUME IInv PROVE NothingLost
  <2>1. CASE phase = "compiled"
    BY <1>1, <2>1, DraftLosesNothing DEF IInv
  <2>2. CASE phase # "compiled"
    BY <2>2 DEF NothingLost
  <2> QED
    BY <2>1, <2>2
<1> QED
  BY <1>1, IInvAlways, PTL

(* The document alone decides: a fault is never compiled, and nothing without  *)
(* one is refused when its files differ and share a name at most in pairs.     *)
THEOREM VerdictIsTheDocuments ==
  Spec => []JudgedByDocument
<1>1. ASSUME IInv PROVE JudgedByDocument
  <2>1. phase = "compiled" => ~Faulty
    BY <1>1, ValidIsFaultless DEF IInv
  <2>2. phase \in {"refused", "raised"} => Faulty \/ ~Distinct \/ ~NamesResolve
    BY <1>1 DEF IInv, RefusedWithReason
  <2> QED
    BY <2>1, <2>2 DEF JudgedByDocument
<1> QED
  BY <1>1, IInvAlways, PTL
=============================================================================
