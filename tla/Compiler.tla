------------------------------- MODULE Compiler -------------------------------
(* minifleet/compile.py, intent.py and gatelib.py: a Markdown document becomes *)
(* an intent.  The deliverables become components one by one; the sections     *)
(* become gates; the acceptance bullets are bound to them; validate judges the *)
(* draft, and judges it again after a model (HttpRefiner) or a hand (the JSON  *)
(* that plan loads) has changed it.                                            *)
EXTENDS Naturals, Sequences, SequencesExt, FiniteSets

CONSTANTS
  Word,      \* stems, directories, metrics, modules and tags
  Document,  \* the documents considered
  Parent     \* directory -> the name of its last part, "" for the root

(* A deliverable is a path, what it depends on, and the component it says it   *)
(* is part of (at most one).  A path is of kind "module", "test" (test_*.py)   *)
(* or "helper" (another file under tests/).  Gate ids and the tags of the      *)
(* acceptance bullets are tuples of names; no tag is the empty tuple.          *)
Path == [dir : DOMAIN Parent, kind : {"module", "test", "helper"}, stem : Word]
ComponentName == [prefix : Word, stem : Seq(Word), n : Nat]
Deliverable == [path : Path, deps : SUBSET ComponentName, of : SUBSET ComponentName]
Harness == [meta : BOOLEAN, dir : BOOLEAN, modules : Seq(Word),
            attributed : SUBSET ComponentName]

ASSUME WordAssumption ==
  /\ {"unit", "harness", "service", "stdlib-only", "no-network", "regression", "probe",
      "deploy", "budget", "layout", "policy", "test", ""} \subseteq Word
  /\ Parent \in [DOMAIN Parent -> Word]
ASSUME DocumentAssumption ==
  \A D \in Document :
    /\ {D.title, D.service, D.stdlib, D.offline} \subseteq BOOLEAN
    /\ D.deliverables \in Seq(Deliverable) /\ D.harness \in Harness
    /\ D.probes \in Seq(Word) /\ D.acceptance \in Seq(Seq(Word))
    /\ IsFiniteSet(DOMAIN D.budgets) /\ DOMAIN D.budgets \subseteq Word
    /\ \A m \in DOMAIN D.budgets : D.budgets[m] \in Nat
    /\ D.deploy \in {"none", "ok", "broken"}
    /\ D.limits \in {"fine", "not positive", "no number"}

VARIABLES
  doc, phase,
  todo,      \* deliverables that are no component's yet, by their place
  comps,     \* the components, in order
  used,      \* stems that were seen, with their number
  gates, criteria

vars == <<doc, phase, todo, comps, used, gates, criteria>>
draft == <<comps, gates, criteria>>

IsTest(p) == p.kind \in {"test", "helper"}
Stem(p) == IF p.kind = "test" THEN <<"test", p.stem>> ELSE <<p.stem>>
Id(prefix, stem, n) == [prefix |-> prefix, stem |-> stem, n |-> n]
Plain(name) == Id("", <<name>>, 1)  \* the id a first module of that name gets

Attached(d) == d.of # {}
Parsed(d) == ~Attached(d)

(* Modules come first, then tests, then what names its component.              *)
Pass(d) == IF Attached(d) THEN 3 ELSE IF IsTest(d.path) THEN 2 ELSE 1

Init ==
  /\ doc \in Document
  /\ phase = IF doc.title /\ doc.deliverables # << >> THEN "components" ELSE "refused"
  /\ todo = DOMAIN doc.deliverables /\ comps = << >> /\ used = << >>
  /\ gates = << >> /\ criteria = << >>

-----------------------------------------------------------------------------
(* components_from_deliverables                                                *)
Seen(s) == Cardinality({i \in DOMAIN used : used[i] = s})
ComponentIdPlain(p) == Id("", Stem(p), 1)
ComponentId(p) ==
  IF Seen(Stem(p)) = 0 THEN Id("", Stem(p), 1)
  ELSE IF Parent[p.dir] # "" THEN Id(Parent[p.dir], Stem(p), 1)
  ELSE Id("", Stem(p), Seen(Stem(p)) + 1)
Component(id, p, deps) == [id |-> id, owns |-> {p}, deps |-> deps]

Known == {comps[i].id : i \in DOMAIN comps}
Owners(p) == {i \in DOMAIN comps : \E q \in comps[i].owns : Stem(q) = <<p.stem>>}

Give(is, p) ==
  \E i \in is : (\A j \in is : i <= j) /\ comps' = [comps EXCEPT ![i].owns = @ \cup {p}]
Add(p, deps) ==
  /\ comps' = Append(comps, Component(ComponentId(p), p, deps))
  /\ used' = Append(used, Stem(p))

Item(i) == doc.deliverables[i]
PathOf(i) == Item(i).path

Deriving(i) ==
  /\ phase = "components" /\ i \in todo
  /\ \A j \in todo : \/ Pass(Item(i)) < Pass(Item(j))
                     \/ Pass(Item(i)) = Pass(Item(j)) /\ i <= j

AddModule(i) ==
  /\ Deriving(i) /\ Parsed(Item(i)) /\ ~IsTest(PathOf(i))
  /\ Add(PathOf(i), Item(i).deps)
  /\ todo' = todo \ {i}
  /\ UNCHANGED <<doc, phase, gates, criteria>>

(* A test goes to the first component with a file of its name, or stands       *)
(* alone; what it says it depends on is dropped.                               *)
AddTest(i) ==
  /\ Deriving(i) /\ Parsed(Item(i)) /\ IsTest(PathOf(i))
  /\ IF Owners(PathOf(i)) = {}
     THEN Add(PathOf(i), {})
     ELSE Give(Owners(PathOf(i)), PathOf(i)) /\ UNCHANGED used
  /\ todo' = todo \ {i}
  /\ UNCHANGED <<doc, phase, gates, criteria>>

AttachTo(of) == {i \in DOMAIN comps : comps[i].id \in of}
Attach(i) ==
  /\ Deriving(i) /\ Attached(Item(i))
  /\ IF AttachTo(Item(i).of) = {}
     THEN phase' = "refused" /\ UNCHANGED comps
     ELSE Give(AttachTo(Item(i).of), PathOf(i)) /\ UNCHANGED phase
  /\ todo' = todo \ {i}
  /\ UNCHANGED <<doc, used, gates, criteria>>

-----------------------------------------------------------------------------
(* The gates, in the order compile_document lists them.                        *)
Gate(id) == [id |-> id, attributed |-> {}, threshold |-> 0, paths |-> {}]
HarnessModules(D) == IF D.harness.dir THEN D.harness.modules ELSE << >>
HarnessDir(D) == D.harness.meta \/ D.harness.dir
HarnessGates(D) ==
  IF HarnessModules(D) # << >>
  THEN [i \in DOMAIN HarnessModules(D) |->
         [Gate(<<"harness", HarnessModules(D)[i]>>) EXCEPT !.attributed =
            IF D.harness.attributed # {} THEN D.harness.attributed ELSE Known]]
  ELSE IF HarnessDir(D)
       THEN << [Gate(<<"harness">>) EXCEPT !.attributed = Known] >>
       ELSE << >>

Only(condition, id) == IF condition THEN << Gate(id) >> ELSE << >>
Roots == {p \in UNION {comps[i].owns : i \in DOMAIN comps} : ~IsTest(p)}
PolicyGates(D) ==
  Only(Roots # {} /\ D.stdlib, <<"stdlib-only">>) \o Only(D.offline, <<"no-network">>)
ProbeGates(D) == [i \in DOMAIN D.probes |-> Gate(<<"probe", D.probes[i]>>)]
BudgetGate(D, m) == [Gate(<<"budget", m>>) EXCEPT !.threshold = D.budgets[m]]
BudgetGatesMeasured(D) ==
  LET ms == SetToSeq(DOMAIN D.budgets \cap ToSet(D.probes))
  IN [i \in DOMAIN ms |-> BudgetGate(D, ms[i])]
BudgetGates(D) ==
  LET ms == SetToSeq(DOMAIN D.budgets) IN [i \in DOMAIN ms |-> BudgetGate(D, ms[i])]
LayoutGate(D) ==
  [Gate(<<"layout">>) EXCEPT !.paths = {D.deliverables[i].path : i \in DOMAIN D.deliverables}]

Checks(D) ==
  << Gate(<<"unit">>) >> \o HarnessGates(D) \o Only(D.service, <<"service">>)
    \o PolicyGates(D) \o << Gate(<<"regression">>) >> \o ProbeGates(D)
    \o Only(D.deploy = "ok", <<"deploy">>) \o BudgetGates(D)

(* A deploy section with a command and no directory, or with seconds that are  *)
(* no number, raises what no caller catches.                                   *)
DependsOnUnknown ==
  \E i \in DOMAIN doc.deliverables :
    Parsed(doc.deliverables[i]) /\ ~(doc.deliverables[i].deps \subseteq Known)
DeriveGates ==
  /\ phase = "components" /\ todo = {}
  /\ phase' = IF DependsOnUnknown THEN "refused"
              ELSE IF doc.deploy = "broken" THEN "raised" ELSE "acceptance"
  /\ gates' = Append(Checks(doc), LayoutGate(doc))
  /\ UNCHANGED <<doc, todo, comps, used, criteria>>

-----------------------------------------------------------------------------
(* build_acceptance: a bullet is its tag, a tuple, empty for none; it is bound  *)
(* before the layout gate is there.                                            *)
GateIds == {gates[i].id : i \in DOMAIN gates}
Bindable == GateIds \ {<<"layout">>}
OfKind(kind) == {g \in Bindable : g[1] = kind}
Tagged == {"regression", "unit", "policy", "service", "deploy"}
TagGate(t) == IF t = "policy" THEN <<"stdlib-only">> ELSE <<t>>
Named(tag) ==
  CASE tag = << >>         -> IF OfKind("harness") # {} THEN OfKind("harness") ELSE {<<"regression">>}
    [] tag = <<"harness">> -> OfKind("harness")
    [] OTHER               -> ({tag} \cap OfKind("harness"))
                                \cup {g \in Bindable : \E t \in Tagged : tag = <<t>> /\ g = TagGate(t)}
BoundWithoutBudgets(tag) == Named(tag)
Bound(tag) == Named(tag) \cup (IF tag = <<"deploy">> THEN OfKind("budget") ELSE {})

Bind ==
  /\ phase = "acceptance"
  /\ phase' = IF \/ doc.acceptance = << >>
                 \/ \E i \in DOMAIN doc.acceptance : Named(doc.acceptance[i]) = {}
                 \/ doc.limits = "no number"
              THEN "refused" ELSE "validate"
  /\ criteria' = [i \in DOMAIN doc.acceptance |->
                    [tag |-> doc.acceptance[i], gates |-> Bound(doc.acceptance[i])]]
  /\ UNCHANGED <<doc, todo, comps, used, gates>>

-----------------------------------------------------------------------------
(* intent.validate                                                             *)
Unique(s) == \A i, j \in DOMAIN s : s[i].id = s[j].id => i = j
CriteriaResolve ==
  criteria # << >> /\ \A i \in DOMAIN criteria : criteria[i].gates \subseteq GateIds
BudgetsAgree ==
  \A i \in DOMAIN gates : gates[i].id[1] = "budget" =>
    /\ gates[i].id[2] \in DOMAIN doc.budgets
    /\ gates[i].threshold = doc.budgets[gates[i].id[2]]
DepsResolve == \A i \in DOMAIN comps : comps[i].deps \subseteq Known
ScopesDisjointIgnored == TRUE
ScopesDisjoint ==
  \A i, j \in DOMAIN comps : comps[i].id # comps[j].id => comps[i].owns \cap comps[j].owns = {}
UniqueIds == Unique(gates) /\ Unique(comps)
Valid ==
  /\ doc.limits # "not positive" /\ comps # << >>
  /\ UniqueIds /\ CriteriaResolve /\ BudgetsAgree /\ DepsResolve /\ ScopesDisjoint

Validate ==
  /\ phase \in {"validate", "redrafted"}
  /\ phase' = IF phase = "validate" THEN IF Valid THEN "compiled" ELSE "refused"
                                    ELSE IF Valid THEN "loaded" ELSE "rejected"
  /\ UNCHANGED <<doc, todo, draft, used>>

(* What a model answers, or an editor saves, is any draft; the ones considered *)
(* drop a gate or a criterion, move a threshold, add a path or a dependency.   *)
Redraft ==
  /\ phase = "compiled"
  /\ phase' = "redrafted"
  /\ \/ /\ \E i \in DOMAIN gates :
             \/ gates' = RemoveAt(gates, i)
             \/ gates' = [gates EXCEPT ![i].threshold = @ + 1]
        /\ UNCHANGED <<comps, criteria>>
     \/ /\ \E i \in DOMAIN criteria : criteria' = RemoveAt(criteria, i)
        /\ UNCHANGED <<comps, gates>>
     \/ /\ \E i, j \in DOMAIN comps :
             \/ comps' = [comps EXCEPT ![i].owns = @ \cup comps[j].owns]
             \/ comps' = [comps EXCEPT ![i].deps = @ \cup {Plain("elsewhere")}]
             \/ i # j /\ comps' = [comps EXCEPT ![i].id = comps[j].id]
        /\ UNCHANGED <<gates, criteria>>
  /\ UNCHANGED <<doc, todo, used>>

Next ==
  \/ \E i \in todo : AddModule(i) \/ AddTest(i) \/ Attach(i)
  \/ DeriveGates \/ Bind \/ Validate \/ Redraft

Spec == Init /\ [][Next]_vars

-----------------------------------------------------------------------------
Paths == {doc.deliverables[i].path : i \in DOMAIN doc.deliverables}
OwnersOf(p) == {i \in DOMAIN comps : p \in comps[i].owns}

(* Whatever a model or a hand did to the draft, what is accepted has one owner *)
(* for each file, no file twice under one id, and criteria that rest on gates  *)
(* it declares: `plan` builds its task graph and its scopes on this.           *)
Actionable ==
  phase \in {"compiled", "loaded"} =>
    /\ \A i, j \in DOMAIN comps : i # j =>
         comps[i].id # comps[j].id /\ comps[i].owns \cap comps[j].owns = {}
    /\ criteria # << >>
    /\ \A i \in DOMAIN criteria : \A g \in criteria[i].gates :
         Cardinality({j \in DOMAIN gates : gates[j].id = g}) = 1

(* The compiled intent loses nothing the document asks for: each deliverable   *)
(* has its owner and is looked for in the tree, each bullet rests on a gate,   *)
(* each budget has a gate with its threshold and a deploy bullet rests on all  *)
(* of them (`compile_document`).                                               *)
NothingLost ==
  phase = "compiled" =>
    /\ \A p \in Paths : Cardinality(OwnersOf(p)) = 1
    /\ \E i \in DOMAIN gates : gates[i].id = <<"layout">> /\ gates[i].paths = Paths
    /\ Len(criteria) = Len(doc.acceptance)
    /\ \A i \in DOMAIN criteria : criteria[i].gates # {}
    /\ \A m \in DOMAIN doc.budgets :
         /\ \E i \in DOMAIN gates :
              gates[i].id = <<"budget", m>> /\ gates[i].threshold = doc.budgets[m]
         /\ \A i \in DOMAIN criteria :
              doc.acceptance[i] = <<"deploy">> => <<"budget", m>> \in criteria[i].gates

(* What the document says decides alone.  A fault is never compiled; a         *)
(* document without one, whose files differ and share a name at most in pairs, *)
(* is never refused.                                                           *)
Indices == DOMAIN doc.deliverables
NamesNothing(tag) ==
  CASE tag = <<"service">> -> ~doc.service
    [] tag = <<"deploy">>  -> doc.deploy = "none"
    [] tag = <<"policy">>  -> ~(doc.stdlib /\ \E j \in Indices : ~IsTest(PathOf(j)))
    [] tag = <<"harness">> -> ~HarnessDir(doc)
    [] tag \in {<< >>, <<"unit">>, <<"regression">>} -> FALSE
    [] OTHER -> tag \notin {<<"harness", m>> : m \in ToSet(HarnessModules(doc))}
Faulty ==
  \/ ~doc.title \/ doc.deliverables = << >> \/ doc.acceptance = << >>
  \/ doc.limits # "fine" \/ doc.deploy = "broken"
  \/ ~IsInjective(doc.probes) \/ ~IsInjective(HarnessModules(doc))
  \/ \E i \in DOMAIN doc.acceptance : NamesNothing(doc.acceptance[i])
Distinct ==
  /\ \A i, j \in Indices : PathOf(i) = PathOf(j) => i = j
  /\ \A i \in Indices : ~\E j, k \in Indices :
       Cardinality({i, j, k}) = 3 /\ Stem(PathOf(i)) = Stem(PathOf(j)) /\ Stem(PathOf(j)) = Stem(PathOf(k))
NamesResolve ==
  LET modules == {Plain(PathOf(i).stem) : i \in {j \in Indices : ~IsTest(PathOf(j)) /\ Parsed(doc.deliverables[j])}}
  IN \A i \in Indices :
       /\ doc.deliverables[i].deps \subseteq modules
       /\ doc.deliverables[i].of \subseteq modules
JudgedByDocument ==
  /\ phase = "compiled" => ~Faulty
  /\ phase \in {"refused", "raised"} => Faulty \/ ~Distinct \/ ~NamesResolve
=============================================================================
