----------------------------- MODULE MCCompiler -----------------------------
(* Documents for TLC: one sound document, and all that vary its deliverables,  *)
(* its gates with the bullets that name them, or its harness.                  *)
EXTENDS Compiler

MCWord ==
  {"unit", "harness", "service", "stdlib-only", "no-network", "regression", "probe",
   "deploy", "budget", "layout", "policy", "test", "", "bogus", "elsewhere",
   "x", "y", "z", "h", "lib", "app", "tests", "src", "ms", "rps", "api", "fsck"}
MCParent == [dir \in {"", "lib", "app", "tests"} |->
  CASE dir = "" -> "" [] dir \in {"lib", "app"} -> "src" [] OTHER -> "tests"]

File(dir, kind, stem) == [dir |-> dir, kind |-> kind, stem |-> stem]
Bullet(path, deps, of) == [path |-> path, deps |-> deps, of |-> of]
X == Bullet(File("lib", "module", "x"), {}, {})

NoHarness == [meta |-> FALSE, dir |-> FALSE, modules |-> << >>, attributed |-> {}]
Sound ==
  [title |-> TRUE, deliverables |-> << X >>, harness |-> NoHarness,
   service |-> FALSE, stdlib |-> FALSE, offline |-> FALSE, deploy |-> "none",
   budgets |-> << >>, probes |-> << >>, acceptance |-> << << >> >>, limits |-> "fine"]

Bullets ==
  { X, Bullet(File("app", "module", "x"), {}, {}), Bullet(File("", "module", "x"), {}, {}),
    Bullet(File("lib", "module", "y"), {Plain("x")}, {}),
    Bullet(File("tests", "test", "x"), {Plain("z")}, {}),
    Bullet(File("tests", "test", "y"), {}, {}),
    Bullet(File("tests", "helper", "x"), {}, {}),
    Bullet(File("tests", "helper", "h"), {}, {}),
    Bullet(File("lib", "module", "z"), {}, {Plain("y")}) }

OfDeliverables ==
  { [Sound EXCEPT !.title = t, !.deliverables = ds] :
      t \in BOOLEAN, ds \in SeqOf(Bullets, 3) }

Tags == { << >>, <<"harness">>, <<"harness", "api">>, <<"unit">>, <<"policy">>,
          <<"service">>, <<"deploy">>, <<"bogus">> }
Acceptance == { << >> } \cup { << t >> : t \in Tags } \cup { << <<"unit">>, t >> : t \in Tags }
OfGates ==
  { [Sound EXCEPT !.service = on, !.stdlib = on, !.offline = ~on, !.deploy = d,
                  !.budgets = b, !.probes = p, !.acceptance = a, !.limits = l] :
      on \in BOOLEAN, d \in {"none", "ok", "broken"},
      b \in [{} -> {1}] \cup [{"ms"} -> {1, 2}] \cup [{"ms", "rps"} -> {1}],
      p \in { << >>, <<"ms">>, <<"ms", "ms">> },
      a \in Acceptance, l \in {"fine", "not positive", "no number"} }
OfHarness ==
  { [Sound EXCEPT !.harness = [meta |-> m, dir |-> d, modules |-> ms, attributed |-> at],
                  !.acceptance = a] :
      m \in BOOLEAN, d \in BOOLEAN, ms \in SeqOf({"api", "fsck"}, 2),
      at \in { {}, {Plain("x")}, {Plain("elsewhere")} }, a \in Acceptance }

MCDocument == OfDeliverables \cup OfGates \cup OfHarness
=============================================================================
