----------------------------- MODULE MCEvidence -----------------------------
(* Two tasks under a suite, a probe that measures, a budget and a layout gate. *)
EXTENDS Evidence

CONSTANTS t1, t2, suite, probe, bench, layout, works, fast

MCKind == [g \in System |->
  CASE g = bench -> "budget" [] g = layout -> "files" [] OTHER -> "cmd"]
MCBlames == [g \in System |->
  CASE g = suite -> {t1, t2} [] g \in {probe, bench} -> {t1} [] OTHER -> {}]
MCRests == [c \in Criterion |-> IF c = works THEN {suite} ELSE {probe, bench}]
=============================================================================
