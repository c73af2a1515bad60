SPECIFICATION Spec
CONSTANTS
  t1 = t1  t2 = t2
  suite = suite  probe = probe  bench = bench  layout = layout
  works = works  fast = fast
  Task = {t1, t2}
  Criterion = {works, fast}
  System = {suite, probe, bench, layout}
  Kind <- MCKind
  Publishers = {probe}
  Required = {suite, probe, bench}
  Blames <- MCBlames
  Rests <- MCRests
  Attempts = 1
  Rounds = 2
  MaxAttempts = 1
INVARIANTS  JudgedOnNewest
PROPERTIES BriefsComplete
CHECK_DEADLOCK FALSE
