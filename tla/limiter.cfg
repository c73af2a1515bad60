SPECIFICATION Spec
CONSTANTS
  Key = {k1, k2, k3}
  Thread = {t1, t2}
  Rate = 2
  Cost = 3
  Burst = 1
  MaxKeys = 2
  Horizon = 2
  None = None
INVARIANTS TypeOK TokensAccounted
PROPERTIES ForgottenInTurn 
SYMMETRY Symmetry
