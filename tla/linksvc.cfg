SPECIFICATION Spec
CONSTANTS
  Code = {a, h}
  Reserved = {h}
  Url = {u}
  Key = {k1}
  Conn = {c1, c2}
  MaxClicks = 1
  None = None
INVARIANTS TypeOK PromisesKept OneLinkPerKey ClicksExact
PROPERTY DrainEnds
