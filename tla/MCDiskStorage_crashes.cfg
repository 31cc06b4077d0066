SPECIFICATION Spec
CONSTANTS
  Objects = {o1}
  Parts = {p1, p2}
  Meta = objID
  Versions = {v1, v2}
  Sizes = {s1, s2}
  NoFile = NoFile
  Callers = {c1, c2}
  Dead = Dead
  Torn = Torn
  MaxCalls = 4
  MaxCrashes = 1
SYMMETRY Symmetry
CHECK_DEADLOCK FALSE
INVARIANTS NoLeftovers RecoversExactly
PROPERTIES ImplementsStorage
