SPECIFICATION Spec
CONSTANTS
  None = None
  Objects = {o}
  LastPart = 1
  Capacity = 1
  Methods = {"GET", "HEAD"}
  Proxies = {p1, p2}
  Readers = {r}
  Removers = {m1}
  Purge = FALSE
  MaxTimers = 2
  MaxRestarts = 0
SYMMETRY Symmetry
INVARIANTS EveryFileIsAccounted
