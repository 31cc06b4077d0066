SPECIFICATION Spec
CONSTANTS
  None = None
  Objects = {o}
  LastPart = 0
  Capacity = 1
  Methods = {"GET", "HEAD"}
  Proxies = {p1, p2}
  Readers = {}
  Removers = {m1}
  Purge = TRUE
  MaxTimers = 2
  MaxRestarts = 2
INVARIANTS MetadataWillExpire
