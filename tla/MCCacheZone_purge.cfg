SPECIFICATION Spec
CONSTANTS
  None = None
  Objects = {o}
  LastPart = 1
  Capacity = 1
  Methods = {"GET"}
  Proxies = {p1}
  Readers = {}
  Removers = {m1}
  Purge = TRUE
  MaxTimers = 2
  MaxRestarts = 0
INVARIANTS DiskWithinCapacity
