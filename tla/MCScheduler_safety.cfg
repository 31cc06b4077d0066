SPECIFICATION Spec
CONSTANTS
  k1 = k1
  k2 = k2
  e1 = e1
  e2 = e2
  None = None
  Keys = {k1, k2}
  Events = {e1, e2, e3}
  KeyOf <- TwoKeys
  DelayOf <- Delays
  Clients = {c1, c2}
  Cleaners = {c2}
  Destroyers = {}
  MaxTime = 2
INVARIANTS AtMostOnce NoMissedWakeup DeliversTheRoot
