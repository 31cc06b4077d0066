SPECIFICATION Spec
CONSTANTS
  k1 = k1
  k2 = k2
  e1 = e1
  e2 = e2
  None = None
  Keys = {k1}
  Events = {e1, e2}
  KeyOf <- OneKey
  DelayOf <- Delays
  Clients = {c1, c2}
  Cleaners = {}
  Destroyers = {c2}
  MaxTime = 2
PROPERTIES NoneBeginsOnceDestroyed
CHECK_DEADLOCK FALSE
