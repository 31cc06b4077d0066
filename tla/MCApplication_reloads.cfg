SPECIFICATION Spec
CONSTANTS
  Configs <- SmallConfigs
  Names = {n1, n2}
  Conns = {c1, c2}
  None = None
  MaxHups = 2
  n1 = n1
  n2 = n2
  z1 = z1
  z2 = z2
  p1 = p1
  p2 = p2
CHECK_DEADLOCK FALSE
INVARIANTS OneConfiguration SameZoneAcrossReloads FindsItsConnection
PROPERTIES EndsWhenAsked
