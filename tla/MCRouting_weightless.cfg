SPECIFICATION Spec
CONSTANTS
  Fold <- Lower
  NoLocation = NoLocation
  Hash <- MCHash
  Score <- MCScore
  PointsPerServer = 4
  PointsPerHash = 2
  Word = 32
  NoAddress = NoAddress
  Clients = {c1, c2}
  Paths <- MCPaths
  Requested <- MCRequested
  PathPoint <- Point
  MaxPoint = 100
  Setups <- MCSetups
  IPs <- MCIPs
  Families = {"v4"}
  Codes = {200, 404, 502, 503}
  CodesToRetry <- MCCodesToRetry
SYMMETRY Symmetry
INVARIANTS FindsTheWeighted
CHECK_DEADLOCK FALSE
