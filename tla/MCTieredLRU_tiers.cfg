SPECIFICATION Spec
CONSTANTS
  Objects = {a, b, c, d, e}
  Sizes = {3, 4, 8}
  BulkCounts = {5}
  Promoters = {}
  Removers = {r1}
SYMMETRY Symmetry
INVARIANTS IndexMatchesTiers TiersBounded
PROPERTIES ImplementsRankedCache
