SPECIFICATION Spec
CONSTANTS
  Objects = {a, b, c}
  Sizes = {2, 4}
  BulkCounts = {1, 2}
  Promoters = {}
  Removers = {r1}
INVARIANTS RemovalIsComplete
