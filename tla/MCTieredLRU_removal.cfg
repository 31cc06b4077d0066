SPECIFICATION FairSpec
CONSTANTS
  Objects = {a, b}
  Sizes = {2, 4}
  BulkCounts = {1}
  Promoters = {p}
  Removers = {r1, r2}
INVARIANTS NoOrphanFile
PROPERTIES NeverDeletesCached OrphansEventuallyRemoved
