SPECIFICATION Spec
CONSTANTS
  t1 = t1
  t2 = t2
  t3 = t3
  Tables <- TwoTables
  Dateless <- LastTable
  Parallel = 2
  Modes <- BulkOnly
  MaxRuns = 2
INVARIANT CompletedBulkLoadedAll
CHECK_DEADLOCK FALSE
