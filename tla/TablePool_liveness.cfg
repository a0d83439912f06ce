SPECIFICATION FairSpec
CONSTANTS
  t1 = t1
  t2 = t2
  t3 = t3
  Tables <- ThreeTables
  Dateless <- LastTable
  Parallel = 2
  Modes <- AllModes
  MaxRuns = 1
PROPERTIES
  RunEnds
  WorkersEnd
CHECK_DEADLOCK FALSE
