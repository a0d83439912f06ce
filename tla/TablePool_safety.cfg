SPECIFICATION Spec
CONSTANTS
  t1 = t1
  t2 = t2
  t3 = t3
  Tables <- TwoTables
  Dateless <- LastTable
  Parallel = 2
  Modes <- AllModes
  MaxRuns = 2
INVARIANTS
  TypeOK
  RunningTaskHasWorker
  CompletedRunIsOver
  CompletedJobIsTruthful
  CountsEveryTable
CHECK_DEADLOCK FALSE
