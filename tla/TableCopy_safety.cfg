SPECIFICATION Spec
CONSTANTS
  N = 3
  Bad <- OneBad
  Coercible <- OneCoerced
  Settings <- TwoSettings
  Created <- OneSetting
  SampleRows = 2
  MergeLimit = 1
  Modes <- AllModes
  MaxRuns = 2
  MaxFaults = 1
INVARIANTS
  TypeOK
  AccountedFor
  CompletedCovers
  ExactlyOnce
  CountIsExact
  GoodRowsSurvive
CHECK_DEADLOCK FALSE
PROPERTIES
  KeepsPromise
  EveryStepCounts
  CapHolds
