SPECIFICATION Spec
CONSTANTS
  N = 3
  Block <- OneBlock
  Batch = 2
  Lag = 1
  SyncModes <- AllModes
  Slots <- TwoSlots
  MaxStamp = 3
  MaxChanges = 2
INVARIANTS
  TypeOK
  NothingElseIsMissed
PROPERTIES
  CursorGoesForward
  
CHECK_DEADLOCK FALSE
