SPECIFICATION Spec
CONSTANTS
  Tables = {1, 2, 3, 4, 5}
  MaxEdges = 3
  MaxSelected = 2
  Columns <- AllColumns
  Values <- AllValues
  Forms <- AllForms
  MaxSamples = 2
  Expressions <- AllExpressions
  Zones <- AllZones
  LastMinute = 1500
  Ids = {c1, c2}
  c1 = c1
  c2 = c2
  Oracles = {A}
  A = A
  Servers = {X, Y}
  X = X
  Y = Y
  Jobs = {j1, j2}
  j1 = j1
  j2 = j2
  Parts = 2
  MaxEdits = 1
SYMMETRY Alike
INVARIANTS PlanTypeOK SuggestionsAreNeeded ChainsAreClosed ParentsComeFirst ValuesArrive
  RecordedIsThere CursorsBelong BulkStartsClean
PROPERTIES AnnouncedIsReal
CHECK_DEADLOCK FALSE
