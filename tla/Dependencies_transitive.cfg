SPECIFICATION DepSpec
CONSTANTS
  Tables = {1, 2, 3, 4, 5}
  MaxEdges = 3
  MaxSelected = 2
INVARIANTS WalkIsTransitive
CHECK_DEADLOCK FALSE
