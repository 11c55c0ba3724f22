CONSTANTS
  d1 = d1
  d2 = d2
  d3 = d3
  d4 = d4
  NULL = NULL
  Objects <- MCObjects
  SlotCount = 3
  MaxRegions = 2
  MaxFiles = 2
SPECIFICATION LifeSpec
INVARIANTS
  LifeTypeOK
  NothingLeft
  NothingDangles
SYMMETRY Symmetry
CHECK_DEADLOCK FALSE
