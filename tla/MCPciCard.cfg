CONSTANTS
  c1 = c1
  c2 = c2
  c3 = c3
  None = None
  Cards <- MCCards
  SlotCount = 2
  MaxDevices = 3
  MaxFiles = 1
SPECIFICATION PCFairSpec
INVARIANTS
  PCTypeOK
  IsrOnLivingDevice
  ActivityExact
  NoStrayIrq
  RefsMatchFiles
PROPERTY RemoveEnds
CHECK_DEADLOCK FALSE
