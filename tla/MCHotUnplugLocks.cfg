CONSTANTS
  p1 = p1
  p2 = p2
  p3 = p3
  v1 = v1
  v2 = v2
  Driver = Driver
  None = None
  Mng = Mng
  Procs <- TwoProcs
  Vdevs <- TwoVdevs
  Habits = {"open_while_managing"}
  MaxRefs = 6
SPECIFICATION HUFairSpec
PROPERTIES
  RefLockReleased
CHECK_DEADLOCK FALSE
