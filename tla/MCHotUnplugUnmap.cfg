CONSTANTS
  p1 = p1
  p2 = p2
  p3 = p3
  v1 = v1
  v2 = v2
  Driver = Driver
  None = None
  Mng = Mng
  Procs <- ThreeProcs
  Vdevs <- OneVdev
  Habits = {"close_while_unmapping"}
  MaxRefs = 6
SPECIFICATION HUSpec
INVARIANTS
  NoUseAfterFree
CHECK_DEADLOCK FALSE
