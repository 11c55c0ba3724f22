CONSTANTS
  p1 = p1
  p2 = p2
  p3 = p3
  v1 = v1
  v2 = v2
  Driver = Driver
  None = None
  Mng = Mng
  Procs <- ThreeProcs
  Vdevs <- OneVdev
  Habits = {"open_while_managing"}
  MaxRefs = 6
SPECIFICATION HUFairSpec
INVARIANTS
  HUTypeOK
  RefCountExact
  NoUseAfterFree
  MappingsGone
PROPERTIES
  ImplementsLifetime
  EventuallyFreed
CHECK_DEADLOCK FALSE
