CONSTANTS
  v1 = v1
  v2 = v2
  v3 = v3
  NULL = NULL
  Vdevs <- MCVdevs
  Events = {0, 1}
  MAX_SUBSCRIBERS = 2
  MaxOpen = 2
  OpenWhileProbing = FALSE
  DestroyWhileOpen = FALSE
SYMMETRY VdevSymmetry
SPECIFICATION EDSpec
INVARIANTS
  EDTypeOK
  OnlyOpenSubscribed
  HardwareFollowsList
PROPERTY ImplementsSubscriptions
CHECK_DEADLOCK FALSE
