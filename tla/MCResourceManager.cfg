CONSTANTS
  MAX_VIRT_DEVS_PER_MNG_DEV = 2
  MODAC_RES_PER_VIRT_DEV_MAX_COUNT = 2
  PulsegenBits <- MCPulsegenBits
  OutputCount = 3
  OutCounts <- MCOutCounts
  MiscFuncs = {1, 63}
  Filters <- MCFilters
  a = a
  b = b
  Names <- MCNames
  NO_OWNER = NO_OWNER
  NoName = NoName
  MaxOpen = 2
SPECIFICATION OUSpec
INVARIANTS
  OUTypeOK
  TablesAgree
  
PROPERTIES
  LastCloseInitialises
  PoolTakesShortest
SYMMETRY MCSymmetry
VIEW MCView
CHECK_DEADLOCK FALSE
