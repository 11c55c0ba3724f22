CONSTANTS
  p1 = p1
  p2 = p2
  t1 = t1
  EventCount = 2
  Pulsegens <- MCPulsegens
  Callers <- MCCallers
  Subscriptions <- MCSubscriptions
  Mappings <- MCMappings
  FifoSize = 1
  FifoEventLimit = 2
  LeftBehind <- MCLeftBehind
  MaxChanges = 3
  InitWhileSubscribed = FALSE
SPECIFICATION EHSpec
INVARIANTS
  EHTypeOK
  MapRamInEffect
  HardwareProduces
  InitialisedIsQuiet
  StatusAnnounced
SYMMETRY MCSymmetry
