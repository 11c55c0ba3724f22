CONSTANTS
  CBUF_EVENT_COUNT = 4
  CBUF_EVENT_ENTRY_DATA_LENGTH = 0
  MaxPuts = 2
  NotifyEvents = {1}
  BufLens = {2, 4}
  r1 = r1
  r2 = r2
  NoReader = NoReader
  Readers <- MCReaders
SPECIFICATION VDFairSpec
INVARIANTS
  VDTypeOK
  NoLostWakeup
PROPERTIES
  EveryEventTaken
