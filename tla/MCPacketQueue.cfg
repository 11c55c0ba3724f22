CONSTANTS
  CBUF_EVENT_COUNT = 4
  CBUF_EVENT_ENTRY_DATA_LENGTH = 1
  MaxPuts = 6
  r1 = r1
  r2 = r2
  NoReader = NoReader
  Readers <- MCReaders
SYMMETRY ReaderSymmetry
SPECIFICATION PQSpec
INVARIANTS
  PQTypeOK
  NoSlotSharing
  FifoDelivery
  LossIsAnnounced
