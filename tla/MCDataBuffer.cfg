CONSTANTS
  WordCount = 2
  MaxBuffers = 3
  MaxChanges = 4
  HandlerInTime = TRUE
  ReaderInTime = TRUE
SPECIFICATION DBSpec
INVARIANTS
  DBTypeOK
  ReceptionGoesOn
  ReadsOneBuffer
CHECK_DEADLOCK FALSE
