CONSTANTS
  BUF_LEN = 3
  FifoDepth = 1
  WriteThreshold = 0
  DEFAULT_TIMEOUT = 2
  INT_MAX = 4
  Systems <- MCSystems
  MaxCount = 3
SPECIFICATION Spec
INVARIANTS TypeOK NoLostWakeUp
PROPERTIES RefinesPipes CallsEnd ReadsEnd
