SPECIFICATION Spec
CONSTANTS
  Addr = {"a", "b"}
  Traces <- TwoStores
  ROB_SIZE = 4
  LQ_SIZE = 2
  SQ_SIZE = 4
  STA_SIZE = 16
  SCHEDULER_SIZE = 3
  WQ_SIZE = 2
  MAX_READ = 7
INVARIANT ForwardsMatch
CHECK_DEADLOCK FALSE
