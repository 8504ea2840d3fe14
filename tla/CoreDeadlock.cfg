SPECIFICATION FairSpec
CONSTANTS
  Addr = {"a", "b"}
  Traces <- LoadsAhead
  ROB_SIZE = 5
  LQ_SIZE = 2
  SQ_SIZE = 2
  STA_SIZE = 20
  SCHEDULER_SIZE = 5
  WQ_SIZE = 2
  MAX_READ = 5
PROPERTY AllRetire
CHECK_DEADLOCK FALSE
