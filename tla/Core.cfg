SPECIFICATION FairSpec
CONSTANTS
  Addr = {"a", "b"}
  Traces <- MCTraces
  ROB_SIZE = 4
  LQ_SIZE = 2
  SQ_SIZE = 2
  STA_SIZE = 16
  SCHEDULER_SIZE = 3
  WQ_SIZE = 2
  MAX_READ = 7
INVARIANTS Dataflow StoresInOrder EntriesExact
PROPERTIES InOrderSpec AllRetire
CHECK_DEADLOCK FALSE
