SPECIFICATION PartsSpec
CONSTANTS
  Line <- DramLines
  DRAM_CHANNELS = 1
  DRAM_RANKS = 1
  DRAM_BANKS = 2
  DRAM_ROWS = 2
  DRAM_COLUMNS = 1
  DRAM_RQ_SIZE = 2
  DRAM_WQ_SIZE = 3
  master = master
  w = w
  v = v
  loop = loop
  work = work
  m1 = m1
  m2 = m2
  Thread <- TwoThreads
  Code = {loop, work}
  NumIns <- Lengths
  Setting <- MCSettings
  NUM_INSTR_SOURCES = 2
  NUM_INSTR_DESTINATIONS = 2
  MAX_WRITE_OPS = 8
  Address = {m1, m2}
  Instr <- Instructions
  RECORD_SIZE = 2
  COMP_BUF_BYTES = 2
  DECOMP_BUF_BYTES = 3
  TraceFile <- MCTraces
  CUT_RECORD = 2
  DEC_BUF = 3
  NUM_INSTR = 2
  Input <- MCInputs
INVARIANTS ControllerExact IndicesFresh ActiveExact TracingSeesAll SamplesWhole RecordFaithful RecordsExact ChunksExact
PROPERTIES PortSpec ReadsServed Drained ThreadsMove TraceRepeats
CHECK_DEADLOCK FALSE
