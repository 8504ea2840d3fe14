SPECIFICATION UnitsSpec
CONSTANTS
  Cache <- MCCache
  L1D = {}
  Lower <- MCLower
  DRAM = "DRAM"
  WALK = "WALK"
  Below = "WALK"
  Dcache <- MCDcache
  NoCache = "none"
  Level <- MCLevel
  CodeLine = {i, j}
  DataLine = {a, b}
  Line <- MCLine
  NoLine = NoLine
  Word = {x}
  Reach <- MCReach
  Swappable = {a, b, i, j}
  NUM_WAY <- One
  Fetches = {f1}
  Loads = {r1, r2}
  Req <- MCReq
  Port <- MCPort
  RQ_SIZE <- FourBelow
  WQ_SIZE <- One
  PQ_SIZE <- One
  MSHR_SIZE <- Two
  DRAM_RQ_SIZE = 1
  DRAM_WQ_SIZE = 1
  UpperPf = {}
  LowerPf = {}
  PfFill <- MCPfFill
  Cores = {0, 1}
  warmup_instructions = 0
  simulation_instructions = 1
  RETIRE_WIDTH_LOOP = 2
  DEADLOCK_CYCLE = 2
  BRANCH_MISPREDICT_PENALTY = 1
  FaultLatency = {2}
  SandboxLines = 3
  FirstOffsets <- PlusMinusOne
  LaterOffsets <- PlusMinusTwo
  sandbox_num_access_in_phase = 2
  sandbox_num_cycle_offsets = 1
  sandbox_pref_degree = 1
  sandbox_stream_detect_length = 1
  MaxScore = 4
INVARIANTS
  ReadQueueRoom
  LoopExact
  EvaluationExact
PROPERTIES LoopEnds OffsetsTried
CHECK_DEADLOCK FALSE
