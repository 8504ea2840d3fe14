SPECIFICATION FairSpec
CONSTANTS
  Cache <- MCCache
  L1D = {"L1D"}
  Lower <- MCLower
  DRAM = "DRAM"
  WALK = "WALK"
  Below = "DRAM"
  Dcache <- MCDcache
  NoCache = "none"
  Level <- MCLevel
  CodeLine = {}
  DataLine = {a, b}
  Line <- MCLine
  NoLine = NoLine
  Word = {x, y}
  Reach <- MCReach
  Swappable = {}
  NUM_WAY <- One
  Fetches = {}
  Loads = {r}
  Req <- MCReq
  Port <- MCPort
  RQ_SIZE <- TwoBelow
  WQ_SIZE <- One
  PQ_SIZE <- One
  MSHR_SIZE <- One
  DRAM_RQ_SIZE = 1
  DRAM_WQ_SIZE = 1
  UpperPf = {1, 2}
  LowerPf = {2}
  PfFill <- MCPfFill
PROPERTY StoreKept
