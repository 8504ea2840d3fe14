SPECIFICATION FairSpec
CONSTANTS
  Cache <- MCCache
  L1D = {"L1D"}
  Lower <- MCLower
  DRAM = "DRAM"
  WALK = "WALK"
  Below = "DRAM"
  Dcache <- MCDcache
  NoCache = "none"
  Level <- MCLevel
  CodeLine = {i}
  DataLine = {a}
  Line <- MCLine
  NoLine = NoLine
  Word = {x}
  Reach <- MCReach
  Swappable = {}
  NUM_WAY <- One
  Fetches = {f}
  Loads = {r1, r2}
  Req <- MCReq
  Port <- MCPort
  RQ_SIZE <- TwoBelow
  WQ_SIZE <- One
  PQ_SIZE <- One
  MSHR_SIZE <- One
  DRAM_RQ_SIZE = 1
  DRAM_WQ_SIZE = 1
  UpperPf = {1}
  LowerPf = {}
  PfFill <- MCPfFill
INVARIANTS MissConserved RequestTracked
PROPERTY RequestServed
