SPECIFICATION UnitSpec
CONSTANTS
  Page = {g, h}
  LINES = 3
  Actions <- Near
  scooby_pt_size = 1
  scooby_st_size = 1
  scooby_action_tracker_size = 2
  Knobs <- TrackOnce
  MaxState = 4
  CPU <- OneCore
  VmPage <- ThreePages
  DRAM_PAGES = 2
  MAX_PPAGE = 3
  RUN <- Runs
  NUM_WAY = 5
  Region = {p, q, r}
  Offset = {0, 1}
  Pc = {1}
  sms_ft_size = 1
  sms_at_size = 2
  pht_sets = 1
  sms_pht_assoc = 1
  sms_pref_buffer_size = 1
  sms_pref_degree = 1
  MaxAccess = 8
  Access <- Walk
  PAGE_LINES = 4
  NumConfigs = 4
  power7_explore_epoch = 1
  power7_exploit_epoch = 2
  power7_default_streamer_degree = 5
  streamer_num_trackers = 1
  stride_num_trackers = 1
  Elapse = {1, 2}
  MaxAccesses = 7
  Feature = {"pc", "delta"}
  Tiling = {1}
  TileOf <- Tiles
  AgentState <- TwoStates
  m_actions = 2
  alpha_inv = 2
  gamma_num = 1
  gamma_den = 2
  InitValue = 2
  FirstWeight = 2
  gradient_inv = 2
  AgentReward <- Rewards
  EngineKnobs <- Engines
  Pending = 2
  MaxLearn = 3
  BopLines = 3
  bop_candidates <- Candidates
  bop_max_rounds = 3
  bop_max_score = 2
  bop_top_n = 2
  bop_rr_size = 2
  bop_pref_buffer_size = 1
  bop_pref_degree = 1
  MaxEvents = 9
  LLC_WAY = 2
  LlcTag = {1, 2, 3}
  Ip = {1, 2}
  SHCT_MAX = 1
  PSEL_MAX = 2
  BIP_MAX = 2
INVARIANTS
  TrackerExact TablesExact
  TablesSound
  
  HistoryTrue
  AheadConfirmed
  LearningSound
  OffsetsEarned
PROPERTIES SarsaChain SwapSafe RecencySpec FastestKept
CHECK_DEADLOCK FALSE
