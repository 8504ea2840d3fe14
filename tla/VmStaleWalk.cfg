SPECIFICATION VmSpec
CONSTANTS
  CPU <- OneCore
  VmPage <- ThreePages
  DRAM_PAGES = 2
  MAX_PPAGE = 2
  RUN <- Runs
INVARIANTS TlbCurrent
