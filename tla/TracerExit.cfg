SPECIFICATION TracerSpec
CONSTANTS
  master = master
  w = w
  v = v
  loop = loop
  work = work
  Thread <- Threads
  Code = {loop, work}
  NumIns <- Lengths
  Setting <- Orchestrated
INVARIANTS ExitWhenDone
CHECK_DEADLOCK FALSE
