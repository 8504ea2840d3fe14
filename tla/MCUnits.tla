----------------------------- MODULE MCUnits -----------------------------
(***************************************************************************)
(* The parts that must get somewhere whatever the rest does, explored one  *)
(* at a time: the caches of MCCacheSplit, the simulation loop and the      *)
(* rounds of the sandbox prefetcher.  unit is chosen once; the others stay *)
(* at their start.                                                         *)
(***************************************************************************)
EXTENDS MCCacheSplit, MainLoop, Sandbox

VARIABLE unit

unitVars == <<unit, vars, loopVars, sandboxVars>>

PlusMinusOne == <<1, -1>>
PlusMinusTwo == <<2, -2>>

UnitsInit ==
  /\ unit \in {"caches", "loop", "sandbox"}
  /\ Init /\ LoopInit /\ SandboxInit
  /\ unit # "sandbox" => ~enable_stream_detect

CacheStep(A) == unit = "caches" /\ A /\ UNCHANGED <<unit, loopVars, sandboxVars>>
LoopStep(A) == unit = "loop" /\ A /\ UNCHANGED <<unit, vars, sandboxVars>>
SandboxStep(A) == unit = "sandbox" /\ A /\ UNCHANGED <<unit, vars, loopVars>>

\* The cores and the uncore do not all do everything here: core 0 retires up to two
\* instructions at a time, core 1 mispredicts branches, and the last-level cache
\* serves both in every cycle.
Few ==
  /\ fetch_resume_cycle'[0] = 0
  /\ num_retired'[1] <= num_retired[1] + 1
  /\ index = NUM_CPUS => sim_access' = Accesses(Cores)

UnitsNext == CacheStep(Next) \/ LoopStep(LoopNext /\ Few) \/ SandboxStep(SandboxNext)

\* The fairness of the loop and of the sandbox prefetcher is that of their modules;
\* that of the caches is the subject of CacheLive.
UnitsSpec ==
  /\ UnitsInit /\ [][UnitsNext]_unitVars
  /\ WF_unitVars(LoopStep(LoopNext))
  /\ WF_unitVars(SandboxStep(SandboxNext))

-----------------------------------------------------------------------------
\* SimulationEnds and EveryOffsetTried, of the unit that is explored.
LoopEnds == unit = "loop" => SimulationEnds
OffsetsTried == unit = "sandbox" => EveryOffsetTried
=============================================================================
