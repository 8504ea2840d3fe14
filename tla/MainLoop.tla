------------------------------ MODULE MainLoop ------------------------------
(***************************************************************************)
(* The simulation loop of main (src/src/main.cc): in every cycle each core *)
(* has a turn, in an order drawn at random, then the last-level cache and  *)
(* the memory controller run.  The loop tells warm-up from the region of   *)
(* interest, takes each core's statistics when it has simulated its        *)
(* instructions, goes on until all have, and gives up on a core that no    *)
(* longer retires.                                                         *)
(*                                                                         *)
(* A core is abstract here (OooCore models it): in a turn it retires some  *)
(* instructions, or empties its ROB, or fills the empty ROB again once the *)
(* penalty of a mispredicted branch is over; it accesses caches and may    *)
(* take a page fault.  The event_cycle of its oldest instruction is taken  *)
(* to be the cycle in which that became the oldest.  Measuring IPC and     *)
(* bandwidth, and the heartbeat, are left out.                             *)
(*                                                                         *)
(* Operators marked "mutant" are deliberately faulty variants of the       *)
(* definition after them; no specification uses them.                      *)
(***************************************************************************)
EXTENDS Integers, FiniteSets

CONSTANTS
  Cores,                        \* 0..NUM_CPUS-1
  warmup_instructions, simulation_instructions,
  RETIRE_WIDTH_LOOP,            \* RETIRE_WIDTH
  DEADLOCK_CYCLE,
  BRANCH_MISPREDICT_PENALTY,
  FaultLatency                  \* PAGE_TABLE_LATENCY, SWAP_LATENCY after the warm-up

ASSUME LoopAssumption ==
  /\ IsFiniteSet(Cores) /\ Cores # {}
  /\ {warmup_instructions, simulation_instructions} \subseteq Nat
  /\ {RETIRE_WIDTH_LOOP, DEADLOCK_CYCLE} \subseteq Nat \ {0}
  /\ BRANCH_MISPREDICT_PENALTY \in Nat
  /\ FaultLatency \subseteq Nat

VARIABLES
  run_simulation, aborted,
  index,                        \* the loop over the cores
  generated,                    \* the cores drawn in this cycle
  current_core_cycle, stall_cycle, num_retired,
  head_ip,                      \* ROB.entry[ROB.head].ip is not 0: the ROB is not empty
  event_cycle,                  \* of the oldest instruction, 0 without
  fetch_resume_cycle,           \* of an empty ROB: 0 when fetch_stall is not set
  warmup_complete, all_warmup_complete,
  simulation_complete, all_simulation_complete,
  begin_sim,                    \* begin_sim_instr, begin_sim_cycle
  finish_sim,                   \* finish_sim_instr, finish_sim_cycle
  sim_access, roi_access,       \* by core, over its caches and the LLC
  \* What happened, for the properties.
  warmed,                       \* how often finish_warmup was called
  counted,                      \* accesses and turns in a core's region of interest
  tried                         \* turns a core ran in with the oldest instruction it has

pipeline == <<head_ip, event_cycle, fetch_resume_cycle, tried>>
loopVars == <<run_simulation, aborted, index, generated, current_core_cycle, stall_cycle,
              num_retired, pipeline, warmup_complete, all_warmup_complete,
              simulation_complete, all_simulation_complete, begin_sim, finish_sim,
              sim_access, roi_access, warmed, counted>>

NUM_CPUS == Cardinality(Cores)

\* mutant: the core drawn is not remembered.
DrawAgain(i) == UNCHANGED generated

\* mutant: the cores drawn are not forgotten at the end of the cycle.
DrawnForGood(i) == i \notin generated /\ generated' = generated \cup {i}

\* get_next_cpu draws i, which has not been drawn in this cycle.
get_next_cpu(i) ==
  /\ i \notin generated
  /\ generated' = IF generated \cup {i} = Cores THEN {} ELSE generated \cup {i}

\* The ROB is empty: handle_branch puts an instruction into it unless fetching
\* stands still after a mispredicted branch, which fetch_instruction then ends in
\* fetch_resume_cycle.
Refills(i) ==
  /\ ~head_ip[i]
  /\ IF fetch_resume_cycle[i] = 0
     THEN /\ head_ip' = [head_ip EXCEPT ![i] = TRUE]
          /\ event_cycle' = [event_cycle EXCEPT ![i] = current_core_cycle'[i]]
          /\ UNCHANGED fetch_resume_cycle
     ELSE /\ fetch_resume_cycle' = [fetch_resume_cycle EXCEPT
               ![i] = IF @ <= current_core_cycle'[i] THEN 0 ELSE @]
          /\ UNCHANGED <<head_ip, event_cycle>>
  /\ UNCHANGED <<num_retired, tried>>

\* The oldest instruction is not done yet.
Waits(i) ==
  /\ head_ip[i] /\ tried' = [tried EXCEPT ![i] = @ + 1]
  /\ UNCHANGED <<num_retired, head_ip, event_cycle, fetch_resume_cycle>>

\* retire_rob: up to RETIRE_WIDTH instructions, perhaps all there are, the last of
\* them perhaps a mispredicted branch.
Retires(i) ==
  /\ head_ip[i]
  /\ \E n \in 1..RETIRE_WIDTH_LOOP : num_retired' = [num_retired EXCEPT ![i] = @ + n]
  /\ tried' = [tried EXCEPT ![i] = 0]
  /\ \/ /\ event_cycle' = [event_cycle EXCEPT ![i] = current_core_cycle'[i]]
        /\ UNCHANGED <<head_ip, fetch_resume_cycle>>
     \/ /\ head_ip' = [head_ip EXCEPT ![i] = FALSE]
        /\ event_cycle' = [event_cycle EXCEPT ![i] = 0]
        /\ fetch_resume_cycle' \in
             {[fetch_resume_cycle EXCEPT ![i] = c] :
                c \in {0} \cup {current_core_cycle'[i] + p : p \in 1..BRANCH_MISPREDICT_PENALTY}}

\* The core runs, and a page fault may stall it, which costs nothing before the end
\* of the warm-up; a stall of 0 stands for none.
Runs(i) ==
  /\ Refills(i) \/ Waits(i) \/ Retires(i)
  /\ \E l \in {0} \cup IF all_warmup_complete > NUM_CPUS THEN FaultLatency ELSE {} :
       stall_cycle' = [stall_cycle EXCEPT ![i] = current_core_cycle'[i] + l]

\* mutant: a stall lasts one cycle longer.
StallsLonger(i) ==
  /\ current_core_cycle' = [current_core_cycle EXCEPT ![i] = @ + 1]
  /\ IF stall_cycle[i] < current_core_cycle'[i] THEN Runs(i)
     ELSE UNCHANGED <<num_retired, pipeline, stall_cycle>>

\* Every turn of a core begins so.
CoreCycle(i) ==
  /\ current_core_cycle' = [current_core_cycle EXCEPT ![i] = @ + 1]
  /\ IF stall_cycle[i] <= current_core_cycle'[i] THEN Runs(i)
     ELSE UNCHANGED <<num_retired, pipeline, stall_cycle>>

\* Accesses that the step makes for the cores of S, and those of a core's region.
Accesses(S) == [i \in Cores |-> IF i \in S THEN sim_access[i] + 1 ELSE sim_access[i]]

\* An instruction that core i retires has accessed its caches.
Accessed(i) == IF num_retired'[i] = num_retired[i] THEN {} ELSE {i}

Counts(i) == all_warmup_complete > NUM_CPUS /\ ~simulation_complete[i]

\* mutant: an empty ROB is taken for one whose oldest instruction is stuck.
EmptyIsStuck(i) == event_cycle'[i] + DEADLOCK_CYCLE <= current_core_cycle'[i]

\* check for deadlock.
print_deadlock(i) == head_ip'[i] /\ event_cycle'[i] + DEADLOCK_CYCLE <= current_core_cycle'[i]

\* check for warmup.
Warmed(i) == ~warmup_complete[i] /\ num_retired'[i] > warmup_instructions

\* mutant: the count of warm cores stays where it is when all are warm.
WarmAgain(i) ==
  LET n == all_warmup_complete + IF Warmed(i) THEN 1 ELSE 0 IN
  /\ warmup_complete' = [warmup_complete EXCEPT ![i] = @ \/ Warmed(i)]
  /\ all_warmup_complete' = n
  /\ warmed' = IF n = NUM_CPUS THEN warmed + 1 ELSE warmed

\* The count of warm cores goes past NUM_CPUS when finish_warmup is called.
CheckWarmup(i) ==
  LET n == all_warmup_complete + IF Warmed(i) THEN 1 ELSE 0 IN
  /\ warmup_complete' = [warmup_complete EXCEPT ![i] = @ \/ Warmed(i)]
  /\ all_warmup_complete' = IF n = NUM_CPUS THEN n + 1 ELSE n
  /\ warmed' = IF n = NUM_CPUS THEN warmed + 1 ELSE warmed

\* mutant: reset_cache_stats is not called.
NoReset(accesses) ==
  begin_sim' = [i \in Cores |-> [instr |-> num_retired'[i], cycle |-> current_core_cycle'[i]]]
  /\ sim_access' = accesses

\* finish_warmup: the region of interest begins, for all cores at once, and
\* reset_cache_stats.
finish_warmup(accesses) ==
  begin_sim' = [i \in Cores |-> [instr |-> num_retired'[i], cycle |-> current_core_cycle'[i]]]
  /\ sim_access' = [i \in Cores |-> 0]

\* simulation complete.
Completes(i) ==
  /\ all_warmup_complete' > NUM_CPUS /\ ~simulation_complete[i]
  /\ num_retired'[i] >= begin_sim'[i].instr + simulation_instructions

\* record_roi_stats, and what the core has taken.
record_roi_stats(i) ==
  IF Completes(i)
  THEN /\ simulation_complete' = [simulation_complete EXCEPT ![i] = TRUE]
       /\ finish_sim' = [finish_sim EXCEPT ![i] =
            [instr |-> num_retired'[i] - begin_sim'[i].instr,
             cycle |-> current_core_cycle'[i] - begin_sim'[i].cycle]]
       /\ roi_access' = [roi_access EXCEPT ![i] = sim_access'[i]]
       /\ all_simulation_complete' = all_simulation_complete + 1
  ELSE UNCHANGED <<simulation_complete, finish_sim, roi_access, all_simulation_complete>>

\* What the turn of core i leaves behind: the warm-up, its accesses S, its end.
Account(i, S) ==
  /\ CheckWarmup(i)
  /\ IF warmed' # warmed THEN finish_warmup(Accesses(S))
     ELSE sim_access' = Accesses(S) /\ UNCHANGED begin_sim
  /\ counted' = [counted EXCEPT ![i] =
       IF warmed' # warmed \/ ~Counts(i) THEN @
       ELSE [accesses |-> @.accesses + Cardinality(S), turns |-> @.turns + 1]]
  /\ record_roi_stats(i)
  /\ run_simulation' = (all_simulation_complete' # NUM_CPUS)

\* One iteration of the loop over the cores; print_deadlock ends the program.
Turn(i) ==
  /\ ~aborted /\ index < NUM_CPUS /\ index' = index + 1
  /\ get_next_cpu(i)
  /\ CoreCycle(i)
  /\ aborted' = print_deadlock(i)
  /\ IF aborted'
     THEN UNCHANGED <<warmup_complete, all_warmup_complete, warmed, begin_sim, sim_access,
                      counted, simulation_complete, finish_sim, roi_access,
                      all_simulation_complete, run_simulation>>
     ELSE Account(i, Accessed(i))

\* The end of a cycle: the last-level cache and the memory serve all cores, or
\* none, and the loop goes on or is left.
Uncore ==
  /\ ~aborted /\ index = NUM_CPUS
  /\ index' = IF run_simulation THEN 0 ELSE NUM_CPUS + 1
  /\ \E S \in {{}, Cores} :
       /\ sim_access' = Accesses(S)
       /\ counted' = [i \in Cores |-> IF i \in S /\ Counts(i)
                        THEN [counted[i] EXCEPT !.accesses = @ + 1] ELSE counted[i]]
  /\ UNCHANGED <<run_simulation, aborted, generated, current_core_cycle, stall_cycle,
                 num_retired, pipeline, warmup_complete, all_warmup_complete,
                 simulation_complete, all_simulation_complete, begin_sim, finish_sim,
                 roi_access, warmed>>

LoopInit ==
  /\ run_simulation = TRUE /\ aborted = FALSE /\ index = 0 /\ generated = {}
  /\ current_core_cycle = [i \in Cores |-> 0] /\ stall_cycle = [i \in Cores |-> 0]
  /\ num_retired = [i \in Cores |-> 0] /\ event_cycle = [i \in Cores |-> 0]
  /\ head_ip = [i \in Cores |-> FALSE] /\ fetch_resume_cycle = [i \in Cores |-> 0]
  /\ tried = [i \in Cores |-> 0]
  /\ warmup_complete = [i \in Cores |-> FALSE] /\ all_warmup_complete = 0
  /\ simulation_complete = [i \in Cores |-> FALSE] /\ all_simulation_complete = 0
  /\ begin_sim = [i \in Cores |-> [instr |-> 0, cycle |-> 0]] /\ finish_sim = begin_sim
  /\ sim_access = [i \in Cores |-> 0] /\ roi_access = sim_access
  /\ warmed = 0 /\ counted = [i \in Cores |-> [accesses |-> 0, turns |-> 0]]

LoopNext == (\E i \in Cores : Turn(i)) \/ Uncore

LoopSpec == LoopInit /\ [][LoopNext]_loopVars

\* The simulator is one thread that runs.
LoopFairness == WF_loopVars(LoopNext)

-----------------------------------------------------------------------------
(***************************************************************************)
(* Properties.                                                             *)
(***************************************************************************)

\* The cores stay in step whatever the order drawn: each has one turn in a cycle,
\* and get_next_cpu finds a core that has not had its turn.
CoresInStep ==
  \A i, j \in Cores :
    /\ current_core_cycle[i] - current_core_cycle[j] \in {-1, 0, 1}
    /\ index = NUM_CPUS => current_core_cycle[i] = current_core_cycle[j] /\ generated = {}

\* finish_warmup is called once, when all cores are warm (main.cc:1052), in the
\* middle of a cycle as it may be.
WarmupOnce ==
  /\ warmed <= 1
  /\ warmed = 1 <=> \A i \in Cores : warmup_complete[i]

\* The statistics of a core are those of its region of interest: the accesses made
\* for it, by its own caches and by the shared one, and the cycles it had, from the
\* end of the warm-up to the turn in which it had simulated its instructions; what
\* it goes on to do while other cores are not done is not among them.  It has
\* simulated what was asked, and less than one retirement more; asked for nothing,
\* it ends with its first turn after the warm-up.
RoiExact ==
  \A i \in Cores : simulation_complete[i] =>
    /\ roi_access[i] = counted[i].accesses
    /\ finish_sim[i].cycle = counted[i].turns
    /\ finish_sim[i].instr >= simulation_instructions
    /\ simulation_instructions > 0 =>
         finish_sim[i].instr < simulation_instructions + RETIRE_WIDTH_LOOP

\* Cores, warm-up and regions of interest advance together, as the statistics say.
LoopExact == CoresInStep /\ WarmupOnce /\ RoiExact

\* The core the simulation is given up for: its oldest instruction is in the ROB
\* since DEADLOCK_CYCLE cycles, and in spite of page faults one after the other the
\* core had a turn to run in for every fault that fits into them.
Stuck(i) ==
  /\ head_ip[i] /\ event_cycle[i] + DEADLOCK_CYCLE <= current_core_cycle[i]
  /\ \E l \in FaultLatency \cup {1} : (tried[i] + 1) * l > DEADLOCK_CYCLE

\* The simulation ends: the cores get done, or a core is stuck (main.cc:1040).  No
\* core keeps it going for ever, be it by an empty ROB, which the deadlock check
\* passes over, or by page faults; and none is given up for having an empty ROB or
\* for having been stalled most of the time.
SimulationEnds == <>(index > NUM_CPUS \/ (aborted /\ \E i \in Cores : Stuck(i)))
=============================================================================
