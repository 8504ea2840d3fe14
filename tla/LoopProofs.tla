----------------------------- MODULE LoopProofs -----------------------------
(***************************************************************************)
(* The simulation loop keeps the cores in step and the statistics of a     *)
(* core to its region of interest, for any number of cores, any order in   *)
(* which they are drawn and any lengths of warm-up and simulation.         *)
(* The sandbox prefetcher keeps its offsets through every round.           *)
(***************************************************************************)
EXTENDS MainLoop, Sandbox, FiniteSetTheorems, TLAPS

Counter == [accesses : Nat, turns : Nat]
Point == [instr : Nat, cycle : Nat]

LoopTypes ==
  /\ current_core_cycle \in [Cores -> Nat] /\ num_retired \in [Cores -> Nat]
  /\ warmup_complete \in [Cores -> BOOLEAN]
  /\ simulation_complete \in [Cores -> BOOLEAN]
  /\ begin_sim \in [Cores -> Point] /\ finish_sim \in [Cores -> Point]
  /\ sim_access \in [Cores -> Nat] /\ roi_access \in [Cores -> Nat]
  /\ counted \in [Cores -> Counter]
  /\ index \in Nat /\ aborted \in BOOLEAN

\* The turns core i has had in the cycle that is under way.
Had(i) == IF i \in generated THEN 1 ELSE 0

\* A cycle draws every core once: the index of the loop counts the cores drawn, and
\* those are one cycle ahead.
Rotation ==
  /\ generated \subseteq Cores /\ generated # Cores
  /\ index < NUM_CPUS => index = Cardinality(generated)
  /\ index >= NUM_CPUS => generated = {}
  /\ \A i, j \in Cores : current_core_cycle[i] - Had(i) = current_core_cycle[j] - Had(j)

Warm == {i \in Cores : warmup_complete[i]}

\* The count of warm cores, which jumps past NUM_CPUS with the only call of
\* finish_warmup.
WarmCount ==
  \/ /\ warmed = 0 /\ Warm # Cores
     /\ all_warmup_complete = Cardinality(Warm)
  \/ /\ warmed = 1 /\ Warm = Cores
     /\ all_warmup_complete = NUM_CPUS + 1

\* What is counted for core i before, in and after its region of interest; the turn
\* that print_deadlock cuts short is not accounted for.
Region(i) ==
  IF warmed = 0
  THEN ~simulation_complete[i] /\ counted[i].accesses = 0 /\ counted[i].turns = 0
  ELSE IF ~simulation_complete[i]
  THEN ~aborted =>
         /\ current_core_cycle[i] = begin_sim[i].cycle + counted[i].turns
         /\ sim_access[i] = counted[i].accesses
         /\ num_retired[i] >= begin_sim[i].instr
         /\ simulation_instructions > 0 =>
              num_retired[i] < begin_sim[i].instr + simulation_instructions
  ELSE /\ roi_access[i] = counted[i].accesses
       /\ finish_sim[i].cycle = counted[i].turns
       /\ finish_sim[i].instr >= simulation_instructions
       /\ simulation_instructions > 0 =>
            finish_sim[i].instr < simulation_instructions + RETIRE_WIDTH_LOOP

LoopInv == LoopTypes /\ Rotation /\ WarmCount /\ \A i \in Cores : Region(i)

-----------------------------------------------------------------------------
\* There is a core, and a set of some of them is smaller.
LEMMA Cpus ==
  /\ NUM_CPUS \in Nat \ {0}
  /\ \A S \in SUBSET Cores :
       /\ IsFiniteSet(S) /\ Cardinality(S) \in Nat /\ Cardinality(S) <= NUM_CPUS
       /\ S # Cores => Cardinality(S) < NUM_CPUS
<1>1. IsFiniteSet(Cores) /\ Cores # {} /\ NUM_CPUS \in Nat
  BY LoopAssumption, FS_CardinalityType DEF NUM_CPUS
<1>2. NUM_CPUS # 0
  BY <1>1, FS_EmptySet DEF NUM_CPUS
<1>3. ASSUME NEW S \in SUBSET Cores
      PROVE  /\ IsFiniteSet(S) /\ Cardinality(S) \in Nat /\ Cardinality(S) <= NUM_CPUS
             /\ S # Cores => Cardinality(S) < NUM_CPUS
  <2>1. /\ IsFiniteSet(S) /\ Cardinality(S) <= NUM_CPUS
        /\ Cardinality(S) = NUM_CPUS => S = Cores
    BY <1>1, <1>3, FS_Subset DEF NUM_CPUS
  <2>2. Cardinality(S) \in Nat
    BY <2>1, FS_CardinalityType
  <2> QED
    BY <1>1, <2>1, <2>2
<1> QED
  BY <1>1, <1>2, <1>3

\* Drawing a core that has not had its turn keeps the rotation.
LEMMA TurnRotates ==
  ASSUME LoopTypes, Rotation, NEW i \in Cores, index < NUM_CPUS, index' = index + 1,
         get_next_cpu(i), CoreCycle(i)
  PROVE  Rotation' /\ index' \in Nat
<1> DEFINE g == generated \cup {i}
           c == current_core_cycle
<1>1. /\ generated \subseteq Cores /\ index = Cardinality(generated) /\ i \notin generated
      /\ g \subseteq Cores /\ c \in [Cores -> Nat] /\ NUM_CPUS \in Nat /\ index \in Nat
  BY Cpus DEF LoopTypes, Rotation, get_next_cpu
<1>2. Cardinality(g) = index + 1
  BY <1>1, Cpus, FS_AddElement
<1>3. c' = [c EXCEPT ![i] = @ + 1]
  BY DEF CoreCycle
<1>4. \A j \in Cores : c'[j] = IF j = i THEN c[j] + 1 ELSE c[j]
  BY <1>1, <1>3
<1>5. CASE g = Cores
  <2>1. generated' = {} /\ index' = NUM_CPUS
    BY <1>2, <1>5 DEF get_next_cpu, NUM_CPUS
  <2>2. \A j, k \in Cores : c'[j] = c'[k]
    <3>1. \A j \in Cores : c'[j] = c[j] - Had(j) + 1
      BY <1>1, <1>4, <1>5 DEF Had
    <3>2. \A j, k \in Cores : c[j] - Had(j) = c[k] - Had(k)
      BY DEF Rotation
    <3> QED
      BY <3>1, <3>2
  <2>3. \A j \in Cores : Had(j)' = 0 /\ c'[j] \in Nat
    BY <1>1, <1>4, <2>1 DEF Had
  <2> QED
    BY <1>1, <2>1, <2>2, <2>3, LoopAssumption DEF Rotation, NUM_CPUS
<1>6. CASE g # Cores
  <2>1. generated' = g /\ index' = Cardinality(g) /\ index' < NUM_CPUS
    BY <1>1, <1>2, <1>6, Cpus DEF get_next_cpu
  <2>2. \A j \in Cores : c'[j] - Had(j)' = c[j] - Had(j)
    BY <1>1, <1>4, <2>1 DEF Had
  <2>3. NUM_CPUS' = NUM_CPUS
    BY DEF NUM_CPUS
  <2> QED
    BY <1>1, <1>6, <2>1, <2>2, <2>3 DEF Rotation
<1> QED
  BY <1>1, <1>5, <1>6

\* What a turn does to the cycles and the instructions of the cores.
LEMMA TurnRuns ==
  ASSUME LoopTypes, NEW i \in Cores, CoreCycle(i)
  PROVE  /\ current_core_cycle' \in [Cores -> Nat] /\ num_retired' \in [Cores -> Nat]
         /\ \A j \in Cores : current_core_cycle'[j]
              = IF j = i THEN current_core_cycle[j] + 1 ELSE current_core_cycle[j]
         /\ \A j \in Cores \ {i} : num_retired'[j] = num_retired[j]
         /\ num_retired'[i] >= num_retired[i]
         /\ num_retired'[i] <= num_retired[i] + RETIRE_WIDTH_LOOP
<1>1. PICK n \in 0..RETIRE_WIDTH_LOOP : num_retired' = [num_retired EXCEPT ![i] = @ + n]
  <2>1. CASE stall_cycle[i] <= current_core_cycle'[i]
    <3>1. CASE Retires(i)
      <4>1. PICK n \in 1..RETIRE_WIDTH_LOOP : num_retired' = [num_retired EXCEPT ![i] = @ + n]
        BY <3>1 DEF Retires
      <4>2. n \in 0..RETIRE_WIDTH_LOOP
        BY LoopAssumption
      <4> QED
        BY <4>1, <4>2
    <3>2. CASE Refills(i) \/ Waits(i)
      <4>1. num_retired' = [num_retired EXCEPT ![i] = @ + 0] /\ 0 \in 0..RETIRE_WIDTH_LOOP
        BY <3>2, LoopAssumption DEF Refills, Waits, LoopTypes
      <4> QED
        BY <4>1
    <3> QED
      BY <2>1, <3>1, <3>2 DEF CoreCycle, Runs
  <2>2. CASE ~(stall_cycle[i] <= current_core_cycle'[i])
    <3>1. num_retired' = [num_retired EXCEPT ![i] = @ + 0] /\ 0 \in 0..RETIRE_WIDTH_LOOP
      BY <2>2, LoopAssumption DEF CoreCycle, LoopTypes
    <3> QED
      BY <3>1
  <2> QED
    BY <2>1, <2>2
<1>2. current_core_cycle' = [current_core_cycle EXCEPT ![i] = @ + 1]
  BY DEF CoreCycle
<1> QED
  BY <1>1, <1>2, LoopAssumption DEF LoopTypes

\* finish_warmup is called when the last core gets warm, and never after.
LEMMA WarmupCounted ==
  ASSUME LoopTypes, WarmCount, NEW i \in Cores, CheckWarmup(i)
  PROVE  /\ WarmCount' /\ warmup_complete' \in [Cores -> BOOLEAN]
         /\ warmed \in {0, 1} /\ warmed' \in {0, 1} /\ warmed <= warmed'
         /\ all_warmup_complete > NUM_CPUS <=> warmed = 1
         /\ all_warmup_complete' > NUM_CPUS <=> warmed' = 1
<1> DEFINE n == all_warmup_complete + IF Warmed(i) THEN 1 ELSE 0
           wc == warmup_complete
<1>1. /\ wc \in [Cores -> BOOLEAN] /\ Warm \subseteq Cores /\ NUM_CPUS \in Nat \ {0}
      /\ Cardinality(Warm) \in Nat /\ Cardinality(Warm) <= NUM_CPUS
      /\ Warm # Cores => Cardinality(Warm) < NUM_CPUS
  BY Cpus DEF LoopTypes, Warm
<1>2. /\ wc' = [wc EXCEPT ![i] = @ \/ Warmed(i)]
      /\ all_warmup_complete' = IF n = NUM_CPUS THEN n + 1 ELSE n
      /\ warmed' = IF n = NUM_CPUS THEN warmed + 1 ELSE warmed
  BY DEF CheckWarmup
<1>3. Warmed(i) \in BOOLEAN /\ (Warmed(i) => i \notin Warm)
  BY DEF Warmed, Warm
<1>4. CASE ~Warmed(i)
  <2>1. wc' = wc /\ n = all_warmup_complete
    <3>1. wc' = [wc EXCEPT ![i] = wc[i]]
      BY <1>2, <1>4, <1>1, Zenon
    <3>2. n = all_warmup_complete
      BY <1>4, <1>1 DEF WarmCount
    <3> QED
      BY <1>1, <3>1, <3>2
  <2>2. n # NUM_CPUS
    BY <1>1, <2>1 DEF WarmCount
  <2>3. Warm' = Warm /\ warmed' = warmed /\ all_warmup_complete' = all_warmup_complete
    BY <1>2, <2>1, <2>2 DEF Warm
  <2> QED
    BY <1>1, <2>1, <2>3 DEF WarmCount, NUM_CPUS
<1>5. CASE Warmed(i)
  <2>1. i \notin Warm
    BY <1>3, <1>5
  <2>2. warmed = 0 /\ all_warmup_complete = Cardinality(Warm) /\ n = Cardinality(Warm) + 1
    BY <1>5, <2>1 DEF WarmCount
  <2>3. wc' = [wc EXCEPT ![i] = TRUE]
    BY <1>2, <1>5, <1>1, Zenon
  <2>4. wc' \in [Cores -> BOOLEAN] /\ Warm' = Warm \cup {i}
    BY <1>1, <2>3 DEF Warm
  <2>5. Cardinality(Warm') = n
    BY <1>1, <2>1, <2>2, <2>4, Cpus, FS_AddElement
  <2>6. Warm' \subseteq Cores /\ (n = NUM_CPUS <=> Warm' = Cores)
    <3>1. Warm' \subseteq Cores
      BY <1>1, <2>4
    <3>2. Warm' # Cores => n < NUM_CPUS
      BY <2>5, <3>1, Cpus
    <3>3. Warm' = Cores => n = NUM_CPUS
      BY <2>5 DEF NUM_CPUS
    <3> QED
      BY <1>1, <3>1, <3>2, <3>3
  <2>7. NUM_CPUS' = NUM_CPUS /\ n \in Nat /\ n <= NUM_CPUS
    BY <1>1, <2>2, <2>5, <2>6, Cpus DEF NUM_CPUS
  <2> HIDE DEF n
  <2>8. CASE n = NUM_CPUS
    BY <1>1, <1>2, <2>2, <2>4, <2>6, <2>7, <2>8 DEF WarmCount
  <2>9. CASE n # NUM_CPUS
    BY <1>1, <1>2, <2>2, <2>4, <2>5, <2>6, <2>7, <2>9 DEF WarmCount
  <2> QED
    BY <2>8, <2>9
<1> QED
  BY <1>3, <1>4, <1>5

\* The accesses counted for a core are those of the step.
LEMMA AccessesCounted ==
  ASSUME LoopTypes, NEW S \in SUBSET Cores
  PROVE  /\ Accesses(S) \in [Cores -> Nat]
         /\ \A j \in Cores :
              Accesses(S)[j] = sim_access[j] + IF j \in S THEN 1 ELSE 0
BY DEF LoopTypes, Accesses

\* A core completes with what it had in its region of interest.
RoiTaken(i) ==
  /\ simulation_complete' = [simulation_complete EXCEPT ![i] = TRUE]
  /\ finish_sim' = [finish_sim EXCEPT ![i] =
       [instr |-> num_retired'[i] - begin_sim'[i].instr,
        cycle |-> current_core_cycle'[i] - begin_sim'[i].cycle]]
  /\ roi_access' = [roi_access EXCEPT ![i] = sim_access'[i]]

\* The turn of core i in which the warm-up does not end accounts for what it did.
LEMMA TurnCounted ==
  ASSUME LoopInv, NEW i \in Cores, ~aborted, CoreCycle(i), Account(i, Accessed(i)),
         warmed' = warmed, index' \in Nat, aborted' \in BOOLEAN, ~aborted'
  PROVE  LoopTypes' /\ \A j \in Cores : Region(j)'
<1> DEFINE S == Accessed(i)
           one == IF i \in S THEN 1 ELSE 0
           more == [accesses |-> counted[i].accesses + one, turns |-> counted[i].turns + 1]
<1>1. /\ current_core_cycle' \in [Cores -> Nat] /\ num_retired' \in [Cores -> Nat]
      /\ \A j \in Cores : current_core_cycle'[j]
           = IF j = i THEN current_core_cycle[j] + 1 ELSE current_core_cycle[j]
      /\ \A j \in Cores \ {i} : num_retired'[j] = num_retired[j]
      /\ num_retired'[i] >= num_retired[i]
      /\ num_retired'[i] <= num_retired[i] + RETIRE_WIDTH_LOOP
  BY TurnRuns DEF LoopInv
<1>2. /\ warmup_complete' \in [Cores -> BOOLEAN] /\ warmed \in {0, 1}
      /\ all_warmup_complete > NUM_CPUS <=> warmed = 1
      /\ all_warmup_complete' > NUM_CPUS <=> warmed' = 1
  BY WarmupCounted DEF LoopInv, Account
<1>3. S \in SUBSET Cores /\ Cardinality(S) = one /\ S \subseteq {i}
  BY FS_EmptySet, FS_Singleton DEF Accessed
<1>4. /\ sim_access' = Accesses(S) /\ begin_sim' = begin_sim
      /\ counted' = [counted EXCEPT ![i] = IF ~Counts(i) THEN @
           ELSE [accesses |-> @.accesses + Cardinality(S), turns |-> @.turns + 1]]
      /\ record_roi_stats(i)
  BY DEF Account
<1>5. /\ sim_access' \in [Cores -> Nat]
      /\ \A j \in Cores : sim_access'[j] = sim_access[j] + IF j \in S THEN 1 ELSE 0
  BY <1>3, <1>4, AccessesCounted DEF LoopInv
<1> HIDE DEF S
<1>6. LoopTypes
  BY DEF LoopInv
<1>7. begin_sim[i] \in Point /\ counted[i] \in Counter /\ one \in {0, 1}
      /\ simulation_complete[i] \in BOOLEAN /\ simulation_instructions \in Nat
      /\ RETIRE_WIDTH_LOOP \in Nat /\ sim_access[i] \in Nat
      /\ num_retired[i] \in Nat /\ num_retired'[i] \in Nat /\ current_core_cycle[i] \in Nat
  BY <1>1, <1>6, LoopAssumption DEF LoopTypes
<1>8. counted' = IF Counts(i) THEN [counted EXCEPT ![i] = more] ELSE counted
  BY <1>3, <1>4, <1>6 DEF LoopTypes
<1>9. counted' \in [Cores -> Counter] /\ more \in Counter
  BY <1>6, <1>7, <1>8 DEF LoopTypes, Counter
<1>10. Completes(i) => RoiTaken(i)
  BY <1>4 DEF record_roi_stats, RoiTaken
<1>11. ~Completes(i) => UNCHANGED <<simulation_complete, finish_sim, roi_access>>
  BY <1>4 DEF record_roi_stats
<1>12. Completes(i) <=> /\ warmed = 1 /\ ~simulation_complete[i]
                       /\ num_retired'[i] >= begin_sim[i].instr + simulation_instructions
  BY <1>2, <1>4 DEF Completes
<1>13. Counts(i) <=> warmed = 1 /\ ~simulation_complete[i]
  BY <1>2 DEF Counts
<1>14. Region(i)
  BY DEF LoopInv
<1>15. ASSUME Completes(i) PROVE LoopTypes' /\ Region(i)'
  <2>1. RoiTaken(i) /\ warmed = 1 /\ ~simulation_complete[i]
        /\ num_retired'[i] >= begin_sim[i].instr + simulation_instructions
    BY <1>10, <1>12, <1>15
  <2>2. /\ current_core_cycle[i] = begin_sim[i].cycle + counted[i].turns
        /\ sim_access[i] = counted[i].accesses
        /\ simulation_instructions > 0 =>
             num_retired[i] < begin_sim[i].instr + simulation_instructions
    BY <1>14, <2>1 DEF Region
  <2>3. counted'[i] = more
    BY <1>6, <1>8, <1>13, <2>1 DEF LoopTypes
  <2> DEFINE end == [instr |-> num_retired'[i] - begin_sim[i].instr,
                     cycle |-> current_core_cycle'[i] - begin_sim[i].cycle]
  <2>4. end \in Point /\ end.cycle = counted'[i].turns
        /\ end.instr = num_retired'[i] - begin_sim[i].instr
    BY <1>1, <1>7, <2>1, <2>2, <2>3 DEF Point, Counter
  <2>5. /\ simulation_complete' = [simulation_complete EXCEPT ![i] = TRUE]
        /\ finish_sim' = [finish_sim EXCEPT ![i] = end]
        /\ roi_access' = [roi_access EXCEPT ![i] = sim_access'[i]]
    BY <1>4, <2>1 DEF RoiTaken
  <2> HIDE DEF end
  <2>6. /\ simulation_complete' \in [Cores -> BOOLEAN]
        /\ simulation_complete'[i]
    BY <1>6, <2>5 DEF LoopTypes
  <2>7. /\ finish_sim' \in [Cores -> Point] /\ finish_sim'[i] = end
        /\ roi_access' \in [Cores -> Nat] /\ roi_access'[i] = sim_access'[i]
    BY <1>5, <1>6, <2>4, <2>5 DEF LoopTypes
  <2>8. LoopTypes'
    BY <1>1, <1>2, <1>4, <1>5, <1>6, <1>9, <2>6, <2>7 DEF LoopTypes
  <2>9. /\ roi_access'[i] = counted'[i].accesses
        /\ finish_sim'[i].cycle = counted'[i].turns
    BY <1>5, <1>7, <2>2, <2>3, <2>4, <2>7
  <2>10. /\ finish_sim'[i].instr >= simulation_instructions
         /\ simulation_instructions > 0 =>
              finish_sim'[i].instr < simulation_instructions + RETIRE_WIDTH_LOOP
    BY <1>1, <1>7, <2>1, <2>2, <2>4, <2>7 DEF Point
  <2> QED
    BY <2>1, <2>6, <2>8, <2>9, <2>10 DEF Region
<1>16. ASSUME ~Completes(i) PROVE LoopTypes' /\ Region(i)'
  <2>1. UNCHANGED <<simulation_complete, finish_sim, roi_access>>
    BY <1>11, <1>16
  <2>2. LoopTypes'
    BY <1>1, <1>2, <1>4, <1>5, <1>6, <1>9, <2>1 DEF LoopTypes
  <2>3. CASE Counts(i)
    <3>1. /\ warmed = 1 /\ ~simulation_complete[i] /\ counted'[i] = more
          /\ ~(num_retired'[i] >= begin_sim[i].instr + simulation_instructions)
      BY <1>6, <1>8, <1>12, <1>13, <1>16, <2>3 DEF LoopTypes
    <3>2. /\ current_core_cycle[i] = begin_sim[i].cycle + counted[i].turns
          /\ sim_access[i] = counted[i].accesses
          /\ num_retired[i] >= begin_sim[i].instr
      BY <1>14, <3>1 DEF Region
    <3>3. /\ current_core_cycle'[i] = begin_sim[i].cycle + counted'[i].turns
          /\ sim_access'[i] = counted'[i].accesses
          /\ num_retired'[i] >= begin_sim[i].instr
          /\ num_retired'[i] < begin_sim[i].instr + simulation_instructions
      BY <1>1, <1>5, <1>7, <3>1, <3>2 DEF Point, Counter
    <3> QED
      BY <1>4, <2>1, <2>2, <3>1, <3>3 DEF Region
  <2>4. CASE ~Counts(i)
    <3>1. counted' = counted /\ (warmed = 0 \/ simulation_complete[i])
      BY <1>2, <1>8, <1>13, <2>4
    <3> QED
      BY <1>14, <2>1, <2>2, <3>1 DEF Region
  <2> QED
    BY <2>3, <2>4
<1>17. ASSUME NEW j \in Cores, j # i PROVE Region(j)'
  <2>1. Region(j)
    BY DEF LoopInv
  <2>2. /\ simulation_complete'[j] = simulation_complete[j]
        /\ finish_sim'[j] = finish_sim[j] /\ roi_access'[j] = roi_access[j]
    BY <1>6, <1>10, <1>11, <1>17 DEF RoiTaken, LoopTypes
  <2>3. /\ counted'[j] = counted[j] /\ sim_access'[j] = sim_access[j]
        /\ num_retired'[j] = num_retired[j]
        /\ current_core_cycle'[j] = current_core_cycle[j]
    BY <1>1, <1>3, <1>5, <1>6, <1>8, <1>17 DEF LoopTypes
  <2> QED
    BY <1>4, <2>1, <2>2, <2>3 DEF Region
<1> QED
  BY <1>15, <1>16, <1>17

\* The turn in which the warm-up ends begins every core's region of interest with
\* nothing counted; the core is done at once when it has nothing to simulate.
LEMMA WarmupEnds ==
  ASSUME LoopInv, NEW i \in Cores, ~aborted, CoreCycle(i), Account(i, Accessed(i)),
         warmed' # warmed, index' \in Nat, aborted' \in BOOLEAN
  PROVE  LoopTypes' /\ \A j \in Cores : Region(j)'
<1>1. current_core_cycle' \in [Cores -> Nat] /\ num_retired' \in [Cores -> Nat]
  BY TurnRuns DEF LoopInv
<1>2. /\ warmup_complete' \in [Cores -> BOOLEAN] /\ warmed = 0 /\ warmed' = 1
      /\ all_warmup_complete' > NUM_CPUS
  BY WarmupCounted DEF LoopInv, Account
<1>3. LoopTypes /\ simulation_instructions \in Nat /\ RETIRE_WIDTH_LOOP \in Nat \ {0}
  BY LoopAssumption DEF LoopInv
<1>4. \A j \in Cores :
        /\ ~simulation_complete[j] /\ counted[j].accesses = 0 /\ counted[j].turns = 0
  BY <1>2 DEF LoopInv, Region
<1>5. /\ begin_sim' = [j \in Cores |->
            [instr |-> num_retired'[j], cycle |-> current_core_cycle'[j]]]
      /\ sim_access' = [j \in Cores |-> 0]
      /\ counted' = [counted EXCEPT ![i] = @]
      /\ record_roi_stats(i)
  BY DEF Account, finish_warmup
<1>6. /\ begin_sim' \in [Cores -> Point] /\ sim_access' \in [Cores -> Nat]
      /\ \A j \in Cores : /\ begin_sim'[j].instr = num_retired'[j]
                          /\ begin_sim'[j].cycle = current_core_cycle'[j]
                          /\ sim_access'[j] = 0
  BY <1>1, <1>5 DEF Point
<1>7. counted' = counted
  BY <1>3, <1>5 DEF LoopTypes
<1>8. Completes(i) <=> simulation_instructions = 0
  BY <1>1, <1>2, <1>3, <1>4, <1>6 DEF Completes
<1>9. ASSUME simulation_instructions = 0 PROVE LoopTypes' /\ \A j \in Cores : Region(j)'
  <2> DEFINE end == [instr |-> num_retired'[i] - begin_sim'[i].instr,
                     cycle |-> current_core_cycle'[i] - begin_sim'[i].cycle]
  <2>1. /\ simulation_complete' = [simulation_complete EXCEPT ![i] = TRUE]
        /\ finish_sim' = [finish_sim EXCEPT ![i] = end]
        /\ roi_access' = [roi_access EXCEPT ![i] = sim_access'[i]]
    BY <1>5, <1>8, <1>9 DEF record_roi_stats
  <2>2. end \in Point /\ end.instr = 0 /\ end.cycle = 0
    BY <1>1, <1>6 DEF Point
  <2> HIDE DEF end
  <2>3. /\ simulation_complete' \in [Cores -> BOOLEAN] /\ finish_sim' \in [Cores -> Point]
        /\ roi_access' \in [Cores -> Nat] /\ roi_access'[i] = 0 /\ finish_sim'[i] = end
        /\ simulation_complete'[i]
        /\ \A j \in Cores \ {i} : simulation_complete'[j] = simulation_complete[j]
    BY <1>3, <1>6, <2>1, <2>2 DEF LoopTypes
  <2>4. LoopTypes'
    BY <1>1, <1>2, <1>3, <1>6, <1>7, <2>3 DEF LoopTypes
  <2>5. Region(i)'
    BY <1>2, <1>3, <1>4, <1>7, <1>9, <2>2, <2>3 DEF Region
  <2>6. ASSUME NEW j \in Cores, j # i PROVE Region(j)'
    BY <1>1, <1>2, <1>4, <1>6, <1>7, <1>9, <2>3, <2>6 DEF Region
  <2> QED
    BY <2>4, <2>5, <2>6
<1>10. ASSUME simulation_instructions # 0 PROVE LoopTypes' /\ \A j \in Cores : Region(j)'
  <2>1. UNCHANGED <<simulation_complete, finish_sim, roi_access>>
    BY <1>5, <1>8, <1>10 DEF record_roi_stats
  <2>2. LoopTypes'
    BY <1>1, <1>2, <1>3, <1>6, <1>7, <2>1 DEF LoopTypes
  <2>3. ASSUME NEW j \in Cores PROVE Region(j)'
    BY <1>1, <1>2, <1>3, <1>4, <1>6, <1>7, <2>1 DEF Region
  <2> QED
    BY <2>2, <2>3
<1> QED
  BY <1>9, <1>10

\* A turn, cut short or accounted for, keeps the invariant.
LEMMA TurnKeeps ==
  ASSUME LoopInv, NEW i \in Cores, Turn(i)
  PROVE  LoopInv'
<1>1. /\ ~aborted /\ index < NUM_CPUS /\ index' = index + 1
      /\ get_next_cpu(i) /\ CoreCycle(i) /\ aborted' \in BOOLEAN
  BY DEF Turn, print_deadlock
<1>2. Rotation' /\ index' \in Nat
  BY <1>1, TurnRotates DEF LoopInv
<1>3. CASE aborted'
  <2>1. UNCHANGED <<warmup_complete, all_warmup_complete, warmed, begin_sim, sim_access,
                    counted, simulation_complete, finish_sim, roi_access>>
    BY <1>3 DEF Turn
  <2>2. WarmCount'
    BY <2>1 DEF LoopInv, WarmCount, Warm, NUM_CPUS
  <2>3. LoopTypes'
    BY <1>1, <1>2, <2>1, TurnRuns DEF LoopInv, LoopTypes
  <2>4. ASSUME NEW j \in Cores PROVE Region(j)'
    BY <1>3, <2>1 DEF LoopInv, Region
  <2> QED
    BY <1>2, <2>2, <2>3, <2>4 DEF LoopInv
<1>4. CASE ~aborted'
  <2>1. Account(i, Accessed(i))
    BY <1>4 DEF Turn
  <2>2. WarmCount'
    BY <2>1, WarmupCounted DEF LoopInv, Account
  <2>3. LoopTypes' /\ \A j \in Cores : Region(j)'
    <3>1. CASE warmed' = warmed
      BY <1>1, <1>2, <1>4, <2>1, <3>1, TurnCounted
    <3>2. CASE warmed' # warmed
      BY <1>1, <1>2, <2>1, <3>2, WarmupEnds
    <3> QED
      BY <3>1, <3>2
  <2> QED
    BY <1>2, <2>2, <2>3 DEF LoopInv
<1> QED
  BY <1>3, <1>4

\* The end of a cycle counts what the last-level cache and the memory do for the
\* cores that are in their region of interest.
LEMMA UncoreKeeps ==
  ASSUME LoopInv, Uncore
  PROVE  LoopInv'
<1>1. PICK S \in {{}, Cores} :
        /\ sim_access' = Accesses(S)
        /\ counted' = [i \in Cores |-> IF i \in S /\ Counts(i)
                         THEN [counted[i] EXCEPT !.accesses = @ + 1] ELSE counted[i]]
  BY DEF Uncore
<1>2. LoopTypes /\ S \in SUBSET Cores /\ NUM_CPUS \in Nat \ {0} /\ ~aborted
  BY <1>1, Cpus DEF LoopInv, Uncore
<1>3. UNCHANGED <<aborted, generated, current_core_cycle, num_retired, warmup_complete,
                  all_warmup_complete, simulation_complete, begin_sim, finish_sim,
                  roi_access, warmed>>
  BY DEF Uncore
<1>4. /\ sim_access' \in [Cores -> Nat]
      /\ \A j \in Cores : sim_access'[j] = sim_access[j] + IF j \in S THEN 1 ELSE 0
  BY <1>1, <1>2, AccessesCounted
<1>5. \A j \in Cores :
        /\ counted'[j] \in Counter /\ counted'[j].turns = counted[j].turns
        /\ counted'[j].accesses
             = counted[j].accesses + IF j \in S /\ Counts(j) THEN 1 ELSE 0
  BY <1>1, <1>2 DEF LoopTypes, Counter
<1>6. counted' \in [Cores -> Counter]
  BY <1>1, <1>5
<1>7. LoopTypes'
  BY <1>2, <1>3, <1>4, <1>6 DEF LoopTypes, Uncore
<1>8. Rotation'
  <2>1. generated = {} /\ index' \in {0, NUM_CPUS + 1}
    BY <1>2 DEF LoopInv, Rotation, Uncore
  <2>2. \A i \in Cores : Had(i)' = Had(i)
    BY <1>3 DEF Had
  <2>3. NUM_CPUS' = NUM_CPUS /\ Cardinality({}) = 0
    BY FS_EmptySet DEF NUM_CPUS
  <2> QED
    BY <1>2, <1>3, <2>1, <2>2, <2>3 DEF LoopInv, Rotation
<1>9. WarmCount'
  BY <1>3 DEF LoopInv, WarmCount, Warm, NUM_CPUS
<1>10. ASSUME NEW j \in Cores PROVE Region(j)'
  <2>1. Counts(j) <=> warmed = 1 /\ ~simulation_complete[j]
    BY <1>2, Cpus DEF LoopInv, WarmCount, Counts, Warm
  <2>2. Region(j) /\ counted[j] \in Counter
    BY <1>2 DEF LoopInv, LoopTypes
  <2>3. CASE Counts(j)
    BY <1>2, <1>3, <1>4, <1>5, <2>1, <2>2, <2>3 DEF Region, Counter
  <2>4. CASE ~Counts(j)
    <3>1. warmed \in {0, 1}
      BY DEF LoopInv, WarmCount
    <3>2. counted'[j].accesses = counted[j].accesses /\ counted'[j].turns = counted[j].turns
      BY <1>5, <2>2, <2>4 DEF Counter
    <3> QED
      BY <1>3, <2>1, <2>2, <2>4, <3>1, <3>2 DEF Region
  <2> QED
    BY <2>3, <2>4
<1> QED
  BY <1>7, <1>8, <1>9, <1>10 DEF LoopInv

\* The loop starts with nothing run and nothing counted.
LEMMA LoopStarts ==
  ASSUME LoopInit
  PROVE  LoopInv
<1>1. NUM_CPUS \in Nat \ {0} /\ Cores # {} /\ Cardinality({}) = 0
  BY Cpus, LoopAssumption, FS_EmptySet
<1>2. LoopTypes
  BY DEF LoopInit, LoopTypes, Point, Counter
<1>3. Rotation
  BY <1>1 DEF LoopInit, Rotation, Had
<1>4. WarmCount
  <2>1. Warm = {}
    BY DEF LoopInit, Warm
  <2> QED
    BY <1>1, <2>1 DEF LoopInit, WarmCount
<1>5. \A i \in Cores : Region(i)
  BY DEF LoopInit, Region
<1> QED
  BY <1>2, <1>3, <1>4, <1>5 DEF LoopInv

\* For any number of cores and whatever order they are drawn in, the cores stay in
\* step, finish_warmup is called once, when all are warm, and the statistics of a
\* core are those of its region of interest (main.cc:965-1138).
THEOREM LoopSound == LoopSpec => []LoopExact
<1>1. LoopInit => LoopInv
  BY LoopStarts
<1>2. LoopInv /\ [LoopNext]_loopVars => LoopInv'
  <2> SUFFICES ASSUME LoopInv, [LoopNext]_loopVars PROVE LoopInv'
    OBVIOUS
  <2>1. ASSUME NEW i \in Cores, Turn(i) PROVE LoopInv'
    BY <2>1, TurnKeeps
  <2>2. CASE Uncore
    BY <2>2, UncoreKeeps
  <2>3. CASE UNCHANGED loopVars
    BY <2>3 DEF loopVars, LoopInv, LoopTypes, Rotation, Had, WarmCount, Warm, Region, NUM_CPUS
  <2> QED
    BY <2>1, <2>2, <2>3 DEF LoopNext
<1>3. LoopInv => LoopExact
  <2> SUFFICES ASSUME LoopInv PROVE LoopExact
    OBVIOUS
  <2>1. CoresInStep
    <3>1. \A i \in Cores : Had(i) \in {0, 1} /\ current_core_cycle[i] \in Nat
      BY DEF LoopInv, LoopTypes, Had
    <3>2. \A i, j \in Cores : current_core_cycle[i] - Had(i) = current_core_cycle[j] - Had(j)
      BY DEF LoopInv, Rotation
    <3>3. \A i, j \in Cores : current_core_cycle[i] - current_core_cycle[j] \in {-1, 0, 1}
      BY <3>1, <3>2
    <3>4. ASSUME index = NUM_CPUS
          PROVE  generated = {} /\ \A i, j \in Cores : current_core_cycle[i] = current_core_cycle[j]
      <4>1. generated = {}
        BY <3>4, Cpus DEF LoopInv, Rotation
      <4>2. \A i \in Cores : Had(i) = 0
        BY <4>1 DEF Had
      <4> QED
        BY <3>1, <3>2, <4>1, <4>2
    <3> QED
      BY <3>3, <3>4 DEF CoresInStep
  <2>2. WarmupOnce
    BY DEF LoopInv, LoopTypes, WarmCount, Warm, WarmupOnce
  <2>3. RoiExact
    <3>1. warmed \in {0, 1}
      BY DEF LoopInv, WarmCount
    <3> QED
      BY <3>1 DEF LoopInv, Region, RoiExact
  <2> QED
    BY <2>1, <2>2, <2>3 DEF LoopExact
<1> QED
  BY <1>1, <1>2, <1>3, PTL DEF LoopSpec


-----------------------------------------------------------------------------
(***************************************************************************)
(* The sandbox prefetcher.  A round only moves offsets: what is evaluated  *)
(* and what waits, one after the other, is a permutation of what it was.   *)
(* Besides EvaluationExact the invariant says that the offset under test   *)
(* is one that is evaluated.                                               *)
(***************************************************************************)
Rated == [offset : Int, score : Int]

\* The offsets evaluated and those that wait.
AllOffsets(evaluated, waiting) == [k \in DOMAIN evaluated |-> evaluated[k].offset] \o waiting

SandboxInv ==
  /\ evaluated_offsets \in Seq(Rated) /\ Len(evaluated_offsets) = Len(FirstOffsets)
  /\ non_evaluated_offsets \in Seq(Int)
  /\ curr_ptr \in 0..(Len(FirstOffsets) - 1)
  /\ EvaluationExact

\* The first n elements of t are those of s, in another order.
Shuffled(t, s, n) ==
  \E p \in [1..n -> 1..n] :
    /\ \A i, j \in 1..n : p[i] = p[j] => i = j
    /\ \A i \in 1..n : t[i] = s[p[i]]

\* A shuffled sequence repeats nothing that was not repeated and loses nothing.
LEMMA ShuffleKeeps ==
  ASSUME NEW S, NEW s \in Seq(S), NEW t \in Seq(S), Len(t) = Len(s),
         Shuffled(t, s, Len(s)), IsInjective(s)
  PROVE  IsInjective(t) /\ ToSet(t) = ToSet(s)
<1> DEFINE n == Len(s)
<1>1. n \in Nat /\ Len(t) = n /\ DOMAIN s = 1..n /\ DOMAIN t = 1..n
  OBVIOUS
<1>2. PICK p \in [1..n -> 1..n] : /\ \A i, j \in 1..n : p[i] = p[j] => i = j
                                  /\ \A i \in 1..n : t[i] = s[p[i]]
  BY <1>1 DEF Shuffled
<1> HIDE DEF n
<1>3. IsInjective(t)
  <2> SUFFICES ASSUME NEW i \in 1..n, NEW j \in 1..n, t[i] = t[j] PROVE i = j
    BY <1>1 DEF IsInjective
  <2>1. p[i] \in 1..n /\ p[j] \in 1..n /\ s[p[i]] = s[p[j]]
    BY <1>2
  <2>2. p[i] = p[j]
    BY <1>1, <2>1 DEF IsInjective
  <2> QED
    BY <1>2, <2>2
<1>4. p \in Surjection(1..n, 1..n)
  <2>1. p \in Injection(1..n, 1..n)
    BY <1>2 DEF Injection, IsInjective
  <2>2. IsFiniteSet(1..n)
    BY <1>1, FS_Interval
  <2> QED
    BY <2>1, <2>2, FS_Injection
<1>5. \A k \in 1..n : \E i \in 1..n : p[i] = k
  BY <1>4 DEF Surjection
<1>6. ToSet(t) \subseteq ToSet(s)
  BY <1>1, <1>2 DEF ToSet
<1>7. ToSet(s) \subseteq ToSet(t)
  <2> SUFFICES ASSUME NEW k \in 1..n PROVE s[k] \in ToSet(t)
    BY <1>1 DEF ToSet
  <2>1. PICK i \in 1..n : p[i] = k
    BY <1>5
  <2>2. t[i] = s[k]
    BY <1>2, <2>1
  <2> QED
    BY <1>1, <2>2 DEF ToSet
<1> QED
  BY <1>3, <1>6, <1>7

\* The offsets evaluated and waiting, one by one.
LEMMA OffsetAt ==
  ASSUME NEW e \in Seq(Rated), NEW w \in Seq(Int)
  PROVE  /\ Len(e) \in Nat /\ Len(w) \in Nat /\ DOMAIN e = 1..Len(e)
         /\ \A i \in 1..Len(e) : e[i] \in Rated /\ e[i].offset \in Int
         /\ AllOffsets(e, w) \in Seq(Int) /\ Len(AllOffsets(e, w)) = Len(e) + Len(w)
         /\ \A i \in 1..Len(e) : AllOffsets(e, w)[i] = e[i].offset
         /\ \A i \in 1..Len(w) : AllOffsets(e, w)[Len(e) + i] = w[i]
<1> DEFINE a == [k \in DOMAIN e |-> e[k].offset]
<1>1. Len(e) \in Nat /\ Len(w) \in Nat /\ DOMAIN e = 1..Len(e) /\ \A i \in 1..Len(e) : e[i] \in Rated
  OBVIOUS
<1>2. \A i \in 1..Len(e) : e[i].offset \in Int
  BY <1>1 DEF Rated
<1>3. a \in [1..Len(e) -> Int] /\ \A i \in 1..Len(e) : a[i] = e[i].offset
  BY <1>1, <1>2
<1>4. AllOffsets(e, w) = a \o w
  BY DEF AllOffsets
<1> HIDE DEF a
<1>5. a \in Seq(Int) /\ Len(a) = Len(e)
  BY <1>1, <1>3
<1>6. /\ a \o w \in Seq(Int) /\ Len(a \o w) = Len(e) + Len(w)
      /\ \A i \in 1..Len(e) : (a \o w)[i] = a[i]
      /\ \A i \in 1..Len(w) : (a \o w)[Len(e) + i] = w[i]
  <2>1. /\ a \o w \in Seq(Int) /\ Len(a \o w) = Len(a) + Len(w)
        /\ \A i \in 1..Len(a) : (a \o w)[i] = a[i]
        /\ \A i \in 1..Len(w) : (a \o w)[Len(a) + i] = w[i]
    <3>1. \A x, y \in Seq(Int) :
            /\ x \o y \in Seq(Int) /\ Len(x \o y) = Len(x) + Len(y)
            /\ \A i \in 1..Len(x) : (x \o y)[i] = x[i]
            /\ \A i \in 1..Len(y) : (x \o y)[Len(x) + i] = y[i]
      OBVIOUS
    <3> QED
      BY <1>5, <3>1, Zenon
  <2> QED
    BY <1>5, <2>1
<1> QED
  BY <1>1, <1>2, <1>3, <1>4, <1>6

\* Step 1 of an access changes a score and no offset.
LEMMA ScoredOffsets ==
  ASSUME NEW e \in Seq(Rated), NEW i \in 1..Len(e), NEW x \in Int
  PROVE  LET f == [e EXCEPT ![i].score = x] IN
         f \in Seq(Rated) /\ Len(f) = Len(e) /\ \A k \in 1..Len(e) : f[k].offset = e[k].offset
<1> DEFINE r == [e[i] EXCEPT !.score = x]
<1>1. e[i] \in Rated /\ Len(e) \in Nat
  OBVIOUS
<1>2. r \in Rated /\ r.offset = e[i].offset
  BY <1>1 DEF Rated
<1>3. [e EXCEPT ![i].score = x] = [e EXCEPT ![i] = r]
  OBVIOUS
<1> HIDE DEF r
<1>4. /\ [e EXCEPT ![i] = r] \in Seq(Rated) /\ Len([e EXCEPT ![i] = r]) = Len(e)
      /\ \A k \in 1..Len(e) : [e EXCEPT ![i] = r][k] = IF k = i THEN r ELSE e[k]
  BY <1>1, <1>2
<1> QED
  BY <1>2, <1>3, <1>4

\* std::sort loses no entry and doubles none.
LEMMA RankedShuffles ==
  ASSUME NEW e \in Seq(Rated), NEW s \in Ranked(e)
  PROVE  s \in Seq(Rated) /\ Len(s) = Len(e) /\ Shuffled(s, e, Len(e))
<1> DEFINE n == Len(e)
<1>1. n \in Nat /\ DOMAIN e = 1..n /\ ToSet(e) \subseteq Rated
  BY DEF ToSet
<1>2. s \in SetToAllKPermutations(ToSet(e)) /\ Len(s) = n
  BY DEF Ranked
<1>3. PICK T \in SUBSET ToSet(e) : s \in SetToSeqs(T)
  BY <1>2 DEF SetToAllKPermutations
<1> DEFINE D == 1..Cardinality(T)
<1>4. s \in [D -> T] /\ \A i, j \in D : i # j => s[i] # s[j]
  BY <1>3 DEF SetToSeqs
<1>5. Cardinality(T) \in Nat
  <2>1. IsFiniteSet(ToSet(e))
    <3>1. IsFiniteSet(1..n)
      BY <1>1, FS_Interval
    <3>2. ToSet(e) = {e[i] : i \in 1..n}
      BY <1>1 DEF ToSet
    <3> DEFINE F == [i \in 1..n |-> e[i]]
    <3>3. F \in Surjection(1..n, ToSet(e))
      BY <3>2 DEF Surjection
    <3> HIDE DEF F
    <3> QED
      BY <3>1, <3>3, FS_Surjection
  <2> QED
    BY <1>3, <2>1, FS_Subset, FS_CardinalityType
<1> HIDE DEF n
<1>6. s \in Seq(Rated) /\ D = 1..n
  BY <1>1, <1>2, <1>3, <1>4, <1>5
<1> HIDE DEF D
<1>7. \A i \in 1..n : \E k \in 1..n : e[k] = s[i]
  BY <1>1, <1>3, <1>4, <1>6 DEF ToSet
<1> DEFINE p == [i \in 1..n |-> CHOOSE k \in 1..n : e[k] = s[i]]
<1>8. \A i \in 1..n : p[i] \in 1..n /\ e[p[i]] = s[i]
  BY <1>7
<1>9. p \in [1..n -> 1..n]
  BY <1>8
<1> HIDE DEF p
<1>10. \A i, j \in 1..n : p[i] = p[j] => i = j
  BY <1>4, <1>6, <1>8
<1> QED
  BY <1>2, <1>6, <1>8, <1>9, <1>10 DEF Shuffled, n

\* Shuffling twice is shuffling.
LEMMA ShuffledTwice ==
  ASSUME NEW n, NEW s, NEW t, NEW u, Shuffled(u, t, n), Shuffled(t, s, n)
  PROVE  Shuffled(u, s, n)
<1>2. PICK p \in [1..n -> 1..n] : /\ \A i, j \in 1..n : p[i] = p[j] => i = j
                                  /\ \A i \in 1..n : t[i] = s[p[i]]
  BY DEF Shuffled
<1>3. PICK q \in [1..n -> 1..n] : /\ \A i, j \in 1..n : q[i] = q[j] => i = j
                                  /\ \A i \in 1..n : u[i] = t[q[i]]
  BY DEF Shuffled
<1> DEFINE r == [i \in 1..n |-> p[q[i]]]
<1>4. r \in [1..n -> 1..n] /\ \A i \in 1..n : u[i] = s[r[i]]
  BY <1>2, <1>3
<1>5. \A i, j \in 1..n : r[i] = r[j] => i = j
  BY <1>2, <1>3
<1> HIDE DEF r
<1> QED
  BY <1>4, <1>5 DEF Shuffled

\* Sorting the offsets evaluated shuffles all offsets.
LEMMA SortShuffles ==
  ASSUME NEW e \in Seq(Rated), NEW s \in Seq(Rated), NEW w \in Seq(Int),
         Len(s) = Len(e), Shuffled(s, e, Len(e))
  PROVE  Shuffled(AllOffsets(s, w), AllOffsets(e, w), Len(e) + Len(w))
<1> DEFINE n == Len(e)
           m == Len(w)
           a == AllOffsets(e, w)
           b == AllOffsets(s, w)
<1>1. n \in Nat /\ m \in Nat /\ Len(s) = n
  OBVIOUS
<1>2. /\ Len(a) = n + m /\ \A i \in 1..n : a[i] = e[i].offset
      /\ \A i \in 1..m : a[n + i] = w[i]
  BY OffsetAt
<1>3. /\ Len(b) = n + m /\ \A i \in 1..n : b[i] = s[i].offset
      /\ \A i \in 1..m : b[n + i] = w[i]
  <2>1. /\ Len(b) = Len(s) + m /\ \A i \in 1..Len(s) : b[i] = s[i].offset
        /\ \A i \in 1..m : b[Len(s) + i] = w[i]
    BY OffsetAt
  <2> QED
    BY <1>1, <2>1
<1>4. PICK p \in [1..n -> 1..n] : /\ \A i, j \in 1..n : p[i] = p[j] => i = j
                                  /\ \A i \in 1..n : s[i] = e[p[i]]
  BY <1>1 DEF Shuffled
<1> HIDE DEF n, m, a, b
<1> DEFINE A == 1..n
           N == 1..(n + m)
           r == [i \in N |-> IF i \in A THEN p[i] ELSE i]
<1>5. A \subseteq N /\ \A i \in N : i \notin A => i - n \in 1..m /\ n + (i - n) = i
  BY <1>1
<1>6. \A i \in A : p[i] \in A
  BY <1>4
<1>7. \A i, j \in A : p[i] = p[j] => i = j
  BY <1>4
<1> HIDE DEF A, N
<1>8. \A i \in N : (i \in A => r[i] = p[i] /\ r[i] \in A) /\ (i \notin A => r[i] = i) /\ r[i] \in N
  BY <1>5, <1>6
<1>9. r \in [N -> N]
  BY <1>8
<1> HIDE DEF r
<1>10. \A i, j \in N : r[i] = r[j] => i = j
  BY <1>7, <1>8
<1>11. ASSUME NEW i \in N PROVE b[i] = a[r[i]]
  <2>1. CASE i \in A
    <3>1. r[i] = p[i] /\ r[i] \in A
      BY <1>8, <2>1
    <3>2. b[i] = s[i].offset /\ s[i] = e[p[i]] /\ a[r[i]] = e[r[i]].offset
      BY <1>2, <1>3, <1>4, <2>1, <3>1 DEF A
    <3> QED
      BY <3>1, <3>2
  <2>2. CASE i \notin A
    <3>1. i - n \in 1..m /\ n + (i - n) = i /\ r[i] = i
      BY <1>5, <1>8, <2>2
    <3>2. b[n + (i - n)] = w[i - n] /\ a[n + (i - n)] = w[i - n]
      BY <1>2, <1>3, <3>1
    <3> QED
      BY <3>1, <3>2
  <2> QED
    BY <2>1, <2>2
<1>12. Shuffled(b, a, n + m)
  BY <1>9, <1>10, <1>11 DEF Shuffled, N
<1> QED
  BY <1>12 DEF a, b, n, m

\* end_of_round shuffles all offsets: the worst c of s go to the end of those that
\* wait, whose first c take their place.
LEMMA RoundShuffles ==
  ASSUME NEW s \in Seq(Rated), NEW w \in Seq(Int), NEW c \in Nat, c <= Len(s)
  PROVE  LET out == [k \in 1..c |-> s[Len(s) + 1 - k].offset]
             waiting == w \o out
             e == SubSeq(s, 1, Len(s) - c) \o [k \in 1..c |-> [offset |-> waiting[k], score |-> 0]]
             v == SubSeq(waiting, c + 1, Len(waiting))
         IN  /\ e \in Seq(Rated) /\ Len(e) = Len(s) /\ v \in Seq(Int) /\ Len(v) = Len(w)
             /\ Shuffled(AllOffsets(e, v), AllOffsets(s, w), Len(s) + Len(w))
<1> DEFINE n == Len(s)
           m == Len(w)
           out == [k \in 1..c |-> s[Len(s) + 1 - k].offset]
           waiting == w \o out
           kept == SubSeq(s, 1, Len(s) - c)
           new == [k \in 1..c |-> [offset |-> waiting[k], score |-> 0]]
           e == kept \o new
           v == SubSeq(waiting, c + 1, Len(waiting))
<1>0. n \in Nat /\ m \in Nat /\ c <= n /\ \A i \in 1..n : s[i] \in Rated /\ s[i].offset \in Int
  BY OffsetAt
<1>1. out \in Seq(Int) /\ Len(out) = c /\ \A k \in 1..c : out[k] = s[n + 1 - k].offset
  <2>1. \A k \in 1..c : n + 1 - k \in 1..n
    BY <1>0
  <2>2. out \in [1..c -> Int] /\ \A k \in 1..c : out[k] = s[n + 1 - k].offset
    BY <1>0, <2>1
  <2> HIDE DEF out, n
  <2> QED
    BY <2>2
<1> HIDE DEF n, m, out
<1>2. /\ waiting \in Seq(Int) /\ Len(waiting) = m + c
      /\ \A i \in 1..m : waiting[i] = w[i]
      /\ \A k \in 1..c : waiting[m + k] = out[k]
  <2>1. /\ w \o out \in Seq(Int) /\ Len(w \o out) = Len(w) + Len(out)
        /\ \A i \in 1..Len(w) : (w \o out)[i] = w[i]
        /\ \A i \in 1..Len(out) : (w \o out)[Len(w) + i] = out[i]
    <3>1. \A x, y \in Seq(Int) :
            /\ x \o y \in Seq(Int) /\ Len(x \o y) = Len(x) + Len(y)
            /\ \A i \in 1..Len(x) : (x \o y)[i] = x[i]
            /\ \A i \in 1..Len(y) : (x \o y)[Len(x) + i] = y[i]
      OBVIOUS
    <3> QED
      BY <1>1, <3>1, Zenon
  <2> HIDE DEF waiting
  <2> QED
    BY <1>1, <2>1 DEF m, waiting
<1> HIDE DEF waiting
<1>3. kept \in Seq(Rated) /\ Len(kept) = n - c /\ \A i \in 1..(n - c) : kept[i] = s[i]
  BY <1>0 DEF n
<1>4. v \in Seq(Int) /\ Len(v) = m /\ \A i \in 1..m : v[i] = waiting[c + i]
  BY <1>0, <1>2
<1> HIDE DEF v
<1>5. new \in Seq(Rated) /\ Len(new) = c /\ \A k \in 1..c : new[k].offset = waiting[k]
  <2>1. \A k \in 1..c : waiting[k] \in Int
    <3>1. \A k \in 1..c : k \in 1..(m + c)
      BY <1>0
    <3> QED
      BY <1>2, <3>1
  <2>2. \A x \in Int : [offset |-> x, score |-> 0] \in Rated /\ [offset |-> x, score |-> 0].offset = x
    BY DEF Rated
  <2>3. new \in [1..c -> Rated] /\ \A k \in 1..c : new[k].offset = waiting[k]
    BY <2>1, <2>2
  <2> HIDE DEF new
  <2> QED
    BY <2>3
<1> HIDE DEF kept, new
<1>7. /\ e \in Seq(Rated) /\ Len(e) = n
      /\ \A i \in 1..(n - c) : e[i] = s[i]
      /\ \A k \in 1..c : e[n - c + k].offset = waiting[k]
  <2>1. /\ kept \o new \in Seq(Rated) /\ Len(kept \o new) = Len(kept) + Len(new)
        /\ \A i \in 1..Len(kept) : (kept \o new)[i] = kept[i]
        /\ \A i \in 1..Len(new) : (kept \o new)[Len(kept) + i] = new[i]
    <3>1. \A x, y \in Seq(Rated) :
            /\ x \o y \in Seq(Rated) /\ Len(x \o y) = Len(x) + Len(y)
            /\ \A i \in 1..Len(x) : (x \o y)[i] = x[i]
            /\ \A i \in 1..Len(y) : (x \o y)[Len(x) + i] = y[i]
      OBVIOUS
    <3> QED
      BY <1>3, <1>5, <3>1, Zenon
  <2> QED
    <3>1. Len(kept) + Len(new) = n /\ Len(kept) = n - c /\ Len(new) = c
      BY <1>0, <1>3, <1>5
    <3> HIDE DEF e
    <3>2. /\ e \in Seq(Rated) /\ Len(e) = n
          /\ \A i \in 1..(n - c) : e[i] = kept[i]
          /\ \A k \in 1..c : e[n - c + k] = new[k]
      BY <2>1, <3>1 DEF e
    <3> QED
      BY <1>3, <1>5, <3>2
<1> HIDE DEF e
<1> DEFINE a == AllOffsets(s, w)
           b == AllOffsets(e, v)
<1>8. /\ \A i \in 1..n : a[i] = s[i].offset
      /\ \A i \in 1..m : a[n + i] = w[i]
  BY OffsetAt DEF n, m
<1>9. /\ \A i \in 1..n : b[i] = e[i].offset
      /\ \A i \in 1..m : b[n + i] = v[i]
  <2>1. /\ \A i \in 1..Len(e) : b[i] = e[i].offset
        /\ \A i \in 1..Len(v) : b[Len(e) + i] = v[i]
    BY <1>4, <1>7, OffsetAt
  <2> QED
    BY <1>4, <1>7, <2>1
<1> HIDE DEF a, b
\* What was kept, what waited, and what left.
<1>10. \A i \in 1..(n - c) : b[i] = a[i]
  <2> TAKE i \in 1..(n - c)
  <2>1. i \in 1..n
    BY <1>0
  <2> QED
    BY <1>7, <1>8, <1>9, <2>1
<1>11. \A k \in 1..(m + c) : b[(n - c) + k] = waiting[k]
  <2> TAKE k \in 1..(m + c)
  <2>1. CASE k <= c
    <3>1. k \in 1..c /\ (n - c) + k \in 1..n
      BY <1>0, <2>1
    <3> QED
      BY <1>7, <1>9, <3>1
  <2>2. CASE ~(k <= c)
    <3>1. k - c \in 1..m /\ n + (k - c) = (n - c) + k /\ c + (k - c) = k
      BY <1>0, <2>2
    <3>2. b[n + (k - c)] = v[k - c] /\ v[k - c] = waiting[c + (k - c)]
      BY <1>4, <1>9, <3>1
    <3> QED
      BY <3>1, <3>2
  <2> QED
    BY <2>1, <2>2
<1>12. \A k \in 1..m : b[(n - c) + k] = a[n + k]
  <2> TAKE k \in 1..m
  <2>1. k \in 1..(m + c)
    BY <1>0
  <2> QED
    BY <1>2, <1>8, <1>11, <2>1
<1>13. \A k \in 1..c : b[(n - c) + (m + k)] = a[n + 1 - k]
  <2> TAKE k \in 1..c
  <2>1. m + k \in 1..(m + c) /\ n + 1 - k \in 1..n
    BY <1>0
  <2>2. b[(n - c) + (m + k)] = waiting[m + k] /\ waiting[m + k] = out[k]
    BY <1>2, <1>11, <2>1
  <2> QED
    BY <1>1, <1>8, <2>1, <2>2
<1> DEFINE r == [i \in 1..(n + m) |-> IF i <= n - c THEN i
                                      ELSE IF i <= n - c + m THEN c + i
                                      ELSE 2 * n - c + m + 1 - i]
<1>14. ASSUME NEW i \in 1..(n + m) PROVE b[i] = a[r[i]]
  <2>1. CASE i <= n - c
    <3>1. i \in 1..(n - c) /\ r[i] = i
      BY <1>0, <2>1
    <3> QED
      BY <1>10, <3>1
  <2>2. CASE ~(i <= n - c) /\ i <= n - c + m
    <3> DEFINE k == i - (n - c)
    <3>1. k \in 1..m /\ (n - c) + k = i /\ n + k = c + i /\ r[i] = c + i
      BY <1>0, <2>2
    <3> HIDE DEF k, r
    <3> QED
      BY <1>12, <3>1
  <2>3. CASE ~(i <= n - c) /\ ~(i <= n - c + m)
    <3> DEFINE k == i - (n - c + m)
    <3>1. /\ k \in 1..c /\ (n - c) + (m + k) = i /\ n + 1 - k = 2 * n - c + m + 1 - i
          /\ r[i] = 2 * n - c + m + 1 - i
      BY <1>0, <2>3
    <3> HIDE DEF k, r
    <3> QED
      BY <1>13, <3>1
  <2> QED
    BY <2>1, <2>2, <2>3
<1>15. \A i \in 1..(n + m) : r[i] \in 1..(n + m)
  BY <1>0
<1>16. \A i, j \in 1..(n + m) : r[i] = r[j] => i = j
  BY <1>0
<1>17. r \in [1..(n + m) -> 1..(n + m)]
  BY <1>15
<1> HIDE DEF r
<1>18. Shuffled(b, a, n + m)
  BY <1>14, <1>16, <1>17 DEF Shuffled
<1> QED
  BY <1>4, <1>7, <1>18 DEF a, b, n, m, e, v, kept, new, waiting, out

\* Steps 1 and 2 of an access leave the offsets as they are.
LEMMA ScoredSame ==
  ASSUME SandboxInv, NEW line \in PageLine, NEW gain \in Gains(line)
  PROVE  /\ Scored(line, gain) \in Seq(Rated) /\ Len(Scored(line, gain)) = Len(FirstOffsets)
         /\ Len(FirstOffsets) \in Nat \ {0}
         /\ \A k \in 1..Len(FirstOffsets) : Scored(line, gain)[k].offset = evaluated_offsets[k].offset
         /\ AllOffsets(Scored(line, gain), non_evaluated_offsets)
              = AllOffsets(evaluated_offsets, non_evaluated_offsets)
<1> DEFINE e == evaluated_offsets
           n == Len(FirstOffsets)
           i == curr_ptr + 1
           x == Min({e[i].score + gain, MaxScore})
<1>1. e \in Seq(Rated) /\ Len(e) = n /\ n \in Nat \ {0} /\ i \in 1..n
  BY SandboxAssumption, SMTT(30) DEF SandboxInv
<1>2. gain \in Int
  <2> DEFINE before == {k \in 1..sandbox_stream_detect_length : line - e[i].offset * k \in PageLine}
             found == {k \in before : line - e[i].offset * k \in filter}
             counts == IF enable_stream_detect THEN Cardinality(found)..Cardinality(before) ELSE {0}
  <2>1. counts \subseteq Int
    OBVIOUS
  <2>2. Gains(line) = {IF ~hit THEN 0 ELSE 1 + x0 : hit \in filter_lookup(line), x0 \in counts}
    BY DEF Gains
  <2> HIDE DEF counts
  <2>3. PICK hit \in filter_lookup(line), x0 \in counts : gain = IF ~hit THEN 0 ELSE 1 + x0
    BY <2>2
  <2> QED
    BY <2>1, <2>3
<1>3. e[i] \in Rated
  BY <1>1
<1>4. e[i].score \in Int
  BY <1>3 DEF Rated
<1>5. x \in Int
  <2> DEFINE y == e[i].score + gain
  <2>1. y \in Int /\ MaxScore \in Int
    BY <1>2, <1>4, SandboxAssumption
  <2> HIDE DEF y
  <2>2. \E z \in {y, MaxScore} : \A u \in {y, MaxScore} : z <= u
    BY <2>1
  <2>3. Min({y, MaxScore}) \in {y, MaxScore}
    BY <2>2 DEF Min
  <2> QED
    BY <2>1, <2>3 DEF y
<1>6. Scored(line, gain) = [e EXCEPT ![i].score = x]
  BY <1>1, <1>3 DEF Scored
<1> HIDE DEF x, n
<1>7. /\ Scored(line, gain) \in Seq(Rated) /\ Len(Scored(line, gain)) = n
      /\ \A k \in 1..n : Scored(line, gain)[k].offset = e[k].offset
  BY <1>1, <1>5, <1>6, ScoredOffsets
<1>8. DOMAIN Scored(line, gain) = 1..n /\ DOMAIN e = 1..n
  BY <1>1, <1>7
<1>9. [k \in DOMAIN Scored(line, gain) |-> Scored(line, gain)[k].offset] = [k \in DOMAIN e |-> e[k].offset]
  BY <1>7, <1>8
<1> QED
  BY <1>1, <1>7, <1>9 DEF AllOffsets, n

\* One access keeps the invariant, within a phase, between phases and between rounds.
LEMMA AccessExact ==
  ASSUME SandboxInv, NEW line \in PageLine, SandboxAccess(line)
  PROVE  SandboxInv'
<1> DEFINE n == Len(FirstOffsets)
           all == AllOffsets(evaluated_offsets, non_evaluated_offsets)
<1>1. PICK gain \in Gains(line) : Step3(line, Scored(line, gain))
  BY DEF SandboxAccess
<1> DEFINE sc == Scored(line, gain)
<1>2. /\ sc \in Seq(Rated) /\ Len(sc) = n /\ n \in Nat \ {0}
      /\ \A k \in 1..n : sc[k].offset = evaluated_offsets[k].offset
      /\ AllOffsets(sc, non_evaluated_offsets) = all
  BY ScoredSame
<1>3. Step3(line, sc)
  BY <1>1
<1> HIDE DEF sc
<1>4. /\ evaluated_offsets \in Seq(Rated) /\ Len(evaluated_offsets) = n
      /\ non_evaluated_offsets \in Seq(Int) /\ curr_ptr \in 0..(n - 1)
      /\ IsInjective(all) /\ ToSet(all) = ToSet(FirstOffsets) \cup ToSet(LaterOffsets)
      /\ FilterOwn
  BY DEF SandboxInv, EvaluationExact, OffsetsKept, AllOffsets
<1>5. SUFFICES /\ evaluated_offsets' \in Seq(Rated) /\ Len(evaluated_offsets') = n
               /\ non_evaluated_offsets' \in Seq(Int) /\ curr_ptr' \in 0..(n - 1)
               /\ IsInjective(AllOffsets(evaluated_offsets', non_evaluated_offsets'))
               /\ ToSet(AllOffsets(evaluated_offsets', non_evaluated_offsets'))
                    = ToSet(FirstOffsets) \cup ToSet(LaterOffsets)
               /\ FilterOwn'
  BY DEF SandboxInv, EvaluationExact, OffsetsKept, AllOffsets, IsInjective, ToSet
<1> HIDE DEF n, all
<1>6. CASE total_demand + 1 < sandbox_num_access_in_phase
  <2>1. /\ evaluated_offsets' = sc /\ filter' = filter \cup Pseudo(line) /\ seen' = seen \cup {line}
        /\ UNCHANGED <<non_evaluated_offsets, curr_ptr>>
    BY <1>3, <1>6 DEF Step3
  <2> DEFINE o == evaluated_offsets[curr_ptr + 1].offset
  <2>2. evaluated_offsets'[curr_ptr' + 1].offset = o
    BY <1>2, <1>4, <2>1
  <2>3. filter = {l + o : l \in seen} \cap PageLine /\ filter' = filter \cup ({line + o} \cap PageLine)
    BY <1>4, <2>1 DEF FilterOwn, Pseudo
  <2> HIDE DEF o
  <2>4. filter' = {l + o : l \in seen \cup {line}} \cap PageLine
    BY <2>3
  <2>5. FilterOwn'
    BY <2>1, <2>2, <2>4 DEF FilterOwn, PageLine
  <2> QED
    BY <1>2, <1>4, <2>1, <2>5
<1>7. CASE ~(total_demand + 1 < sandbox_num_access_in_phase) /\ curr_ptr + 1 < Len(sc)
  <2>1. /\ evaluated_offsets' = sc /\ non_evaluated_offsets' = non_evaluated_offsets
        /\ curr_ptr' = curr_ptr + 1 /\ filter' = {} /\ seen' = {}
    BY <1>3, <1>7 DEF Step3, reset_eval
  <2>2. FilterOwn'
    BY <2>1 DEF FilterOwn
  <2>3. curr_ptr' \in 0..(n - 1)
    BY <1>2, <1>4, <1>7, <2>1
  <2> QED
    BY <1>2, <1>4, <2>1, <2>2, <2>3
<1>8. CASE ~(total_demand + 1 < sandbox_num_access_in_phase) /\ ~(curr_ptr + 1 < Len(sc))
  <2>1. end_of_round(sc) /\ curr_ptr' = 0 /\ filter' = {} /\ seen' = {}
    BY <1>3, <1>8 DEF Step3, reset_eval
  <2>2. FilterOwn'
    BY <2>1 DEF FilterOwn
  <2> DEFINE c == sandbox_num_cycle_offsets
             w == non_evaluated_offsets
  <2>3. PICK s \in Ranked(sc) :
          LET out == [k \in 1..c |-> s[Len(s) + 1 - k].offset]
              waiting == w \o out IN
          /\ evaluated_offsets' = SubSeq(s, 1, Len(sc) - c)
               \o [k \in 1..c |-> [offset |-> waiting[k], score |-> 0]]
          /\ non_evaluated_offsets' = SubSeq(waiting, c + 1, Len(waiting))
    BY <2>1 DEF end_of_round
  <2>4. s \in Seq(Rated) /\ Len(s) = n /\ Shuffled(s, sc, n)
    BY <1>2, RankedShuffles
  <2>5. c \in Nat /\ c <= n
    BY SandboxAssumption DEF n
  <2> DEFINE t == AllOffsets(evaluated_offsets', non_evaluated_offsets')
             N == n + Len(w)
  <2>6. /\ evaluated_offsets' \in Seq(Rated) /\ Len(evaluated_offsets') = n
        /\ non_evaluated_offsets' \in Seq(Int) /\ Len(non_evaluated_offsets') = Len(w)
        /\ Shuffled(t, AllOffsets(s, w), N)
    <3>1. Len(sc) = Len(s)
      BY <1>2, <2>4
    <3>2. c <= Len(s)
      BY <2>4, <2>5
    <3> QED
      <4> DEFINE out == [k \in 1..c |-> s[Len(s) + 1 - k].offset]
                 waiting == w \o out
                 e2 == SubSeq(s, 1, Len(s) - c) \o [k \in 1..c |-> [offset |-> waiting[k], score |-> 0]]
                 v2 == SubSeq(waiting, c + 1, Len(waiting))
      <4>1. evaluated_offsets' = e2 /\ non_evaluated_offsets' = v2
        BY <2>3, <3>1
      <4>2. /\ e2 \in Seq(Rated) /\ Len(e2) = Len(s) /\ v2 \in Seq(Int) /\ Len(v2) = Len(w)
            /\ Shuffled(AllOffsets(e2, v2), AllOffsets(s, w), Len(s) + Len(w))
        BY <1>4, <2>4, <2>5, <3>2, RoundShuffles
      <4> HIDE DEF e2, v2
      <4> QED
        BY <2>4, <4>1, <4>2
  <2>7. Shuffled(AllOffsets(s, w), all, N)
    <3>1. Len(s) = Len(sc) /\ Shuffled(s, sc, Len(sc)) /\ N = Len(sc) + Len(w)
      BY <1>2, <2>4
    <3>2. Shuffled(AllOffsets(s, w), AllOffsets(sc, w), Len(sc) + Len(w))
      BY <1>2, <1>4, <2>4, <3>1, SortShuffles
    <3> QED
      BY <1>2, <3>1, <3>2
  <2>8. Shuffled(t, all, N)
    BY <2>6, <2>7, ShuffledTwice
  <2>9. all \in Seq(Int) /\ Len(all) = N
    BY <1>4, OffsetAt DEF all
  <2>10. t \in Seq(Int) /\ Len(t) = N
    <3>1. t \in Seq(Int) /\ Len(t) = Len(evaluated_offsets') + Len(non_evaluated_offsets')
      BY <2>6, OffsetAt
    <3> QED
      BY <2>6, <3>1
  <2> HIDE DEF t, N
  <2>11. IsInjective(t) /\ ToSet(t) = ToSet(all)
    BY <1>4, <2>8, <2>9, <2>10, ShuffleKeeps
  <2>12. curr_ptr' \in 0..(n - 1)
    BY <1>2, <2>1
  <2> QED
    BY <1>4, <2>2, <2>6, <2>11, <2>12 DEF t
<1> QED
  BY <1>6, <1>7, <1>8

(***************************************************************************)
(* For any offsets, any phases and any scores, and whichever way std::sort *)
(* leaves equal scores, rounds of evaluation lose no offset and double     *)
(* none, and the filter holds the prefetches of the offset under test      *)
(* alone.                                                                  *)
(***************************************************************************)
THEOREM OffsetsSound == SandboxSpec => []EvaluationExact
<1>1. SandboxInit => SandboxInv
  <2> SUFFICES ASSUME SandboxInit PROVE SandboxInv
    OBVIOUS
  <2> DEFINE n == Len(FirstOffsets)
             e == [k \in 1..n |-> [offset |-> FirstOffsets[k], score |-> 0]]
  <2>1. /\ evaluated_offsets = e /\ non_evaluated_offsets = LaterOffsets
        /\ curr_ptr = 0 /\ filter = {} /\ seen = {}
    BY DEF SandboxInit
  <2>2. n \in Nat \ {0} /\ FirstOffsets \in Seq(Int) /\ LaterOffsets \in Seq(Int)
        /\ DOMAIN FirstOffsets = 1..n /\ \A k \in 1..n : FirstOffsets[k] \in Int
    BY SandboxAssumption
  <2>3. \A x \in Int : [offset |-> x, score |-> 0] \in Rated /\ [offset |-> x, score |-> 0].offset = x
    BY DEF Rated
  <2> HIDE DEF n
  <2>4. e \in [1..n -> Rated] /\ \A k \in 1..n : e[k].offset = FirstOffsets[k]
    BY <2>2, <2>3
  <2> HIDE DEF e
  <2>5. e \in Seq(Rated) /\ Len(e) = n /\ DOMAIN e = 1..n
    BY <2>2, <2>4
  <2>6. [k \in DOMAIN e |-> e[k].offset] = FirstOffsets
    BY <2>2, <2>4, <2>5
  <2>7. AllOffsets(evaluated_offsets, non_evaluated_offsets) = FirstOffsets \o LaterOffsets
    BY <2>1, <2>6 DEF AllOffsets
  <2>8. IsInjective(FirstOffsets \o LaterOffsets)
    BY SandboxAssumption
  <2>9. ToSet(FirstOffsets \o LaterOffsets) = ToSet(FirstOffsets) \cup ToSet(LaterOffsets)
    <3> DEFINE m == Len(LaterOffsets)
               u == FirstOffsets \o LaterOffsets
    <3>1. /\ DOMAIN u = 1..(n + m) /\ m \in Nat /\ DOMAIN LaterOffsets = 1..m
          /\ \A i \in 1..n : u[i] = FirstOffsets[i]
          /\ \A i \in 1..m : u[n + i] = LaterOffsets[i]
      BY <2>2 DEF n
    <3> HIDE DEF m, u
    <3>2. \A i \in 1..(n + m) : i \in 1..n \/ (i - n \in 1..m /\ n + (i - n) = i)
      BY <2>2, <3>1
    <3>3. \A i \in 1..m : n + i \in 1..(n + m)
      BY <2>2, <3>1
    <3>4. \A i \in 1..n : i \in 1..(n + m)
      BY <2>2, <3>1
    <3>5. ASSUME NEW i \in 1..(n + m) PROVE u[i] \in ToSet(FirstOffsets) \cup ToSet(LaterOffsets)
      <4>1. CASE i \in 1..n
        BY <2>2, <3>1, <4>1 DEF ToSet
      <4>2. CASE i - n \in 1..m /\ n + (i - n) = i
        <5>1. u[i] = LaterOffsets[i - n]
          BY <3>1, <4>2
        <5> QED
          BY <3>1, <4>2, <5>1 DEF ToSet
      <4> QED
        BY <3>2, <4>1, <4>2
    <3>6. \A i \in 1..n : FirstOffsets[i] \in ToSet(u)
      BY <3>1, <3>4 DEF ToSet
    <3>7. \A i \in 1..m : LaterOffsets[i] \in ToSet(u)
      BY <3>1, <3>3 DEF ToSet
    <3>8. ToSet(u) = ToSet(FirstOffsets) \cup ToSet(LaterOffsets)
      <4>1. ToSet(u) \subseteq ToSet(FirstOffsets) \cup ToSet(LaterOffsets)
        <5> SUFFICES ASSUME NEW y \in ToSet(u) PROVE y \in ToSet(FirstOffsets) \cup ToSet(LaterOffsets)
          OBVIOUS
        <5>1. PICK i \in 1..(n + m) : y = u[i]
          BY <3>1 DEF ToSet
        <5> QED
          BY <3>5, <5>1
      <4>2. ToSet(FirstOffsets) \subseteq ToSet(u) /\ ToSet(LaterOffsets) \subseteq ToSet(u)
        <5>1. \A y \in ToSet(FirstOffsets) : \E i \in 1..n : y = FirstOffsets[i]
          BY <2>2 DEF ToSet
        <5>2. \A y \in ToSet(LaterOffsets) : \E i \in 1..m : y = LaterOffsets[i]
          BY <3>1 DEF ToSet
        <5> QED
          BY <3>6, <3>7, <5>1, <5>2
      <4> QED
        BY <4>1, <4>2
    <3> QED
      BY <3>8 DEF u
  <2>10. OffsetsKept
    BY <2>1, <2>5, <2>7, <2>8, <2>9 DEF OffsetsKept, AllOffsets, n
  <2>11. FilterOwn
    BY <2>1 DEF FilterOwn
  <2> QED
    BY <2>1, <2>2, <2>5, <2>10, <2>11 DEF SandboxInv, EvaluationExact, n
<1>2. SandboxInv /\ [SandboxNext]_sandboxVars => SandboxInv'
  <2> SUFFICES ASSUME SandboxInv, [SandboxNext]_sandboxVars PROVE SandboxInv'
    OBVIOUS
  <2>1. CASE SandboxNext
    BY <2>1, AccessExact DEF SandboxNext
  <2>2. CASE UNCHANGED sandboxVars
    BY <2>2 DEF sandboxVars, eval, SandboxInv, EvaluationExact, OffsetsKept, FilterOwn
  <2> QED
    BY <2>1, <2>2
<1>3. SandboxInv => EvaluationExact
  BY DEF SandboxInv
<1> QED
  BY <1>1, <1>2, <1>3, PTL DEF SandboxSpec

=============================================================================
