----------------------------- MODULE DramProofs -----------------------------
(***************************************************************************)
(* Proofs about the memory controller, for every geometry, every set of    *)
(* lines and every size of the two queues: its inductive invariant, and    *)
(* that it implements the memory that the cache hierarchy is built on.     *)
(***************************************************************************)
EXTENDS DramController, FiniteSetTheorems, WellFoundedInduction, TLAPS

-----------------------------------------------------------------------------
(***************************************************************************)
(* Geometry and slots.                                                     *)
(***************************************************************************)

\* The product of positive numbers is positive.
LEMMA NatProduct ==
  ASSUME NEW x \in Nat \ {0}, NEW y \in Nat \ {0}
  PROVE  x * y \in Nat \ {0}
  OBVIOUS

\* A field of an address is below its number of values.
LEMMA Remainder ==
  ASSUME NEW a \in Nat, NEW d \in Nat \ {0}, NEW m \in Nat \ {0}
  PROVE  (a \div d) % m \in 0..(m - 1)
  OBVIOUS

\* Every address has a bank and a row of the channel.
LEMMA Geometry ==
  ASSUME NEW a \in Line \cup {0}
  PROVE  BankOf(a) \in Bank /\ dram_get_row(a) \in 0..DRAM_ROWS
<1> USE DramAssumption
<1> DEFINE d1 == DRAM_CHANNELS * DRAM_BANKS
           d2 == d1 * DRAM_COLUMNS
           d3 == d2 * DRAM_RANKS
<1>1. d1 \in Nat \ {0}
  BY NatProduct
<1>2. d2 \in Nat \ {0}
  <2> HIDE DEF d1
  <2> QED BY <1>1, NatProduct
<1>3. d3 \in Nat \ {0}
  <2> HIDE DEF d2
  <2> QED BY <1>2, NatProduct
<1>4. a \in Nat
  OBVIOUS
<1>5. (a \div DRAM_CHANNELS) % DRAM_BANKS \in 0..(DRAM_BANKS - 1)
  BY <1>4, Remainder
<1>6. (a \div d2) % DRAM_RANKS \in 0..(DRAM_RANKS - 1)
  <2> HIDE DEF d2
  <2> QED BY <1>2, <1>4, Remainder
<1>7. (a \div d3) % DRAM_ROWS \in 0..(DRAM_ROWS - 1)
  <2> HIDE DEF d3
  <2> QED BY <1>3, <1>4, Remainder
<1>8. dram_get_row(a) \in 0..(DRAM_ROWS - 1)
  BY <1>7 DEF dram_get_row
<1>9. dram_get_rank(a) \in 0..(DRAM_RANKS - 1) /\ dram_get_bank(a) \in 0..(DRAM_BANKS - 1)
  BY <1>5, <1>6 DEF dram_get_rank, dram_get_bank
<1> QED
  BY <1>8, <1>9 DEF BankOf, Bank

\* The slots of a queue, and the number of them in a set.
LEMMA Slots ==
  ASSUME NEW q \in Queue, NEW S \in SUBSET Slot(q)
  PROVE  /\ SIZE(q) \in Nat \ {0} /\ SIZE(q) \in Index
         /\ Slot(q) \subseteq Index \ {SIZE(q)} /\ SIZE(q) \notin Slot(q)
         /\ IsFiniteSet(S) /\ Cardinality(S) \in Nat
         /\ Cardinality(S) <= SIZE(q)
         /\ Cardinality(S) < SIZE(q) <=> S # Slot(q)
<1>1. SIZE(q) \in Nat \ {0} /\ SIZE(q) \in Index
  BY DramAssumption DEF SIZE, Index
<1>2. Slot(q) \subseteq Index \ {SIZE(q)} /\ SIZE(q) \notin Slot(q)
  BY <1>1, DramAssumption DEF Slot, Index
<1>3. IsFiniteSet(Slot(q)) /\ Cardinality(Slot(q)) = SIZE(q)
  BY <1>1, FS_Interval DEF Slot
<1>4. /\ IsFiniteSet(S) /\ Cardinality(S) <= Cardinality(Slot(q))
      /\ Cardinality(Slot(q)) = Cardinality(S) => Slot(q) = S
  BY <1>3, FS_Subset
<1>5. Cardinality(S) \in Nat
  BY <1>4, FS_CardinalityType
<1> QED
  BY <1>1, <1>2, <1>3, <1>4, <1>5

\* A slot is an index that is not the one past the end.
LEMMA SlotIndex ==
  ASSUME NEW q \in Queue, NEW i \in Slot(q)
  PROVE  i \in Index /\ i \in Int /\ i \in Nat /\ i < SIZE(q) /\ i # SIZE(q)
<1>1. SIZE(q) \in Nat /\ SIZE(q) \in Index
  BY Slots
<1> QED
  BY <1>1, DramAssumption DEF Slot, Index

\* A queue with an empty slot has a first one.
LEMMA FirstFreeLemma ==
  ASSUME NEW q \in Queue, NEW j \in Slot(q), entry[q][j] = 0
  PROVE  FirstFree(q) \in Slot(q) /\ entry[q][FirstFree(q)] = 0
<1> DEFINE T == {i \in Slot(q) : entry[q][i] = 0}
           R == OpToRel(<, Nat)
<1>1. T \subseteq Nat /\ T # {}
  BY Slots DEF Slot, Index
<1>2. IsWellFoundedOn(R, Nat)
  BY NatLessThanWellFounded
<1>3. \A x, y \in Nat : y < x => <<y, x>> \in R
  BY DEF OpToRel
<1> HIDE DEF R, T
<1>4. PICK x \in T : \A y \in T : ~ (<<y, x>> \in R)
  BY <1>1, <1>2, WFMin
<1>5. ASSUME NEW y \in T PROVE x <= y
  <2>1. x \in Nat /\ y \in Nat
    BY <1>1, <1>4
  <2>2. (y < x) => (<<y, x>> \in R)
    BY <1>3, <2>1
  <2>3. ~ (y < x)
    BY <1>4, <2>2
  <2> QED
    BY <2>1, <2>3
<1>6. x \in Slot(q) /\ entry[q][x] = 0 /\ \A i \in Slot(q) : entry[q][i] = 0 => x <= i
  BY <1>4, <1>5 DEF T
<1> QED
  BY <1>6 DEF FirstFree

-----------------------------------------------------------------------------
(***************************************************************************)
(* The inductive invariant.  Shape is TypeOK without the bounds of the two *)
(* counters, which follow from CountersExact.                              *)
(***************************************************************************)

Shape ==
  /\ entry \in [Queue -> UNION {[Slot(q) -> Line \cup {0}] : q \in Queue}]
  /\ scheduled \in [Queue -> SUBSET Index]
  /\ \A q \in Queue : /\ entry[q] \in [Slot(q) -> Line \cup {0}]
                      /\ scheduled[q] \subseteq Slot(q)
  /\ occupancy \in [Queue -> Int]
  /\ scheduled_count \in [Queue -> Int]
  /\ next_schedule \in [Queue -> Index]
  /\ next_process \in [Queue -> Index]
  /\ working \in [Bank -> BOOLEAN]
  /\ request_index \in [Bank -> Int]
  /\ is_write \in [Bank -> BOOLEAN]
  /\ is_read \in [Bank -> BOOLEAN]
  /\ open_row \in [Bank -> 0..DRAM_ROWS]
  /\ write_mode \in BOOLEAN
  /\ waiting \subseteq Line
  /\ warm \in BOOLEAN

Inv == Shape /\ BankOwned /\ CountersExact /\ IndicesFresh /\ ReadsKept

Filled(q) == {i \in Slot(q) : entry[q][i] # 0}

\* The shape of the state and exact counters give the type invariant.
LEMMA ShapeTyped ==
  ASSUME Shape, CountersExact
  PROVE  TypeOK
<1>1. ASSUME NEW q \in Queue
      PROVE  /\ occupancy[q] \in Index /\ occupancy[q] <= SIZE(q)
             /\ scheduled_count[q] \in Index /\ scheduled_count[q] <= SIZE(q)
  <2>1. Filled(q) \in SUBSET Slot(q) /\ scheduled[q] \in SUBSET Slot(q)
    BY DEF Shape, Filled
  <2>2. /\ Cardinality(Filled(q)) \in Nat /\ Cardinality(Filled(q)) <= SIZE(q)
        /\ Cardinality(scheduled[q]) \in Nat /\ Cardinality(scheduled[q]) <= SIZE(q)
        /\ SIZE(q) \in Index
    BY <2>1, Slots
  <2>3. occupancy[q] = Cardinality(Filled(q)) /\ scheduled_count[q] = Cardinality(scheduled[q])
    BY DEF CountersExact, Filled
  <2> QED
    BY <2>2, <2>3, DramAssumption DEF Index
<1> QED
  BY <1>1 DEF Shape, TypeOK

\* The idle controller satisfies the invariant.
LEMMA InitInv == Init => Inv
<1> SUFFICES ASSUME Init PROVE Inv
  OBVIOUS
<1>1. \A q \in Queue : SIZE(q) \in Index
  BY Slots
<1>2. Shape
  <2>1. \A q \in Queue : entry[q] \in [Slot(q) -> Line \cup {0}] /\ scheduled[q] = {}
    BY DEF Init
  <2>2. entry \in [Queue -> UNION {[Slot(q) -> Line \cup {0}] : q \in Queue}]
    BY <2>1 DEF Init
  <2>3. /\ next_schedule \in [Queue -> Index] /\ next_process \in [Queue -> Index]
        /\ scheduled \in [Queue -> SUBSET Index] /\ occupancy \in [Queue -> Int]
        /\ scheduled_count \in [Queue -> Int]
    BY <1>1 DEF Init
  <2>4. /\ working \in [Bank -> BOOLEAN] /\ request_index \in [Bank -> Int]
        /\ is_write \in [Bank -> BOOLEAN] /\ is_read \in [Bank -> BOOLEAN]
        /\ open_row \in [Bank -> 0..DRAM_ROWS]
    BY DramAssumption DEF Init, NoRow
  <2> QED
    BY <2>1, <2>2, <2>3, <2>4 DEF Init, Shape
<1>3. BankOwned
  BY DEF Init, BankOwned, Queue
<1>4. CountersExact
  <2> SUFFICES ASSUME NEW q \in Queue
               PROVE  /\ scheduled_count[q] = Cardinality(scheduled[q])
                      /\ occupancy[q] = Cardinality({i \in Slot(q) : entry[q][i] # 0})
    BY DEF CountersExact
  <2>1. scheduled[q] = {} /\ {i \in Slot(q) : entry[q][i] # 0} = {}
    BY DEF Init
  <2> QED
    BY <2>1, FS_EmptySet DEF Init
<1>5. IndicesFresh
  BY DEF Init, IndicesFresh, Earliest, Unscheduled
<1>6. ReadsKept
  BY DEF Init, ReadsKept, Lines, Queue
<1> QED
  BY <1>2, <1>3, <1>4, <1>5, <1>6 DEF Inv

\* An address of a slot has a bank.
LEMMA SlotBank ==
  ASSUME Shape, NEW q \in Queue, NEW i \in Slot(q)
  PROVE  /\ entry[q][i] \in Line \cup {0} /\ BankOf(entry[q][i]) \in Bank
         /\ dram_get_row(entry[q][i]) \in 0..DRAM_ROWS
<1>1. entry[q][i] \in Line \cup {0}
  BY DEF Shape
<1> QED
  BY <1>1, Geometry

\* What update_schedule_cycle and update_process_cycle leave.
LEMMA UpdatedSchedule ==
  ASSUME NEW Q \in SUBSET Queue, update_schedule_cycle(Q)
  PROVE  /\ next_schedule' \in [Queue -> Index]
         /\ \A q \in Q : next_schedule'[q] \in
                          Earliest(q, Unscheduled(q, entry'[q], scheduled'[q]))
         /\ \A q \in Queue \ Q : next_schedule'[q] = next_schedule[q]
BY DEF update_schedule_cycle

\* The index of the next entry to process after update_process_cycle.
LEMMA UpdatedProcess ==
  ASSUME NEW Q \in SUBSET Queue, update_process_cycle(Q)
  PROVE  /\ next_process' \in [Queue -> Index]
         /\ \A q \in Q : next_process'[q] \in Earliest(q, scheduled'[q])
         /\ \A q \in Queue \ Q : next_process'[q] = next_process[q]
BY DEF update_process_cycle

-----------------------------------------------------------------------------
(***************************************************************************)
(* schedule                                                                *)
(***************************************************************************)

\* schedule keeps the invariant.
LEMMA ScheduleInv ==
  ASSUME Inv, NEW q \in Queue, schedule(q)
  PROVE  Inv'
<1> USE DEF Inv
<1>1. PICK i \in Candidates(q) :
        LET a == entry[q][i]
            b == BankOf(a) IN
        /\ working' = [working EXCEPT ![b] = TRUE]
        /\ request_index' = [request_index EXCEPT ![b] = i]
        /\ is_write' = [is_write EXCEPT ![b] = (q = "WQ")]
        /\ is_read' = [is_read EXCEPT ![b] = (q = "RQ")]
        /\ open_row' = [open_row EXCEPT ![b] = dram_get_row(a)]
        /\ scheduled_count' = [scheduled_count EXCEPT ![q] = @ + 1]
        /\ scheduled' = [scheduled EXCEPT ![q] = @ \cup {i}]
  BY DEF schedule
<1> DEFINE a == entry[q][i]
           b == BankOf(a)
<1>2. /\ i \in Slot(q) /\ i \notin scheduled[q] /\ a # 0 /\ ~working[b]
  BY <1>1 DEF Candidates, RowHits, FreeBankEntries, Unscheduled
<1>3. a \in Line \cup {0} /\ b \in Bank /\ dram_get_row(a) \in 0..DRAM_ROWS /\ i \in Int /\ i \in Index
  BY <1>2, SlotBank, SlotIndex
<1>4. /\ UNCHANGED <<entry, occupancy, write_mode, waiting, warm>>
      /\ write_mode = (q = "WQ")
      /\ update_schedule_cycle({q}) /\ update_process_cycle({q})
  BY DEF schedule, Serves
<1>5. /\ next_schedule' \in [Queue -> Index] /\ next_process' \in [Queue -> Index]
      /\ next_schedule'[q] \in Earliest(q, Unscheduled(q, entry'[q], scheduled'[q]))
      /\ next_process'[q] \in Earliest(q, scheduled'[q])
      /\ \A p \in Queue \ {q} : /\ next_schedule'[p] = next_schedule[p]
                                /\ next_process'[p] = next_process[p]
  <2>1. {q} \in SUBSET Queue
    OBVIOUS
  <2>2. /\ next_schedule' \in [Queue -> Index]
        /\ \A p \in {q} : next_schedule'[p] \in
                            Earliest(p, Unscheduled(p, entry'[p], scheduled'[p]))
        /\ \A p \in Queue \ {q} : next_schedule'[p] = next_schedule[p]
    BY <1>4, <2>1, UpdatedSchedule
  <2>3. /\ next_process' \in [Queue -> Index]
        /\ \A p \in {q} : next_process'[p] \in Earliest(p, scheduled'[p])
        /\ \A p \in Queue \ {q} : next_process'[p] = next_process[p]
    BY <1>4, <2>1, UpdatedProcess
  <2> QED
    BY <2>2, <2>3
<1>6. \A p \in Queue : scheduled'[p] = IF p = q THEN scheduled[q] \cup {i} ELSE scheduled[p]
  BY <1>1 DEF Shape
<1>7. Shape'
  <2>1. scheduled' \in [Queue -> SUBSET Index] /\ \A p \in Queue : scheduled'[p] \subseteq Slot(p)
    BY <1>1, <1>2, <1>3, <1>6 DEF Shape
  <2>2. scheduled_count' \in [Queue -> Int]
    BY <1>1 DEF Shape
  <2>3. /\ working' \in [Bank -> BOOLEAN] /\ request_index' \in [Bank -> Int]
        /\ is_write' \in [Bank -> BOOLEAN] /\ is_read' \in [Bank -> BOOLEAN]
        /\ open_row' \in [Bank -> 0..DRAM_ROWS]
    BY <1>1, <1>3 DEF Shape
  <2> QED
    BY <1>4, <1>5, <2>1, <2>2, <2>3 DEF Shape
<1>8. BankOwned'
  <2>1. ASSUME NEW p \in Queue, NEW j \in scheduled'[p]
        PROVE  /\ write_mode' = (p = "WQ")
               /\ entry'[p][j] # 0
               /\ request_index'[BankOf(entry'[p][j])] = j
               /\ working'[BankOf(entry'[p][j])]
    <3>1. CASE p = q /\ j = i
      BY <1>1, <1>2, <1>3, <1>4, <3>1 DEF Shape
    <3>2. CASE j \in scheduled[p]
      <4>1. /\ write_mode = (p = "WQ") /\ entry[p][j] # 0
            /\ request_index[BankOf(entry[p][j])] = j /\ working[BankOf(entry[p][j])]
        BY <3>2 DEF BankOwned
      <4>2. BankOf(entry[p][j]) \in Bank /\ BankOf(entry[p][j]) # b
        BY <1>2, <3>2, <4>1, SlotBank DEF Shape
      <4> QED
        BY <1>1, <1>3, <1>4, <4>1, <4>2 DEF Shape
    <3> QED
      BY <1>6, <2>1, <3>1, <3>2
  <2>2. ASSUME NEW c \in Bank
        PROVE  LET r == IF write_mode' THEN "WQ" ELSE "RQ" IN
               /\ is_write'[c] = (working'[c] /\ write_mode')
               /\ is_read'[c] = (working'[c] /\ ~write_mode')
               /\ working'[c] => /\ request_index'[c] \in scheduled'[r]
                                 /\ BankOf(entry'[r][request_index'[c]]) = c
    <3>1. q = (IF write_mode' THEN "WQ" ELSE "RQ") /\ write_mode' = write_mode
      BY <1>4 DEF Queue
    <3>2. CASE c = b
      BY <1>1, <1>3, <1>4, <1>6, <3>1, <3>2 DEF Shape, Queue
    <3>3. CASE c # b
      <4>1. /\ is_write[c] = (working[c] /\ write_mode)
            /\ is_read[c] = (working[c] /\ ~write_mode)
            /\ working[c] => /\ request_index[c] \in scheduled[q]
                             /\ BankOf(entry[q][request_index[c]]) = c
        BY <1>4, <3>1 DEF BankOwned
      <4>2. /\ is_write'[c] = is_write[c] /\ is_read'[c] = is_read[c]
            /\ working'[c] = working[c] /\ request_index'[c] = request_index[c]
        BY <1>1, <3>3 DEF Shape
      <4> QED
        BY <1>4, <1>6, <3>1, <4>1, <4>2
    <3> QED
      BY <3>2, <3>3
  <2> QED
    BY <2>1, <2>2 DEF BankOwned
<1>9. CountersExact'
  <2> SUFFICES ASSUME NEW p \in Queue
               PROVE  /\ scheduled_count'[p] = Cardinality(scheduled'[p])
                      /\ occupancy'[p] = Cardinality({j \in Slot(p) : entry'[p][j] # 0})
    BY DEF CountersExact
  <2>1. IsFiniteSet(scheduled[q]) /\ Cardinality(scheduled[q]) \in Nat
    BY Slots DEF Shape
  <2>2. Cardinality(scheduled[q] \cup {i}) = Cardinality(scheduled[q]) + 1
    BY <1>2, <2>1, FS_AddElement
  <2>3. scheduled_count'[p] = IF p = q THEN scheduled_count[q] + 1 ELSE scheduled_count[p]
    BY <1>1 DEF Shape
  <2> QED
    BY <1>4, <1>6, <2>2, <2>3 DEF CountersExact
<1>10. IndicesFresh'
  BY <1>4, <1>5, <1>6 DEF IndicesFresh
<1>11. ReadsKept'
  BY <1>4 DEF ReadsKept, Lines
<1> QED
  BY <1>7, <1>8, <1>9, <1>10, <1>11

-----------------------------------------------------------------------------
(***************************************************************************)
(* process                                                                 *)
(***************************************************************************)

\* What one slot of a queue changing means for both queues.
LEMMA EntryUpdate ==
  ASSUME Shape, NEW q \in Queue, NEW i \in Slot(q), NEW v \in Line \cup {0},
         entry' = [entry EXCEPT ![q] = [@ EXCEPT ![i] = v]]
  PROVE  /\ entry' \in [Queue -> UNION {[Slot(p) -> Line \cup {0}] : p \in Queue}]
         /\ \A p \in Queue : entry'[p] \in [Slot(p) -> Line \cup {0}]
         /\ \A p \in Queue \ {q} : entry'[p] = entry[p]
         /\ \A j \in Slot(q) : entry'[q][j] = IF j = i THEN v ELSE entry[q][j]
<1>1. /\ entry'[q] = [entry[q] EXCEPT ![i] = v] /\ entry[q] \in [Slot(q) -> Line \cup {0}]
      /\ \A p \in Queue \ {q} : entry'[p] = entry[p]
  BY DEF Shape
<1>2. entry'[q] \in [Slot(q) -> Line \cup {0}] /\
      \A j \in Slot(q) : entry'[q][j] = IF j = i THEN v ELSE entry[q][j]
  BY <1>1
<1>3. \A p \in Queue : entry'[p] \in [Slot(p) -> Line \cup {0}]
  BY <1>1, <1>2 DEF Shape
<1>4. entry' = [p \in Queue |-> entry'[p]]
  BY DEF Shape
<1>5. entry' \in [Queue -> UNION {[Slot(p) -> Line \cup {0}] : p \in Queue}]
  BY <1>3, <1>4
<1> QED
  BY <1>1, <1>2, <1>3, <1>5

\* process keeps the invariant.
LEMMA ProcessInv ==
  ASSUME Inv, NEW q \in Queue, process(q)
  PROVE  Inv'
<1> USE DEF Inv
<1> DEFINE i == next_process[q]
           a == entry[q][i]
           b == BankOf(a)
<1>1. /\ write_mode = (q = "WQ") /\ i < SIZE(q)
      /\ waiting' = Returned(q, a)
      /\ working' = [working EXCEPT ![b] = FALSE]
      /\ request_index' = [request_index EXCEPT ![b] = -1]
      /\ is_write' = [is_write EXCEPT ![b] = FALSE]
      /\ is_read' = [is_read EXCEPT ![b] = FALSE]
      /\ scheduled_count' = [scheduled_count EXCEPT ![q] = @ - 1]
      /\ entry' = [entry EXCEPT ![q] = [@ EXCEPT ![i] = 0]]
      /\ scheduled' = [scheduled EXCEPT ![q] = @ \ {i}]
      /\ occupancy' = [occupancy EXCEPT ![q] = @ - 1]
      /\ update_process_cycle({q})
      /\ UNCHANGED <<next_schedule, open_row, write_mode, warm>>
  BY DEF process, Serves, remove_queue
<1>2. i \in scheduled[q] /\ i \in Slot(q)
  <2>1. i \in Earliest(q, scheduled[q]) /\ i # SIZE(q)
    <3>1. SIZE(q) \in Nat
      BY Slots
    <3> QED BY <1>1, <3>1 DEF IndicesFresh
  <2> QED
    BY <2>1 DEF Earliest, Shape
<1>3. a \in Line /\ a # 0 /\ request_index[b] = i /\ working[b] /\ b \in Bank
  <2>1. a # 0 /\ request_index[b] = i /\ working[b]
    BY <1>2 DEF BankOwned
  <2> QED
    BY <1>2, <2>1, SlotBank
<1>4. /\ entry' \in [Queue -> UNION {[Slot(p) -> Line \cup {0}] : p \in Queue}]
      /\ \A p \in Queue : entry'[p] \in [Slot(p) -> Line \cup {0}]
      /\ \A p \in Queue \ {q} : entry'[p] = entry[p]
      /\ \A j \in Slot(q) : entry'[q][j] = IF j = i THEN 0 ELSE entry[q][j]
  BY <1>1, <1>2, EntryUpdate
<1>5. \A p \in Queue : scheduled'[p] = IF p = q THEN scheduled[q] \ {i} ELSE scheduled[p]
  BY <1>1 DEF Shape
<1>6. /\ next_process' \in [Queue -> Index]
      /\ next_process'[q] \in Earliest(q, scheduled'[q])
      /\ \A p \in Queue \ {q} : next_process'[p] = next_process[p]
  <2>1. {q} \in SUBSET Queue /\ update_process_cycle({q})
    BY <1>1
  <2>2. /\ next_process' \in [Queue -> Index]
        /\ \A p \in {q} : next_process'[p] \in Earliest(p, scheduled'[p])
        /\ \A p \in Queue \ {q} : next_process'[p] = next_process[p]
    BY <2>1, UpdatedProcess
  <2> QED
    BY <2>2
<1>7. Shape'
  <2>1. scheduled' \in [Queue -> SUBSET Index] /\ \A p \in Queue : scheduled'[p] \subseteq Slot(p)
    BY <1>1, <1>5 DEF Shape
  <2>2. scheduled_count' \in [Queue -> Int] /\ occupancy' \in [Queue -> Int]
    BY <1>1 DEF Shape
  <2>3. /\ working' \in [Bank -> BOOLEAN] /\ request_index' \in [Bank -> Int]
        /\ is_write' \in [Bank -> BOOLEAN] /\ is_read' \in [Bank -> BOOLEAN]
    BY <1>1, <1>3 DEF Shape
  <2>4. waiting' \subseteq Line
    BY <1>1 DEF Returned, Shape
  <2> QED
    BY <1>1, <1>4, <1>6, <2>1, <2>2, <2>3, <2>4 DEF Shape
<1>8. BankOwned'
  <2>1. ASSUME NEW p \in Queue, NEW j \in scheduled'[p]
        PROVE  /\ write_mode' = (p = "WQ")
               /\ entry'[p][j] # 0
               /\ request_index'[BankOf(entry'[p][j])] = j
               /\ working'[BankOf(entry'[p][j])]
    <3>1. j \in scheduled[p] /\ (p = q => j # i)
      BY <1>5, <2>1
    <3>2. /\ write_mode = (p = "WQ") /\ entry[p][j] # 0 /\ j \in Slot(p)
          /\ request_index[BankOf(entry[p][j])] = j /\ working[BankOf(entry[p][j])]
      BY <3>1 DEF BankOwned, Shape
    <3>3. p = q
      BY <1>1, <3>2 DEF Queue
    <3>4. BankOf(entry[p][j]) \in Bank /\ BankOf(entry[p][j]) # b
      BY <1>3, <3>1, <3>2, <3>3, SlotBank
    <3>5. entry'[p][j] = entry[p][j]
      BY <1>4, <3>1, <3>2, <3>3
    <3> QED
      BY <1>1, <3>2, <3>4, <3>5 DEF Shape
  <2>2. ASSUME NEW c \in Bank
        PROVE  LET r == IF write_mode' THEN "WQ" ELSE "RQ" IN
               /\ is_write'[c] = (working'[c] /\ write_mode')
               /\ is_read'[c] = (working'[c] /\ ~write_mode')
               /\ working'[c] => /\ request_index'[c] \in scheduled'[r]
                                 /\ BankOf(entry'[r][request_index'[c]]) = c
    <3>1. q = (IF write_mode' THEN "WQ" ELSE "RQ") /\ write_mode' = write_mode
      BY <1>1 DEF Queue
    <3>2. CASE c = b
      BY <1>1, <1>3, <3>1, <3>2 DEF Shape
    <3>3. CASE c # b
      <4>1. /\ is_write[c] = (working[c] /\ write_mode)
            /\ is_read[c] = (working[c] /\ ~write_mode)
            /\ working[c] => /\ request_index[c] \in scheduled[q]
                             /\ BankOf(entry[q][request_index[c]]) = c
        BY <1>1, <3>1 DEF BankOwned
      <4>2. /\ is_write'[c] = is_write[c] /\ is_read'[c] = is_read[c]
            /\ working'[c] = working[c] /\ request_index'[c] = request_index[c]
        BY <1>1, <3>3 DEF Shape
      <4>3. ASSUME working[c]
            PROVE  /\ request_index[c] \in scheduled'[q]
                   /\ BankOf(entry'[q][request_index[c]]) = c
        <5>1. request_index[c] # i
          BY <3>3, <4>1, <4>3
        <5>2. request_index[c] \in Slot(q)
          BY <4>1, <4>3 DEF Shape
        <5>3. entry'[q][request_index[c]] = entry[q][request_index[c]]
          BY <1>4, <5>1, <5>2
        <5> QED
          BY <1>5, <4>1, <4>3, <5>1, <5>3
      <4> QED
        BY <3>1, <4>1, <4>2, <4>3
    <3> QED
      BY <3>2, <3>3
  <2> QED
    BY <2>1, <2>2 DEF BankOwned
<1>9. CountersExact'
  <2> SUFFICES ASSUME NEW p \in Queue
               PROVE  /\ scheduled_count'[p] = Cardinality(scheduled'[p])
                      /\ occupancy'[p] = Cardinality({j \in Slot(p) : entry'[p][j] # 0})
    BY DEF CountersExact
  <2>1. /\ IsFiniteSet(scheduled[q]) /\ Cardinality(scheduled[q]) \in Nat
        /\ IsFiniteSet(Filled(q)) /\ Cardinality(Filled(q)) \in Nat
    BY Slots DEF Shape, Filled
  <2>2. /\ Cardinality(scheduled[q] \ {i}) = Cardinality(scheduled[q]) - 1
        /\ Cardinality(Filled(q) \ {i}) = Cardinality(Filled(q)) - 1
    <3>1. i \in Filled(q)
      BY <1>2, <1>3 DEF Filled
    <3> HIDE DEF i
    <3> QED
      BY <1>2, <2>1, <3>1, FS_RemoveElement
  <2>3. CASE p = q
    <3>1. {j \in Slot(q) : entry'[q][j] # 0} = Filled(q) \ {i}
      BY <1>4 DEF Filled
    <3>2. scheduled_count'[q] = scheduled_count[q] - 1 /\ occupancy'[q] = occupancy[q] - 1
      BY <1>1 DEF Shape
    <3>3. scheduled_count[q] = Cardinality(scheduled[q]) /\ occupancy[q] = Cardinality(Filled(q))
      BY DEF CountersExact, Filled
    <3> QED
      BY <1>5, <2>2, <2>3, <3>1, <3>2, <3>3
  <2>4. CASE p # q
    <3>1. /\ scheduled_count'[p] = scheduled_count[p] /\ occupancy'[p] = occupancy[p]
          /\ scheduled'[p] = scheduled[p] /\ entry'[p] = entry[p]
      BY <1>1, <1>4, <1>5, <2>4 DEF Shape
    <3> QED
      BY <3>1 DEF CountersExact
  <2> QED
    BY <2>3, <2>4
<1>10. IndicesFresh'
  <2>1. Unscheduled(q, entry'[q], scheduled'[q]) = Unscheduled(q, entry[q], scheduled[q])
    <3>1. ASSUME NEW j \in Slot(q)
          PROVE  (j \notin scheduled'[q] /\ entry'[q][j] # 0)
                   <=> (j \notin scheduled[q] /\ entry[q][j] # 0)
      BY <1>2, <1>4, <1>5
    <3> QED
      BY <3>1 DEF Unscheduled
  <2>2. \A p \in Queue \ {q} : entry'[p] = entry[p] /\ scheduled'[p] = scheduled[p]
    BY <1>4, <1>5
  <2>3. next_schedule' = next_schedule
    BY <1>1
  <2> HIDE DEF i
  <2> QED
    BY <1>6, <2>1, <2>2, <2>3 DEF IndicesFresh
<1>11. ReadsKept'
  <2>1. ASSUME NEW p \in Queue, NEW j \in Slot(p), NEW k \in Slot(p),
               entry'[p][j] = entry'[p][k], entry'[p][j] # 0
        PROVE  j = k
    <3> HIDE DEF i
    <3>1. entry'[p][j] = entry[p][j] /\ entry'[p][k] = entry[p][k]
      <4>1. CASE p = q
        BY <1>4, <2>1, <4>1
      <4>2. CASE p # q
        BY <1>4, <4>2
      <4> QED
        BY <4>1, <4>2
    <3> QED
      BY <2>1, <3>1 DEF ReadsKept
  <2>2. CASE q = "WQ"
    <3>1. "RQ" \in Queue \ {q}
      BY <2>2 DEF Queue
    <3>2. waiting' = waiting /\ entry'["RQ"] = entry["RQ"]
      BY <1>1, <1>4, <2>2, <3>1 DEF Returned
    <3> QED
      BY <2>1, <3>2 DEF ReadsKept, Lines
  <2>3. CASE q = "RQ"
    <3>1. waiting' = waiting \ {a}
      BY <1>1, <2>3 DEF Returned
    <3>2. Lines("RQ")' = Lines("RQ") \ {a}
      <4>1. ASSUME NEW v \in Lines("RQ")' PROVE v \in Lines("RQ") \ {a}
        BY <1>2, <1>3, <1>4, <2>3, <4>1 DEF Lines, ReadsKept
      <4>2. ASSUME NEW v \in Lines("RQ") \ {a} PROVE v \in Lines("RQ")'
        BY <1>4, <2>3, <4>2 DEF Lines
      <4> QED
        BY <4>1, <4>2
    <3> QED
      BY <2>1, <3>1, <3>2 DEF ReadsKept
  <2> QED
    BY <2>2, <2>3 DEF Queue
<1> QED
  BY <1>7, <1>8, <1>9, <1>10, <1>11

-----------------------------------------------------------------------------
(***************************************************************************)
(* add_rq and add_wq                                                       *)
(***************************************************************************)

\* A queue that is not full has an empty slot, and the new line goes there.
LEMMA EnqueueSlot ==
  ASSUME Inv, NEW q \in Queue, NEW a \in Line, Enqueue(q, a), a \notin Lines(q),
         occupancy[q] < SIZE(q)
  PROVE  \E f \in Slot(q) :
           /\ entry[q][f] = 0
           /\ entry' \in [Queue -> UNION {[Slot(p) -> Line \cup {0}] : p \in Queue}]
           /\ \A p \in Queue : entry'[p] \in [Slot(p) -> Line \cup {0}]
           /\ \A p \in Queue \ {q} : entry'[p] = entry[p]
           /\ \A j \in Slot(q) : entry'[q][j] = IF j = f THEN a ELSE entry[q][j]
<1> USE DEF Inv
<1>1. Filled(q) \in SUBSET Slot(q) /\ Cardinality(Filled(q)) < SIZE(q)
  BY DEF Filled, CountersExact
<1>2. Filled(q) # Slot(q)
  BY <1>1, Slots
<1>3. PICK j \in Slot(q) : entry[q][j] = 0
  BY <1>2 DEF Filled
<1> DEFINE f == FirstFree(q)
<1>4. f \in Slot(q) /\ entry[q][f] = 0
  BY <1>3, FirstFreeLemma
<1>5. entry' = [entry EXCEPT ![q] = [@ EXCEPT ![f] = a]]
  BY DEF Enqueue
<1> HIDE DEF f
<1>6. /\ entry' \in [Queue -> UNION {[Slot(p) -> Line \cup {0}] : p \in Queue}]
      /\ \A p \in Queue : entry'[p] \in [Slot(p) -> Line \cup {0}]
      /\ \A p \in Queue \ {q} : entry'[p] = entry[p]
      /\ \A i \in Slot(q) : entry'[q][i] = IF i = f THEN a ELSE entry[q][i]
  <2>1. a \in Line \cup {0}
    OBVIOUS
  <2> QED BY <1>4, <1>5, <2>1, EntryUpdate
<1> QED
  BY <1>4, <1>6

\* Everything but ReadsKept, which the two callers complete: the line enters
\* the queue once.
LEMMA EnqueueInv ==
  ASSUME Inv, NEW q \in Queue, NEW a \in Line, Enqueue(q, a), a \notin Lines(q),
         occupancy[q] < SIZE(q), waiting' \subseteq Line
  PROVE  /\ Shape' /\ BankOwned' /\ CountersExact' /\ IndicesFresh'
         /\ Lines(q)' = Lines(q) \cup {a}
         /\ \A p \in Queue \ {q} : Lines(p)' = Lines(p)
         /\ \A p \in Queue : \A i, j \in Slot(p) :
              entry'[p][i] = entry'[p][j] /\ entry'[p][i] # 0 => i = j
<1> USE DEF Inv
<1>1. /\ occupancy' = [occupancy EXCEPT ![q] = @ + 1]
      /\ update_schedule_cycle({q})
      /\ UNCHANGED <<scheduled, next_process, banks, scheduled_count, write_mode, warm>>
  BY DEF Enqueue
<1>2. PICK f \in Slot(q) :
        /\ entry[q][f] = 0
        /\ entry' \in [Queue -> UNION {[Slot(p) -> Line \cup {0}] : p \in Queue}]
        /\ \A p \in Queue : entry'[p] \in [Slot(p) -> Line \cup {0}]
        /\ \A p \in Queue \ {q} : entry'[p] = entry[p]
        /\ \A j \in Slot(q) : entry'[q][j] = IF j = f THEN a ELSE entry[q][j]
  BY EnqueueSlot
<1>3. a # 0
  BY DramAssumption
<1>4. /\ next_schedule' \in [Queue -> Index]
      /\ next_schedule'[q] \in Earliest(q, Unscheduled(q, entry'[q], scheduled'[q]))
      /\ \A p \in Queue \ {q} : next_schedule'[p] = next_schedule[p]
  <2>1. {q} \in SUBSET Queue
    OBVIOUS
  <2>2. /\ next_schedule' \in [Queue -> Index]
        /\ \A p \in {q} : next_schedule'[p] \in
                            Earliest(p, Unscheduled(p, entry'[p], scheduled'[p]))
        /\ \A p \in Queue \ {q} : next_schedule'[p] = next_schedule[p]
    BY <1>1, <2>1, UpdatedSchedule
  <2> QED
    BY <2>2
<1>5. Shape'
  <2>1. occupancy' \in [Queue -> Int]
    BY <1>1 DEF Shape
  <2> QED
    BY <1>1, <1>2, <1>4, <2>1 DEF Shape, banks
<1>6. BankOwned'
  <2>1. \A p \in Queue : \A j \in scheduled[p] : entry'[p][j] = entry[p][j]
    <3> SUFFICES ASSUME NEW p \in Queue, NEW j \in scheduled[p]
                 PROVE  entry'[p][j] = entry[p][j]
      OBVIOUS
    <3>1. j \in Slot(p) /\ entry[p][j] # 0
      BY DEF BankOwned, Shape
    <3>2. CASE p = q
      BY <1>2, <3>1, <3>2
    <3>3. CASE p # q
      BY <1>2, <3>3
    <3> QED
      BY <3>2, <3>3
  <2>2. ASSUME NEW p \in Queue, NEW j \in scheduled'[p]
        PROVE  /\ write_mode' = (p = "WQ")
               /\ entry'[p][j] # 0
               /\ request_index'[BankOf(entry'[p][j])] = j
               /\ working'[BankOf(entry'[p][j])]
    BY <1>1, <2>1, <2>2 DEF BankOwned, banks
  <2>3. ASSUME NEW c \in Bank
        PROVE  LET r == IF write_mode' THEN "WQ" ELSE "RQ" IN
               /\ is_write'[c] = (working'[c] /\ write_mode')
               /\ is_read'[c] = (working'[c] /\ ~write_mode')
               /\ working'[c] => /\ request_index'[c] \in scheduled'[r]
                                 /\ BankOf(entry'[r][request_index'[c]]) = c
    <3> DEFINE r == IF write_mode THEN "WQ" ELSE "RQ"
    <3>1. r \in Queue
      BY DEF Queue
    <3>2. /\ is_write[c] = (working[c] /\ write_mode)
          /\ is_read[c] = (working[c] /\ ~write_mode)
          /\ working[c] => /\ request_index[c] \in scheduled[r]
                           /\ BankOf(entry[r][request_index[c]]) = c
      BY DEF BankOwned
    <3>3. working[c] => entry'[r][request_index[c]] = entry[r][request_index[c]]
      <4> HIDE DEF r
      <4> QED BY <2>1, <3>1, <3>2
    <3> QED
      BY <1>1, <3>2, <3>3 DEF banks
  <2> QED
    BY <2>2, <2>3 DEF BankOwned
<1>7. CountersExact'
  <2> SUFFICES ASSUME NEW p \in Queue
               PROVE  /\ scheduled_count'[p] = Cardinality(scheduled'[p])
                      /\ occupancy'[p] = Cardinality({j \in Slot(p) : entry'[p][j] # 0})
    BY DEF CountersExact
  <2>1. scheduled_count'[p] = Cardinality(scheduled'[p])
    BY <1>1 DEF CountersExact
  <2>2. CASE p = q
    <3>1. IsFiniteSet(Filled(q)) /\ Cardinality(Filled(q)) \in Nat /\ f \notin Filled(q)
      BY <1>2, Slots DEF Filled
    <3>2. Cardinality(Filled(q) \cup {f}) = Cardinality(Filled(q)) + 1
      BY <3>1, FS_AddElement
    <3>3. {j \in Slot(q) : entry'[q][j] # 0} = Filled(q) \cup {f}
      BY <1>2, <1>3 DEF Filled
    <3>4. occupancy'[q] = occupancy[q] + 1 /\ occupancy[q] = Cardinality(Filled(q))
      BY <1>1 DEF Shape, CountersExact, Filled
    <3> QED
      BY <2>1, <2>2, <3>2, <3>3, <3>4
  <2>3. CASE p # q
    <3>1. occupancy'[p] = occupancy[p] /\ entry'[p] = entry[p]
      BY <1>1, <1>2, <2>3 DEF Shape
    <3> QED
      BY <2>1, <3>1 DEF CountersExact
  <2> QED
    BY <2>2, <2>3
<1>8. IndicesFresh'
  BY <1>1, <1>2, <1>4 DEF IndicesFresh
<1>9. Lines(q)' = Lines(q) \cup {a}
  <2>1. ASSUME NEW v \in Lines(q)' PROVE v \in Lines(q) \cup {a}
    BY <1>2, <2>1 DEF Lines
  <2>2. ASSUME NEW v \in Lines(q) PROVE v \in Lines(q)'
    BY <1>2, <2>2 DEF Lines
  <2>3. a \in Lines(q)'
    BY <1>2, <1>3 DEF Lines
  <2> QED
    BY <2>1, <2>2, <2>3
<1>10. \A p \in Queue \ {q} : Lines(p)' = Lines(p)
  BY <1>2 DEF Lines
<1>11. ASSUME NEW p \in Queue, NEW i \in Slot(p), NEW j \in Slot(p),
              entry'[p][i] = entry'[p][j], entry'[p][i] # 0
       PROVE  i = j
  <2>1. CASE p # q
    BY <1>2, <1>11, <2>1, ZenonT(40) DEF ReadsKept
  <2>2. CASE p = q
    <3>1. \A k \in Slot(q) : entry[q][k] # a
      BY <1>3 DEF Lines
    <3>2. CASE i = f \/ j = f
      BY <1>2, <1>11, <2>2, <3>1, <3>2
    <3>3. CASE i # f /\ j # f
      BY <1>2, <1>11, <2>2, <3>3 DEF ReadsKept
    <3> QED
      BY <3>2, <3>3
  <2> QED
    BY <2>1, <2>2
<1> QED
  BY <1>5, <1>6, <1>7, <1>8, <1>9, <1>10, <1>11

\* A call that changes nothing keeps the invariant.
LEMMA StutterInv ==
  ASSUME Inv, UNCHANGED vars
  PROVE  Inv'
<1> USE DEF Inv, vars, queues, banks
<1>1. Shape' /\ BankOwned'
  BY DEF Shape, BankOwned
<1>2. CountersExact' /\ IndicesFresh' /\ ReadsKept'
  BY DEF CountersExact, IndicesFresh, ReadsKept, Lines
<1> QED
  BY <1>1, <1>2

\* add_rq keeps the invariant: full, merged, forwarded or new.
LEMMA AddRqInv ==
  ASSUME Inv, NEW a \in Line, add_rq(a)
  PROVE  Inv'
<1> USE DEF Inv
<1>1. CASE Forwarded(a)
  BY <1>1, StutterInv DEF add_rq
<1>2. CASE ~Forwarded(a)
  <2>1. /\ Enqueue("RQ", a) /\ waiting' = waiting \cup {a} /\ a \notin Lines("RQ")
        /\ "RQ" \in Queue /\ occupancy["RQ"] < SIZE("RQ") /\ waiting' \subseteq Line
    BY <1>2 DEF add_rq, ReadsKept, Queue, SIZE, Shape
  <2>2. /\ Shape' /\ BankOwned' /\ CountersExact' /\ IndicesFresh'
        /\ Lines("RQ")' = Lines("RQ") \cup {a}
        /\ \A p \in Queue : \A i, j \in Slot(p) :
             entry'[p][i] = entry'[p][j] /\ entry'[p][i] # 0 => i = j
    BY <2>1, EnqueueInv
  <2>3. ReadsKept'
    BY <2>1, <2>2 DEF ReadsKept
  <2> QED
    BY <2>2, <2>3
<1> QED
  BY <1>1, <1>2

\* add_wq keeps the invariant: full, merged or new.
LEMMA AddWqInv ==
  ASSUME Inv, NEW a \in Line, add_wq(a)
  PROVE  Inv'
<1> USE DEF Inv
<1>1. CASE ~warm
  BY <1>1, StutterInv DEF add_wq
<1>2. CASE warm /\ a \in Lines("WQ")
  <2>1. UNCHANGED vars
    BY <1>2 DEF add_wq, Enqueue, vars, queues
  <2> QED
    BY <2>1, StutterInv
<1>3. CASE warm /\ a \notin Lines("WQ")
  <2>1. /\ Enqueue("WQ", a) /\ waiting' = waiting /\ "WQ" \in Queue
        /\ "RQ" \in Queue \ {"WQ"}
        /\ occupancy["WQ"] < SIZE("WQ") /\ waiting' \subseteq Line
    BY <1>3 DEF add_wq, Queue, SIZE, Shape
  <2>2. /\ Shape' /\ BankOwned' /\ CountersExact' /\ IndicesFresh'
        /\ \A p \in Queue \ {"WQ"} : Lines(p)' = Lines(p)
        /\ \A p \in Queue : \A i, j \in Slot(p) :
             entry'[p][i] = entry'[p][j] /\ entry'[p][i] # 0 => i = j
    BY <1>3, <2>1, EnqueueInv
  <2>3. ReadsKept'
    BY <2>1, <2>2 DEF ReadsKept
  <2> QED
    BY <2>2, <2>3
<1> QED
  BY <1>1, <1>2, <1>3

-----------------------------------------------------------------------------
(***************************************************************************)
(* reset_remain_requests, at a change of the write mode.  Only the queue   *)
(* that is left has scheduled entries, one per busy bank, so freeing the   *)
(* banks of that queue frees them all and gives back all its counts.       *)
(***************************************************************************)

\* As many banks work for a queue as it has scheduled entries.
LEMMA BanksCount ==
  ASSUME Inv, NEW q \in Queue
  PROVE  IsFiniteSet(BanksOf(q)) /\ Cardinality(BanksOf(q)) = Cardinality(scheduled[q])
<1> USE DEF Inv
<1> DEFINE S == scheduled[q]
           T == BanksOf(q)
           f == [i \in S |-> BankOf(entry[q][i])]
<1>1. IsFiniteSet(S)
  BY Slots DEF Shape
<1>2. f \in [S -> T] /\ \A t \in T : \E i \in S : f[i] = t
  BY DEF BanksOf
<1>3. \A i, j \in S : f[i] = f[j] => i = j
  BY DEF BankOwned
<1> HIDE DEF S, T, f
<1>4. f \in Surjection(S, T) /\ f \in Injection(S, T)
  BY <1>2, <1>3 DEF Surjection, Injection, IsInjective
<1>5. IsFiniteSet(T) /\ Cardinality(T) = Cardinality(S)
  BY <1>1, <1>4, FS_Surjection
<1> QED
  BY <1>5 DEF S, T

\* A change of the write mode takes every request back from the banks.
LEMMA ResetInv ==
  ASSUME Inv, NEW q \in Queue, write_mode = (q = "WQ"), write_mode' = ~write_mode,
         reset_remain_requests(q)
  PROVE  Inv'
<1> USE DEF Inv
<1> DEFINE B == BanksOf(q)
<1>1. /\ UNCHANGED <<entry, occupancy, waiting, warm>>
      /\ TakeBack(q) /\ RowAfterReset(q)
      /\ update_schedule_cycle(Queue) /\ update_process_cycle(Queue)
  BY DEF reset_remain_requests
<1>2. \A p \in Queue : p # q => scheduled[p] = {}
  BY DEF BankOwned, Queue
<1>3. \A p \in Queue : scheduled'[p] = {}
  BY <1>1, <1>2 DEF TakeBack, Shape
<1>4. \A b \in Bank : working[b] <=> b \in B
  <2>1. ASSUME NEW b \in Bank, working[b] PROVE b \in B
    <3>1. q = (IF write_mode THEN "WQ" ELSE "RQ")
      BY DEF Queue
    <3>2. request_index[b] \in scheduled[q] /\ BankOf(entry[q][request_index[b]]) = b
      BY <2>1, <3>1 DEF BankOwned
    <3> QED
      BY <3>2 DEF BanksOf
  <2>2. ASSUME NEW b \in B PROVE working[b]
    BY <2>2 DEF BanksOf, BankOwned
  <2> QED
    BY <2>1, <2>2
<1>5. B \subseteq Bank
  BY SlotBank DEF BanksOf, Shape
<1>6. /\ next_schedule' \in [Queue -> Index] /\ next_process' \in [Queue -> Index]
      /\ \A p \in Queue : /\ next_schedule'[p] \in
                               Earliest(p, Unscheduled(p, entry'[p], scheduled'[p]))
                          /\ next_process'[p] \in Earliest(p, scheduled'[p])
  <2>1. Queue \in SUBSET Queue
    OBVIOUS
  <2>2. /\ next_schedule' \in [Queue -> Index]
        /\ \A p \in Queue : next_schedule'[p] \in
                              Earliest(p, Unscheduled(p, entry'[p], scheduled'[p]))
    BY <1>1, <2>1, UpdatedSchedule
  <2>3. /\ next_process' \in [Queue -> Index]
        /\ \A p \in Queue : next_process'[p] \in Earliest(p, scheduled'[p])
    BY <1>1, <2>1, UpdatedProcess
  <2> QED
    BY <2>2, <2>3
<1>7. /\ scheduled_count' \in [Queue -> Int]
      /\ \A p \in Queue : scheduled_count'[p] = 0
  <2> DEFINE W == {b \in B : is_write[b]}
             R == {b \in B : ~is_write[b] /\ is_read[b]}
  <2>1. /\ \A b \in Bank : is_write[b] = (working[b] /\ write_mode)
        /\ \A b \in Bank : is_read[b] = (working[b] /\ ~write_mode)
    BY DEF BankOwned
  <2>2. IsFiniteSet(B) /\ Cardinality(B) = Cardinality(scheduled[q])
    BY BanksCount
  <2>3. /\ scheduled_count[q] = Cardinality(scheduled[q])
        /\ \A p \in Queue : p # q => scheduled_count[p] = 0
    BY <1>2, FS_EmptySet DEF CountersExact
  <2>4. scheduled_count' = [scheduled_count EXCEPT !["WQ"] = @ - Cardinality(W),
                                                   !["RQ"] = @ - Cardinality(R)]
    BY <1>1 DEF TakeBack
  <2>5. Cardinality(B) \in Nat /\ Cardinality({}) = 0
    BY <2>2, FS_CardinalityType, FS_EmptySet
  <2>6. CASE q = "WQ"
    <3>1. W = B /\ R = {}
      BY <1>4, <1>5, <2>1, <2>6
    <3> HIDE DEF W, R, B
    <3>2. Cardinality(W) = scheduled_count["WQ"] /\ Cardinality(R) = 0 /\ scheduled_count["RQ"] = 0
      BY <2>2, <2>3, <2>5, <2>6, <3>1 DEF Queue
    <3> QED
      BY <2>4, <3>2 DEF Shape, Queue
  <2>7. CASE q = "RQ"
    <3>1. R = B /\ W = {}
      BY <1>4, <1>5, <2>1, <2>7
    <3> HIDE DEF W, R, B
    <3>2. Cardinality(R) = scheduled_count["RQ"] /\ Cardinality(W) = 0 /\ scheduled_count["WQ"] = 0
      BY <2>2, <2>3, <2>5, <2>7, <3>1 DEF Queue
    <3> QED
      BY <2>4, <3>2 DEF Shape, Queue
  <2> QED
    BY <2>6, <2>7 DEF Queue
<1>8. /\ working' \in [Bank -> BOOLEAN] /\ request_index' \in [Bank -> Int]
      /\ is_write' \in [Bank -> BOOLEAN] /\ is_read' \in [Bank -> BOOLEAN]
      /\ \A b \in Bank : ~working'[b] /\ ~is_write'[b] /\ ~is_read'[b]
  <2>1. /\ working' = [b \in Bank |-> working[b] /\ b \notin B]
        /\ request_index' = [b \in Bank |-> IF b \in B THEN -1 ELSE request_index[b]]
        /\ is_write' = [b \in Bank |-> is_write[b] /\ b \notin B]
        /\ is_read' = [b \in Bank |-> is_read[b] /\ (b \notin B \/ is_write[b])]
    BY <1>1 DEF TakeBack
  <2>2. /\ \A b \in Bank : is_write[b] = (working[b] /\ write_mode)
        /\ \A b \in Bank : is_read[b] = (working[b] /\ ~write_mode)
    BY DEF BankOwned
  <2> HIDE DEF B
  <2>3. working' \in [Bank -> BOOLEAN] /\ is_write' \in [Bank -> BOOLEAN]
    BY <2>1, Zenon
  <2>4. is_read' \in [Bank -> BOOLEAN]
    BY <2>1, Zenon
  <2>5. request_index' \in [Bank -> Int]
    BY <2>1 DEF Shape
  <2>6. \A b \in Bank : ~working'[b] /\ ~is_write'[b] /\ ~is_read'[b]
    BY <1>4, <2>1, <2>2
  <2> QED
    BY <2>3, <2>4, <2>5, <2>6
<1>9. Shape'
  <2>1. open_row' \in [Bank -> 0..DRAM_ROWS]
    BY <1>1 DEF RowAfterReset
  <2>2. scheduled' \in [Queue -> SUBSET Index]
    BY <1>1 DEF TakeBack, Shape
  <2>3. write_mode' \in BOOLEAN
    OBVIOUS
  <2> QED
    BY <1>1, <1>3, <1>6, <1>7, <1>8, <2>1, <2>2, <2>3 DEF Shape
<1>10. BankOwned'
  BY <1>3, <1>8 DEF BankOwned
<1>11. CountersExact'
  <2>1. \A p \in Queue : scheduled_count'[p] = Cardinality(scheduled'[p])
    BY <1>3, <1>7, FS_EmptySet
  <2>2. \A p \in Queue :
          occupancy'[p] = Cardinality({i \in Slot(p) : entry'[p][i] # 0})
    BY <1>1 DEF CountersExact
  <2> QED
    BY <2>1, <2>2 DEF CountersExact
<1>12. IndicesFresh'
  BY <1>6 DEF IndicesFresh
<1>13. ReadsKept'
  BY <1>1 DEF ReadsKept, Lines
<1> QED
  BY <1>9, <1>10, <1>11, <1>12, <1>13

-----------------------------------------------------------------------------
\* Every step keeps the invariant.
LEMMA NextInv == Inv /\ [Next]_vars => Inv'
<1> SUFFICES ASSUME Inv, [Next]_vars PROVE Inv'
  OBVIOUS
<1>1. CASE EnterWriteMode
  <2>1. "RQ" \in Queue /\ write_mode = ("RQ" = "WQ") /\ write_mode' = ~write_mode
    BY <1>1 DEF EnterWriteMode, StartWrites, Queue, Inv, Shape
  <2> QED
    BY <1>1, <2>1, ResetInv DEF EnterWriteMode
<1>2. CASE LeaveWriteMode
  <2>1. "WQ" \in Queue /\ write_mode = ("WQ" = "WQ") /\ write_mode' = ~write_mode
    BY <1>2 DEF LeaveWriteMode, StopWrites, Queue, Inv, Shape
  <2> QED
    BY <1>2, <2>1, ResetInv DEF LeaveWriteMode
<1>3. CASE \E q \in Queue : schedule(q)
  BY <1>3, ScheduleInv
<1>4. CASE \E q \in Queue : process(q)
  BY <1>4, ProcessInv
<1>5. CASE \E a \in Line : add_rq(a)
  BY <1>5, AddRqInv
<1>6. CASE \E a \in Line : add_wq(a)
  BY <1>6, AddWqInv
<1>7. CASE WarmupDone
  <2> USE <1>7 DEF WarmupDone, queues, banks, Inv
  <2>1. Shape' /\ BankOwned'
    BY DEF Shape, BankOwned
  <2>2. CountersExact' /\ IndicesFresh' /\ ReadsKept'
    BY DEF CountersExact, IndicesFresh, ReadsKept, Lines
  <2> QED
    BY <2>1, <2>2
<1>8. CASE UNCHANGED vars
  BY <1>8, StutterInv
<1> QED
  BY <1>1, <1>2, <1>3, <1>4, <1>5, <1>6, <1>7, <1>8 DEF Next

\* For every geometry and every size of the queues: each scheduled request owns
\* its bank and each busy bank has one, only the queue the write mode selects
\* is in the banks, the counters are exact, the cached indices are fresh and
\* every read the LLC waits for has one slot.  No sanity check of
\* dram_controller.cc can fail.
THEOREM ControllerSound ==
  Spec => [](TypeOK /\ ControllerExact /\ IndicesFresh)
<1>1. Inv => TypeOK /\ ControllerExact /\ IndicesFresh
  BY ShapeTyped DEF Inv, ControllerExact
<1> QED
  BY <1>1, InitInv, NextInv, PTL DEF Spec

\* In particular the cached indices of the next entries to schedule and to process
\* are recomputed wherever a queue changes, so operate never serves an entry that
\* is gone, nor sleeps while one waits.
THEOREM IndicesStayFresh == Spec => []IndicesFresh
BY ControllerSound, PTL

-----------------------------------------------------------------------------
(***************************************************************************)
(* The controller implements MemoryPort.                                   *)
(***************************************************************************)

\* A queue holds no more lines than slots in use.
LEMMA LinesCount ==
  ASSUME Inv, NEW q \in Queue
  PROVE  /\ IsFiniteSet(Lines(q)) /\ Cardinality(Lines(q)) \in Nat
         /\ Cardinality(Lines(q)) <= occupancy[q] /\ occupancy[q] \in Nat
         /\ Lines(q) \subseteq Line
<1> USE DEF Inv
<1> DEFINE S == Filled(q)
           T == Lines(q)
           f == [i \in S |-> entry[q][i]]
<1>1. IsFiniteSet(S) /\ Cardinality(S) \in Nat /\ occupancy[q] = Cardinality(S)
  BY Slots DEF Filled, CountersExact
<1>2. f \in [S -> T] /\ \A t \in T : \E i \in S : f[i] = t
  BY DEF Lines, Filled
<1>3. Lines(q) \subseteq Line
  BY DEF Lines, Shape
<1> HIDE DEF S, T, f
<1>4. f \in Surjection(S, T)
  BY <1>2 DEF Surjection
<1>5. IsFiniteSet(T) /\ Cardinality(T) <= Cardinality(S)
  BY <1>1, <1>4, FS_Surjection
<1>6. Cardinality(T) \in Nat
  BY <1>5, FS_CardinalityType
<1> QED
  BY <1>1, <1>3, <1>5, <1>6 DEF T

\* process removes the line it serves from its queue, and touches no other.
LEMMA ProcessLines ==
  ASSUME Inv, NEW q \in Queue, process(q)
  PROVE  \E a \in Lines(q) : /\ waiting' = Returned(q, a)
                             /\ Lines(q)' = Lines(q) \ {a}
                             /\ \A p \in Queue \ {q} : Lines(p)' = Lines(p)
<1> USE DEF Inv
<1> DEFINE i == next_process[q]
           a == entry[q][i]
<1>1. /\ i < SIZE(q) /\ waiting' = Returned(q, a)
      /\ entry' = [entry EXCEPT ![q] = [@ EXCEPT ![i] = 0]]
  BY DEF process, remove_queue
<1>2. i \in scheduled[q] /\ i \in Slot(q)
  <2>1. i \in Earliest(q, scheduled[q]) /\ i # SIZE(q)
    <3>1. SIZE(q) \in Nat
      BY Slots
    <3> QED BY <1>1, <3>1 DEF IndicesFresh
  <2> QED
    BY <2>1 DEF Earliest, Shape
<1>3. a # 0
  BY <1>2 DEF BankOwned
<1>4. /\ \A p \in Queue \ {q} : entry'[p] = entry[p]
      /\ \A j \in Slot(q) : entry'[q][j] = IF j = i THEN 0 ELSE entry[q][j]
  BY <1>1, <1>2, EntryUpdate
<1>5. Lines(q)' = Lines(q) \ {a}
  <2>1. ASSUME NEW v \in Lines(q)' PROVE v \in Lines(q) \ {a}
    BY <1>2, <1>3, <1>4, <2>1 DEF Lines, ReadsKept
  <2>2. ASSUME NEW v \in Lines(q) \ {a} PROVE v \in Lines(q)'
    BY <1>4, <2>2 DEF Lines
  <2> QED
    BY <2>1, <2>2
<1>6. a \in Lines(q) /\ \A p \in Queue \ {q} : Lines(p)' = Lines(p)
  BY <1>2, <1>3, <1>4 DEF Lines
<1> QED
  BY <1>1, <1>5, <1>6

\* The instance has its own copy of the definition of Cardinality.
LEMMA PortCardinality ==
  ASSUME NEW S PROVE Port!Cardinality(S) = Cardinality(S)
BY DEF Port!Cardinality, Cardinality

\* Every step of the controller is a step of the memory port or stutters.
LEMMA PortStep ==
  Inv /\ [Next]_vars => [Port!Next]_<<waiting, Lines("WQ")>>
<1> SUFFICES ASSUME Inv, [Next]_vars
             PROVE  Port!Next \/ (waiting' = waiting /\ Lines("WQ")' = Lines("WQ"))
  OBVIOUS
<1> USE DEF Inv
<1>0. "RQ" \in Queue /\ "WQ" \in Queue /\ "RQ" # "WQ"
  BY DEF Queue
<1>1. ASSUME entry' = entry, waiting' = waiting
      PROVE  waiting' = waiting /\ Lines("WQ")' = Lines("WQ")
  BY <1>1 DEF Lines
<1>2. CASE EnterWriteMode \/ LeaveWriteMode \/ WarmupDone
  BY <1>1, <1>2 DEF EnterWriteMode, LeaveWriteMode, WarmupDone, reset_remain_requests, queues
<1>3. CASE \E q \in Queue : schedule(q)
  BY <1>1, <1>3 DEF schedule
<1>4. ASSUME NEW q \in Queue, process(q)
      PROVE  Port!Next
  <2>1. PICK a \in Lines(q) : /\ waiting' = Returned(q, a)
                              /\ Lines(q)' = Lines(q) \ {a}
                              /\ \A p \in Queue \ {q} : Lines(p)' = Lines(p)
    BY <1>4, ProcessLines
  <2>2. a \in Line
    BY <2>1, LinesCount
  <2>3. CASE q = "RQ"
    <3>1. Port!ReadDone(a)
      BY <1>0, <2>1, <2>3 DEF Port!ReadDone, Returned, ReadsKept
    <3> QED
      BY <2>2, <3>1 DEF Port!Next
  <2>4. CASE q = "WQ"
    <3>1. Port!WriteDone(a)
      BY <1>0, <2>1, <2>4 DEF Port!WriteDone, Returned
    <3> QED
      BY <2>2, <3>1 DEF Port!Next
  <2> QED
    BY <2>3, <2>4 DEF Queue
<1>5. ASSUME NEW a \in Line, add_rq(a), ~Forwarded(a)
      PROVE  Port!Next
  <2>1. /\ Enqueue("RQ", a) /\ waiting' = waiting \cup {a} /\ a \notin Lines("RQ")
        /\ a \notin waiting /\ a \notin Lines("WQ")
        /\ occupancy["RQ"] < DRAM_RQ_SIZE
        /\ occupancy["RQ"] < SIZE("RQ") /\ waiting' \subseteq Line
    BY <1>5 DEF add_rq, Forwarded, ReadsKept, SIZE, Shape
  <2>2. \A p \in Queue \ {"RQ"} : Lines(p)' = Lines(p)
    BY <1>0, <2>1, EnqueueInv
  <2>3. Cardinality(waiting) < DRAM_RQ_SIZE
    <3>1. waiting = Lines("RQ")
      BY DEF ReadsKept
    <3>2. /\ Cardinality(Lines("RQ")) \in Nat /\ occupancy["RQ"] \in Nat
          /\ Cardinality(Lines("RQ")) <= occupancy["RQ"]
      BY <1>0, LinesCount
    <3> QED
      BY <2>1, <3>1, <3>2, DramAssumption
  <2>4. Port!Read(a)
    BY <1>0, <2>1, <2>2, <2>3, PortCardinality DEF Port!Read
  <2> QED
    BY <2>4 DEF Port!Next
<1>6. ASSUME NEW a \in Line, add_wq(a), warm, a \notin Lines("WQ")
      PROVE  Port!Next
  <2>1. /\ Enqueue("WQ", a) /\ waiting' = waiting
        /\ occupancy["WQ"] < DRAM_WQ_SIZE
        /\ occupancy["WQ"] < SIZE("WQ") /\ waiting' \subseteq Line
    BY <1>6 DEF add_wq, SIZE, Shape
  <2>2. Lines("WQ")' = Lines("WQ") \cup {a}
    BY <1>0, <1>6, <2>1, EnqueueInv
  <2>3. Cardinality(Lines("WQ")) < DRAM_WQ_SIZE
    <3>1. /\ Cardinality(Lines("WQ")) \in Nat /\ occupancy["WQ"] \in Nat
          /\ Cardinality(Lines("WQ")) <= occupancy["WQ"]
      BY <1>0, LinesCount
    <3> QED
      BY <2>1, <3>1, DramAssumption
  <2>4. Port!Write(a)
    BY <1>6, <2>1, <2>2, <2>3, PortCardinality DEF Port!Write
  <2> QED
    BY <2>4 DEF Port!Next
<1>7. CASE UNCHANGED vars
  BY <1>1, <1>7 DEF vars, queues
<1>8. CASE \E a \in Line : add_rq(a)
  <2>1. PICK a \in Line : add_rq(a)
    BY <1>8
  <2>2. CASE Forwarded(a)
    BY <1>7, <2>1, <2>2 DEF add_rq
  <2> QED
    BY <1>5, <2>1, <2>2
<1>9. CASE \E a \in Line : add_wq(a)
  <2>1. PICK a \in Line : add_wq(a)
    BY <1>9
  <2>2. CASE ~warm
    BY <1>7, <2>1, <2>2 DEF add_wq
  <2>3. CASE warm /\ a \in Lines("WQ")
    BY <1>1, <2>1, <2>3 DEF add_wq, Enqueue
  <2> QED
    BY <1>6, <2>1, <2>2, <2>3
<1> QED
  BY <1>2, <1>3, <1>4, <1>7, <1>8, <1>9 DEF Next

\* The controller implements MemoryPort, so what is shown of the caches above
\* that abstract memory holds above this controller: a read ends once, by the
\* return of its data, and a write by being performed, whatever happens to the
\* banks and the write mode in between.
THEOREM Implements == Spec => PortSpec
<1>1. Init => Port!Init
  BY DEF Init, Port!Init, Lines, Queue
<1> QED
  BY <1>1, InitInv, NextInv, PortStep, PTL DEF Spec, PortSpec, Port!Spec
=============================================================================
