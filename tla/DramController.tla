--------------------------- MODULE DramController ---------------------------
(***************************************************************************)
(* MEMORY_CONTROLLER (src/src/dram_controller.cc): the read and the write  *)
(* queue of a DRAM channel, the bank requests, and the write mode that     *)
(* decides which of the two queues the banks work for.  The code keeps one *)
(* copy of this state per channel and no channel looks at another; this is *)
(* one channel, and Line the block addresses dram_get_channel sends to it. *)
(*                                                                         *)
(* Time is abstracted: latencies, the turn-around time and a busy data bus *)
(* only delay a step, and which of several entries has the smallest        *)
(* event_cycle is a free choice.                                           *)
(*                                                                         *)
(* Operators marked "mutant" are deliberately faulty variants of the       *)
(* definition after them; no specification uses them.                      *)
(***************************************************************************)
EXTENDS Integers, FiniteSets

CONSTANTS
  Line,                                \* block addresses the LLC uses
  DRAM_CHANNELS, DRAM_RANKS, DRAM_BANKS, DRAM_ROWS, DRAM_COLUMNS,
  DRAM_RQ_SIZE, DRAM_WQ_SIZE

\* Address 0 marks an empty slot, so no line may have it.  The watermarks need
\* a write queue of two entries at least: with one, DRAM_WRITE_HIGH_WM is 0.
ASSUME DramAssumption ==
  /\ IsFiniteSet(Line) /\ Line \subseteq Nat \ {0}
  /\ DRAM_CHANNELS \in Nat \ {0} /\ DRAM_RANKS \in Nat \ {0}
  /\ DRAM_BANKS \in Nat \ {0} /\ DRAM_ROWS \in Nat \ {0}
  /\ DRAM_COLUMNS \in Nat \ {0}
  /\ DRAM_RQ_SIZE \in Nat \ {0} /\ DRAM_WQ_SIZE \in Nat \ {0, 1}

VARIABLES
  entry,           \* entry[q][i]: the address in slot i of queue q, 0 if empty
  occupancy,       \* occupancy[q]
  scheduled,       \* scheduled[q]: the slots whose packet has scheduled = 1
  next_schedule,   \* next_schedule[q]: next_schedule_index, SIZE if none
  next_process,    \* next_process[q]: next_process_index, SIZE if none
  scheduled_count, \* scheduled_reads ("RQ") and scheduled_writes ("WQ")
  working, request_index, is_write, is_read, open_row,   \* bank_request[b]
  write_mode,
  waiting,         \* lines the LLC has asked for and not received
  warm             \* all_warmup_complete = NUM_CPUS

queues == <<entry, occupancy, scheduled, next_schedule, next_process>>
banks == <<working, request_index, is_write, is_read, open_row>>
vars == <<queues, banks, scheduled_count, write_mode, waiting, warm>>

-----------------------------------------------------------------------------
(***************************************************************************)
(* Geometry.  Every DRAM_x is a power of two, so the code's shift by       *)
(* LOG2_DRAM_x is a division and its mask a remainder.                     *)
(***************************************************************************)

dram_get_bank(a) == (a \div DRAM_CHANNELS) % DRAM_BANKS

dram_get_rank(a) ==
  (a \div (DRAM_CHANNELS * DRAM_BANKS * DRAM_COLUMNS)) % DRAM_RANKS

dram_get_row(a) ==
  (a \div (DRAM_CHANNELS * DRAM_BANKS * DRAM_COLUMNS * DRAM_RANKS)) % DRAM_ROWS

Bank == (0..(DRAM_RANKS - 1)) \X (0..(DRAM_BANKS - 1))
BankOf(a) == <<dram_get_rank(a), dram_get_bank(a)>>

NoRow == DRAM_ROWS      \* open_row = UINT32_MAX

-----------------------------------------------------------------------------
Queue == {"RQ", "WQ"}
SIZE(q) == IF q = "RQ" THEN DRAM_RQ_SIZE ELSE DRAM_WQ_SIZE
Slot(q) == 0..(SIZE(q) - 1)

DRAM_WRITE_HIGH_WM == (DRAM_WQ_SIZE * 7) \div 8
DRAM_WRITE_LOW_WM == (DRAM_WQ_SIZE * 3) \div 4

Lines(q) == {entry[q][i] : i \in Slot(q)} \ {0}

\* The slots with the smallest event_cycle of S: any of them, or SIZE if S is
\* empty.
Earliest(q, S) == IF S = {} THEN {SIZE(q)} ELSE S

Unscheduled(q, en, sch) == {i \in Slot(q) \ sch : en[i] # 0}

Index == 0..(DRAM_RQ_SIZE + DRAM_WQ_SIZE)

\* mutant: a change of the write mode does not look for entries to schedule.
ScheduleKept(Q) ==
  next_schedule' \in
    {f \in [Queue -> Index] : \A q \in Queue :
       IF Q = {q}
       THEN f[q] \in Earliest(q, Unscheduled(q, entry'[q], scheduled'[q]))
       ELSE f[q] = next_schedule[q]}

\* update_schedule_cycle, for the queues in Q, on their new slots.
update_schedule_cycle(Q) ==
  next_schedule' \in
    {f \in [Queue -> Index] : \A q \in Queue :
       IF q \in Q
       THEN f[q] \in Earliest(q, Unscheduled(q, entry'[q], scheduled'[q]))
       ELSE f[q] = next_schedule[q]}

\* mutant: only an empty index is recomputed.
UpdateIfNone(Q) ==
  next_process' \in
    {f \in [Queue -> Index] : \A q \in Queue :
       IF q \in Q /\ next_process[q] = SIZE(q)
       THEN f[q] \in Earliest(q, scheduled'[q])
       ELSE f[q] = next_process[q]}

\* update_process_cycle, for the queues in Q, on their new slots.
update_process_cycle(Q) ==
  next_process' \in
    {f \in [Queue -> Index] : \A q \in Queue :
       IF q \in Q THEN f[q] \in Earliest(q, scheduled'[q])
                  ELSE f[q] = next_process[q]}

-----------------------------------------------------------------------------
(***************************************************************************)
(* operate: the write mode.  Writes are drained in bursts: from the high   *)
(* watermark, or when there are no reads, until the queue is empty or a    *)
(* read waits and the queue is below the low watermark.                    *)
(***************************************************************************)

\* mutant: idle cycles are not used for writes.
StartAtHigh == ~write_mode /\ occupancy["WQ"] >= DRAM_WRITE_HIGH_WM

StartWrites ==
  /\ ~write_mode
  /\ \/ occupancy["WQ"] >= DRAM_WRITE_HIGH_WM
     \/ occupancy["RQ"] = 0 /\ occupancy["WQ"] > 0

StopWrites ==
  /\ write_mode
  /\ \/ occupancy["WQ"] = 0
     \/ occupancy["RQ"] > 0 /\ occupancy["WQ"] < DRAM_WRITE_LOW_WM

\* The queue the banks work for, once operate has looked at the write mode.
Serves(q) ==
  /\ ~StartWrites /\ ~StopWrites
  /\ write_mode = (q = "WQ")

BanksOf(q) == {BankOf(entry[q][i]) : i \in scheduled[q]}

\* mutant: the banks keep the direction of the requests that were taken back.
ResetKeepsDirection(q) ==
  LET B == BanksOf(q) IN
  /\ scheduled' = [scheduled EXCEPT ![q] = {}]
  /\ working' = [b \in Bank |-> working[b] /\ b \notin B]
  /\ request_index' = [b \in Bank |-> IF b \in B THEN -1 ELSE request_index[b]]
  /\ UNCHANGED <<is_write, is_read, scheduled_count>>

\* The loop of reset_remain_requests: every scheduled entry of q is taken back
\* and its bank freed; a bank that was busy with a write gives back one of
\* scheduled_writes, one that was busy with a read one of scheduled_reads.
TakeBack(q) ==
  LET B == BanksOf(q) IN
  /\ scheduled' = [scheduled EXCEPT ![q] = {}]
  /\ working' = [b \in Bank |-> working[b] /\ b \notin B]
  /\ request_index' = [b \in Bank |-> IF b \in B THEN -1 ELSE request_index[b]]
  /\ is_write' = [b \in Bank |-> is_write[b] /\ b \notin B]
  /\ is_read' = [b \in Bank |-> is_read[b] /\ (b \notin B \/ is_write[b])]
  /\ scheduled_count' =
       [scheduled_count EXCEPT
          !["WQ"] = @ - Cardinality({b \in B : is_write[b]}),
          !["RQ"] = @ - Cardinality({b \in B : ~is_write[b] /\ is_read[b]})]

\* The row of a freed bank is open if the access had got as far as the column
\* (cycle_available - tCAS has passed), else the bank is precharged.
RowAfterReset(q) ==
  /\ open_row' \in [Bank -> 0..DRAM_ROWS]
  /\ \A b \in Bank :
       IF b \in BanksOf(q)
       THEN \/ open_row'[b] = NoRow
            \/ \E i \in scheduled[q] : /\ BankOf(entry[q][i]) = b
                                        /\ open_row'[b] = dram_get_row(entry[q][i])
       ELSE open_row'[b] = open_row[b]

reset_remain_requests(q) ==
  /\ UNCHANGED <<entry, occupancy, waiting, warm>>
  /\ TakeBack(q)
  /\ RowAfterReset(q)
  /\ update_schedule_cycle(Queue)
  /\ update_process_cycle(Queue)

EnterWriteMode ==
  /\ StartWrites
  /\ write_mode' = TRUE
  /\ reset_remain_requests("RQ")

LeaveWriteMode ==
  /\ StopWrites
  /\ write_mode' = FALSE
  /\ reset_remain_requests("WQ")

-----------------------------------------------------------------------------
(***************************************************************************)
(* schedule: an unscheduled entry whose bank is free, one that hits the    *)
(* open row if there is one.  It starts the bank.                          *)
(***************************************************************************)

\* mutant: the busy bank is not looked at.
FreeBankEntriesBusyToo(q) == Unscheduled(q, entry[q], scheduled[q])

FreeBankEntries(q) ==
  {i \in Unscheduled(q, entry[q], scheduled[q]) : ~working[BankOf(entry[q][i])]}

RowHits(q) ==
  {i \in FreeBankEntries(q) :
     open_row[BankOf(entry[q][i])] = dram_get_row(entry[q][i])}

Candidates(q) == IF RowHits(q) # {} THEN RowHits(q) ELSE FreeBankEntries(q)

schedule(q) ==
  /\ Serves(q)
  /\ next_schedule[q] < SIZE(q)
  /\ \E i \in Candidates(q) :
       LET a == entry[q][i]
           b == BankOf(a) IN
       /\ working' = [working EXCEPT ![b] = TRUE]
       /\ request_index' = [request_index EXCEPT ![b] = i]
       /\ is_write' = [is_write EXCEPT ![b] = (q = "WQ")]
       /\ is_read' = [is_read EXCEPT ![b] = (q = "RQ")]
       /\ open_row' = [open_row EXCEPT ![b] = dram_get_row(a)]
       /\ scheduled_count' = [scheduled_count EXCEPT ![q] = @ + 1]
       /\ scheduled' = [scheduled EXCEPT ![q] = @ \cup {i}]
  /\ UNCHANGED entry
  /\ update_schedule_cycle({q})
  /\ update_process_cycle({q})
  /\ UNCHANGED <<occupancy, write_mode, waiting, warm>>

(***************************************************************************)
(* process: the access at next_process_index has paid its latency and has  *)
(* the data bus.  A read returns its data to the LLC.  The bank is freed   *)
(* and the entry removed from its queue.                                   *)
(***************************************************************************)

\* PACKET_QUEUE::remove_queue: the slot becomes an empty packet.
remove_queue(q, i) ==
  /\ entry' = [entry EXCEPT ![q] = [@ EXCEPT ![i] = 0]]
  /\ scheduled' = [scheduled EXCEPT ![q] = @ \ {i}]
  /\ occupancy' = [occupancy EXCEPT ![q] = @ - 1]

\* mutant: the data goes back to the LLC for a write that is done as well.
ReturnedAlways(q, a) == waiting \ {a}

Returned(q, a) == IF q = "RQ" THEN waiting \ {a} ELSE waiting

process(q) ==
  LET i == next_process[q]
      a == entry[q][i]
      b == BankOf(a) IN
  /\ Serves(q)
  /\ i < SIZE(q)
  /\ waiting' = Returned(q, a)
  /\ working' = [working EXCEPT ![b] = FALSE]
  /\ request_index' = [request_index EXCEPT ![b] = -1]
  /\ is_write' = [is_write EXCEPT ![b] = FALSE]
  /\ is_read' = [is_read EXCEPT ![b] = FALSE]
  /\ scheduled_count' = [scheduled_count EXCEPT ![q] = @ - 1]
  /\ remove_queue(q, i)
  /\ update_process_cycle({q})
  /\ UNCHANGED <<next_schedule, open_row, write_mode, warm>>

-----------------------------------------------------------------------------
(***************************************************************************)
(* Calls of the LLC, which looks at get_occupancy first.                   *)
(***************************************************************************)

FirstFree(q) ==
  CHOOSE i \in Slot(q) : /\ entry[q][i] = 0
                         /\ \A j \in Slot(q) : entry[q][j] = 0 => i <= j

\* add_rq and add_wq after the checks: the first empty slot takes the packet,
\* unless the queue has the line already (check_dram_queue).
Enqueue(q, a) ==
  /\ IF a \in Lines(q)
     THEN UNCHANGED <<entry, occupancy, scheduled, next_schedule>>
     ELSE /\ entry' = [entry EXCEPT ![q] = [@ EXCEPT ![FirstFree(q)] = a]]
          /\ occupancy' = [occupancy EXCEPT ![q] = @ + 1]
          /\ UNCHANGED scheduled
          /\ update_schedule_cycle({q})
  /\ UNCHANGED <<next_process, banks, scheduled_count, write_mode, warm>>

\* mutant: the write queue is not searched for the line.
NotForwarded(a) == ~warm

\* add_rq before the end of the warm-up, and for a line in the write queue: the
\* data returns at once.
Forwarded(a) == ~warm \/ a \in Lines("WQ")

\* The LLC has one MSHR per line, so it does not ask again for a line it waits
\* for.
add_rq(a) ==
  /\ occupancy["RQ"] < DRAM_RQ_SIZE
  /\ a \notin waiting
  /\ IF Forwarded(a)
     THEN UNCHANGED vars
     ELSE Enqueue("RQ", a) /\ waiting' = waiting \cup {a}

\* add_wq: before the end of the warm-up a write is dropped.
add_wq(a) ==
  /\ occupancy["WQ"] < DRAM_WQ_SIZE
  /\ IF warm THEN Enqueue("WQ", a) /\ UNCHANGED waiting ELSE UNCHANGED vars

\* finish_warmup of the last core.
WarmupDone ==
  /\ ~warm
  /\ warm' = TRUE
  /\ UNCHANGED <<queues, banks, scheduled_count, write_mode, waiting>>

-----------------------------------------------------------------------------
Init ==
  /\ entry = [q \in Queue |-> [i \in Slot(q) |-> 0]]
  /\ occupancy = [q \in Queue |-> 0]
  /\ scheduled = [q \in Queue |-> {}]
  /\ next_schedule = [q \in Queue |-> SIZE(q)]
  /\ next_process = [q \in Queue |-> SIZE(q)]
  /\ scheduled_count = [q \in Queue |-> 0]
  /\ working = [b \in Bank |-> FALSE]
  /\ request_index = [b \in Bank |-> -1]
  /\ is_write = [b \in Bank |-> FALSE]
  /\ is_read = [b \in Bank |-> FALSE]
  /\ open_row = [b \in Bank |-> NoRow]
  /\ write_mode = FALSE
  /\ waiting = {}
  /\ warm = FALSE

Arrival == \E a \in Line : add_rq(a) \/ add_wq(a)

Next ==
  \/ EnterWriteMode
  \/ LeaveWriteMode
  \/ \E q \in Queue : schedule(q)
  \/ \E q \in Queue : process(q)
  \/ \E a \in Line : add_rq(a)
  \/ \E a \in Line : add_wq(a)
  \/ WarmupDone

Spec == Init /\ [][Next]_vars

\* main.cc calls operate in every cycle, and delays are finite.
Fairness ==
  /\ WF_vars(EnterWriteMode) /\ WF_vars(LeaveWriteMode)
  /\ \A q \in Queue : WF_vars(schedule(q)) /\ WF_vars(process(q))

FairSpec == Spec /\ Fairness

-----------------------------------------------------------------------------
(***************************************************************************)
(* Properties.                                                             *)
(***************************************************************************)

\* Every variable has its type: no counter is negative or beyond its queue.
TypeOK ==
  /\ entry \in [Queue -> UNION {[Slot(q) -> Line \cup {0}] : q \in Queue}]
  /\ scheduled \in [Queue -> SUBSET Index]
  /\ occupancy \in [Queue -> Index]
  /\ scheduled_count \in [Queue -> Index]
  /\ next_schedule \in [Queue -> Index]
  /\ next_process \in [Queue -> Index]
  /\ \A q \in Queue : /\ entry[q] \in [Slot(q) -> Line \cup {0}]
                      /\ scheduled[q] \subseteq Slot(q)
                      /\ occupancy[q] <= SIZE(q)
                      /\ scheduled_count[q] <= SIZE(q)
  /\ working \in [Bank -> BOOLEAN]
  /\ request_index \in [Bank -> Int]
  /\ is_write \in [Bank -> BOOLEAN]
  /\ is_read \in [Bank -> BOOLEAN]
  /\ open_row \in [Bank -> 0..DRAM_ROWS]
  /\ write_mode \in BOOLEAN
  /\ waiting \subseteq Line
  /\ warm \in BOOLEAN

\* A scheduled entry owns its bank and every busy bank has such an entry, in
\* the queue the write mode selects; this is what process() asserts of
\* request_index before it frees the bank.
BankOwned ==
  /\ \A q \in Queue : \A i \in scheduled[q] :
       /\ write_mode = (q = "WQ")
       /\ entry[q][i] # 0
       /\ request_index[BankOf(entry[q][i])] = i
       /\ working[BankOf(entry[q][i])]
  /\ \A b \in Bank :
       LET q == IF write_mode THEN "WQ" ELSE "RQ" IN
       /\ is_write[b] = (working[b] /\ write_mode)
       /\ is_read[b] = (working[b] /\ ~write_mode)
       /\ working[b] => /\ request_index[b] \in scheduled[q]
                        /\ BankOf(entry[q][request_index[b]]) = b

\* scheduled_reads, scheduled_writes and the occupancies count what they are
\* named after; reset_remain_requests asserts that it leaves the first two at
\* zero.
CountersExact ==
  \A q \in Queue :
    /\ scheduled_count[q] = Cardinality(scheduled[q])
    /\ occupancy[q] = Cardinality({i \in Slot(q) : entry[q][i] # 0})

\* The cached indices are never stale: process is only pointed at a scheduled
\* entry and neither queue is idle while it has something to schedule or to
\* process.
IndicesFresh ==
  \A q \in Queue :
    /\ next_schedule[q] \in Earliest(q, Unscheduled(q, entry[q], scheduled[q]))
    /\ next_process[q] \in Earliest(q, scheduled[q])

\* A line the LLC waits for has exactly one slot of the read queue, through
\* every change of the write mode, and nothing else does.
ReadsKept ==
  /\ waiting = Lines("RQ")
  /\ \A q \in Queue : \A i, j \in Slot(q) :
       entry[q][i] = entry[q][j] /\ entry[q][i] # 0 => i = j

\* What the controller keeps apart agrees at every moment: the slots of the two
\* queues, the banks, the counters and what the LLC waits for.
ControllerExact == BankOwned /\ CountersExact /\ ReadsKept

\* The queues, banks and modes implement the memory module CacheHierarchy puts
\* below the LLC: reads are what the LLC waits for, writes what the write queue
\* holds.
Port == INSTANCE MemoryPort WITH reading <- waiting, writing <- Lines("WQ")

PortSpec == Port!Spec

\* When the LLC stops sending for good, every read it waits for returns.
ReadsServed ==
  (<>[][~Arrival]_vars) => \A a \in Line : (a \in waiting) ~> (a \notin waiting)

\* When the LLC stops sending for good, both queues empty and the banks go idle.
Drained ==
  (<>[][~Arrival]_vars) => <>[](Lines("WQ") = {} /\ \A b \in Bank : ~working[b])
=============================================================================
