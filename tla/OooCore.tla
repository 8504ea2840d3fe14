------------------------------ MODULE OooCore ------------------------------
(***************************************************************************)
(* The out-of-order core, class O3_CPU (src/src/ooo_cpu.cc): a trace is    *)
(* read into a reorder buffer, instructions are translated and fetched in  *)
(* order, scheduled in order, executed out of order through the            *)
(* ready-to-execute, ready-to-load and ready-to-store rings and the load   *)
(* and store queues, and retired in order.                                 *)
(*                                                                         *)
(* Time is abstracted: a step whose event_cycle has not come is one that   *)
(* happens later.  One iteration of a loop of the core is one step.  The   *)
(* TLBs and first-level caches are the environment (module CacheHierarchy  *)
(* has them): they answer each request once, in any order.  Data has no    *)
(* value in the simulator; a load is given the number of the store it      *)
(* takes its data from.                                                    *)
(*                                                                         *)
(* Operators marked "mutant" are deliberately faulty variants of the       *)
(* definition after them; no specification uses them.                      *)
(***************************************************************************)
EXTENDS Naturals, Sequences, FiniteSets, FiniteSetsExt, SequencesExt

CONSTANTS Addr,            \* data addresses
          Traces,          \* the trace files considered
          ROB_SIZE, LQ_SIZE, SQ_SIZE, STA_SIZE,
          SCHEDULER_SIZE,
          WQ_SIZE,         \* L1D.WQ.SIZE
          MAX_READ         \* bound: instructions read from the trace

VARIABLES trace, retired, mem, seen,    \* as in module InOrder
          read,           \* instr_unique_id: instructions read so far
          rob, head, tail, occupancy,   \* CORE_BUFFER ROB
          last_read, last_fetch, next_schedule,
          stall,          \* [on |-> fetch_stall, resume |-> fetch_resume_cycle # 0]
          lq,             \* LQ.entry
          sq, sqHead, sqTail, sqOcc,    \* LOAD_STORE_QUEUE SQ
          sta,            \* STA: the stores not yet in SQ, in program order
          rte0, rte1, rtl0, rtl1, rts0, rts1,   \* the RT rings
          dtlb, l1d, wq,  \* requests out to the DTLB and the L1D, L1D.WQ
          inflight        \* inflight_reg_executions, inflight_mem_executions

arch == <<trace, retired, mem, seen>>
buffer == <<read, rob, head, tail, occupancy, last_read, last_fetch,
            next_schedule, stall>>
lsq == <<lq, sq, sqHead, sqTail, sqOcc, sta>>
rings == <<rte0, rte1, rtl0, rtl1, rts0, rts1>>
port == <<dtlb, l1d, wq>>
vars == <<arch, buffer, lsq, rings, port, inflight>>

ASSUME SizesAssumption ==
  /\ {ROB_SIZE, LQ_SIZE, SQ_SIZE, SCHEDULER_SIZE, WQ_SIZE, MAX_READ} \subseteq Nat \ {0}
  /\ STA_SIZE = ROB_SIZE * 4          \* NUM_INSTR_DESTINATIONS_SPARC
  /\ Traces \subseteq Seq([branch : BOOLEAN, src : Seq(Nat), dst : SUBSET Nat,
                          ld : Seq(Addr), st : Seq(Addr)])
  /\ \A t \in Traces : /\ Len(t) > 0
                       /\ \A n \in 1..Len(t) : /\ Len(t[n].st) <= WQ_SIZE /\ Len(t[n].st) <= 4
                                              /\ Len(t[n].ld) <= 4   \* NUM_INSTR_SOURCES

Rob == 0..(ROB_SIZE - 1)
Lq == 0..(LQ_SIZE - 1)
Sq == 0..(SQ_SIZE - 1)
Stage == {"NO", "INFLIGHT", "COMPLETED"}

\* Instruction n, 1 the first: [branch, src, dst, ld, st], where src and ld are
\* the used slots of source_registers and source_memory, dst and st those of
\* destination_registers and destination_memory.  The trace repeats.
InstrAt(n) == trace[((n - 1) % Len(trace)) + 1]

\* An ooo_model_instr when it enters the ROB.  lqi and sqi are lq_index and
\* sq_index with the added flags, got what its loads were given.
NewEntry(n, mis) ==
  LET ins == InstrAt(n) IN
  [id |-> n, mis |-> mis, translated |-> "NO", fetched |-> "NO",
   scheduled |-> "NO", executed |-> "NO", ready |-> FALSE, waits |-> 0,
   regDeps |-> {}, memDeps |-> {}, ops |-> Len(ins.ld) + Len(ins.st),
   lqi |-> [j \in 1..Len(ins.ld) |-> LQ_SIZE],
   sqi |-> [j \in 1..Len(ins.st) |-> SQ_SIZE],
   got |-> [j \in 1..Len(ins.ld) |-> 0]]

FreeSlot ==
  [id |-> 0, mis |-> FALSE, translated |-> "NO", fetched |-> "NO",
   scheduled |-> "NO", executed |-> "NO", ready |-> FALSE, waits |-> 0,
   regDeps |-> {}, memDeps |-> {}, ops |-> 0, lqi |-> <<>>, sqi |-> <<>>,
   got |-> <<>>]

\* An LSQ_ENTRY; producer 0 is UINT64_MAX.
FreeLsq == [id |-> 0, rob |-> 0, slot |-> 0, producer |-> 0,
            translated |-> "NO", fetched |-> "NO"]

Ins(i) == InstrAt(rob[i].id)
IsMemory(i) == Len(Ins(i).ld) + Len(Ins(i).st) > 0
LdAddr(q) == Ins(lq[q].rob).ld[lq[q].slot]
StAddr(s) == Ins(sq[s].rob).st[sq[s].slot]

Next1(i, size) == (i + 1) % size

\* The distance of a ROB index from the head, and the older entries.
Pos(i) == (i + ROB_SIZE - head) % ROB_SIZE
Older(i) == {k \in Rob : rob[k].id # 0 /\ Pos(k) < Pos(i)}

\* The last entry of a set in program order, ROB_SIZE if the set is empty.
Youngest(S) == IF S = {} THEN ROB_SIZE
               ELSE CHOOSE k \in S : \A m \in S : Pos(m) <= Pos(k)

-----------------------------------------------------------------------------
(***************************************************************************)
(* Front end: handle_branch and fetch_instruction.                         *)
(***************************************************************************)

\* main.cc calls handle_branch while the ROB has room and fetch is not stalled.
MayRead == occupancy < ROB_SIZE /\ ~stall.on

\* The stores of instruction n enter the STA.
StaAfter(n) == sta \o [j \in 1..Len(InstrAt(n).st) |-> n]

\* branch_mispredicted: any prediction is possible for a branch.
Mispredicted(n) == IF InstrAt(n).branch THEN BOOLEAN ELSE {FALSE}

\* One instruction of the trace enters at the ROB tail; a mispredicted branch
\* stalls fetch.  The code has this twice, for cloudsuite and for other traces.
HandleBranch ==
  /\ MayRead
  /\ read < MAX_READ
  /\ \E mis \in Mispredicted(read + 1) :
       /\ rob' = [rob EXCEPT ![tail] = NewEntry(read + 1, mis)]
       /\ stall' = [stall EXCEPT !.on = mis]
  /\ sta' = StaAfter(read + 1)
  /\ read' = read + 1
  /\ tail' = Next1(tail, ROB_SIZE)
  /\ occupancy' = occupancy + 1
  /\ UNCHANGED <<arch, head, last_read, last_fetch, next_schedule, lq, sq,
                 sqHead, sqTail, sqOcc, rings, port, inflight>>

\* The penalty of the mispredicted branch is over.
ResumeFetch ==
  /\ stall.on /\ stall.resume
  /\ stall' = [on |-> FALSE, resume |-> FALSE]
  /\ UNCHANGED <<arch, read, rob, head, tail, occupancy, last_read, last_fetch,
                 next_schedule, lsq, rings, port, inflight>>

\* The ITLB is asked in program order.  INFLIGHT marks what the ITLB holds: the
\* code keeps no such mark, and would ask again for an untranslated head once
\* a full ROB has been asked for; a translation is assumed to be faster.
ItlbRead ==
  LET i == Next1(last_read, ROB_SIZE) IN
  /\ rob[i].id # 0 /\ rob[i].translated = "NO"
  /\ rob' = [rob EXCEPT ![i].translated = "INFLIGHT"]
  /\ last_read' = i
  /\ UNCHANGED <<arch, read, head, tail, occupancy, last_fetch, next_schedule,
                 stall, lsq, rings, port, inflight>>

\* The L1I is asked in program order.
L1iFetch ==
  LET i == Next1(last_fetch, ROB_SIZE) IN
  /\ rob[i].translated = "COMPLETED" /\ rob[i].fetched = "NO"
  /\ rob' = [rob EXCEPT ![i].fetched = "INFLIGHT"]
  /\ last_fetch' = i
  /\ UNCHANGED <<arch, read, head, tail, occupancy, last_read, next_schedule,
                 stall, lsq, rings, port, inflight>>

\* complete_instr_fetch, for the packet's own instruction or a merged one.
CompleteInstrFetch(i) ==
  /\ \/ /\ rob[i].translated = "INFLIGHT"
        /\ rob' = [rob EXCEPT ![i].translated = "COMPLETED"]
     \/ /\ rob[i].fetched = "INFLIGHT"
        /\ rob' = [rob EXCEPT ![i].fetched = "COMPLETED"]
  /\ UNCHANGED <<arch, read, head, tail, occupancy, last_read, last_fetch,
                 next_schedule, stall, lsq, rings, port, inflight>>

-----------------------------------------------------------------------------
(***************************************************************************)
(* Scheduling: register dependencies.                                      *)
(***************************************************************************)

AnyProducer(i, j) ==                                                \* mutant
  LET W == {k \in Older(i) : /\ rob[k].executed # "COMPLETED"
                             /\ Ins(i).src[j] \in Ins(k).dst}
  IN IF W = {} THEN ROB_SIZE ELSE Min(W)

\* reg_dependency: slot j of entry i waits for the last older writer of its
\* register that has not executed.
ProducerOf(i, j) ==
  Youngest({k \in Older(i) : /\ rob[k].executed # "COMPLETED"
                             /\ Ins(i).src[j] \in Ins(k).dst})

\* schedule_instruction goes from the head to the end of the array (next_fetch[1]
\* is never assigned), stops at the first entry not fetched, and main.cc calls
\* it only when the entry at next_schedule is unscheduled.
MaySchedule(i) ==
  /\ rob[next_schedule].scheduled = "NO"
  /\ i >= head /\ i - head < SCHEDULER_SIZE
  /\ \A k \in head..i : rob[k].fetched = "COMPLETED"
  /\ \A k \in head..(i - 1) : rob[k].scheduled # "NO"
  /\ rob[i].scheduled = "NO"

\* do_scheduling
Schedule(i) ==
  LET slots == {j \in 1..Len(Ins(i).src) : ProducerOf(i, j) # ROB_SIZE} IN
  /\ MaySchedule(i)
  /\ rob' = [k \in Rob |->
       IF k = i
       THEN [rob[i] EXCEPT !.ready = slots = {}, !.waits = Cardinality(slots),
               !.scheduled = IF IsMemory(i) THEN "INFLIGHT" ELSE "COMPLETED"]
       ELSE [rob[k] EXCEPT !.regDeps =
               @ \cup {<<i, j>> : j \in {x \in slots : ProducerOf(i, x) = k}}]]
  /\ rte1' = IF slots = {} /\ ~IsMemory(i) THEN Append(rte1, i) ELSE rte1
  /\ next_schedule' = Next1(i, ROB_SIZE)
  /\ UNCHANGED <<arch, read, head, tail, occupancy, last_read, last_fetch,
                 stall, lsq, rte0, rtl0, rtl1, rts0, rts1, port, inflight>>

\* execute_instruction, do_execution: the heads of the two rings.
Execute ==
  /\ \/ /\ rte0 # <<>>
        /\ rob' = [rob EXCEPT ![Head(rte0)].executed = "INFLIGHT"]
        /\ rte0' = Tail(rte0) /\ UNCHANGED rte1
     \/ /\ rte1 # <<>>
        /\ rob' = [rob EXCEPT ![Head(rte1)].executed = "INFLIGHT"]
        /\ rte1' = Tail(rte1) /\ UNCHANGED rte0
  /\ inflight' = [inflight EXCEPT !.reg = @ + 1]
  /\ UNCHANGED <<arch, read, head, tail, occupancy, last_read, last_fetch,
                 next_schedule, stall, lsq, rtl0, rtl1, rts0, rts1, port>>

-----------------------------------------------------------------------------
(***************************************************************************)
(* Memory instructions: schedule_memory_instruction and the LSQ.           *)
(***************************************************************************)

\* Its scan is from the head to next_schedule, around the end of the array.
InScan(i) ==
  IF head < next_schedule THEN i \in head..(next_schedule - 1)
  ELSE i >= head \/ i < next_schedule

MemReady(i) == InScan(i) /\ rob[i].ready /\ rob[i].scheduled = "INFLIGHT"
                         /\ IsMemory(i)

\* check_and_add_lsq: a load needs a free LQ entry, a store a free SQ entry and
\* its turn in the STA.
LoadFitsAgain(i, j) == \E q \in Lq : lq[q].id = 0                    \* mutant
LoadFits(i, j) == rob[i].lqi[j] = LQ_SIZE /\ \E q \in Lq : lq[q].id = 0
StoreAnyOrder(i, j) == rob[i].sqi[j] = SQ_SIZE /\ sqOcc < SQ_SIZE    \* mutant
StoreFits(i, j) ==
  /\ rob[i].sqi[j] = SQ_SIZE
  /\ sqOcc < SQ_SIZE
  /\ sta # <<>> /\ Head(sta) = rob[i].id

Fits(i) == \/ \E j \in 1..Len(rob[i].lqi) : LoadFits(i, j)
           \/ \E j \in 1..Len(rob[i].sqi) : StoreFits(i, j)

\* The scan reaches an entry after the older ones took what they can.
Turn(i) == MemReady(i) /\ \A k \in Older(i) : MemReady(k) => ~Fits(k)

\* do_memory_scheduling: entry e is done with when all its operations are added.
Added(e) ==
  IF (\A j \in 1..Len(e.lqi) : e.lqi[j] # LQ_SIZE)
     /\ (\A j \in 1..Len(e.sqi) : e.sqi[j] # SQ_SIZE)
  THEN [e EXCEPT !.scheduled = "COMPLETED",
                 !.executed = IF @ = "NO" THEN "INFLIGHT" ELSE @]
  ELSE e

\* mem_RAW_dependency: the last older instruction that stores to address a.
StoreBefore(i, a) ==
  Youngest({k \in Older(i) : \E j \in 1..Len(Ins(k).st) : Ins(k).st[j] = a})

\* The SQ entries that hold the store of producer p to address a.
AnyStore(p, a) ==                                                   \* mutant
  {s \in Sq : sq[s].id # 0 /\ p # ROB_SIZE /\ StAddr(s) = a}
Forwarders(p, a) ==
  {s \in Sq : sq[s].id # 0 /\ p # ROB_SIZE /\ sq[s].id = rob[p].id /\ StAddr(s) = a}

\* add_load_queue: the load takes the first free entry.  If an older store to its
\* address is in the ROB it is given that store's data, now if the store has
\* executed (the entry is released at once) or by execute_store; if not, it
\* goes to the DTLB.  A younger store already in SQ does not matter (WAR).
AddLoad(i, j) ==
  LET a == Ins(i).ld[j]
      q == Min({x \in Lq : lq[x].id = 0})
      p == StoreBefore(i, a)
      f == Forwarders(p, a)
      now == f # {} /\ sq[Min(f)].fetched = "COMPLETED"
      e == [rob[i] EXCEPT !.lqi[j] = q, !.ops = IF now THEN @ - 1 ELSE @,
                          !.got[j] = IF now THEN sq[Min(f)].id ELSE @]
  IN
  /\ Turn(i)
  /\ LoadFits(i, j)
  /\ rob' = [k \in Rob |->
       IF k = i THEN Added(e)
       ELSE IF k = p THEN [rob[k] EXCEPT !.memDeps = @ \cup {i}] ELSE rob[k]]
  /\ lq' = IF now THEN lq
           ELSE [lq EXCEPT ![q] =
             [id |-> rob[i].id, rob |-> i, slot |-> j,
              producer |-> IF p = ROB_SIZE THEN 0 ELSE rob[p].id,
              translated |-> IF p = ROB_SIZE THEN "NO" ELSE "INFLIGHT",
              fetched |-> "NO"]]
  /\ rtl0' = IF p = ROB_SIZE THEN Append(rtl0, q) ELSE rtl0
  /\ inflight' = [inflight EXCEPT !.mem = IF now /\ e.ops = 0 THEN @ + 1 ELSE @]
  /\ UNCHANGED <<arch, read, head, tail, occupancy, last_read, last_fetch,
                 next_schedule, stall, sq, sqHead, sqTail, sqOcc, sta, rte0,
                 rte1, rtl1, rts0, rts1, port>>

\* add_store_queue: the store takes the SQ tail and leaves the STA.
AddStore(i, j) ==
  /\ Turn(i)
  /\ \A x \in 1..Len(rob[i].lqi) : ~LoadFits(i, x)
  /\ \A x \in 1..(j - 1) : rob[i].sqi[x] # SQ_SIZE
  /\ StoreFits(i, j)
  /\ rob' = [rob EXCEPT ![i] = Added([rob[i] EXCEPT !.sqi[j] = sqTail])]
  /\ sq' = [sq EXCEPT ![sqTail] =
       [FreeLsq EXCEPT !.id = rob[i].id, !.rob = i, !.slot = j]]
  /\ sqTail' = Next1(sqTail, SQ_SIZE)
  /\ sqOcc' = sqOcc + 1
  /\ sta' = Tail(sta)
  /\ rts0' = Append(rts0, sqTail)
  /\ UNCHANGED <<arch, read, head, tail, occupancy, last_read, last_fetch,
                 next_schedule, stall, lq, sqHead, rte0, rte1, rtl0, rtl1,
                 rts1, port, inflight>>

\* operate_lsq sends the heads of RTS0 and RTL0 to the DTLB.
DtlbStore ==
  /\ rts0 # <<>>
  /\ sq' = [sq EXCEPT ![Head(rts0)].translated = "INFLIGHT"]
  /\ dtlb' = dtlb \cup {<<"store", Head(rts0)>>}
  /\ rts0' = Tail(rts0)
  /\ UNCHANGED <<arch, buffer, lq, sqHead, sqTail, sqOcc, sta, rte0, rte1,
                 rtl0, rtl1, rts1, l1d, wq, inflight>>

DtlbLoad ==
  /\ rtl0 # <<>>
  /\ lq' = [lq EXCEPT ![Head(rtl0)].translated = "INFLIGHT"]
  /\ dtlb' = dtlb \cup {<<"load", Head(rtl0)>>}
  /\ rtl0' = Tail(rtl0)
  /\ UNCHANGED <<arch, buffer, sq, sqHead, sqTail, sqOcc, sta, rte0, rte1,
                 rtl1, rts0, rts1, l1d, wq, inflight>>

\* complete_data_fetch of a DTLB packet and handle_merged_translation.
StoreTranslated(s) ==
  /\ <<"store", s>> \in dtlb
  /\ dtlb' = dtlb \ {<<"store", s>>}
  /\ sq' = [sq EXCEPT ![s].translated = "COMPLETED"]
  /\ rts1' = Append(rts1, s)
  /\ UNCHANGED <<arch, buffer, lq, sqHead, sqTail, sqOcc, sta, rte0, rte1,
                 rtl0, rtl1, rts0, l1d, wq, inflight>>

LoadTranslated(q) ==
  /\ <<"load", q>> \in dtlb
  /\ dtlb' = dtlb \ {<<"load", q>>}
  /\ lq' = [lq EXCEPT ![q].translated = "COMPLETED"]
  /\ rtl1' = Append(rtl1, q)
  /\ UNCHANGED <<arch, buffer, sq, sqHead, sqTail, sqOcc, sta, rte0, rte1,
                 rtl0, rts0, rts1, l1d, wq, inflight>>

\* The loads a store that executes gives its data to, as <<ROB index, slot>>:
\* those of its dependents that are in LQ and have its address.
ForwardAll(s) ==                                                    \* mutant
  {d \in rob[sq[s].rob].memDeps \X (1..4) :
     /\ d[2] <= Len(rob[d[1]].lqi)
     /\ rob[d[1]].lqi[d[2]] # LQ_SIZE}
Forwards(s) ==
  {d \in rob[sq[s].rob].memDeps \X (1..4) :
     /\ d[2] <= Len(rob[d[1]].lqi)
     /\ rob[d[1]].lqi[d[2]] # LQ_SIZE
     /\ Ins(d[1]).ld[d[2]] = StAddr(s)}

\* execute_store of the head of RTS1: the store has executed, its dependent
\* loads are forwarded and released.
ExecuteStore ==
  LET s == Head(rts1)
      F == Forwards(s)
      left(k) == rob[k].ops - (IF k = sq[s].rob THEN 1 ELSE 0)
                            - Cardinality({d \in F : d[1] = k})
  IN
  /\ rts1 # <<>>
  /\ sq' = [sq EXCEPT ![s].fetched = "COMPLETED"]
  /\ rob' = [k \in Rob |-> [rob[k] EXCEPT !.ops = left(k),
               !.got = [j \in DOMAIN @ |-> IF <<k, j>> \in F THEN sq[s].id ELSE @[j]]]]
  /\ lq' = [q \in Lq |-> IF \E d \in F : rob[d[1]].lqi[d[2]] = q
                         THEN FreeLsq ELSE lq[q]]
  /\ inflight' = [inflight EXCEPT !.mem =
       @ + Cardinality({k \in Rob : rob[k].ops > 0 /\ left(k) = 0})]
  /\ rts1' = Tail(rts1)
  /\ UNCHANGED <<arch, read, head, tail, occupancy, last_read, last_fetch,
                 next_schedule, stall, sqHead, sqTail, sqOcc, sta, rte0, rte1,
                 rtl0, rtl1, rts0, port>>

\* execute_load of the head of RTL1
ExecuteLoad ==
  /\ rtl1 # <<>>
  /\ lq' = [lq EXCEPT ![Head(rtl1)].fetched = "INFLIGHT"]
  /\ l1d' = l1d \cup {Head(rtl1)}
  /\ rtl1' = Tail(rtl1)
  /\ UNCHANGED <<arch, buffer, sq, sqHead, sqTail, sqOcc, sta, rte0, rte1,
                 rtl0, rts0, rts1, dtlb, wq, inflight>>

\* complete_data_fetch of an L1D packet and handle_merged_load: the load sees
\* the stores that have retired, and its LQ entry is released.
LoadReturned(q) ==
  LET i == lq[q].rob IN
  /\ q \in l1d
  /\ l1d' = l1d \ {q}
  /\ rob' = [rob EXCEPT ![i].ops = @ - 1, ![i].got[lq[q].slot] = mem[LdAddr(q)]]
  /\ inflight' = [inflight EXCEPT !.mem = IF rob[i].ops = 1 THEN @ + 1 ELSE @]
  /\ lq' = [lq EXCEPT ![q] = FreeLsq]
  /\ UNCHANGED <<arch, read, head, tail, occupancy, last_read, last_fetch,
                 next_schedule, stall, sq, sqHead, sqTail, sqOcc, sta, rings,
                 dtlb, wq>>

-----------------------------------------------------------------------------
(***************************************************************************)
(* Completion and retirement: update_rob and retire_rob.                   *)
(***************************************************************************)

\* reg_RAW_release: the dependents of entry i whose last producer it is.
WokenOnce(i) ==                                                     \* mutant
  {k \in Rob : (\E j \in 1..4 : <<k, j>> \in rob[i].regDeps) /\ rob[k].waits = 1}
Woken(i) ==
  {k \in Rob : LET n == Cardinality({d \in rob[i].regDeps : d[1] = k})
               IN n > 0 /\ rob[k].waits = n}

\* The one order of a set of indices in which they rise.
Ascending(S) ==
  {q \in Surjection(1..Cardinality(S), S) : \A m, n \in DOMAIN q : m < n => q[m] < q[n]}

\* complete_execution: the dependents that now have all their operands become
\* ready, in the order of their ROB index; a mispredicted branch lets fetch go on.
CompleteExecution(i) ==
  LET freed(k) == Cardinality({d \in rob[i].regDeps : d[1] = k}) IN
  /\ inflight.reg > 0 \/ inflight.mem > 0
  /\ rob[i].executed = "INFLIGHT"
  /\ IsMemory(i) => rob[i].ops = 0
  /\ rob' = [k \in Rob |->
       IF k = i THEN [rob[i] EXCEPT !.executed = "COMPLETED"]
       ELSE [rob[k] EXCEPT !.waits = @ - freed(k), !.ready = @ \/ k \in Woken(i)]]
  /\ \E woken \in Ascending({k \in Woken(i) : ~IsMemory(k)}) : rte0' = rte0 \o woken
  /\ stall' = [stall EXCEPT !.resume = @ \/ rob[i].mis]
  /\ inflight' = IF IsMemory(i) THEN [inflight EXCEPT !.mem = @ - 1]
                 ELSE [inflight EXCEPT !.reg = @ - 1]
  /\ UNCHANGED <<arch, read, head, tail, occupancy, last_read, last_fetch,
                 next_schedule, lsq, rte1, rtl0, rtl1, rts0, rts1, port>>

\* retire_rob: the head leaves when it has executed and the L1D write queue has
\* room for its stores, which are now performed in memory order.
Retire ==
  LET e == rob[head]
      stores == ToSet(Ins(head).st)
  IN
  /\ e.id # 0
  /\ e.executed = "COMPLETED"
  /\ Cardinality(wq) + Len(e.sqi) <= WQ_SIZE \/ e.sqi = <<>>
  /\ wq' = wq \cup stores
  /\ sq' = [s \in Sq |-> IF s \in ToSet(e.sqi) THEN FreeLsq ELSE sq[s]]
  /\ sqHead' = (sqHead + Len(e.sqi)) % SQ_SIZE
  /\ sqOcc' = sqOcc - Len(e.sqi)
  /\ rob' = [rob EXCEPT ![head] = FreeSlot]
  /\ head' = Next1(head, ROB_SIZE)
  /\ occupancy' = occupancy - 1
  /\ retired' = retired + 1
  /\ mem' = [a \in Addr |-> IF a \in stores THEN e.id ELSE mem[a]]
  /\ seen' = e.got
  /\ UNCHANGED <<trace, read, tail, last_read, last_fetch, next_schedule, stall,
                 lq, sqTail, sta, rings, dtlb, l1d, inflight>>

\* The L1D takes a store from its write queue.
L1dWrite(a) ==
  /\ a \in wq
  /\ wq' = wq \ {a}
  /\ UNCHANGED <<arch, buffer, lsq, rings, dtlb, l1d, inflight>>

-----------------------------------------------------------------------------
Init ==
  /\ trace \in Traces
  /\ retired = 0 /\ mem = [a \in Addr |-> 0] /\ seen = <<>>
  /\ read = 0 /\ rob = [i \in Rob |-> FreeSlot]
  /\ head = 0 /\ tail = 0 /\ occupancy = 0
  /\ last_read = ROB_SIZE - 1 /\ last_fetch = ROB_SIZE - 1 /\ next_schedule = 0
  /\ stall = [on |-> FALSE, resume |-> FALSE]
  /\ lq = [q \in Lq |-> FreeLsq] /\ sq = [s \in Sq |-> FreeLsq]
  /\ sqHead = 0 /\ sqTail = 0 /\ sqOcc = 0 /\ sta = <<>>
  /\ rte0 = <<>> /\ rte1 = <<>> /\ rtl0 = <<>> /\ rtl1 = <<>>
  /\ rts0 = <<>> /\ rts1 = <<>>
  /\ dtlb = {} /\ l1d = {} /\ wq = {}
  /\ inflight = [reg |-> 0, mem |-> 0]

\* operate_lsq
OperateLsq == DtlbStore \/ DtlbLoad \/ ExecuteStore \/ ExecuteLoad

\* check_and_add_lsq for the slots of an instruction
CheckAndAddLsq(i) ==
  \/ \E j \in 1..Len(rob[i].lqi) : AddLoad(i, j)
  \/ \E j \in 1..Len(rob[i].sqi) : AddStore(i, j)

\* complete_data_fetch: a packet of the DTLB or the L1D
CompleteDataFetch ==
  \/ \E s \in Sq : StoreTranslated(s)
  \/ \E q \in Lq : LoadTranslated(q) \/ LoadReturned(q)

\* update_rob
UpdateRob ==
  \/ CompleteDataFetch
  \/ \E i \in Rob : \/ CompleteInstrFetch(i)
                    \/ rob[i].id # 0 /\ CompleteExecution(i)

\* What main.cc calls each cycle, and the L1D.  The simulation ends when MAX_READ
\* instructions have retired.
Next ==
  \/ HandleBranch
  \/ ResumeFetch \/ ItlbRead \/ L1iFetch
  \/ \E i \in Rob : Schedule(i)
  \/ Execute
  \/ \E i \in Rob : CheckAndAddLsq(i)
  \/ OperateLsq
  \/ UpdateRob
  \/ Retire
  \/ \E a \in Addr : L1dWrite(a)

Spec == Init /\ [][Next]_vars

\* Every cycle runs every part of the core, and the caches answer (RequestServed
\* of CacheHierarchy): some step that can be taken is taken.
FairSpec == Spec /\ WF_vars(Next)

-----------------------------------------------------------------------------
(***************************************************************************)
(* The core implements the in-order machine: instructions retire in the    *)
(* order of the trace and every load, forwarded or not, was given the last *)
(* store to its address before it in program order.                        *)
(***************************************************************************)
Arch == INSTANCE InOrder
InOrderSpec == Arch!Spec

\* Everything read retires (the deadlock check of main.cc stays quiet), also
\* behind a mispredicted branch, which turns fetch on again.
AllRetire == <>(retired = MAX_READ)

(***************************************************************************)
(* No instruction starts before its operands exist: when one executes, or  *)
(* has an operation in LQ or SQ, the last older writer of each of its      *)
(* source registers has executed.                                          *)
(***************************************************************************)
Started(i) ==
  \/ rob[i].executed # "NO"
  \/ \E j \in 1..Len(rob[i].lqi) : rob[i].lqi[j] # LQ_SIZE
  \/ \E j \in 1..Len(rob[i].sqi) : rob[i].sqi[j] # SQ_SIZE

Dataflow ==
  \A i \in Rob : rob[i].id # 0 /\ Started(i) =>
    \A j \in 1..Len(Ins(i).src) :
      LET w == Youngest({k \in Older(i) : Ins(i).src[j] \in Ins(k).dst})
      IN w = ROB_SIZE \/ rob[w].executed = "COMPLETED"

Times(seq, x) == Cardinality({n \in 1..Len(seq) : seq[n] = x})
One(b) == IF b THEN 1 ELSE 0

(***************************************************************************)
(* SQ and STA together hold the stores that have not retired, each once    *)
(* and in program order: SQ is released from its head, add_store_queue     *)
(* finds its tail free, and the STA never wraps onto itself.               *)
(***************************************************************************)
InSq == [n \in 1..sqOcc |-> sq[(sqHead + n - 1) % SQ_SIZE].id]
Unretired == InSq \o sta

StoresInOrder ==
  /\ \A m, n \in 1..Len(Unretired) : m < n => Unretired[m] <= Unretired[n]
  /\ \A n \in 1..Len(Unretired) : Unretired[n] \in (retired + 1)..read
  /\ \A n \in (retired + 1)..read : Times(Unretired, n) = Len(InstrAt(n).st)
  /\ \A s \in Sq : sq[s].id # 0 => \E n \in 1..sqOcc : s = (sqHead + n - 1) % SQ_SIZE
  /\ Len(sta) <= STA_SIZE
  /\ sqTail = (sqHead + sqOcc) % SQ_SIZE

(***************************************************************************)
(* Every LQ and SQ entry is in exactly one place on its way, and no place  *)
(* holds an index that was released: a load is in RTL0, at the DTLB, in    *)
(* RTL1 or at the L1D, or it waits for a store of the ROB that has not     *)
(* executed and knows of it.  So no ring holds more indices than it has    *)
(* room for, which the code does not check.                                *)
(***************************************************************************)
LoadPlaces(q) == Times(rtl0, q) + One(<<"load", q>> \in dtlb) + Times(rtl1, q)
                 + One(q \in l1d)
StorePlaces(s) == Times(rts0, s) + One(<<"store", s>> \in dtlb) + Times(rts1, s)
                  + One(sq[s].fetched = "COMPLETED")

WaitsForStore(q) ==
  \E k \in Older(lq[q].rob) :
    /\ rob[k].id = lq[q].producer
    /\ lq[q].rob \in rob[k].memDeps
    /\ \A s \in Sq : sq[s].id = rob[k].id /\ StAddr(s) = LdAddr(q)
                     => sq[s].fetched # "COMPLETED"

EntriesTracked ==
  /\ \A q \in Lq :
       /\ lq[q].id = 0 => LoadPlaces(q) = 0
       /\ lq[q].id # 0 =>
            /\ rob[lq[q].rob].id = lq[q].id /\ rob[lq[q].rob].lqi[lq[q].slot] = q
            /\ IF lq[q].producer = 0 THEN LoadPlaces(q) = 1
               ELSE LoadPlaces(q) = 0 /\ WaitsForStore(q)
  /\ \A s \in Sq : StorePlaces(s) = One(sq[s].id # 0)
  /\ \A i \in Rob : Times(rte0, i) + Times(rte1, i) =
       One(rob[i].id # 0 /\ rob[i].ready /\ ~IsMemory(i) /\ rob[i].executed = "NO")

(***************************************************************************)
(* execute_store only forwards to loads that wait for this store (the      *)
(* assert "does not match to the store instr_id"): the LQ entry it finds   *)
(* through a dependent's lq_index is that load's and names this producer.  *)
(***************************************************************************)
ForwardsMatch ==
  \A s \in ToSet(rts1) : \A d \in Forwards(s) :
    LET q == rob[d[1]].lqi[d[2]] IN
    lq[q].id = rob[d[1]].id /\ lq[q].producer = sq[s].id

(***************************************************************************)
(* No load, store or instruction is lost or taken for another on its way   *)
(* through the queues, forwarding included.                                *)
(***************************************************************************)
EntriesExact == EntriesTracked /\ ForwardsMatch

(***************************************************************************)
(* The traces on which execute_store forwards to the right loads: an       *)
(* instruction stores once to an address (champsim_tracer.cpp drops a      *)
(* second time), and when the last store before it to one of its load      *)
(* addresses is of an instruction that also stores to another of them, it  *)
(* is the last store to that one as well.  Run CoreTwoStores shows a trace *)
(* that is not regular.                                                    *)
(***************************************************************************)
Regular(t) ==
  LET at(n) == t[((n - 1) % Len(t)) + 1]
      stores(m, a) == \E x \in 1..Len(at(m).st) : at(m).st[x] = a
      last(m, n, a) == stores(m, a) /\ \A x \in (m + 1)..(n - 1) : ~stores(x, a)
  IN \A n \in 1..MAX_READ :
       /\ \A i, j \in 1..Len(at(n).st) : at(n).st[i] = at(n).st[j] => i = j
       /\ \A i, j \in 1..Len(at(n).ld) : \A m \in 1..(n - 1) :
            last(m, n, at(n).ld[i]) /\ stores(m, at(n).ld[j]) => last(m, n, at(n).ld[j])
RegularTraces == \A t \in Traces : Regular(t)
=============================================================================
