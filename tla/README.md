# Verification of arishem

arishem is a trace-driven, cycle-level simulator of a multi-core processor
(ChampSim with the Pythia prefetcher) and the PIN tools that record its traces.
This directory holds TLA+ models of the parts of it whose correctness is hard to
see from tests, TLC configurations that check them on small instances, and
TLAPS proofs of the results that matter most for every size. `PROJECT.json` maps
every definition to the source lines it models. Paths below are relative to the
repository.

## 1. Inventory

| Part | Source | State it keeps | Operations |
|---|---|---|---|
| Cache hierarchy | `src/cache.cc`, `inc/cache.h`, `src/block.cc`, `inc/block.h` | per cache: read, write and prefetch queue, MSHRs, blocks, PROCESSED | `add_rq/wq/pq`, `return_data`, `handle_fill/writeback/read/prefetch`, `prefetch_line`, `invalidate_entry` |
| DRAM controller | `src/dram_controller.cc` | read and write queue slots, bank requests, write mode, scheduled counters, watermarks | `operate`, `schedule`, `process`, `reset_remain_requests`, `add_rq/wq` |
| Virtual memory | `src/main.cc` (`va_to_pa`) | page table, inverse table, page allocator | translate, allocate, swap out |
| LRU replacement | `replacement/base_replacement.cc`, `replacement/lru.llc_repl` | LRU position of every block | find victim, update |
| Pythia (Scooby) | `prefetcher/scooby*.cc` | signature table, prefetch tracker, last evicted entry | invoke, reward, train, track, register fill |
| Learning engines | `src/learning_engine*.cc`, `src/feature_knowledge.cc` | Q-tables, exploration | choose action, learn |
| Out-of-order core | `src/ooo_cpu.cc` | ROB, LQ, SQ, RTL0/1, RTS0/1, RTE0/1, STA, register dependences | fetch, schedule, execute, forward, complete, retire |
| Main loop | `src/main.cc` | warm-up and simulation flags, stall cycles | per-cycle order of the calls, warm-up end, deadlock check |
| Trace reader | `src/trace_reader.cc` | compressed and decoded buffers, end flags | read, refill, rewind |
| RRIP replacement | `replacement/{srrip,drrip,ship}.llc_repl` | RRPVs, PSEL, SHCT, samplers | find victim, update |
| Branch predictors | `branch/*` | tables, histories | predict, update |
| Other prefetchers | `prefetcher/*` | tables of each proposal | operate, fill |
| PIN tracers | `tracer/*` | per-thread phase, quota and file; ROI flags; counters of threads started and done | marker handling, ROI switching, sampling, exit |
| Trace cutter | `tracer/trace_cutter/trace_cutter.cpp` | decoder, bytes of an incomplete record, open chunk | decode, emit records, close |
| Knobs, ini, statistics, scripts | `src/knobs.cc`, `src/ini.cc`, `src/util.cc`, `scripts/*` | option values | parse, print |

**How they interact.** The simulator is one thread: `main` calls each core and
each cache once per cycle, but the calls act on shared queues, so what the parts
see of each other is as asynchronous as messages. A cache calls `add_rq`,
`add_wq` or `add_pq` of the level below and, when the data is there,
`return_data` of the level above. A request is found again only by its address
and by flags of the packet (`instruction`, `fill_level`, `cpu`) and by the
dependence lists merged into it. The STLB's misses call `va_to_pa`, which may
swap a page out and then reaches into the TLBs and caches of a core. The L2C
calls Pythia on each demand and on each fill; Pythia calls `prefetch_line`.
The core asks the TLBs and first-level caches and reads its instructions through
the trace reader. The PIN tracers are multi-threaded programs of their own; the
files they write pass through the trace cutter to the reader.

**What is hard.** Requests for one line meet at every level: in a queue, in an
MSHR that is in flight or has returned, in a write queue. Every such merge keeps
one record for several waiters. Return values of the `add_*` calls are mostly
ignored, so queue sizes have to fit each other. The DRAM controller takes
requests back from its banks when it changes between reads and writes, and keeps
counters and cached indices that must follow. Pythia trains an action only when
the one after it leaves a queue, and frees it later still.

**What correctness means** for each part:

- caches: a miss in flight is held below exactly once; every waiting load and
  fetch is recorded in exactly one place and is served; a store is not lost;
  queues keep to their sizes;
- DRAM: banks, scheduled entries and counters agree; every read is answered once;
  queues drain;
- virtual memory: the two tables are inverse; frames are counted; TLBs agree with
  the page table;
- LRU: the positions are a permutation, the victim is the block used longest ago;
- Pythia: no State is used after it was deleted, the training calls follow the
  sequence of actions, the reward is the one the prefetch deserved;
- core: program order is kept at retirement, a load gets the youngest older
  store's data, rings never overrun, the head of the ROB completes;
- trace reader: every record is delivered once and in order, also across a
  rewind; a read ends;
- main loop: every core has one turn per cycle, the warm-up and the region of
  interest end once, the statistics of a core are those of its own instructions,
  the simulation ends and no live core is taken for a dead one;
- RRIP: the victim loop ends, a line that was reused outlives the ones that were
  not, the sampler learns from the set's own lines;
- learning: Q-values stay bounded, an action that every feature prefers is chosen;
- SMS, POWER7, sandbox, best-offset: no table loses or doubles an entry, patterns
  and scores are those that the accesses earned, the configuration that was
  fastest is the one kept;
- tracer: the counter of tracing threads is exact, no instruction of a sample
  escapes, a sample has its quota, a record says what the instruction did, the
  program ends only when every traced thread is done;
- trace cutter: the chunks hold the records of the input, all of them, in order.

`PROJECT.json` lists the places where each of these can go wrong ("hazards").

## 2. Modules

| Module | Models | Checked by | Proved in |
|---|---|---|---|
| `CacheHierarchy` | the class CACHE: a tree of caches with queues, MSHRs and blocks | `StoreKept`, `CacheLive`, `Units`, `CacheSharedLine`, `StoreMergedWithLoad` | `CacheHierarchyProofs`, `CacheMissProofs` |
| `MemoryPort` | abstract: what the LLC may expect of memory | `Parts` | |
| `DramController` | MEMORY_CONTROLLER, one channel | `Parts` | `DramProofs` |
| `InOrder` | abstract: a core that runs the trace instruction by instruction | `Core` | |
| `OooCore` | O3_CPU: ROB, load and store queues, forwarding, retirement | `Core`, `CoreDeadlock`, `CoreTwoStores` | `CoreProofs` |
| `MainLoop` | the loop of `main`: turns, warm-up, region of interest, end, deadlock check | `Units` | `LoopProofs` |
| `VirtualMemory` | `va_to_pa` and the contents of the TLBs | `Policies`, `VmStaleWalk` | `PolicyProofs` |
| `RecencyOrder` | abstract: a set that evicts by order of use | `Policies` | |
| `LruReplacement` | `lru_victim`, `lru_update` on one set | `Policies` | `PolicyProofs` |
| `Rrip` | SRRIP, DRRIP and SHiP on one set | `Policies` | `PolicyProofs` |
| `Scooby` | Pythia's tracker, rewards, training order, signature table | `Policies` | `ScoobyProofs` |
| `Learning` | Pythia's featurewise learning engine | `Policies` | `ScoobyProofs` |
| `Sms`, `Power7` | the prefetchers of these names (`Power7` with streamer and stride) | `Policies` | `PolicyProofs` |
| `Bop` | the prefetcher of this name | `Policies` | `ScoobyProofs` |
| `Sandbox` | the sandbox prefetcher | `Units` | `LoopProofs` |
| `Tracer` | the threads of `champsim_tracer_mt_roi_v3.cpp` and PIN's code cache | `Parts`, `TracerExit` | `TracerProofs` |
| `TraceRecord` | how the callbacks around an instruction fill its record | `Parts` | `TracerProofs` |
| `Codec` | external: zlib, liblzma and libzstd as their callers see them | `Parts` | `TracerProofs` |
| `TraceReader`, `TraceCutter` | the programs that read traces | `Parts` | `TracerProofs` |
| `MC*` | the instances of the runs | | |

Operators marked "mutant" in the modules are deliberately faulty variants of the
definition that follows them: `PROJECT.json` names, for each property, one that
breaks it. No specification uses them.

### Cache hierarchy

One element of `Cache` is one CACHE object; `Lower`, `Dcache`, `Level` and the
sizes describe the wiring of `main.cc`. `rq`, `wq`, `pq`, `mshr` and `block` are
the members of the class. A packet keeps its line, its type, its `fill_level`,
the upper cache its flags lead to (`via`) and the core requests that wait for it
(`who`: its own indices and `rob/lq/sq_index_depend_on_me`). `dramRQ` and
`dramWQ` are the memory below the LLC as `MemoryPort` describes it; `pend` is the
core's side, the line each load or fetch waits for.

Each branch of a handler is an action: `HandleFill`, `BypassFill`,
`WritebackHit`, `WritebackFill`, `RfoMiss`, `ReadHit`, `ReadMiss`, `PrefetchHit`,
`PrefetchMiss`, `PrefetchMerge`; the callers are `CoreRead`, `CoreStore`,
`PrefetchLine`, `DramRead`, `DramWrite` and `SwapOut`. An action contains every
call the branch makes on neighbouring caches: passing a packet down, merging it
there, returning data up, writing a victim back. `event_cycle` and `LATENCY` are
abstracted to free delays, the victim is any way. A full MSHR, a full queue below
or a full write queue leaves the action disabled, as the code leaves the packet
where it is and tries again. `StoreKept` compares two successive states: a line
whose store the L1D performs in this step, or that was dirty in a block, a write queue
below the L1D or an RFO's MSHR before it, is so after it too or leaves for DRAM.

### DRAM controller

`entry[q][i]` is the address in slot `i` of queue `q`, 0 when free, as in the
code; `scheduled`, `request_index`, `working`, `is_write`, `is_read`, `open_row`
are the fields of the same names; `next_schedule` and `next_process` the cached
indices; `waiting` the lines the LLC has in flight. The actions are
`EnterWriteMode` and `LeaveWriteMode` (with `reset_remain_requests`), `schedule`
(row hits first), `process`, `add_rq` (merge, forward from the write queue, or
insert), `add_wq` and the end of the warm-up, before which writes are dropped.
Cycle counts are free; which of several entries has the smallest `event_cycle`
is a choice.

### Out-of-order core

`rob` is the ring of the ROB with its head, tail and occupancy, `lq` and `sq` the
queues, `sta` the stores that have not entered `sq`, `rte*`, `rtl*` and `rts*` the
rings of ready instructions, loads and stores, `dtlb`, `l1d` and `wq` the requests
that are out. One iteration of a loop of `O3_CPU` is a step: `HandleBranch` reads
an instruction and stops behind a branch that is predicted wrongly,
`ResumeFetch`, `ItlbRead` and `L1iFetch` bring it in, `Schedule` finds its
producers, `Execute` runs one from RTE0/1, `CheckAndAddLsq` gives its operations
their entries (`AddLoad` with the search for older stores, `AddStore` in the
order of the STA), `DtlbStore`, `DtlbLoad`, `ExecuteStore` (with the forwarding
to waiting loads) and `ExecuteLoad` drive the queues, `UpdateRob` completes and
wakes dependents, `Retire` retires with the stores to the L1D. The caches answer
each request once, in any order, at any time. The abstract `InOrder` runs the
trace one instruction at a time; data is the number of the store that wrote it,
so `InOrderSpec` says both that instructions retire in order and that each load
was given the youngest older store to its address.

### Main loop

`Turn(i)` is core `i`'s part of a cycle: the stall of a page fault, retirement,
the end of its warm-up and its simulation, the deadlock check; `Uncore` closes
the cycle. The order of the cores is that of `get_next_cpu`, which draws until it
finds a core that has not had its turn. A core is abstract: in a turn it waits for
its oldest instruction (`Waits`), retires up to RETIRE_WIDTH instructions and perhaps
empties its ROB (`Retires`), or fills the empty ROB (`Refills`), which after a
mispredicted branch takes until `fetch_resume_cycle` (`src/ooo_cpu.cc:494`); it
accesses caches and may fault. `head_ip` says whether `ROB.entry[ROB.head].ip` is set:
the deadlock check passes over an empty ROB. `tried` is a history variable, the turns
a core has run in since its oldest instruction became that.

### Virtual memory

`page_table`, `inverse_table`, `allocated_pages`, `previous_ppage` and
`num_adjacent_page` are the variables of `main.cc`. `va_to_pa` translates,
allocates (the next page of a run, or a random free one) or swaps out the first
page of the map: `recent_page`, which should protect pages, is never filled.
`walked` and `held` are the translations on their way to a TLB and in one;
`TlbFill`, `TlbHit` and `TlbEvict` move them.

### Replacement: LRU and RRIP

`LruReplacement`: `lru` and `valid` of one set. `LruFill` takes an invalid way or
the one in the last position and updates, `LruHit` updates, and an invalidation
clears `valid` only. `RecencyOrder` keeps the order of use as a relation.

`Rrip`: `rrpv` and the lines of one set of the LLC, with the set's sampler, `SHCT`,
`PSEL` and `bip_counter`. `policy` and `role` (leader, follower, sampled set) are
fixed at the start. `LlcHit` and `LlcFill` are `llc_update_replacement_state`, the
latter after `llc_find_victim`; `LlcStall` is a fill put off because the write
queue below is full, which has aged the set all the same; `OtherSet` is what other
sets do to the shared counters. `behind` and `recent` are history.

### Pythia and its learning engine

`Scooby`: `prefetch_tracker` is the deque of Scooby_PTEntry with line, State,
reward and fill flag; `last_evicted_tracker` the entry that waits to be trained;
`made`, `freed` and `learned` are history: States created, deleted, and the latest
call of `learn`. `invoke_prefetcher` is one demand with its reward, the update of
the signature table, the agent's action and the tracking of it, up to training and
deletion; `register_fill` the fill of a line. The agent may choose any action.
`insert_action_tracker` reads through an iterator that `erase` has invalidated;
`ReadErased` is what libstdc++'s deque then shows.

`Learning`: per feature a table of Q-values over tiles, with the weights and the
decisions that wait for a reward. `chooseAction` pools the values, falls back or
explores (a free choice); `learn` is the SARSA update in fixed point, with
selective update and the change of weights under the knobs of `EngineKnobs`.

### Other prefetchers

`Sms`: filter table, accumulation table, pattern history table and prefetch
buffer, with ages as in the code. An access is `Accumulate` (the region is being
accumulated), `Promote` (its second offset) or `Begin` (a new generation, with the
prefetch of the pattern found). `Power7`: `Invoke` is one access with the step of
the configuration's epoch (`TryNext`, the end of exploring, the end of exploiting,
`Within`), then the streamer and the stride prefetcher with the degrees the
configuration has assigned. `Sandbox`: one access tests the filter, adds the line
the offset under test would have prefetched, and ends phases and rounds. `Bop`:
`BopAccess` tests a candidate and ends phases, `BopFill` enters a recent request.

### Tracer, cutter and reader

`Tracer`: each thread has its phase, quota and sample file (`ts`, `disk`), the code
it runs in (`at`) and the rest of a callback it has begun (`todo`), between whose
steps other threads run; `cache` says how each piece of code is compiled,
`active`, `started` and `reached` are the shared counters and flags, and `loaded` is
the started count a thread in `maybe_exit_on_done` has loaded before it loads the
other one. Actions are a
thread's progress (`ThreadRuns`: running code, compiling it, a step of a callback),
`ThreadStart`, `ThreadFini`, the markers `RoiBegin`, `RegisterWorker`, `RoiEnd`,
and `Fini`. `run` is the command line and the shape of the program.

`TraceRecord`: `CallBefore` and `CallAfter` run the inserted callbacks one by one
around `Execute`, the instruction itself, and fill `curr_instr`.

`Codec` says what one call of a decompressor may take and give; it is modelled from
the loops that call it. A compressed byte carries how much output the file holds up
to it, whether it ends a frame and whether it is damaged. `TraceReader` follows `refill_compressed`,
`refill_decompressed` and `read_bytes` as the actions of those names, with `ReadOk`
and `Rewind` as the core uses them. `TraceCutter` has `Decompress` (one call),
`consume_decompressed` (up to the end of a record, which `emit_records` puts into a
chunk) and `Finish`.

## 3. Runs

| Run | Bounds | Shows |
|---|---|---|
| `StoreKept` | L1D and L2C above DRAM; data lines a, b and a third line that is prefetched and swapped out; one way, MSHR and queue slot each, prefetches for both levels | without a load to merge with, a performed store stays dirty until it reaches DRAM; queue sizes hold through stalled fills |
| `CacheLive` | L1I, L1D, L2C; 2 loads, 1 fetch, 1 line on each side, MSHRs 1 | misses are conserved, requests tracked, and every load and fetch is served |
| `Units` | ITLB and DTLB above STLB: 2 pages each, MSHRs 2, STLB read queue 4, swaps. Loop: 2 cores, 1 instruction, RETIRE_WIDTH 2 (used by core 0), misprediction penalty 1 (of core 1), deadlock limit 2, fault latency 2, which costs a core its next turn. Sandbox: 3 lines, offsets ±1 and ±2, phases of 2 | the read queue below has room for every miss; turns, warm-up and region of interest are exact, and the simulation ends, given up only for a core whose oldest instruction had its turns; the lists and the filter of the sandbox are exact and every offset is tried again |
| `Core` | 6 traces of 3 to 5 instructions, 7 read; ROB 4, LQ 2, SQ 2, scheduler 3 | the core implements `InOrder`, no instruction starts early, no queue entry is lost or doubled, all retires |
| `Policies` | Pythia: 2 pages of 3 lines, actions -1, 0, 1, tracker 1, action tracker 2. Virtual memory: 1 core, 3 pages, 2 of 4 frames used. LRU: 5 ways. RRIP: 2 ways, 3 lines, 2 instructions. SMS: 3 regions, tables of 1 and 2. POWER7: 4 configurations. Learning: 2 features, 2 states, 2 actions, 3 settings. BOP: 3 lines, 3 candidates | the tables of each unit are right after every order of its events, see below |
| `Parts` | DRAM: 2 banks, 3 lines (two rows of one bank), queues 2 and 3. Tracer: 2 threads, 2 pieces of code, 5 settings. Records: 12 instructions over 2 addresses. Files that decode to 0 to 9 bytes, with one frame, two, cut off or damaged; buffers of 2 and 3 bytes, records of 2 | all of the controller's invariants, the refinement of `MemoryPort`, reads return and writes drain; counters, samples, records and chunks are exact; threads move on; the reader repeats the trace |
| `CacheSharedLine` | as `CacheLive`, one load, one line on both sides | violated: `RequestServed` |
| `StoreMergedWithLoad` | L1D, L2C; 2 lines of 2 words, one load | violated: `StoreKept` |
| `VmStaleWalk` | 1 core, 3 pages, 2 frames | violated: `TlbCurrent` |
| `CoreDeadlock` | one trace of 5 instructions, ROB 5, LQ 2 | violated: `AllRetire` |
| `CoreTwoStores` | traces with an instruction that stores to two addresses, SQ 4 | violated: `ForwardsMatch` |
| `TracerExit` | a master that is not traced, two workers | violated: `ExitWhenDone` |

`Units`, `Policies` and `Parts` each explore several modules, one at a time: the
variable `unit` (or `part`) is chosen in the initial state and never changes, and the
variables of the other units stay as they start. So a run is the sum of the state
spaces, not their product, and nothing is claimed about the units together.

Some properties are conjunctions of named parts, and each part has a mutant of its
own: `ControllerExact` (`BankOwned`, `CountersExact`, `ReadsKept`), `TablesSound`
(`TablesInverse`, `FramesCounted`), `SwapSafe` (`FramesStable`, `Shootdown`),
`TrackerExact` (`StatesOwned`, `CreditFair`), `TablesExact` (the type of Pythia's
tables, `ActionsDistinct`), `LoopExact` (`CoresInStep`, `WarmupOnce`, `RoiExact`),
`EvaluationExact` (`OffsetsKept`, `FilterOwn`), `HistoryTrue` (`GenerationsExact`,
`OldestIdle`, `HistoryCurrent`), `AheadConfirmed` (`DegreesObeyed`,
`PatternsConfirmed`), `LearningSound` (`QBounded`, `UnanimousChosen`),
`OffsetsEarned` (`BestEarned`, `BasesFilled`), `ReuseLearned` (`ReusedOutlive`,
`SamplerExact`), `EntriesExact` (`EntriesTracked`, `ForwardsMatch`), `ThreadsMove`
(`SkipEnds`, `ThreadsWake`).

**Why the bounds are enough.** Everything in the caches happens per line and
between a cache and its neighbours. Two lines with one way force every eviction;
sizes of one make every queue and MSHR file full and sizes of two in the TLBs let
two misses meet; two words tell a write queue hit from a miss on the same line. In
DRAM, a bank with two rows and another bank give row hits, conflicts and parallel
banks, and a write queue of three can be below, at and above its watermarks (both
are two then).

In the core, each trace repeats, so seven instructions run more than once around a
ROB of four and around both queues of two; the traces are chosen for forwarding,
for a younger writer that finishes first, for read-modify-writes of one address,
for instructions with two operands, and for a branch behind each of them. Two cores
are the fewest with an order; one instruction beyond the warm-up makes every
counter pass its limit. A fault of two cycles takes a turn away, and with a deadlock
limit of two a core is given up if it does not retire in the turn after; the ROB of a
core that has mispredicted stays empty for as long as that limit and longer.

One page more than frames makes swaps happen forever. Five ways are enough for every
relative order of three positions around an update. A tracker of one trains twice
in a row within four States; larger trackers are covered by the proofs. For RRIP,
two ways and three lines let a line be filled, reused and evicted beside another,
and overflow the sampler; SHCT up to 1 and PSEL up to 2 pass both ends. Eight
accesses are the fewest after which SMS has evicted twice from its accumulation
table; four configurations of POWER7 are the default, Off, and two that differ in the
stride prefetcher. Two features with two states give
agreement, disagreement and shared tiles.

A record of two bytes crosses the borders of buffers of two and three bytes in
every way; bytes that yield none, one or several bytes of output stand for what
compressors do, and files with two frames, a partial record, a truncation or an
error are included.

Counters are capped by `MaxState` (States of Pythia), `MAX_READ` (instructions the
core reads), `MaxAccess` (SMS), `MaxAccesses` (POWER7), `MaxLearn` (learning steps),
`MaxEvents` (BOP) and `MaxScore` (sandbox scores above it are not told apart). What
is proved (section 4) depends on no bound.

**Deadlock** is checked in `StoreKept`, `CacheLive`, `StoreMergedWithLoad` and
`VmStaleWalk`. The other runs contain things that stop: the simulation and the
traced program end, the reader gives up on a damaged file, and the bounds on
accesses and instructions end the rest. `CacheSharedLine` and `CoreDeadlock` are
about everything stopping.

**Fairness.** `CACHE::operate` runs fill, write-back, read and prefetch, in this
order, in every cycle, and `main` calls it for every cache; delays are finite.
A handler that stays enabled is therefore executed: weak fairness of write-backs,
RFOs and prefetches. Reads get strong fairness: they come before prefetches in
the cycle, so a freed MSHR is not taken by a prefetch again and again, and stores
retire in order behind the waiting load, so RFOs stop coming. Fills get strong
fairness per line: returned MSHRs are filled in the order of `event_cycle`, so
one that waits for room in the write queue below becomes the oldest. In the DRAM
controller each step has weak fairness and the two liveness properties speak of
arrivals that stop: row hits first may starve a request under endless arrivals.

The core has weak fairness of its whole next-state relation: every cycle runs every
part and the caches answer, and there is an end to what it can do before the head
of the ROB has to move. The main loop and the reader are single threads that run;
the sandbox prefetcher is called as long as the core accesses memory.

Of the tracer only the callbacks are fair (`SharedStep`): one that has begun ends. The
threads belong to the traced program, and a traced master sits in `pthread_join` in the
middle of a sample (`champsim_tracer_mt_roi_v3.cpp:38`); so running code, markers and
exits have no fairness. What a thread needs is a premise of the property about it:
`GoesOn(t)`, that this thread is not blocked for ever, and for `SkipEnds` also that no
other thread stays in TRACING for ever, that the number of samples is limited (`-n` above
0) and that no thread exits within a sample. Without the premise on the other threads
TLC shows the case of the comment: the master waits in its sample, the code of the others
is compiled without `FastForwardInter` (1545-1559), and their skips never end.
`ThreadsWake` needs nothing of the others.

## 4. Proofs

The theorems hold for every value of the constants, hence for every number of cores,
caches, lines, threads, instructions and every size of a table or queue. They use the
assumptions on constants that the modules state, which TLC evaluates in the runs:
`TreeAssumption` (the caches form the trees of `main.cc`), `LineAssumption`,
`PrefetchAssumption` (a prefetch fills its own level or one below), `SizeAssumption` (a
read queue has a slot for every MSHR above it, as in `defs.h`), `DramAssumption`
(positive geometry and sizes, at least two writes), `SizesAssumption` (positive sizes of
the core's buffers; the traces are sequences of instructions with at most four loads
and four stores each, as `NUM_INSTR_SOURCES` and `NUM_INSTR_DESTINATIONS_SPARC` of
`commons.h` allow), `VmAssumption` (finitely
many pages, fewer frames used than can be drawn), `WayAssumption` and `RripAssumption`
(at least one way), `ScoobyAssumption`, `SmsAssumption` and `Power7Assumption` (positive
table sizes, offsets within a page, at most 14 configurations), `SandboxAssumption`
(the constructor's offsets are distinct, the lists no shorter than what a round
exchanges), `LearningAssumption` (finitely many features and tilings, gamma below 1, a
learning rate and a weight gradient that are fractions, initial Q-values within the
bound), `BopAssumption` (at least one candidate, positive limits), `LoopAssumption` (there
is a core), `TracerAssumption` (code has instructions), `RecordAssumption` (an instruction
has registers and operands; a call does not fall through; PIN gives at most
`MAX_WRITE_OPS` operands, "PIN allows up to 8", unless they are scattered, and a lane of
scattered ones is a load or a store), `ReaderAssumption` and `CutterAssumption` (positive buffer, record and
chunk sizes; the output of a file grows along it). A hypothesis beyond these is part of the theorem and named below.

**Caches** (`CacheHierarchyProofs`, `CacheMissProofs`)

- `TypeCorrect`: `Spec => []TypeOK`. Queues keep to their sizes through every merge,
  stall and victim. `TypeOK` is inductive.
- `MissesConserved`, `ReadsFindRoom`: under `PrivateLines`,
  `Spec => [](MissConserved /\ ReadQueueRoom)`. The inductive invariant adds
  `QueueShape` (at most one packet per line in a queue, each returning to a cache
  above that may ask for the line), `MshrShape` (the same for MSHRs) and
  `MshrBound` (MSHRs within their number). They are needed because conservation
  alone does not say that a packet merged into another goes to the same cache,
  and because room in the queue below comes from counting: each queued packet is
  the miss of a different MSHR above, and there are as many slots as MSHRs.
  `PrivateLines` says that no two caches above one cache ask for one line. The
  program does not enforce it; without it the theorem is false, which is what
  `CacheSharedLine` shows.
- `RequestsStayTracked`: `Spec => []RequestTracked` where no core asks the LLC directly
  (`CoreAbove`, the wiring of `main.cc`). `TrackInv` adds that a packet or MSHR names
  requests of its own cache alone, that prefetches and free MSHRs name none, and that a
  line is queued once; lines need not be private.
- `StoresLostOnlyByMerge`: for data caches above DRAM (`StoreTree`), the only step that
  loses a performed store is the merge of `StoreMergedWithLoad`. `StoresStay`:
  `Spec => StoreKept` where moreover the L1Ds take no loads (`NoLoads`) and lines are
  private, so that no such merge can happen (`QuietL1d`).

**Memory** (`DramProofs`, `PolicyProofs`)

- `ControllerSound`, `IndicesStayFresh`: `Spec => [](TypeOK /\ ControllerExact /\
  IndicesFresh)`, inductive together with the shape of the state: a mode change may
  only reset the counters to zero because banks and scheduled entries correspond
  one to one, so the banks that work are as many as the counter says.
- `Implements`: `Spec => PortSpec`, so `CacheHierarchy` may use two sets for memory. A
  line the LLC reads is never also in its write queue when it is inserted, and
  occupancy bounds the number of lines.
- `TranslationSound`: `VmSpec => []TablesSound` for any number of cores; inductive with
  the type of the tables. `FramesNeverMove`: a mapped page keeps its frame and none is
  swapped out before memory is full. `SwapsSafe`: `VmSpec => SwapSafe` with one core
  (`CPU = {0}`); with a second core it is false, see section 5.

**Core** (`CoreProofs`)

- `OperandsExist`: `Spec => []Dataflow` for every trace. The code keeps no register
  file, only dependencies between ROB entries, so the invariant `FlowInv` says that
  these stand for the trace: the occupied entries are the consecutive numbers
  from `head` around the ring (`RobInv`); only scheduled younger entries are noted in a
  producer, each source in at most one (`DepsExact`); the last older writer of a source
  has executed or has it noted (`Awaited`); `num_reg_dependent` counts the sources
  noted in producers that have not executed (`Counted`); and the two RTE rings hold each
  entry that is ready and not begun exactly once (`RteExact`).
- `StoresStayInOrder`: `Spec => []StoresInOrder` for every trace. `StoreInv` gives each
  store of the instructions not retired its place in the order of SQ followed by STA:
  the number of stores before it (`Adds`). The entry at that place is the store's
  (`Placed`), the ROB entry knows it once it is in SQ (`Known`), and an instruction
  that executes has all its stores in SQ (`AllAdded`). The last is needed because
  `retire_rob` releases entries by the indices in the ROB entry, while it moves the head
  of SQ by their number: only with it are these the same entries. That the STA never
  wraps is counted: at most four stores for each entry of the ROB.
- `EntriesStayExact`: `RegularTraces => (Spec => []EntriesExact)`. `LoadInv` adds to
  `StoreInv` that the entries of LQ, SQ and ROB name each other (`Named`), that the
  places of loads and of stores are disjoint and together hold them all (`Places`), and
  for each load, by the number of its instruction, where its data comes from
  (`LoadsRight`): one that goes to memory has no store to its address between the last
  retired instruction and itself; one that waits names the last store before it, which
  has not executed and has the load among its dependents; one that is released was given
  the last store before it. Conversely each dependent of a store has a load that takes
  its data from it (`DepsTrue`), without which a store could reach a stranger's entry.
  `num_mem_ops` counts exactly what is to come (`OpsExact`), so an instruction that
  retires has all its loads answered and all its stores executed.
- `CoreIsInOrder`: `RegularTraces => (Spec => InOrderSpec)`, the refinement. `Retire` is
  the step of `InOrder`, all else stutters: `MemExact` says that memory has, for each
  address, the last store retired, and the loads of the head were given the last store
  before it, which can only be that one (`OneLast`).
- `RegularTraces` excludes two things. An instruction may not load two addresses when
  an older one stores to both and is the last before it to store to one of them only;
  `CoreTwoStores` shows what happens otherwise. And an instruction stores once to an
  address: the second store would look for the load that the first has released.
  `tracer/champsim_tracer.cpp:281` drops such operands; of the later tracers a scatter
  with two lanes at one address can leave them. `TracesAssumption` of `MCCore` says, and
  TLC evaluates, that the traces of `Core` are regular and those of `CoreTwoStores` are
  not.

**Main loop** (`LoopProofs`)

- `LoopSound`: `LoopSpec => []LoopExact` for any number of cores. `LoopInv` adds that
  the cores drawn are as many as the index of the loop (`Rotation`), that
  `all_warmup_complete` counts the warm cores up to NUM_CPUS and is one more
  afterwards (`WarmCount`), and per core the order of the ends of its warm-up and its
  region (`Region`).

**Replacement** (`PolicyProofs`)

- `LruPermutes`, `LruImplements`: the positions are a permutation, and
  `LruSpec => RecencySpec`. The order of the positions is the order of use; the last
  position is older than every other way.
- `ReuseKept`: `RripSpec => []ReuseLearned` for the three policies. `Predicted`: a way
  without a hit has an RRPV of at least 1, and a reused way one below those of the ways
  it has to outlive, which ageing keeps. `Mirrors`: the way in position k of
  the sampler's order holds the k-th line accessed last.

**Prefetchers** (`ScoobyProofs`, `PolicyProofs`, `LoopProofs`)

- `TrackerSound`, `LearningChained`: under `TrackOnceOnly` (no knob setting tracks a
  line twice), `[]TrackerExact` and the chained training. The invariant says that the
  tracker holds States in increasing order, all newer than the last evicted one, which
  is newer than every deleted one, that each line has one entry, and that the reward of
  an entry agrees with what happened to its line.
- `TablesStayExact`: `Spec => []TablesExact` for an action tracker of at most two, the
  default (`src/knobs.cc:223`). With three it is false, see section 5.
- `FastestStays`: `Power7Spec => FastestKept`; `Measuring` says that the cycles stored are
  those of the configurations tried in this round. `AheadKept`:
  `Power7Spec => []AheadConfirmed`; `AheadInv` adds that each tracker of the streamer and
  of the stride prefetcher agrees with the last accesses to its page, or of its
  instruction, since it was allocated, one tracker each.
- `HistoryStaysTrue`: `SmsSpec => []HistoryTrue`. `SmsInv` says that a region has at most
  one entry in the two tables, which holds what its generation accessed
  (`GenerationsKept`), that the ages order the regions by their last access, by which the
  victim is chosen (`OldestIdle`), that an entry of the pattern history is the last
  pattern learned under its key, in the set of that key, once (`HistoryKept`), and that
  what was issued comes from it (`PrefetchTrue`).
- `OffsetsSound`: `SandboxSpec => []EvaluationExact`. However `std::sort` leaves equal
  scores, a round shuffles the offsets of both lists, so none is lost or doubled.
- `LearningStaysSound`: `LearningSpec => []LearningSound`. The bound on Q-values is
  inductive: an update moves a value towards a target within the bound by at most the
  distance, rounding included. That the engine follows a unanimous preference is proved
  of the sums and maxima it folds, for any number of features and tilings.
- `OffsetsAreEarned`: `BopSpec => []OffsetsEarned`. `PhaseSound` says that the scores are
  those earned in this phase, so the last of the best is one that earned the most;
  every fold of `insert_rr` over the offsets keeps the recent requests among the bases
  of lines filled (`Requests`).

**Tracer** (`TracerProofs`)

- `CounterExact`: `TracerSpec => []ActiveExact`. Between the steps of a callback the
  counter and the phase of a thread differ; `CountInv` fixes, for each phase, which
  steps may be left (`Fits`) and counts a thread by both.
- `TracingComplete`: `TracerSpec => []TracingSeesAll`, inductive with the type of the
  code cache. `SamplesStayWhole`: `TracerSpec => []SamplesWhole`; `SampleInv` says for
  each phase which files are on disk and how many records each has.
- `RecordStaysFaithful`: `RecordSpec => []RecordFaithful` for all instructions, addresses
  and numbers of slots. The calls around an instruction are a sequence: those
  that fill slots, those that bring the values of stores, the commit (`Shaped`).
  `RecordInv` says how many of them have run, and that `curr_instr`, the pending slots and
  the count of what found no slot are what that many calls make them (`Filling`): a slot
  per operand, the first ones only, its value in it or awaited at the index of its
  operand (`Tracked`). `Execute` may change memory because no value read from it after
  the instruction is in the record by then. What `FlattenSeq` and the loop over the lanes
  of a scattered access compute is proved by the least counterexample, as a set of
  natural numbers with 0 and every successor is all of them (`Upward`).

**Trace files** (`TracerProofs`)

- `RecordsStayExact`: `ReaderSpec => []RecordsExact` for every trace file, format and
  buffer size. `ReaderInv`: what the decoder gave is what was read, what is being read
  and what waits in the buffer, consecutive bytes of the trace (`BytesKept`); the
  decoder has not left the first frame of the file and the buffer of compressed bytes
  ends where the file was read to (`SourceKept`), so a reader that finds nothing more
  has had all that can be read.
- `ChunksStayExact`: `CutterSpec => []ChunksExact` for every input. `CutterInv` adds
  that chunks, open chunk, carry and piece together hold exactly what was decompressed
  (`Consumed`) and that the carry is shorter than a record, so the records written are
  the output divided by the size of a record.

**Only model-checked.** The liveness properties (`RequestServed`, `ReadsServed`,
`Drained`, `AllRetire`, `LoopEnds`, `OffsetsTried`, `ThreadsMove`, `TraceRepeats`):
temporal reasoning under fairness is outside this prover. Every invariant that a passing
run checks is a theorem.

## 5. Disagreements between code and comments

- `CacheSharedLine` (`src/cache.cc:290`): an L2C request merged from L1I and L1D
  is returned to one of them only. The other waits for ever and the deadlock
  check of `main.cc` ends the simulation.
- `StoreMergedWithLoad` (`src/cache.cc:453`): an RFO that meets the MSHR of a load
  leaves the filled block clean, against "RFO marks cache line dirty" (282).
- `VmStaleWalk` (`src/main.cc:548`): a swap does not reach translations in the
  MSHRs of the TLBs, which are installed afterwards.
- `CoreDeadlock` (`src/ooo_cpu.cc:994`): loads take load queue entries in the order in
  which they become ready. Younger loads that wait for an older store can hold all of
  them while the store waits for a load that has none. Stores are kept from this by
  the STA, "required to execute store instructios properly without deadlock" (291);
  loads have nothing like it.
- `CoreTwoStores` (`src/ooo_cpu.cc:1563`): the search of an entering load for an older
  store takes an instruction for the store it needs, and an executed store answers all
  loads that wait for its instruction. Where an instruction stores to "a" and "b", a
  younger one to "b", and a third loads both, the load of "b" waits for the younger
  store and the load of "a" for the first instruction, whose store to "b" then meets
  the load of "b": the assertion "does not match to the store instr_id" ends the
  simulation.
- `TracerExit` (`tracer/champsim_tracer_mt_roi_v3.cpp:581`): threads that never
  entered TRACING count as done too, so `-exit_on_done` ends the program within a
  sample, against "Once every thread that ever entered TRACING has reached DONE"
  (563).

Met while modelling, and not made into runs:

*Caches and memory.* With more than one core a swap leaves the page in the other
core's TLBs, and for cores other than 0 the tagged page number matches no TLB entry
at all (`src/main.cc:547`). A write-back can allocate a line that is in flight, after
which a set holds it twice and `invalidate_entry` clears one copy
(`src/cache.cc:1390`). Nothing fills `recent_page` (`src/main.cc:503`). In the shared
LLC a miss merged from two cores is returned to one (`src/cache.cc:291`).

*Core.* `ItlbRead` keeps no mark of a translation in flight (`src/ooo_cpu.cc:500`);
`next_fetch[1]` is never assigned; `handle_o3_fetch` is not called. The comment at 1605
says "clear dependency bit" where the code inserts it; this is harmless while
`EntriesExact` holds. The traces of the run `Core` hold no case of `CoreTwoStores`: the
one with a double store has no younger store before the loads. A second store of one
instruction to an address, which a scatter recorded by version 3 of the tracer can
have, would meet the assertion of `CoreTwoStores` too: it finds an entry that the first
has released.

*Main loop.* Stalls of page faults that follow each other can reach DEADLOCK_CYCLE
and end a live core: by `SimulationEnds` it had at least DEADLOCK_CYCLE / SWAP_LATENCY
turns to run in, which is ten with the values of the code. An empty head of the ROB (ip
0) switches the deadlock check off; it ends by itself, since a mispredicted branch that
has left the ROB has set `fetch_resume_cycle`.

*Pythia.* With both `scooby_enable_track_multiple` and `scooby_enable_reward_all` the
reward stops at the first rewarded entry of a line (`prefetcher/scooby.cc:649`), and
with `scooby_enable_track_multiple` and `scooby_enable_reward_tracker_hit` two entries
share a State that is deleted twice (448); a State that is not tracked is never
deleted (320); with an action tracker of three the erased iterator shows a neighbour
(`prefetcher/scooby_helper.cc:335`). A feature's own greedy choice uses a static
fallback knob where the engine decides by bandwidth; the adjustments of the minimum
and maximum weight are exchanged (`inc/feature_knowledge.h:98`); the basic engine's
action counter is never incremented (`src/learning_engine_basic.cc:110`); the
initial Q-value assumes rewards up to 1 while the shipped configuration has 20;
selective update passes over explored decisions.

*Other prefetchers.* BOP compares the index of a candidate where it should compare
its score (`prefetcher/bop.cc:116`), and passes over ties and repeats candidate 0 when
it picks the best. An insertion into SMS's pattern history resets all ages of its set
(`prefetcher/sms.cc:252`). POWER7 assigns knobs that all cores share
(`prefetcher/pref_power7.cc:94`), and its validation loop never runs (207). Stride's
first prefetch is the demanded line (`prefetcher/stride.cc:109`). A streamer access to
the same offset does not refresh its tracker. Sandbox keeps the scores of offsets that
stay, and issues one prefetch more than "degree per direction" (`inc/sandbox.h:26`).

*RRIP.* "Do not update replacement state for writebacks" (`drrip.llc_repl:67`), but a
write-back that hits sets the RRPV; an invalidated way is not taken first; a fill that
is put off has aged the set. With several cores SHiP trains the counter of the core
that accesses, for the instruction of the core that filled (`ship.llc_repl:122`).

*Tracer.* A thread that is blocked within its sample keeps the skips of all others
from ending, as the comments say of the master (38, 866); with `-n 0` a thread may also be
scheduled only while others trace. A thread that exits within a sample never counts as done; threads started
after the beginning of the ROI are traced although they are not registered
(1618, against 286); `ThreadFini` does not make idle code be recompiled; the flush at
the end of the ROI leaves nothing that would bring other TRACING threads to DONE
(905); with a master that is not traced nothing is flushed at the beginning of the ROI
(against `champsim_markers.h:106`); a quota of 0 underflows; a file that cannot be
opened drops its records; a reused thread id overwrites files; register numbers are
cut to a byte; a store that faults leaves its slot; and another thread may change the
word between a load and the read of its value.

*Trace files.* A zstd or gzip trace of several frames is read up to the end of the
first (`src/trace_reader.cc:212`), while the cutter reads them all; a truncated file
and a partial last record are dropped without a word; a trace without a complete
record is rewound for ever.

## 6. Not modelled, and the plan

Left out of the modelled parts: the LLC shared by several cores, the cycle
arithmetic of queues, DRAM and core, PROCESSED, the prefetcher hooks and the
statistics of the caches; the oldest instruction's changes of event_cycle in the main
loop, where it counts from the cycle in which it became the oldest; in the tracer the
errors of zstd and of `fwrite` when a record is written (`compress_write`, 731), which
the code reports and passes over, so that a file may lack records that the quota counts;
in Pythia the degree of a prefetch, bandwidth, reward
values, feature signatures and the basic learning engine; RRIP with several cores.

Not modelled: the branch predictors (tables of counters without a claim beyond a
direction; the core lets each branch go either way); SPP, PPF, Bingo, MLOP, DSPatch,
AMPM, IPCP and next-line (the caches let any prefetcher call `prefetch_line` at any
time); versions 1 and 2 of the tracer, which version 3 replaces; knobs, ini files,
statistics and experiment scripts, which parse and print.

What a continuation would take up, in this order: the core and the cache hierarchy
composed, with the TLBs and L1s of `CacheHierarchy` in place of the requests that
`OooCore` has answered in any order; SPP, whose signature and pattern tables are the
largest part of a prefetcher not modelled.
