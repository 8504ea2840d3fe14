--------------------------- MODULE CacheHierarchy ---------------------------
(***************************************************************************)
(* The miss path of the CACHE class (src/src/cache.cc): a tree of caches   *)
(* that exchange PACKETs through read, write and prefetch queues and track *)
(* outstanding misses in MSHRs.  One instance of the class is one element  *)
(* of Cache; main.cc wires L1I and L1D above L2C above LLC above DRAM, and *)
(* ITLB and DTLB above STLB, and the constants below describe that wiring. *)
(*                                                                         *)
(* Time is abstracted: the head of a queue is ready, and a returned MSHR   *)
(* is filled, after an arbitrary delay (event_cycle and LATENCY), and the  *)
(* replacement policy may pick any way.  One iteration of a handler's loop *)
(* is one step.                                                            *)
(*                                                                         *)
(* Operators marked "mutant" are deliberately faulty variants of the       *)
(* definition after them; no specification uses them.                      *)
(***************************************************************************)
EXTENDS Naturals, Sequences, FiniteSets

CONSTANTS
  Cache,         \* the CACHE objects of the hierarchy
  L1D,           \* the ones whose cache_type is IS_L1D: stores enter here
  Lower,         \* lower_level: Cache -> Cache \cup {DRAM, WALK}
  DRAM,          \* the memory controller, below the LLC
  WALK,          \* no lower level: the STLB translates with va_to_pa
  Dcache,        \* upper_level_dcache: Cache -> Cache \cup {NoCache}
  NoCache,       \* no upper level (the core is above)
  Level,         \* fill_level: Cache -> 1, 2, 4
  Line, NoLine,  \* block addresses; NoLine is address 0, an empty slot
  Word,          \* offsets inside a line (full_addr = line and word)
  Reach,         \* Reach[c]: the lines c is ever asked for from above
  Swappable,     \* lines of pages that va_to_pa may swap out
  NUM_WAY,       \* per cache
  Req, Port,     \* core request slots (LQ and ROB indices), their L1 cache
  RQ_SIZE, WQ_SIZE, PQ_SIZE, MSHR_SIZE,   \* per cache
  DRAM_RQ_SIZE, DRAM_WQ_SIZE,
  PfFill         \* PfFill[c]: fill levels the prefetcher of c asks for

VARIABLES
  rq,      \* rq[c]:   the read queue, oldest first
  wq,      \* wq[c]:   the write queue
  pq,      \* pq[c]:   the prefetch queue
  mshr,    \* mshr[c][a]: the miss status entry of line a
  block,   \* block[c][w]: the block in way w
  dramRQ,  \* lines the memory controller is reading
  dramWQ,  \* lines the memory controller is about to write
  pend     \* pend[r]: the line core request r waits for, or NoLine

vars == <<rq, wq, pq, mshr, block, dramRQ, dramWQ, pend>>

Levels == {1, 2, 4}

Uppers(l) == {u \in Cache : Lower[u] = l}

(***************************************************************************)
(* What main.cc builds: a tree of caches with one cache above DRAM.  Fill  *)
(* levels grow downwards with no level between a cache and the one below   *)
(* it, stores and core requests enter at caches that have none above, and  *)
(* prefetches, which are sent as data packets, come from the data side.    *)
(***************************************************************************)
ASSUME TreeAssumption ==
  /\ Lower \in [Cache -> Cache \cup {DRAM, WALK}]
  /\ Dcache \in [Cache -> Cache \cup {NoCache}]
  /\ Level \in [Cache -> Levels]
  /\ {DRAM, WALK, NoCache} \cap Cache = {} /\ DRAM # WALK
  /\ L1D \subseteq Cache
  /\ Port \in [Req -> Cache]
  /\ \A c, d \in Cache : Lower[c] = DRAM /\ Lower[d] = DRAM => c = d
  /\ \A c \in Cache : Lower[c] \in Cache =>
       /\ Level[c] < Level[Lower[c]]
       /\ \A f \in Levels : f > Level[c] => f >= Level[Lower[c]]
  /\ \A c \in Cache : IF Uppers(c) = {} THEN Dcache[c] = NoCache
                       ELSE c \notin L1D /\ Dcache[c] \in Uppers(c)
  /\ \A r \in Req : Uppers(Port[r]) = {}

ASSUME LineAssumption ==
  /\ IsFiniteSet(Cache) /\ IsFiniteSet(Line) /\ NoLine \notin Line
  /\ Word # {} /\ Swappable \subseteq Line
  /\ Reach \in [Cache -> SUBSET Line]
  /\ \A c \in Cache : Lower[c] \in Cache => Reach[c] \subseteq Reach[Lower[c]]

\* PfFill[c] is empty for a cache without a prefetcher.  A prefetch is for the
\* prefetcher's own level or a cache below.
ASSUME PrefetchAssumption ==
  /\ PfFill \in [Cache -> SUBSET Levels]
  /\ \A c \in Cache : \A f \in PfFill[c] : f >= Level[c]
  /\ \A c, d \in Cache : Lower[c] = DRAM => \A f \in PfFill[d] : f <= Level[c]
  /\ \A c \in Cache : PfFill[c] # {} /\ Lower[c] \in Cache => Dcache[Lower[c]] = c
  /\ \A c \in Cache : Lower[c] \in Cache /\ Dcache[Lower[c]] = c
                       /\ Lower[Lower[c]] \in Cache
                         => Dcache[Lower[Lower[c]]] = Lower[c]

\* The read queue of a cache has a slot for every MSHR of the caches above it
\* (L2C_RQ_SIZE, LLC_RQ_SIZE and STLB_RQ_SIZE in defs.h): a set with at most
\* MSHR_SIZE[u] misses of each upper cache u has at most RQ_SIZE elements.
ASSUME SizeAssumption ==
  /\ NUM_WAY \in [Cache -> Nat]
  /\ RQ_SIZE \in [Cache -> Nat] /\ WQ_SIZE \in [Cache -> Nat]
  /\ PQ_SIZE \in [Cache -> Nat] /\ MSHR_SIZE \in [Cache -> Nat]
  /\ DRAM_RQ_SIZE \in Nat /\ DRAM_WQ_SIZE \in Nat
  /\ \A l \in Cache : \A S \in SUBSET (Uppers(l) \X Line) :
       (\A u \in Uppers(l) : Cardinality({a \in Line : <<u, a>> \in S}) <= MSHR_SIZE[u])
         => Cardinality(S) <= RQ_SIZE[l]

Way(c) == 0..(NUM_WAY[c] - 1)
Type == {"LOAD", "RFO", "PREFETCH"}

(***************************************************************************)
(* A PACKET: the line, the access type, the level the data is to be filled *)
(* into, the upper cache the data returns to (chosen by the packet's       *)
(* instruction flag and cpu) and the core requests waiting for it (its own *)
(* lq/rob index and the ones merged into it).                              *)
(***************************************************************************)
Packet == [addr : Line, type : Type, fill : Levels,
           via : Cache \cup {NoCache}, who : SUBSET Req]

Entry == [ret : {"FREE", "INFLIGHT", "COMPLETED"}, type : Type, fill : Levels,
          via : Cache \cup {NoCache}, who : SUBSET Req]

FreeEntry == [ret |-> "FREE", type |-> "LOAD", fill |-> 1, via |-> NoCache,
              who |-> {}]

\* A BLOCK; one that was never filled is neither valid nor dirty.
Blk == {b \in [valid : BOOLEAN, tag : Line \cup {NoLine}, dirty : BOOLEAN] :
          b.tag = NoLine => ~b.valid /\ ~b.dirty}

WbPacket == [addr : Line, word : Word]

-----------------------------------------------------------------------------
(***************************************************************************)
(* What the class looks at.                                                *)
(***************************************************************************)

Holds(q, a) == \E i \in 1..Len(q) : q[i].addr = a

\* PACKET_QUEUE::check_queue: the L1D write queue compares full addresses,
\* every other queue compares lines.
WqHit(c, a, x) ==
  \E i \in 1..Len(wq[c]) : wq[c][i].addr = a /\ (c \in L1D => wq[c][i].word = x)

\* CACHE::check_hit: the first valid way with the tag.
IsHit(c, a, w) ==
  /\ w \in Way(c)
  /\ block[c][w].valid /\ block[c][w].tag = a
  /\ \A v \in Way(c) : v < w => ~(block[c][v].valid /\ block[c][v].tag = a)
Hit(c, a) == \E w \in Way(c) : IsHit(c, a, w)

Used(c) == {a \in Line : mshr[c][a].ret # "FREE"}
Occupancy(c) == Cardinality(Used(c))
NoMshrLimit(c) == Occupancy(c) <= MSHR_SIZE[c]                      \* mutant
MshrRoom(c) == Occupancy(c) < MSHR_SIZE[c]

\* get_occupancy(2, .) == get_size(2, .) of the level below c
LowerWqFull(c) ==
  \/ Lower[c] = DRAM /\ Cardinality(dramWQ) = DRAM_WQ_SIZE
  \/ Lower[c] \in Cache /\ Len(wq[Lower[c]]) = WQ_SIZE[Lower[c]]

AnyWord == CHOOSE x \in Word : TRUE

LowerOf(m, n) == IF m < n THEN m ELSE n

-----------------------------------------------------------------------------
(***************************************************************************)
(* The calls between caches, as the state they leave behind.               *)
(***************************************************************************)

NewEntry(p, ret) ==
  [ret |-> ret, type |-> p.type, fill |-> p.fill, via |-> p.via, who |-> p.who]

\* The packet as the lower level sees it: the data will return to the sender.
SentBlind(c, p) == [p EXCEPT !.who = {}]                            \* mutant
Sent(c, p) == [p EXCEPT !.via = c, !.who = {}]

\* What a queued packet or an MSHR takes over from a duplicate: the requests
\* waiting for it, and the fill level if that is lower.
ForgetWho(p, S) == p                                                \* mutant
TakeWho(p, S) == [p EXCEPT !.who = @ \cup S]
TakeFill(p, f) == [p EXCEPT !.fill = LowerOf(@, f)]

\* The read queue q, or the prefetch queue q, after merging a duplicate.
MergeRq(q, p) ==
  [i \in 1..Len(q) |-> IF q[i].addr = p.addr THEN TakeWho(q[i], p.who) ELSE q[i]]
MergePq(q, p) ==
  [i \in 1..Len(q) |-> IF q[i].addr = p.addr THEN TakeFill(q[i], p.fill) ELSE q[i]]

\* CACHE::add_rq of cache c (its read queue afterwards).  A packet found in
\* the write queue is answered by the caller's return_data; a duplicate is
\* merged; a full queue drops the packet (return -2).
AfterAddRq(c, p, x) ==
  IF WqHit(c, p.addr, x) THEN rq[c]
  ELSE IF Holds(rq[c], p.addr) THEN MergeRq(rq[c], p)
  ELSE IF Len(rq[c]) = RQ_SIZE[c] THEN rq[c]
  ELSE Append(rq[c], p)

\* CACHE::add_wq of cache c: a duplicate is merged; the caller checked for room.
AfterAddWq(c, a, x) ==
  IF WqHit(c, a, x) THEN wq[c] ELSE Append(wq[c], [addr |-> a, word |-> x])

\* CACHE::add_pq of cache c; a full queue drops the packet.
AfterAddPq(c, p, x) ==
  IF WqHit(c, p.addr, x) THEN pq[c]
  ELSE IF Holds(pq[c], p.addr) THEN MergePq(pq[c], p)
  ELSE IF Len(pq[c]) = PQ_SIZE[c] THEN pq[c]
  ELSE Append(pq[c], p)

\* CACHE::return_data on the upper cache a packet came from, when the packet
\* is to be filled above c.
Returned(c, p, a) ==
  IF p.fill < Level[c]
  THEN [mshr EXCEPT ![p.via][a].ret = "COMPLETED"]
  ELSE mshr

\* The core takes the packets put in PROCESSED: the requests in S are served.
Deliver(S) == pend' = [r \in Req |-> IF r \in S THEN NoLine ELSE pend[r]]

\* The victim of a fill: a dirty block in way w is handed to the lower level's
\* write queue, and a full one stalls the fill.  The dirty bit is tested
\* whether or not the block is valid.
VictimAnyway(c, w) == TRUE                                          \* mutant
VictimOk(c, w) == block[c][w].dirty => ~LowerWqFull(c)

WqAfterVictim(c, w) ==
  IF block[c][w].dirty /\ Lower[c] \in Cache
  THEN [wq EXCEPT ![Lower[c]] = AfterAddWq(Lower[c], block[c][w].tag, AnyWord)]
  ELSE wq

DramAfterVictim(c, w) ==
  IF block[c][w].dirty /\ Lower[c] = DRAM
  THEN dramWQ \cup {block[c][w].tag} ELSE dramWQ

\* CACHE::fill_cache
FillClean(c, w, a, dirty) ==                                        \* mutant
  block' = [block EXCEPT ![c][w] = [valid |-> TRUE, tag |-> a, dirty |-> FALSE]]
FillCache(c, w, a, dirty) ==
  block' = [block EXCEPT ![c][w] = [valid |-> TRUE, tag |-> a, dirty |-> dirty]]

\* A demand miss that is not in flight: add_mshr, then lower_level->add_rq.
\* The lower level answers at once from its write queue; the STLB walks the
\* page table and returns the data to itself; the LLC needs room in the DRAM
\* read queue, the other caches ignore the result of add_rq.
IssueRead(c, p) ==
  LET a == p.addr IN
  /\ mshr[c][a].ret = "FREE"
  /\ MshrRoom(c)
  /\ \/ /\ Lower[c] = WALK
        /\ mshr' = [mshr EXCEPT ![c][a] = NewEntry(p, "COMPLETED")]
        /\ UNCHANGED dramRQ
     \/ /\ Lower[c] = DRAM
        /\ Cardinality(dramRQ) < DRAM_RQ_SIZE
        /\ mshr' = [mshr EXCEPT ![c][a] =
             NewEntry(p, IF a \in dramWQ THEN "COMPLETED" ELSE "INFLIGHT")]
        /\ dramRQ' = IF a \in dramWQ THEN dramRQ ELSE dramRQ \cup {a}
     \/ /\ Lower[c] \in Cache
        /\ mshr' = [mshr EXCEPT ![c][a] = NewEntry(p,
             IF WqHit(Lower[c], a, AnyWord) THEN "COMPLETED" ELSE "INFLIGHT")]
        /\ UNCHANGED dramRQ

\* The read queues once that packet is handed down.
RqBelow(c, p) ==
  IF Lower[c] \in Cache
  THEN [rq EXCEPT ![Lower[c]] = AfterAddRq(Lower[c], Sent(c, p), AnyWord)]
  ELSE rq

\* A prefetch entry becomes the demand request and keeps its returned state.
PromotedInFlight(p, e) == NewEntry(p, "INFLIGHT")                   \* mutant
Promoted(p, e) == NewEntry(p, e.ret)

\* A demand packet meets an MSHR of its line: the entry takes the lower fill
\* level and the waiting requests, unless it was a prefetch.
MergeDemand(c, p) ==
  LET a == p.addr
      e == mshr[c][a]
  IN /\ e.ret # "FREE"
     /\ mshr' = [mshr EXCEPT ![c][a] =
          IF e.type = "PREFETCH"
          THEN Promoted(p, e)
          ELSE TakeWho(TakeFill(e, p.fill), p.who)]

-----------------------------------------------------------------------------
(***************************************************************************)
(* The handlers of CACHE::operate.                                         *)
(***************************************************************************)

\* handle_fill: a returned MSHR is filled into way w, its victim written back
\* (a full write queue below stalls the fill), the data returned to the upper
\* level that asked and the waiting core requests served.
HandleFill(c, a, w) ==
  LET e == mshr[c][a] IN
  /\ e.ret = "COMPLETED"
  /\ VictimOk(c, w)
  /\ wq' = WqAfterVictim(c, w)
  /\ dramWQ' = DramAfterVictim(c, w)
  /\ FillCache(c, w, a, c \in L1D /\ e.type = "RFO")
  /\ mshr' = [Returned(c, e, a) EXCEPT ![c][a] = FreeEntry]
  /\ Deliver(e.who)
  /\ UNCHANGED <<rq, pq, dramRQ>>

\* handle_fill when the LLC policy bypasses the fill (LLC_BYPASS): the data
\* only travels upwards.
BypassFill(c, a) ==
  LET e == mshr[c][a] IN
  /\ Lower[c] = DRAM
  /\ e.ret = "COMPLETED"
  /\ mshr' = [Returned(c, e, a) EXCEPT ![c][a] = FreeEntry]
  /\ UNCHANGED <<rq, wq, pq, block, dramRQ, dramWQ, pend>>

\* handle_writeback on a hit marks the block dirty.
WritebackHit(c, w) ==
  /\ wq[c] # <<>>
  /\ IsHit(c, Head(wq[c]).addr, w)
  /\ block' = [block EXCEPT ![c][w].dirty = TRUE]
  /\ wq' = [wq EXCEPT ![c] = Tail(@)]
  /\ UNCHANGED <<rq, pq, mshr, dramRQ, dramWQ, pend>>

\* handle_writeback on a miss below the L1D allocates the block, dirty.
WritebackFill(c, w) ==
  /\ c \notin L1D
  /\ wq[c] # <<>>
  /\ LET a == Head(wq[c]).addr IN
     /\ ~Hit(c, a)
     /\ FillCache(c, w, a, TRUE)
  /\ VictimOk(c, w)
  /\ wq' = [WqAfterVictim(c, w) EXCEPT ![c] = Tail(@)]
  /\ dramWQ' = DramAfterVictim(c, w)
  /\ UNCHANGED <<rq, pq, mshr, dramRQ, pend>>

Rfo(c) == [addr |-> Head(wq[c]).addr, type |-> "RFO", fill |-> Level[c],
           via |-> NoCache, who |-> {}]

\* handle_writeback on a store that misses the L1D: a read for ownership, new
\* or merged into the line's MSHR; with every MSHR taken it waits.
RfoMiss(c) ==
  /\ c \in L1D
  /\ wq[c] # <<>>
  /\ ~Hit(c, Rfo(c).addr)
  /\ \/ IssueRead(c, Rfo(c)) /\ rq' = RqBelow(c, Rfo(c))
     \/ MergeDemand(c, Rfo(c)) /\ UNCHANGED <<rq, dramRQ>>
  /\ wq' = [wq EXCEPT ![c] = Tail(@)]
  /\ UNCHANGED <<pq, block, dramWQ, pend>>

\* handle_read on a hit serves the core or returns the data upwards.
ReadHit(c) ==
  /\ rq[c] # <<>>
  /\ LET p == Head(rq[c]) IN
     /\ Hit(c, p.addr)
     /\ mshr' = Returned(c, p, p.addr)
     /\ Deliver(p.who)
  /\ rq' = [rq EXCEPT ![c] = Tail(@)]
  /\ UNCHANGED <<wq, pq, block, dramRQ, dramWQ>>

\* handle_read on a miss: a new miss, or one merged into the line's MSHR; with
\* every MSHR taken the queue waits.
ReadMiss(c) ==
  /\ rq[c] # <<>>
  /\ LET p == Head(rq[c]) IN
     /\ ~Hit(c, p.addr)
     /\ \/ /\ IssueRead(c, p)
           /\ rq' = [RqBelow(c, p) EXCEPT ![c] = Tail(@)]
        \/ /\ MergeDemand(c, p)
           /\ rq' = [rq EXCEPT ![c] = Tail(@)]
           /\ UNCHANGED dramRQ
  /\ UNCHANGED <<wq, pq, block, dramWQ, pend>>

\* handle_prefetch on a hit returns the data upwards if it was asked from there.
PrefetchHit(c) ==
  /\ pq[c] # <<>>
  /\ LET p == Head(pq[c]) IN
     /\ Hit(c, p.addr)
     /\ mshr' = Returned(c, p, p.addr)
  /\ pq' = [pq EXCEPT ![c] = Tail(@)]
  /\ UNCHANGED <<rq, wq, block, dramRQ, dramWQ, pend>>

\* handle_prefetch takes an MSHR only when the line is to be filled at this
\* level or above.
Alloc(c, p, ret) ==
  IF p.fill <= Level[c]
  THEN [mshr EXCEPT ![c][p.addr] = NewEntry(p, ret)] ELSE mshr

\* handle_prefetch on a new miss: the packet is passed down, to the DRAM read
\* queue from the LLC and to the prefetch queue below otherwise, which must
\* have room.
PrefetchMiss(c) ==
  /\ pq[c] # <<>>
  /\ LET p == Head(pq[c])
         a == p.addr
     IN
     /\ ~Hit(c, a)
     /\ mshr[c][a].ret = "FREE"
     /\ MshrRoom(c)
     /\ \/ /\ Lower[c] = DRAM
           /\ Cardinality(dramRQ) < DRAM_RQ_SIZE
           /\ mshr' = Alloc(c, p, IF a \in dramWQ THEN "COMPLETED" ELSE "INFLIGHT")
           /\ dramRQ' = IF a \in dramWQ THEN dramRQ ELSE dramRQ \cup {a}
           /\ pq' = [pq EXCEPT ![c] = Tail(@)]
        \/ /\ Lower[c] \in Cache
           /\ Len(pq[Lower[c]]) # PQ_SIZE[Lower[c]]
           /\ mshr' = Alloc(c, p, IF WqHit(Lower[c], a, AnyWord)
                                  THEN "COMPLETED" ELSE "INFLIGHT")
           /\ pq' = [pq EXCEPT
                ![Lower[c]] = AfterAddPq(Lower[c], Sent(c, p), AnyWord),
                ![c] = Tail(@)]
           /\ UNCHANGED dramRQ
  /\ UNCHANGED <<rq, wq, block, dramWQ, pend>>

\* handle_prefetch on a miss in flight only lowers the fill level.
PrefetchMerge(c) ==
  /\ pq[c] # <<>>
  /\ LET p == Head(pq[c]) IN
     /\ ~Hit(c, p.addr)
     /\ mshr[c][p.addr].ret # "FREE"
     /\ mshr' = [mshr EXCEPT ![c][p.addr] = TakeFill(@, p.fill)]
  /\ pq' = [pq EXCEPT ![c] = Tail(@)]
  /\ UNCHANGED <<rq, wq, block, dramRQ, dramWQ, pend>>

-----------------------------------------------------------------------------
(***************************************************************************)
(* The callers above and below.                                            *)
(***************************************************************************)

\* The core sends a load or an instruction fetch to its first-level cache
\* (add_rq); a store still in the L1D write queue answers it.
CoreRead(r, a, x) ==
  LET c == Port[r]
      p == [addr |-> a, type |-> "LOAD", fill |-> Level[c], via |-> NoCache,
            who |-> {r}]
  IN /\ a \in Reach[c]
     /\ pend[r] = NoLine
     /\ Holds(rq[c], a) \/ Len(rq[c]) < RQ_SIZE[c]
     /\ rq' = [rq EXCEPT ![c] = AfterAddRq(c, p, x)]
     /\ pend' = IF WqHit(c, a, x) THEN pend ELSE [pend EXCEPT ![r] = a]
     /\ UNCHANGED <<wq, pq, mshr, block, dramRQ, dramWQ>>

\* retire_rob sends a store to the L1D write queue when it has room.
CoreStore(c, a, x) ==
  /\ c \in L1D
  /\ a \in Reach[c]
  /\ Len(wq[c]) < WQ_SIZE[c]
  /\ wq' = [wq EXCEPT ![c] = AfterAddWq(c, a, x)]
  /\ UNCHANGED <<rq, pq, mshr, block, dramRQ, dramWQ, pend>>

\* prefetch_line: the prefetcher of c asks for a line at its own level or
\* below; a full prefetch queue drops the request.
PrefetchLine(c, a, x, f) ==
  /\ a \in Reach[c]
  /\ f \in PfFill[c]
  /\ Len(pq[c]) < PQ_SIZE[c]
  /\ pq' = [pq EXCEPT ![c] = AfterAddPq(c,
       [addr |-> a, type |-> "PREFETCH", fill |-> f, via |-> Dcache[c],
        who |-> {}], x)]
  /\ UNCHANGED <<rq, wq, mshr, block, dramRQ, dramWQ, pend>>

\* MEMORY_CONTROLLER::process finishes a read and returns it to the LLC, or
\* finishes a write (module DramController has the details).
DramRead(c, a) ==
  /\ Lower[c] = DRAM
  /\ a \in dramRQ
  /\ dramRQ' = dramRQ \ {a}
  /\ mshr' = [mshr EXCEPT ![c][a].ret = "COMPLETED"]
  /\ UNCHANGED <<rq, wq, pq, block, dramWQ, pend>>

DramWrite(a) ==
  /\ a \in dramWQ
  /\ dramWQ' = dramWQ \ {a}
  /\ UNCHANGED <<rq, wq, pq, mshr, block, dramRQ, pend>>

\* va_to_pa swaps out the page of line a: invalidate_entry clears the valid bit
\* of the first block with that tag, and nothing else, in every cache.
SwapOut(a) ==
  /\ a \in Swappable
  /\ block' = [c \in Cache |-> [w \in Way(c) |->
       IF IsHit(c, a, w) THEN [block[c][w] EXCEPT !.valid = FALSE]
       ELSE block[c][w]]]
  /\ UNCHANGED <<rq, wq, pq, mshr, dramRQ, dramWQ, pend>>

-----------------------------------------------------------------------------
Init ==
  /\ rq = [c \in Cache |-> <<>>]
  /\ wq = [c \in Cache |-> <<>>]
  /\ pq = [c \in Cache |-> <<>>]
  /\ mshr = [c \in Cache |-> [a \in Line |-> FreeEntry]]
  /\ block = [c \in Cache |->
       [w \in Way(c) |-> [valid |-> FALSE, tag |-> NoLine, dirty |-> FALSE]]]
  /\ dramRQ = {}
  /\ dramWQ = {}
  /\ pend = [r \in Req |-> NoLine]

Operate(c) ==
  \/ \E a \in Line, w \in Way(c) : HandleFill(c, a, w)
  \/ \E a \in Line : BypassFill(c, a)
  \/ \E w \in Way(c) : WritebackHit(c, w) \/ WritebackFill(c, w)
  \/ RfoMiss(c) \/ ReadHit(c) \/ ReadMiss(c)
  \/ PrefetchHit(c) \/ PrefetchMiss(c) \/ PrefetchMerge(c)

Core ==
  \/ \E r \in Req, a \in Line, x \in Word : CoreRead(r, a, x)
  \/ \E c \in Cache, a \in Line, x \in Word : CoreStore(c, a, x)
  \/ \E c \in Cache, a \in Line, x \in Word, f \in Levels : PrefetchLine(c, a, x, f)

Memory ==
  \/ \E c \in Cache, a \in Line : DramRead(c, a)
  \/ \E a \in Line : DramWrite(a) \/ SwapOut(a)

Next == (\E c \in Cache : Operate(c)) \/ Core \/ Memory

Spec == Init /\ [][Next]_vars

\* operate() runs every handler of every cache each cycle and the controller
\* serves each queued access: none of them is put off for ever.
Fairness ==
  /\ \A c \in Cache, a \in Line :
       SF_vars(\E w \in Way(c) : HandleFill(c, a, w))
  /\ \A c \in Cache :
       /\ WF_vars(\E w \in Way(c) : WritebackHit(c, w) \/ WritebackFill(c, w))
       /\ WF_vars(RfoMiss(c))
       /\ SF_vars(ReadHit(c) \/ ReadMiss(c))
       /\ WF_vars(PrefetchHit(c) \/ PrefetchMiss(c) \/ PrefetchMerge(c))
  /\ \A a \in Line :
       /\ WF_vars(\E c \in Cache : DramRead(c, a))
       /\ WF_vars(DramWrite(a))

FairSpec == Spec /\ Fairness

-----------------------------------------------------------------------------
\* Every queue keeps to its size, through merges, stalled fills and victims, and
\* holds well-formed packets; a block that was never filled is not dirty.
TypeOK ==
  /\ rq \in [Cache -> Seq(Packet)]
  /\ wq \in [Cache -> Seq(WbPacket)]
  /\ pq \in [Cache -> Seq(Packet)]
  /\ mshr \in [Cache -> [Line -> Entry]]
  /\ DOMAIN block = Cache
  /\ \A c \in Cache : block[c] \in [Way(c) -> Blk]
  /\ dramRQ \subseteq Line
  /\ dramWQ \subseteq Line
  /\ pend \in [Req -> Line \cup {NoLine}]
  /\ \A c \in Cache : /\ Len(rq[c]) <= RQ_SIZE[c] /\ Len(wq[c]) <= WQ_SIZE[c]
                       /\ Len(pq[c]) <= PQ_SIZE[c]

\* Caches with the same lower level are never asked for the same line: no line
\* holds both code and data.  Nothing in the program enforces it.
PrivateLines ==
  \A u, v \in Cache :
    Lower[u] \in Cache /\ Lower[u] = Lower[v] /\ u # v => Reach[u] \cap Reach[v] = {}

(***************************************************************************)
(* The miss of line a outstanding in cache u, as the level below holds it: *)
(* a packet or an MSHR that will be returned to u.                         *)
(***************************************************************************)
AskedBy(l, e, u) == e.via = u /\ e.fill < Level[l]

InQueue(q, l, u, a) ==
  \E i \in 1..Len(q) : q[i].addr = a /\ AskedBy(l, q[i], u)

InMshr(l, u, a) == mshr[l][a].ret # "FREE" /\ AskedBy(l, mshr[l][a], u)

(***************************************************************************)
(* A miss is never lost and never answered twice: while an MSHR is in      *)
(* flight exactly one of the read queue, the prefetch queue and the MSHRs  *)
(* of the level below (or the DRAM read queue) holds the request that will *)
(* complete it, and nothing below is ever returned to a cache that has no  *)
(* such MSHR (the assert of return_data).                                  *)
(***************************************************************************)
ConservedAt(u, a) ==
  LET l == Lower[u]
      flying == mshr[u][a].ret = "INFLIGHT"
  IN /\ l = DRAM => (flying <=> a \in dramRQ)
     /\ l \in Cache =>
          /\ flying <=> \/ InQueue(rq[l], l, u, a)
                        \/ InQueue(pq[l], l, u, a)
                        \/ InMshr(l, u, a)
          /\ ~(InQueue(rq[l], l, u, a) /\ InQueue(pq[l], l, u, a))
          /\ ~(InQueue(rq[l], l, u, a) /\ InMshr(l, u, a))
          /\ ~(InQueue(pq[l], l, u, a) /\ InMshr(l, u, a))

MissConserved == \A u \in Cache, a \in Line : ConservedAt(u, a)

(***************************************************************************)
(* No core request is forgotten or served early: a load or fetch that      *)
(* waits for line a is recorded in exactly one place of its first-level    *)
(* cache, the queued packet or the MSHR of that line, through every merge  *)
(* of duplicates (rob/lq/sq_index_depend_on_me).                           *)
(***************************************************************************)
WaitsInRq(r, a) ==
  \E i \in 1..Len(rq[Port[r]]) :
    rq[Port[r]][i].addr = a /\ r \in rq[Port[r]][i].who

WaitsInMshr(r, a) ==
  mshr[Port[r]][a].ret # "FREE" /\ r \in mshr[Port[r]][a].who

RequestTracked ==
  \A r \in Req, a \in Line :
    /\ pend[r] = a <=> WaitsInRq(r, a) \/ WaitsInMshr(r, a)
    /\ ~(WaitsInRq(r, a) /\ WaitsInMshr(r, a))

(***************************************************************************)
(* lower_level->add_rq is called after add_mshr and its result is ignored, *)
(* so a packet refused by a full read queue (-2) would be lost and its     *)
(* MSHR never filled: whenever a cache can take a new miss the read queue  *)
(* below has room.  The MSHRs themselves stay within MSHR_SIZE.            *)
(***************************************************************************)
ReadQueueRoom ==
  \A c \in Cache :
    /\ Occupancy(c) <= MSHR_SIZE[c]
    /\ Lower[c] \in Cache /\ Occupancy(c) < MSHR_SIZE[c] /\ Used(c) # Line
         => Len(rq[Lower[c]]) < RQ_SIZE[Lower[c]]

(***************************************************************************)
(* A store is not forgotten: once handle_writeback of the L1D is done with *)
(* it, and until its line is written to memory, some block holds the line  *)
(* dirty, a write queue on the way down holds it, or the L1D is about to   *)
(* fill it as an RFO ("RFO marks cache line dirty", cache.cc:282).         *)
(***************************************************************************)
KeepsStore(a) ==
  \/ \E c \in Cache : \E w \in Way(c) : block[c][w].tag = a /\ block[c][w].dirty
  \/ \E c \in Cache \ L1D : Holds(wq[c], a)
  \/ \E c \in L1D : mshr[c][a].ret # "FREE" /\ mshr[c][a].type = "RFO"
  \/ a \in dramWQ

Performed(a) == \E c \in L1D : Len(wq'[c]) < Len(wq[c]) /\ a = Head(wq[c]).addr

StoreKept ==
  [][\A a \in Line : KeepsStore(a) \/ Performed(a) =>
       KeepsStore(a)' \/ a \in dramWQ \ dramWQ']_vars

\* Every load and fetch is served (the deadlock check of main.cc stays quiet).
RequestServed == \A r \in Req : pend[r] # NoLine ~> pend[r] = NoLine
=============================================================================
