------------------------ MODULE CacheHierarchyProofs ------------------------
(***************************************************************************)
(* Proofs about the miss path, for every tree of caches, every set of      *)
(* lines and every queue size that satisfies the assumptions of            *)
(* CacheHierarchy.                                                         *)
(***************************************************************************)
EXTENDS CacheHierarchy, FiniteSetTheorems, TLAPS

-----------------------------------------------------------------------------
(***************************************************************************)
(* The sequence operations the queues use.                                 *)
(***************************************************************************)

\* The head and the tail of a queue that is not empty.
LEMMA TailLemma ==
  ASSUME NEW S, NEW q \in Seq(S), q # <<>>
  PROVE  /\ Head(q) \in S /\ Head(q) = q[1] /\ Tail(q) \in Seq(S)
         /\ Len(q) \in Nat /\ Len(q) > 0 /\ Len(Tail(q)) = Len(q) - 1
         /\ \A i \in 1..(Len(q) - 1) : Tail(q)[i] = q[i + 1]
  OBVIOUS

\* A queue with one more element at its back.
LEMMA AppendLemma ==
  ASSUME NEW S, NEW q \in Seq(S), NEW p \in S
  PROVE  /\ Append(q, p) \in Seq(S) /\ Len(Append(q, p)) = Len(q) + 1
         /\ \A i \in 1..Len(q) : Append(q, p)[i] = q[i]
         /\ Append(q, p)[Len(q) + 1] = p
  OBVIOUS

\* The elements of a sequence.
LEMMA SeqLemma ==
  ASSUME NEW S, NEW q \in Seq(S)
  PROVE  Len(q) \in Nat /\ \A i \in 1..Len(q) : q[i] \in S
  OBVIOUS

\* A function on 1..n is a sequence of length n.
LEMMA MapLemma ==
  ASSUME NEW S, NEW n \in Nat, NEW f \in [1..n -> S]
  PROVE  f \in Seq(S) /\ Len(f) = n
  OBVIOUS

-----------------------------------------------------------------------------
(***************************************************************************)
(* Packets and MSHR entries.                                               *)
(***************************************************************************)

\* Merging the waiters of a request changes nothing else of a packet or an
\* entry.
LEMMA TakeWhoLemma ==
  ASSUME NEW S \in SUBSET Req
  PROVE  /\ \A p \in Packet :
              /\ TakeWho(p, S) \in Packet
              /\ TakeWho(p, S).addr = p.addr /\ TakeWho(p, S).type = p.type
              /\ TakeWho(p, S).fill = p.fill /\ TakeWho(p, S).via = p.via
              /\ TakeWho(p, S).who = p.who \cup S
         /\ \A e \in Entry :
              /\ TakeWho(e, S) \in Entry
              /\ TakeWho(e, S).ret = e.ret /\ TakeWho(e, S).type = e.type
              /\ TakeWho(e, S).fill = e.fill /\ TakeWho(e, S).via = e.via
              /\ TakeWho(e, S).who = e.who \cup S
BY DEF TakeWho, Packet, Entry

\* Merging a fill level keeps the nearer one to the core and changes nothing
\* else.
LEMMA TakeFillLemma ==
  ASSUME NEW f \in Levels
  PROVE  /\ \A p \in Packet :
              /\ TakeFill(p, f) \in Packet
              /\ TakeFill(p, f).addr = p.addr /\ TakeFill(p, f).type = p.type
              /\ TakeFill(p, f).fill = LowerOf(p.fill, f)
              /\ TakeFill(p, f).via = p.via /\ TakeFill(p, f).who = p.who
         /\ \A e \in Entry :
              /\ TakeFill(e, f) \in Entry
              /\ TakeFill(e, f).ret = e.ret /\ TakeFill(e, f).type = e.type
              /\ TakeFill(e, f).fill = LowerOf(e.fill, f)
              /\ TakeFill(e, f).via = e.via /\ TakeFill(e, f).who = e.who
BY DEF TakeFill, LowerOf, Packet, Entry

\* The fields of a packet.
LEMMA PacketLemma ==
  ASSUME NEW p \in Packet
  PROVE  /\ p.addr \in Line /\ p.type \in Type /\ p.fill \in Levels
         /\ p.via \in Cache \cup {NoCache} /\ p.who \in SUBSET Req
BY DEF Packet

\* The fields of an MSHR entry.
LEMMA EntryLemma ==
  ASSUME NEW e \in Entry
  PROVE  /\ e.ret \in {"FREE", "INFLIGHT", "COMPLETED"}
         /\ e.type \in Type /\ e.fill \in Levels
         /\ e.via \in Cache \cup {NoCache} /\ e.who \in SUBSET Req
BY DEF Entry

\* What is passed down is the packet with the sender as its return path.
LEMMA SentLemma ==
  ASSUME NEW p \in Packet, NEW c \in Cache
  PROVE  /\ Sent(c, p) \in Packet
         /\ Sent(c, p).addr = p.addr /\ Sent(c, p).type = p.type
         /\ Sent(c, p).fill = p.fill /\ Sent(c, p).via = c
         /\ Sent(c, p).who = {}
BY DEF Sent, Packet

\* The MSHR of a new miss takes its fields from the packet.
LEMMA NewEntryLemma ==
  ASSUME NEW p \in Packet, NEW ret \in {"FREE", "INFLIGHT", "COMPLETED"}
  PROVE  /\ NewEntry(p, ret) \in Entry
         /\ NewEntry(p, ret).ret = ret /\ NewEntry(p, ret).type = p.type
         /\ NewEntry(p, ret).fill = p.fill /\ NewEntry(p, ret).via = p.via
         /\ NewEntry(p, ret).who = p.who
BY DEF NewEntry, Packet, Entry

\* An empty MSHR.
LEMMA FreeEntryLemma ==
  FreeEntry \in Entry /\ FreeEntry.ret = "FREE"
BY DEF FreeEntry, Entry, Type, Levels

\* return_data only sets the returned field.
LEMMA CompleteLemma ==
  ASSUME NEW e \in Entry
  PROVE  LET f == [e EXCEPT !.ret = "COMPLETED"]
         IN /\ f \in Entry /\ f.ret = "COMPLETED" /\ f.type = e.type
            /\ f.fill = e.fill /\ f.via = e.via /\ f.who = e.who
BY DEF Entry

\* A merge in the read queue keeps every packet, with more waiters on the
\* line's.
LEMMA MergeRqType ==
  ASSUME NEW q \in Seq(Packet), NEW p \in Packet
  PROVE  /\ MergeRq(q, p) \in Seq(Packet)
         /\ Len(MergeRq(q, p)) = Len(q)
         /\ \A i \in 1..Len(q) : MergeRq(q, p)[i] =
              IF q[i].addr = p.addr THEN TakeWho(q[i], p.who) ELSE q[i]
<1>1. MergeRq(q, p) \in [1..Len(q) -> Packet]
  BY SeqLemma, TakeWhoLemma, PacketLemma DEF MergeRq
<1>. QED  BY <1>1, SeqLemma, MapLemma DEF MergeRq

\* A merge in the prefetch queue keeps every packet, with the nearer fill level.
LEMMA MergePqType ==
  ASSUME NEW q \in Seq(Packet), NEW p \in Packet
  PROVE  /\ MergePq(q, p) \in Seq(Packet)
         /\ Len(MergePq(q, p)) = Len(q)
         /\ \A i \in 1..Len(q) : MergePq(q, p)[i] =
              IF q[i].addr = p.addr THEN TakeFill(q[i], p.fill) ELSE q[i]
<1>1. MergePq(q, p) \in [1..Len(q) -> Packet]
  BY SeqLemma, TakeFillLemma, PacketLemma DEF MergePq
<1>. QED  BY <1>1, SeqLemma, MapLemma DEF MergePq

-----------------------------------------------------------------------------
(***************************************************************************)
(* Type correctness.                                                       *)
(***************************************************************************)

\* add_rq never lets the read queue grow beyond its size.
LEMMA AfterAddRqType ==
  ASSUME TypeOK, NEW c \in Cache, NEW p \in Packet, NEW x
  PROVE  AfterAddRq(c, p, x) \in Seq(Packet) /\ Len(AfterAddRq(c, p, x)) <= RQ_SIZE[c]
<1>1. rq[c] \in Seq(Packet) /\ Len(rq[c]) \in Nat /\ Len(rq[c]) <= RQ_SIZE[c]
  BY SeqLemma DEF TypeOK
<1>2. RQ_SIZE[c] \in Nat
  BY SizeAssumption
<1>. QED  BY <1>1, <1>2, MergeRqType, AppendLemma DEF AfterAddRq

\* add_pq never lets the prefetch queue grow beyond its size.
LEMMA AfterAddPqType ==
  ASSUME TypeOK, NEW c \in Cache, NEW p \in Packet, NEW x
  PROVE  AfterAddPq(c, p, x) \in Seq(Packet) /\ Len(AfterAddPq(c, p, x)) <= PQ_SIZE[c]
<1>1. pq[c] \in Seq(Packet) /\ Len(pq[c]) \in Nat /\ Len(pq[c]) <= PQ_SIZE[c]
  BY SeqLemma DEF TypeOK
<1>2. PQ_SIZE[c] \in Nat
  BY SizeAssumption
<1>. QED  BY <1>1, <1>2, MergePqType, AppendLemma DEF AfterAddPq

\* add_wq, called when there is room, keeps the write queue to its size.
LEMMA AfterAddWqType ==
  ASSUME TypeOK, NEW c \in Cache, NEW a \in Line, NEW x \in Word,
         Len(wq[c]) < WQ_SIZE[c]
  PROVE  AfterAddWq(c, a, x) \in Seq(WbPacket) /\ Len(AfterAddWq(c, a, x)) <= WQ_SIZE[c]
<1>1. wq[c] \in Seq(WbPacket) /\ Len(wq[c]) \in Nat /\ WQ_SIZE[c] \in Nat
  BY SeqLemma, SizeAssumption DEF TypeOK
<1>2. [addr |-> a, word |-> x] \in WbPacket
  BY DEF WbPacket
<1>. QED  BY <1>1, <1>2, AppendLemma DEF AfterAddWq

\* A queue that gives up its head keeps its type and its bound.
LEMMA PopType ==
  ASSUME NEW S, NEW N \in [Cache -> Nat], NEW q \in [Cache -> Seq(S)],
         \A d \in Cache : Len(q[d]) <= N[d],
         NEW c \in Cache, q[c] # <<>>
  PROVE  LET r == [q EXCEPT ![c] = Tail(@)]
         IN /\ r \in [Cache -> Seq(S)] /\ \A d \in Cache : Len(r[d]) <= N[d]
<1>1. Tail(q[c]) \in Seq(S) /\ Len(Tail(q[c])) <= N[c]
  BY TailLemma
<1>. QED  BY <1>1

\* The read queues after a miss is passed down.
LEMMA RqBelowType ==
  ASSUME TypeOK, NEW c \in Cache, NEW p \in Packet
  PROVE  /\ RqBelow(c, p) \in [Cache -> Seq(Packet)]
         /\ \A d \in Cache : Len(RqBelow(c, p)[d]) <= RQ_SIZE[d]
<1>1. CASE Lower[c] \in Cache
  <2>. DEFINE s == AfterAddRq(Lower[c], Sent(c, p), AnyWord)
  <2>1. s \in Seq(Packet) /\ Len(s) <= RQ_SIZE[Lower[c]]
    BY <1>1, SentLemma, AfterAddRqType
  <2>2. RqBelow(c, p) = [rq EXCEPT ![Lower[c]] = s]
    BY <1>1 DEF RqBelow
  <2>. HIDE DEF s
  <2>. QED  BY <2>1, <2>2, <1>1, SeqLemma DEF TypeOK
<1>2. CASE Lower[c] \notin Cache
  BY <1>2 DEF RqBelow, TypeOK
<1>. QED  BY <1>1, <1>2

\* There is a word to stand for the offset of a line address.
LEMMA AnyWordType == AnyWord \in Word
BY LineAssumption DEF AnyWord

\* The write queues after the victim is written back below.
LEMMA VictimWqType ==
  ASSUME TypeOK, NEW c \in Cache, NEW w \in Way(c), VictimOk(c, w)
  PROVE  /\ WqAfterVictim(c, w) \in [Cache -> Seq(WbPacket)]
         /\ \A d \in Cache : Len(WqAfterVictim(c, w)[d]) <= WQ_SIZE[d]
         /\ DramAfterVictim(c, w) \subseteq Line
<1>0. block[c][w].dirty => block[c][w].tag \in Line
  BY DEF TypeOK, Blk
<1>1. DramAfterVictim(c, w) \subseteq Line
  BY <1>0 DEF DramAfterVictim, TypeOK
<1>2. CASE block[c][w].dirty /\ Lower[c] \in Cache
  <2>. DEFINE s == AfterAddWq(Lower[c], block[c][w].tag, AnyWord)
  <2>0. /\ Len(wq[Lower[c]]) \in Nat /\ WQ_SIZE[Lower[c]] \in Nat
        /\ Len(wq[Lower[c]]) <= WQ_SIZE[Lower[c]]
    BY <1>2, SizeAssumption, SeqLemma DEF TypeOK
  <2>1. Len(wq[Lower[c]]) < WQ_SIZE[Lower[c]]
    BY <2>0, <1>2 DEF VictimOk, LowerWqFull
  <2>2. s \in Seq(WbPacket) /\ Len(s) <= WQ_SIZE[Lower[c]]
    BY <1>0, <1>2, <2>1, AfterAddWqType, AnyWordType
  <2>3. WqAfterVictim(c, w) = [wq EXCEPT ![Lower[c]] = s]
    BY <1>2 DEF WqAfterVictim
  <2>. HIDE DEF s
  <2>. QED  BY <1>1, <1>2, <2>2, <2>3, SeqLemma DEF TypeOK
<1>3. CASE ~(block[c][w].dirty /\ Lower[c] \in Cache)
  BY <1>1, <1>3 DEF WqAfterVictim, TypeOK
<1>. QED  BY <1>2, <1>3

\* The MSHRs after return_data of the cache above.
LEMMA ReturnedType ==
  ASSUME TypeOK, NEW c \in Cache, NEW a \in Line, NEW p
  PROVE  Returned(c, p, a) \in [Cache -> [Line -> Entry]]
<1>2. CASE p.fill < Level[c] /\ p.via \in Cache
  <2>1. mshr[p.via][a] \in Entry
    BY <1>2 DEF TypeOK
  <2>2. [mshr[p.via][a] EXCEPT !.ret = "COMPLETED"] \in Entry
    BY <2>1, CompleteLemma
  <2>. QED  BY <1>2, <2>2 DEF Returned, TypeOK
<1>3. CASE ~(p.fill < Level[c] /\ p.via \in Cache)
  BY <1>3 DEF Returned, TypeOK
<1>. QED  BY <1>2, <1>3

\* The empty hierarchy is well-typed.
LEMMA TypeInit == Init => TypeOK
<1>. SUFFICES ASSUME Init PROVE TypeOK
  OBVIOUS
<1>1. mshr \in [Cache -> [Line -> Entry]]
  BY FreeEntryLemma DEF Init
<1>2. DOMAIN block = Cache /\ \A c \in Cache : block[c] \in [Way(c) -> Blk]
  BY DEF Init, Blk
<1>3. \A c \in Cache : Len(rq[c]) <= RQ_SIZE[c] /\ Len(wq[c]) <= WQ_SIZE[c] /\ Len(pq[c]) <= PQ_SIZE[c]
  BY SizeAssumption DEF Init
<1>4. /\ rq \in [Cache -> Seq(Packet)] /\ wq \in [Cache -> Seq(WbPacket)]
      /\ pq \in [Cache -> Seq(Packet)]
  BY DEF Init
<1>5. dramRQ \subseteq Line /\ dramWQ \subseteq Line /\ pend \in [Req -> Line \cup {NoLine}]
  BY DEF Init
<1>. QED  BY <1>1, <1>2, <1>3, <1>4, <1>5 DEF TypeOK

\* A filled block.
LEMMA FillCacheType ==
  ASSUME TypeOK, NEW c \in Cache, NEW w \in Way(c), NEW a \in Line,
         NEW d \in BOOLEAN, FillCache(c, w, a, d)
  PROVE  DOMAIN block' = Cache /\ \A e \in Cache : block'[e] \in [Way(e) -> Blk]
<1>1. [valid |-> TRUE, tag |-> a, dirty |-> d] \in Blk
  BY LineAssumption DEF Blk
<1>. QED  BY <1>1 DEF FillCache, TypeOK

\* Served requests free their slots in the core.
LEMMA DeliverType ==
  ASSUME TypeOK, NEW S, Deliver(S)
  PROVE  pend' \in [Req -> Line \cup {NoLine}]
BY DEF TypeOK, Deliver

\* The read, write and prefetch queues after their head is removed.
LEMMA PopQueues ==
  ASSUME TypeOK, NEW c \in Cache
  PROVE  /\ rq[c] # <<>> => LET q == [rq EXCEPT ![c] = Tail(@)] IN
              q \in [Cache -> Seq(Packet)] /\ \A d \in Cache : Len(q[d]) <= RQ_SIZE[d]
         /\ wq[c] # <<>> => LET q == [wq EXCEPT ![c] = Tail(@)] IN
              q \in [Cache -> Seq(WbPacket)] /\ \A d \in Cache : Len(q[d]) <= WQ_SIZE[d]
         /\ pq[c] # <<>> => LET q == [pq EXCEPT ![c] = Tail(@)] IN
              q \in [Cache -> Seq(Packet)] /\ \A d \in Cache : Len(q[d]) <= PQ_SIZE[d]
BY PopType, SizeAssumption DEF TypeOK

\* The heads of the queues are packets.
LEMMA HeadTypes ==
  ASSUME TypeOK, NEW c \in Cache
  PROVE  /\ rq[c] # <<>> => Head(rq[c]) \in Packet
         /\ pq[c] # <<>> => Head(pq[c]) \in Packet
         /\ wq[c] # <<>> => Head(wq[c]).addr \in Line
<1>1. wq[c] # <<>> => Head(wq[c]) \in WbPacket
  BY TailLemma DEF TypeOK
<1>. QED  BY <1>1, TailLemma DEF TypeOK, WbPacket

\* The read that a store miss of the L1D sends is a packet.
LEMMA RfoType ==
  ASSUME TypeOK, NEW c \in Cache, wq[c] # <<>>
  PROVE  Rfo(c) \in Packet
BY HeadTypes, TreeAssumption DEF Rfo, Packet, Type

\* A new miss of handle_read or handle_writeback.
LEMMA IssueReadType ==
  ASSUME TypeOK, NEW c \in Cache, NEW p \in Packet, IssueRead(c, p)
  PROVE  mshr' \in [Cache -> [Line -> Entry]] /\ dramRQ' \subseteq Line
<1>1. p.addr \in Line
  BY PacketLemma
<1>2. PICK ret \in {"INFLIGHT", "COMPLETED"} :
        mshr' = [mshr EXCEPT ![c][p.addr] = NewEntry(p, ret)]
  BY DEF IssueRead
<1>3. NewEntry(p, ret) \in Entry
  BY NewEntryLemma
<1>. QED  BY <1>1, <1>2, <1>3 DEF IssueRead, TypeOK

\* A demand merged into the MSHR of its line.
LEMMA MergeDemandType ==
  ASSUME TypeOK, NEW c \in Cache, NEW p \in Packet, MergeDemand(c, p)
  PROVE  mshr' \in [Cache -> [Line -> Entry]]
<1>1. p.addr \in Line /\ mshr[c][p.addr] \in Entry
  BY PacketLemma DEF TypeOK
<1>2. NewEntry(p, mshr[c][p.addr].ret) \in Entry
  BY <1>1, NewEntryLemma, EntryLemma
<1>3. TakeWho(TakeFill(mshr[c][p.addr], p.fill), p.who) \in Entry
  BY <1>1, PacketLemma, TakeFillLemma, TakeWhoLemma
<1>. QED  BY <1>1, <1>2, <1>3 DEF MergeDemand, Promoted, TypeOK

\* Every step keeps the types and the sizes.
LEMMA TypeNext == TypeOK /\ [Next]_vars => TypeOK'
<1>. SUFFICES ASSUME TypeOK, [Next]_vars PROVE TypeOK'
  OBVIOUS
<1>1. ASSUME NEW c \in Cache, NEW a \in Line, NEW w \in Way(c), HandleFill(c, a, w)
      PROVE  TypeOK'
  <2>1. Returned(c, mshr[c][a], a) \in [Cache -> [Line -> Entry]]
    BY ReturnedType
  <2>2. mshr' \in [Cache -> [Line -> Entry]]
    BY <1>1, <2>1, FreeEntryLemma DEF HandleFill
  <2>3. DOMAIN block' = Cache /\ \A d \in Cache : block'[d] \in [Way(d) -> Blk]
    BY <1>1, FillCacheType DEF HandleFill
  <2>4. pend' \in [Req -> Line \cup {NoLine}]
    BY <1>1, DeliverType DEF HandleFill
  <2>. QED  BY <1>1, <2>2, <2>3, <2>4, VictimWqType DEF HandleFill, TypeOK
<1>2. ASSUME NEW c \in Cache, NEW a \in Line, BypassFill(c, a) PROVE TypeOK'
  <2>1. Returned(c, mshr[c][a], a) \in [Cache -> [Line -> Entry]]
    BY ReturnedType
  <2>2. mshr' \in [Cache -> [Line -> Entry]]
    BY <1>2, <2>1, FreeEntryLemma DEF BypassFill
  <2>. QED  BY <1>2, <2>2 DEF BypassFill, TypeOK
<1>3. ASSUME NEW c \in Cache, NEW w \in Way(c), WritebackHit(c, w) PROVE TypeOK'
  <2>1. [block[c][w] EXCEPT !.dirty = TRUE] \in Blk
    <3>1. block[c][w] \in Blk /\ block[c][w].valid
      BY <1>3 DEF WritebackHit, IsHit, TypeOK
    <3>. QED  BY <3>1 DEF Blk
  <2>2. DOMAIN block' = Cache /\ \A d \in Cache : block'[d] \in [Way(d) -> Blk]
    BY <1>3, <2>1 DEF WritebackHit, TypeOK
  <2>3. wq' \in [Cache -> Seq(WbPacket)] /\ \A d \in Cache : Len(wq'[d]) <= WQ_SIZE[d]
    BY <1>3, PopQueues DEF WritebackHit
  <2>. QED  BY <1>3, <2>2, <2>3 DEF WritebackHit, TypeOK
<1>4. ASSUME NEW c \in Cache, NEW w \in Way(c), WritebackFill(c, w) PROVE TypeOK'
  <2>1. DOMAIN block' = Cache /\ \A d \in Cache : block'[d] \in [Way(d) -> Blk]
    BY <1>4, FillCacheType, HeadTypes DEF WritebackFill
  <2>. DEFINE v == WqAfterVictim(c, w)
  <2>2. v \in [Cache -> Seq(WbPacket)] /\ \A d \in Cache : Len(v[d]) <= WQ_SIZE[d]
    BY <1>4, VictimWqType DEF WritebackFill
  <2>3. dramWQ' \subseteq Line
    BY <1>4, VictimWqType DEF WritebackFill
  <2>4. v[c] # <<>>
    <3>1. Lower[c] \in Cache => Lower[c] # c
      BY TreeAssumption DEF Levels
    <3>. QED  BY <1>4, <3>1 DEF WritebackFill, WqAfterVictim, TypeOK
  <2>5. wq' = [v EXCEPT ![c] = Tail(@)]
    BY <1>4 DEF WritebackFill
  <2>. HIDE DEF v
  <2>6. wq' \in [Cache -> Seq(WbPacket)] /\ \A d \in Cache : Len(wq'[d]) <= WQ_SIZE[d]
    BY <2>2, <2>4, <2>5, PopType, SizeAssumption
  <2>. QED  BY <1>4, <2>1, <2>3, <2>6 DEF WritebackFill, TypeOK
<1>5. ASSUME NEW c \in Cache, RfoMiss(c) PROVE TypeOK'
  <2>1. Rfo(c) \in Packet
    BY <1>5, RfoType DEF RfoMiss
  <2>2. wq' \in [Cache -> Seq(WbPacket)] /\ \A d \in Cache : Len(wq'[d]) <= WQ_SIZE[d]
    BY <1>5, PopQueues DEF RfoMiss
  <2>3. CASE IssueRead(c, Rfo(c)) /\ rq' = RqBelow(c, Rfo(c))
    <3>1. mshr' \in [Cache -> [Line -> Entry]] /\ dramRQ' \subseteq Line
      BY <2>1, <2>3, IssueReadType
    <3>2. rq' \in [Cache -> Seq(Packet)] /\ \A d \in Cache : Len(rq'[d]) <= RQ_SIZE[d]
      BY <2>1, <2>3, RqBelowType
    <3>. QED  BY <1>5, <2>2, <3>1, <3>2 DEF RfoMiss, TypeOK
  <2>4. CASE MergeDemand(c, Rfo(c)) /\ UNCHANGED <<rq, dramRQ>>
    BY <1>5, <2>1, <2>2, <2>4, MergeDemandType DEF RfoMiss, TypeOK
  <2>. QED  BY <1>5, <2>3, <2>4 DEF RfoMiss
<1>6. ASSUME NEW c \in Cache, ReadHit(c) PROVE TypeOK'
  <2>1. rq' \in [Cache -> Seq(Packet)] /\ \A d \in Cache : Len(rq'[d]) <= RQ_SIZE[d]
    BY <1>6, PopQueues DEF ReadHit
  <2>2. Head(rq[c]) \in Packet
    BY <1>6, HeadTypes DEF ReadHit
  <2>3. mshr' \in [Cache -> [Line -> Entry]]
    BY <1>6, <2>2, PacketLemma, ReturnedType DEF ReadHit
  <2>4. pend' \in [Req -> Line \cup {NoLine}]
    BY <1>6, DeliverType DEF ReadHit
  <2>. QED  BY <1>6, <2>1, <2>3, <2>4 DEF ReadHit, TypeOK
<1>7. ASSUME NEW c \in Cache, ReadMiss(c) PROVE TypeOK'
  <2>. DEFINE p == Head(rq[c])
  <2>1. p \in Packet
    BY <1>7, HeadTypes DEF ReadMiss
  <2>2. CASE IssueRead(c, p) /\ rq' = [RqBelow(c, p) EXCEPT ![c] = Tail(@)]
    <3>. DEFINE q == RqBelow(c, p)
    <3>1. mshr' \in [Cache -> [Line -> Entry]] /\ dramRQ' \subseteq Line
      BY <2>1, <2>2, IssueReadType
    <3>2. q \in [Cache -> Seq(Packet)] /\ \A d \in Cache : Len(q[d]) <= RQ_SIZE[d]
      BY <2>1, RqBelowType
    <3>3. q[c] # <<>>
      <4>1. Lower[c] \in Cache => Lower[c] # c
        BY TreeAssumption DEF Levels
      <4>. QED  BY <1>7, <4>1 DEF ReadMiss, RqBelow, TypeOK
    <3>4. rq' = [q EXCEPT ![c] = Tail(@)]
      BY <2>2
    <3>. HIDE DEF q
    <3>5. rq' \in [Cache -> Seq(Packet)] /\ \A d \in Cache : Len(rq'[d]) <= RQ_SIZE[d]
      BY <3>2, <3>3, <3>4, PopType, SizeAssumption
    <3>. QED  BY <1>7, <3>1, <3>5 DEF ReadMiss, TypeOK
  <2>3. CASE MergeDemand(c, p) /\ rq' = [rq EXCEPT ![c] = Tail(@)] /\ UNCHANGED dramRQ
    <3>1. rq' \in [Cache -> Seq(Packet)] /\ \A d \in Cache : Len(rq'[d]) <= RQ_SIZE[d]
      BY <1>7, <2>3, PopQueues DEF ReadMiss
    <3>2. mshr' \in [Cache -> [Line -> Entry]]
      BY <2>1, <2>3, MergeDemandType
    <3>. QED  BY <1>7, <2>3, <3>1, <3>2 DEF ReadMiss, TypeOK
  <2>. QED  BY <1>7, <2>2, <2>3 DEF ReadMiss
<1>8. ASSUME NEW c \in Cache, PrefetchHit(c) PROVE TypeOK'
  <2>1. pq' \in [Cache -> Seq(Packet)] /\ \A d \in Cache : Len(pq'[d]) <= PQ_SIZE[d]
    BY <1>8, PopQueues DEF PrefetchHit
  <2>2. Head(pq[c]) \in Packet
    BY <1>8, HeadTypes DEF PrefetchHit
  <2>3. mshr' \in [Cache -> [Line -> Entry]]
    BY <1>8, <2>2, PacketLemma, ReturnedType DEF PrefetchHit
  <2>. QED  BY <1>8, <2>1, <2>3 DEF PrefetchHit, TypeOK
<1>9. ASSUME NEW c \in Cache, PrefetchMiss(c) PROVE TypeOK'
  <2>. DEFINE p == Head(pq[c])
  <2>1. p \in Packet
    BY <1>9, HeadTypes DEF PrefetchMiss
  <2>2. PICK ret \in {"INFLIGHT", "COMPLETED"} : mshr' = Alloc(c, p, ret)
    BY <1>9 DEF PrefetchMiss
  <2>3. mshr' \in [Cache -> [Line -> Entry]]
    <3>1. NewEntry(p, ret) \in Entry /\ p.addr \in Line
      BY <2>1, NewEntryLemma, PacketLemma
    <3>. QED  BY <2>2, <3>1 DEF Alloc, TypeOK
  <2>4. dramRQ' \subseteq Line
    BY <1>9, <2>1, PacketLemma DEF PrefetchMiss, TypeOK
  <2>5. pq' \in [Cache -> Seq(Packet)] /\ \A d \in Cache : Len(pq'[d]) <= PQ_SIZE[d]
    <3>1. CASE pq' = [pq EXCEPT ![c] = Tail(@)]
      BY <1>9, <3>1, PopQueues DEF PrefetchMiss
    <3>2. CASE /\ Lower[c] \in Cache
               /\ pq' = [pq EXCEPT
                    ![Lower[c]] = AfterAddPq(Lower[c], Sent(c, p), AnyWord),
                    ![c] = Tail(@)]
      <4>. DEFINE s == AfterAddPq(Lower[c], Sent(c, p), AnyWord)
                  t == Tail(pq[c])
      <4>1. s \in Seq(Packet) /\ Len(s) <= PQ_SIZE[Lower[c]]
        BY <2>1, <3>2, SentLemma, AfterAddPqType
      <4>2. t \in Seq(Packet) /\ Len(t) <= PQ_SIZE[c]
        BY <1>9, PopQueues DEF PrefetchMiss, TypeOK
      <4>3. Lower[c] # c
        BY <3>2, TreeAssumption DEF Levels
      <4>4. pq' = [pq EXCEPT ![Lower[c]] = s, ![c] = t]
        BY <3>2, <4>3 DEF TypeOK
      <4>. HIDE DEF s, t
      <4>5. pq' = [d \in Cache |-> IF d = c THEN t
                                  ELSE IF d = Lower[c] THEN s ELSE pq[d]]
        BY <3>2, <4>3, <4>4 DEF TypeOK
      <4>6. ASSUME NEW d \in Cache
            PROVE  pq'[d] \in Seq(Packet) /\ Len(pq'[d]) <= PQ_SIZE[d]
        BY <4>1, <4>2, <4>5 DEF TypeOK
      <4>. QED  BY <4>5, <4>6
    <3>. QED  BY <1>9, <3>1, <3>2 DEF PrefetchMiss
  <2>. QED  BY <1>9, <2>3, <2>4, <2>5 DEF PrefetchMiss, TypeOK
<1>10. ASSUME NEW c \in Cache, PrefetchMerge(c) PROVE TypeOK'
  <2>. DEFINE p == Head(pq[c])
  <2>1. pq' \in [Cache -> Seq(Packet)] /\ \A d \in Cache : Len(pq'[d]) <= PQ_SIZE[d]
    BY <1>10, PopQueues DEF PrefetchMerge
  <2>2. p \in Packet
    BY <1>10, HeadTypes DEF PrefetchMerge
  <2>3. p.addr \in Line /\ TakeFill(mshr[c][p.addr], p.fill) \in Entry
    BY <2>2, PacketLemma, TakeFillLemma DEF TypeOK
  <2>4. mshr' \in [Cache -> [Line -> Entry]]
    BY <1>10, <2>3 DEF PrefetchMerge, TypeOK
  <2>. QED  BY <1>10, <2>1, <2>4 DEF PrefetchMerge, TypeOK
<1>11. ASSUME NEW r \in Req, NEW a \in Line, NEW x \in Word, CoreRead(r, a, x)
       PROVE  TypeOK'
  <2>. DEFINE c == Port[r]
              p == [addr |-> a, type |-> "LOAD", fill |-> Level[c], via |-> NoCache,
                    who |-> {r}]
              s == AfterAddRq(c, p, x)
  <2>1. c \in Cache /\ p \in Packet
    BY TreeAssumption DEF Packet, Type
  <2>2. rq' = [rq EXCEPT ![c] = s]
    BY <1>11 DEF CoreRead
  <2>3. s \in Seq(Packet) /\ Len(s) <= RQ_SIZE[c]
    BY <2>1, AfterAddRqType
  <2>4. pend' \in [Req -> Line \cup {NoLine}]
    BY <1>11 DEF CoreRead, TypeOK
  <2>. HIDE DEF s, c
  <2>5. rq' \in [Cache -> Seq(Packet)] /\ \A d \in Cache : Len(rq'[d]) <= RQ_SIZE[d]
    BY <2>1, <2>2, <2>3 DEF TypeOK
  <2>. QED  BY <1>11, <2>4, <2>5 DEF CoreRead, TypeOK
<1>12. ASSUME NEW c \in Cache, NEW a \in Line, NEW x \in Word, CoreStore(c, a, x)
       PROVE  TypeOK'
  <2>1. AfterAddWq(c, a, x) \in Seq(WbPacket) /\ Len(AfterAddWq(c, a, x)) <= WQ_SIZE[c]
    BY <1>12, AfterAddWqType DEF CoreStore
  <2>. QED  BY <1>12, <2>1 DEF CoreStore, TypeOK
<1>13. ASSUME NEW c \in Cache, NEW a \in Line, NEW x \in Word, NEW f \in Levels,
              PrefetchLine(c, a, x, f)
       PROVE  TypeOK'
  <2>. DEFINE p == [addr |-> a, type |-> "PREFETCH", fill |-> f, via |-> Dcache[c],
                    who |-> {}]
              s == AfterAddPq(c, p, x)
  <2>1. p \in Packet
    BY TreeAssumption DEF Packet, Type
  <2>2. s \in Seq(Packet) /\ Len(s) <= PQ_SIZE[c]
    BY <2>1, AfterAddPqType
  <2>3. pq' = [pq EXCEPT ![c] = s]
    BY <1>13 DEF PrefetchLine
  <2>. HIDE DEF s
  <2>4. pq' \in [Cache -> Seq(Packet)] /\ \A d \in Cache : Len(pq'[d]) <= PQ_SIZE[d]
    BY <2>2, <2>3 DEF TypeOK
  <2>. QED  BY <1>13, <2>4 DEF PrefetchLine, TypeOK
<1>14. ASSUME NEW c \in Cache, NEW a \in Line, DramRead(c, a) PROVE TypeOK'
  <2>1. [mshr[c][a] EXCEPT !.ret = "COMPLETED"] \in Entry
    BY CompleteLemma DEF TypeOK
  <2>. QED  BY <1>14, <2>1 DEF DramRead, TypeOK
<1>15. ASSUME NEW a \in Line, DramWrite(a) PROVE TypeOK'
  BY <1>15 DEF DramWrite, TypeOK
<1>16. ASSUME NEW a \in Line, SwapOut(a) PROVE TypeOK'
  <2>1. \A b \in Blk : [b EXCEPT !.valid = FALSE] \in Blk
    BY DEF Blk
  <2>2. ASSUME NEW c \in Cache, NEW w \in Way(c)
        PROVE  (IF IsHit(c, a, w) THEN [block[c][w] EXCEPT !.valid = FALSE]
                ELSE block[c][w]) \in Blk
    BY <2>1 DEF TypeOK
  <2>3. DOMAIN block' = Cache
    BY <1>16 DEF SwapOut
  <2>4. ASSUME NEW c \in Cache PROVE block'[c] \in [Way(c) -> Blk]
    BY <1>16, <2>2 DEF SwapOut
  <2>. QED  BY <1>16, <2>3, <2>4 DEF SwapOut, TypeOK
<1>17. CASE UNCHANGED vars
  BY <1>17 DEF vars, TypeOK
<1>. QED
  BY <1>1, <1>2, <1>3, <1>4, <1>5, <1>6, <1>7, <1>8, <1>9, <1>10, <1>11, <1>12,
     <1>13, <1>14, <1>15, <1>16, <1>17 DEF Next, Operate, Core, Memory

\* Every queue of CACHE keeps to its size (the assert of add_wq does not fire)
\* and holds well-formed packets, in every reachable state.
THEOREM TypeCorrect == Spec => []TypeOK
BY TypeInit, TypeNext, PTL DEF Spec
=============================================================================
