-------------------------- MODULE CacheMissProofs --------------------------
(***************************************************************************)
(* What CacheHierarchy never loses.  Its misses: MissConserved and         *)
(* ReadQueueRoom are invariants when no two caches above one cache ask for *)
(* the same line (PrivateLines).  The core's requests: RequestTracked is   *)
(* an invariant.  Its stores: a store is lost only when it is merged into  *)
(* the MSHR of a load, and StoreKept holds where that cannot happen.       *)
(***************************************************************************)
EXTENDS CacheHierarchyProofs

(***************************************************************************)
(* The inductive invariant.  In a cache with caches above it, a packet or  *)
(* an MSHR of a demand access is always one that will be returned upwards, *)
(* to a cache that was asked for that line; a prefetch returns, if at all, *)
(* to the data side; a cache with none above never returns anything.  Each *)
(* line is queued once.                                                    *)
(***************************************************************************)
PfLevels == UNION {PfFill[d] : d \in Cache}

Shape(c, e, a) ==
  /\ a \in Reach[c]
  /\ Uppers(c) = {} => e.fill >= Level[c]
  /\ Uppers(c) # {} =>
       /\ e.via \in Uppers(c)
       /\ e.fill < Level[c] => a \in Reach[e.via]
       /\ IF e.type = "PREFETCH" THEN e.via = Dcache[c] ELSE e.fill < Level[c]

RqShape(c, p) ==
  Shape(c, p, p.addr) /\ p.type # "PREFETCH" /\ p.fill <= Level[c]

PqShape(c, p) ==
  /\ Shape(c, p, p.addr) /\ p.type = "PREFETCH" /\ p.fill \in PfLevels
  /\ Lower[c] \in Cache => Dcache[Lower[c]] = c

Elem(q) == {q[i] : i \in 1..Len(q)}

Distinct(q) == \A i, j \in 1..Len(q) : q[i].addr = q[j].addr => i = j

QueueShape ==
  \A c \in Cache :
    /\ \A p \in Elem(rq[c]) : RqShape(c, p)
    /\ \A p \in Elem(pq[c]) : PqShape(c, p)
    /\ Distinct(rq[c]) /\ Distinct(pq[c])

MshrShape ==
  \A c \in Cache, a \in Line : mshr[c][a].ret # "FREE" => Shape(c, mshr[c][a], a)

MshrBound == \A c \in Cache : Occupancy(c) <= MSHR_SIZE[c]

Inv == TypeOK /\ QueueShape /\ MshrShape /\ MshrBound /\ MissConserved

-----------------------------------------------------------------------------
(***************************************************************************)
(* What the queue operations do to the requests held in a queue.           *)
(***************************************************************************)

\* Holding a line is having an element with its address.
LEMMA HoldsElem ==
  ASSUME NEW q \in Seq(Packet), NEW a
  PROVE  Holds(q, a) <=> \E p \in Elem(q) : p.addr = a
BY SeqLemma DEF Holds, Elem

\* Holding the request of u is having an element that u asked for.
LEMMA InQueueElem ==
  ASSUME NEW q \in Seq(Packet), NEW l, NEW u, NEW a
  PROVE  InQueue(q, l, u, a) <=> \E p \in Elem(q) : p.addr = a /\ AskedBy(l, p, u)
BY SeqLemma DEF InQueue, Elem

\* With at most one packet per line, the address names the packet.
LEMMA DistinctElem ==
  ASSUME NEW q \in Seq(Packet), Distinct(q), NEW p \in Elem(q), NEW r \in Elem(q),
         p.addr = r.addr
  PROVE  p = r
BY SeqLemma DEF Distinct, Elem

\* Without its head, a queue holds the packets of the other lines.
LEMMA TailElem ==
  ASSUME NEW q \in Seq(Packet), q # <<>>, Distinct(q)
  PROVE  /\ Distinct(Tail(q)) /\ Head(q) \in Elem(q)
         /\ Elem(Tail(q)) = {p \in Elem(q) : p.addr # Head(q).addr}
<1>1. /\ Head(q) = q[1] /\ Len(q) \in Nat /\ Len(q) > 0 /\ Len(Tail(q)) = Len(q) - 1
      /\ \A i \in 1..(Len(q) - 1) : Tail(q)[i] = q[i + 1]
  BY TailLemma
<1>2. Distinct(Tail(q))
  BY <1>1 DEF Distinct
<1>3. Head(q) \in Elem(q)
  BY <1>1 DEF Elem
<1>4. ASSUME NEW p \in Elem(Tail(q)) PROVE p \in Elem(q) /\ p.addr # Head(q).addr
  <2>1. PICK i \in 1..(Len(q) - 1) : p = q[i + 1]
    BY <1>1 DEF Elem
  <2>. QED  BY <1>1, <2>1 DEF Elem, Distinct
<1>5. ASSUME NEW p \in Elem(q), p.addr # Head(q).addr PROVE p \in Elem(Tail(q))
  <2>1. PICK i \in 1..Len(q) : p = q[i]
    BY DEF Elem
  <2>2. i # 1 /\ i - 1 \in 1..(Len(q) - 1)
    BY <1>1, <1>5, <2>1
  <2>3. Tail(q)[i - 1] = p
    BY <1>1, <2>1, <2>2
  <2>. QED  BY <1>1, <2>2, <2>3 DEF Elem
<1>. QED  BY <1>2, <1>3, <1>4, <1>5

\* A packet of a new line is added to the elements.
LEMMA AppendElem ==
  ASSUME NEW q \in Seq(Packet), NEW p \in Packet, Distinct(q), ~Holds(q, p.addr)
  PROVE  Distinct(Append(q, p)) /\ Elem(Append(q, p)) = Elem(q) \cup {p}
<1>1. /\ Len(q) \in Nat /\ Len(Append(q, p)) = Len(q) + 1
      /\ \A i \in 1..Len(q) : Append(q, p)[i] = q[i]
      /\ Append(q, p)[Len(q) + 1] = p
  BY AppendLemma, SeqLemma
<1>2. Distinct(Append(q, p))
  BY <1>1 DEF Distinct, Holds
<1>3. Elem(Append(q, p)) \subseteq Elem(q) \cup {p}
  BY <1>1 DEF Elem
<1>4. Elem(q) \cup {p} \subseteq Elem(Append(q, p))
  BY <1>1 DEF Elem
<1>. QED  BY <1>2, <1>3, <1>4

\* A merge in the read queue rewrites the element of the line.
LEMMA MergeRqElem ==
  ASSUME NEW q \in Seq(Packet), NEW p \in Packet, Distinct(q)
  PROVE  /\ Distinct(MergeRq(q, p))
         /\ Elem(MergeRq(q, p)) =
              {(IF r.addr = p.addr THEN TakeWho(r, p.who) ELSE r) : r \in Elem(q)}
<1>1. /\ Len(q) \in Nat /\ Len(MergeRq(q, p)) = Len(q)
      /\ \A i \in 1..Len(q) : /\ q[i] \in Packet
                              /\ MergeRq(q, p)[i] =
                                   IF q[i].addr = p.addr THEN TakeWho(q[i], p.who) ELSE q[i]
  BY MergeRqType, SeqLemma
<1>2. \A i \in 1..Len(q) : MergeRq(q, p)[i].addr = q[i].addr
  <2>1. p.who \in SUBSET Req
    BY PacketLemma
  <2>2. \A r \in Packet : TakeWho(r, p.who).addr = r.addr
    BY <2>1, TakeWhoLemma
  <2>. QED  BY <1>1, <2>2
<1>3. Distinct(MergeRq(q, p))
  BY <1>1, <1>2 DEF Distinct
<1>. QED  BY <1>1, <1>3 DEF Elem

\* A merge in the prefetch queue rewrites the element of the line.
LEMMA MergePqElem ==
  ASSUME NEW q \in Seq(Packet), NEW p \in Packet, Distinct(q)
  PROVE  /\ Distinct(MergePq(q, p))
         /\ Elem(MergePq(q, p)) =
              {(IF r.addr = p.addr THEN TakeFill(r, p.fill) ELSE r) : r \in Elem(q)}
<1>1. /\ Len(q) \in Nat /\ Len(MergePq(q, p)) = Len(q)
      /\ \A i \in 1..Len(q) : /\ q[i] \in Packet
                              /\ MergePq(q, p)[i] =
                                   IF q[i].addr = p.addr THEN TakeFill(q[i], p.fill) ELSE q[i]
  BY MergePqType, SeqLemma
<1>2. \A i \in 1..Len(q) : MergePq(q, p)[i].addr = q[i].addr
  BY <1>1, TakeFillLemma, PacketLemma
<1>3. Distinct(MergePq(q, p))
  BY <1>1, <1>2 DEF Distinct
<1>. QED  BY <1>1, <1>3 DEF Elem

\* The elements of a queue are packets.
LEMMA ElemPacket ==
  ASSUME NEW q \in Seq(Packet)
  PROVE  Elem(q) \subseteq Packet
BY SeqLemma DEF Elem

-----------------------------------------------------------------------------
(***************************************************************************)
(* The tree of caches and the room in a read queue.                        *)
(***************************************************************************)

\* A cache above another has a smaller fill level, and is not below it.
LEMMA TreeLemma ==
  ASSUME NEW u \in Cache, Lower[u] \in Cache
  PROVE  /\ u \in Uppers(Lower[u]) /\ Uppers(Lower[u]) # {}
         /\ Level[u] \in Levels /\ Level[Lower[u]] \in Levels
         /\ Level[u] < Level[Lower[u]] /\ Lower[u] # u /\ Lower[Lower[u]] # u
<1>1. u \in Uppers(Lower[u])
  BY DEF Uppers
<1>2. Level[u] \in Levels /\ Level[Lower[u]] \in Levels /\ Level[u] < Level[Lower[u]]
  BY TreeAssumption
<1>3. Lower[Lower[u]] \in Cache => Level[Lower[u]] < Level[Lower[Lower[u]]]
  BY TreeAssumption
<1>. QED  BY <1>1, <1>2, <1>3 DEF Levels

\* A line is asked for by at most one of the caches above a cache.
LEMMA PrivateUpper ==
  ASSUME PrivateLines, NEW l \in Cache, NEW u \in Uppers(l), NEW v \in Uppers(l),
         NEW a \in Reach[u], a \in Reach[v]
  PROVE  u = v
BY DEF PrivateLines, Uppers

\* A queued read of a cache with caches above is the miss of one of them.
LEMMA QueuedIsMiss ==
  ASSUME Inv, NEW l \in Cache, Uppers(l) # {}, NEW p \in Elem(rq[l])
  PROVE  /\ p \in Packet /\ p.via \in Uppers(l) /\ p.via \in Cache
         /\ p.addr \in Reach[p.via] /\ AskedBy(l, p, p.via)
         /\ mshr[p.via][p.addr].ret = "INFLIGHT"
<1>1. rq[l] \in Seq(Packet) /\ p \in Packet /\ RqShape(l, p)
  BY ElemPacket DEF Inv, TypeOK, QueueShape
<1>2. /\ p.via \in Uppers(l) /\ p.fill < Level[l] /\ p.addr \in Reach[p.via]
  BY <1>1 DEF RqShape, Shape
<1>3. p.via \in Cache /\ Lower[p.via] = l /\ p.addr \in Line
  BY <1>1, <1>2, PacketLemma DEF Uppers
<1>4. InQueue(rq[l], l, p.via, p.addr)
  BY <1>1, <1>2, InQueueElem DEF AskedBy
<1>. QED  BY <1>1, <1>2, <1>3, <1>4 DEF Inv, MissConserved, ConservedAt, AskedBy

\* A cache about to start a miss finds the line not queued below, and room.
LEMMA RoomBelow ==
  ASSUME PrivateLines, Inv, NEW c \in Cache, Lower[c] \in Cache,
         NEW a \in Line, a \in Reach[c], mshr[c][a].ret = "FREE"
  PROVE  ~Holds(rq[Lower[c]], a)
<1>. DEFINE l == Lower[c]
<1>1. SUFFICES ASSUME NEW p \in Elem(rq[l]), p.addr = a PROVE FALSE
  BY HoldsElem DEF Inv, TypeOK
<1>2. c \in Uppers(l) /\ Uppers(l) # {}
  BY TreeLemma
<1>3. p.via \in Uppers(l) /\ a \in Reach[p.via] /\ mshr[p.via][a].ret = "INFLIGHT"
  BY <1>1, <1>2, QueuedIsMiss
<1>4. p.via = c
  BY <1>2, <1>3, PrivateUpper
<1>. QED  BY <1>3, <1>4

\* The MSHRs in use can be counted.
LEMMA OccupancyLemma ==
  ASSUME TypeOK, NEW c \in Cache
  PROVE  IsFiniteSet(Used(c)) /\ Occupancy(c) \in Nat
<1>1. Used(c) \subseteq Line
  BY DEF Used
<1>. QED  BY <1>1, LineAssumption, FS_Subset, FS_CardinalityType DEF Occupancy

\* The invariant leaves room in the read queue below for every new miss.
LEMMA InvReadQueueRoom ==
  ASSUME Inv
  PROVE  ReadQueueRoom
<1>. SUFFICES ASSUME NEW c \in Cache, Lower[c] \in Cache, Occupancy(c) < MSHR_SIZE[c],
                     Used(c) # Line
              PROVE  Len(rq[Lower[c]]) < RQ_SIZE[Lower[c]]
  BY DEF ReadQueueRoom, Inv, MshrBound
<1>. DEFINE l == Lower[c]
            q == rq[l]
            Flying == {x \in Uppers(l) \X Line : mshr[x[1]][x[2]].ret # "FREE"}
            f == [i \in 1..Len(q) |-> <<q[i].via, q[i].addr>>]
<1>1. q \in Seq(Packet) /\ Len(q) \in Nat /\ Len(q) <= RQ_SIZE[l] /\ RQ_SIZE[l] \in Nat
  BY SeqLemma, SizeAssumption DEF Inv, TypeOK
<1>2. c \in Uppers(l) /\ Uppers(l) # {}
  BY TreeLemma
<1>3. ASSUME NEW i \in 1..Len(q) PROVE f[i] \in Flying
  <2>1. q[i] \in Elem(q)
    BY DEF Elem
  <2>2. /\ q[i].via \in Uppers(l) /\ q[i].addr \in Line
        /\ mshr[q[i].via][q[i].addr].ret = "INFLIGHT"
    BY <1>2, <2>1, QueuedIsMiss, PacketLemma
  <2>. QED  BY <2>2
<1>4. f \in [1..Len(q) -> Flying]
  BY <1>3
<1>5. \A i, j \in 1..Len(q) : f[i] = f[j] => i = j
  BY DEF Inv, QueueShape, Distinct
<1>6. Flying \subseteq Uppers(l) \X Line /\ IsFiniteSet(Flying)
  <2>1. Uppers(l) \subseteq Cache
    BY DEF Uppers
  <2>2. IsFiniteSet(Uppers(l))
    BY <2>1, LineAssumption, FS_Subset
  <2>3. IsFiniteSet(Uppers(l) \X Line)
    BY <2>2, LineAssumption, FS_Product
  <2>. QED  BY <2>3, FS_Subset
<1>7. Len(q) <= Cardinality(Flying)
  <2>1. f \in Injection(1..Len(q), Flying)
    <3>. HIDE DEF f, Flying, q
    <3>. QED  BY <1>4, <1>5 DEF Injection, IsInjective
  <2>2. Cardinality(1..Len(q)) <= Cardinality(Flying)
    <3>. HIDE DEF f, Flying, q
    <3>. QED  BY <2>1, <1>6, FS_Injection
  <2>3. Cardinality(1..Len(q)) = Len(q)
    BY <1>1, FS_Interval, SMTT(30)
  <2>. QED  BY <2>2, <2>3
<1>8. PICK b \in Line : mshr[c][b].ret = "FREE"
  BY DEF Used
<1>. DEFINE S == Flying \cup {<<c, b>>}
<1>9. Cardinality(S) = Cardinality(Flying) + 1
  <2>1. <<c, b>> \notin Flying
    BY <1>8
  <2>. QED  BY <2>1, <1>6, FS_AddElement
<1>10. ASSUME NEW u \in Uppers(l)
       PROVE  Cardinality({a \in Line : <<u, a>> \in S}) <= MSHR_SIZE[u]
  <2>0. u \in Cache /\ MSHR_SIZE[u] \in Nat /\ MSHR_SIZE[c] \in Nat
    BY SizeAssumption DEF Uppers
  <2>1. CASE u = c
    <3>1. {a \in Line : <<u, a>> \in S} = Used(c) \cup {b}
      BY <2>1, <1>2, <1>8 DEF Used
    <3>2. IsFiniteSet(Used(c)) /\ Occupancy(c) \in Nat /\ b \notin Used(c)
      BY <1>8, OccupancyLemma DEF Inv, Used
    <3>3. Cardinality(Used(c) \cup {b}) = Occupancy(c) + 1
      BY <3>2, FS_AddElement DEF Occupancy
    <3>. HIDE DEF S
    <3>4. Cardinality({a \in Line : <<u, a>> \in S}) = Occupancy(c) + 1
      BY <3>1, <3>3
    <3>. QED  BY <3>2, <3>4, <2>0, <2>1
  <2>2. CASE u # c
    <3>1. {a \in Line : <<u, a>> \in S} = Used(u)
      BY <2>2 DEF Used
    <3>. QED  BY <3>1, <2>0 DEF Inv, MshrBound, Occupancy
  <2>. QED  BY <2>1, <2>2
<1>11. S \in SUBSET (Uppers(l) \X Line)
  BY <1>2, <1>6
<1>12. Cardinality(S) <= RQ_SIZE[l]
  <2>. HIDE DEF S, l
  <2>1. l \in Cache
    BY DEF l
  <2>. QED  BY <1>10, <1>11, <2>1, SizeAssumption
<1>13. Cardinality(Flying) \in Nat
  BY <1>6, FS_CardinalityType
<1>. QED  BY <1>1, <1>7, <1>9, <1>12, <1>13

-----------------------------------------------------------------------------
(***************************************************************************)
(* The steps, grouped by what they do to the queues and the MSHRs.         *)
(***************************************************************************)

\* Steps on the write queues, the blocks and the core's own bookkeeping.
LEMMA FrameStep ==
  ASSUME Inv, TypeOK', UNCHANGED <<rq, pq, mshr, dramRQ>>
  PROVE  Inv'
<1>1. QueueShape' /\ MshrShape'
  BY DEF Inv, QueueShape, MshrShape
<1>2. MshrBound'
  BY DEF Inv, MshrBound, Occupancy, Used
<1>3. MissConserved'
  BY DEF Inv, MissConserved, ConservedAt, InMshr
<1>. QED  BY <1>1, <1>2, <1>3 DEF Inv

\* Occupancy depends only on which entries are free.
LEMMA SameUsed ==
  ASSUME NEW c \in Cache,
         \A b \in Line : mshr'[c][b].ret = "FREE" <=> mshr[c][b].ret = "FREE"
  PROVE  Occupancy(c)' = Occupancy(c)
<1>1. Used(c)' = Used(c)
  BY DEF Used
<1>. QED  BY <1>1 DEF Occupancy

Comp(e) == [e EXCEPT !.ret = "COMPLETED"]

\* A completed entry keeps everything but its returned field.
LEMMA CompLemma ==
  ASSUME NEW e \in Entry
  PROVE  /\ Comp(e) \in Entry /\ Comp(e).ret = "COMPLETED" /\ Comp(e).type = e.type
         /\ Comp(e).fill = e.fill /\ Comp(e).via = e.via /\ Comp(e).who = e.who
BY CompleteLemma DEF Comp

\* A request that is returned upwards completes an MSHR in flight there.
LEMMA ReturnedLemma ==
  ASSUME TypeOK, NEW c \in Cache, NEW a \in Line, NEW p,
         p.via \in Cache \cup {NoCache}
  PROVE  \A d \in Cache, b \in Line :
           /\ p.fill < Level[c] /\ d = p.via /\ b = a
                => Returned(c, p, a)[d][b] = Comp(mshr[d][b])
           /\ ~(p.fill < Level[c] /\ d = p.via /\ b = a)
                => Returned(c, p, a)[d][b] = mshr[d][b]
BY ZenonT(40) DEF Returned, TypeOK, Comp

\* return_data: an entry in flight is marked as returned.
Completed(d, b) ==
  /\ mshr[d][b].ret = "INFLIGHT" /\ mshr'[d][b].ret = "COMPLETED"
  /\ mshr'[d][b].type = mshr[d][b].type /\ mshr'[d][b].fill = mshr[d][b].fill
  /\ mshr'[d][b].via = mshr[d][b].via /\ mshr'[d][b].who = mshr[d][b].who

\* A held request that asks for a fill above c belongs to a miss in flight.
LEMMA AskedLemma ==
  ASSUME Inv, NEW c \in Cache, NEW a \in Line, NEW p, p.fill \in Levels,
         Shape(c, p, a), p.fill < Level[c],
         \/ InQueue(rq[c], c, p.via, a) \/ InQueue(pq[c], c, p.via, a)
         \/ InMshr(c, p.via, a)
  PROVE  /\ p.via \in Uppers(c) /\ p.via \in Cache /\ p.via # c /\ Lower[p.via] = c
         /\ a \in Reach[p.via]
         /\ mshr[p.via][a].ret = "INFLIGHT" /\ ConservedAt(p.via, a)
<1>1. Level[c] \in Levels
  BY TreeAssumption
<1>2. Uppers(c) # {}
  BY <1>1 DEF Shape, Levels
<1>3. p.via \in Uppers(c) /\ a \in Reach[p.via] /\ p.via \in Cache /\ Lower[p.via] = c
  BY <1>2 DEF Shape, Uppers
<1>4. p.via # c
  BY <1>3, TreeLemma
<1>. QED  BY <1>3, <1>4 DEF Inv, MissConserved, ConservedAt

\* An MSHR entry whose ret stays free or taken and whose fill level and origin
\* are kept holds the same request.
LEMMA SameInMshr ==
  ASSUME NEW l, NEW b, NEW u,
         mshr'[l][b] = mshr[l][b] \/ Completed(l, b)
  PROVE  InMshr(l, u, b)' <=> InMshr(l, u, b)
BY DEF InMshr, AskedBy, Completed

\* handle_fill
LEMMA FillStep ==
  ASSUME Inv, TypeOK', NEW c \in Cache, NEW a \in Line,
         mshr[c][a].ret = "COMPLETED",
         mshr' = [Returned(c, mshr[c][a], a) EXCEPT ![c][a] = FreeEntry],
         UNCHANGED <<rq, pq, dramRQ>>
  PROVE  Inv'
<1>. DEFINE e == mshr[c][a]
            V == IF e.fill < Level[c] THEN {e.via} ELSE {}
<1>0. /\ e \in Entry /\ e.fill \in Levels /\ e.via \in Cache \cup {NoCache} /\ Shape(c, e, a)
  BY EntryLemma DEF Inv, TypeOK, MshrShape
<1>1. ASSUME NEW v \in V
      PROVE  /\ v \in Cache /\ v # c /\ Lower[v] = c /\ v = e.via
             /\ mshr[v][a].ret = "INFLIGHT" /\ InMshr(c, v, a) /\ ConservedAt(v, a)
  <2>1. e.fill < Level[c] /\ v = e.via
    OBVIOUS
  <2>2. InMshr(c, e.via, a)
    BY <2>1 DEF InMshr, AskedBy
  <2>. QED  BY <1>0, <2>1, <2>2, AskedLemma
<1>2. /\ mshr'[c][a].ret = "FREE"
      /\ \A d \in Cache, b \in Line : d # c \/ b # a =>
            IF d \in V /\ b = a THEN Completed(d, b) ELSE mshr'[d][b] = mshr[d][b]
  <2>1. Returned(c, e, a) \in [Cache -> [Line -> Entry]]
    BY ReturnedType DEF Inv
  <2>2. mshr'[c][a] = FreeEntry
    BY <2>1
  <2>. DEFINE R == Returned(c, e, a)
  <2>3. \A d \in Cache, b \in Line : d # c \/ b # a =>
          /\ d \in V /\ b = a => mshr'[d][b] = Comp(mshr[d][b])
          /\ ~(d \in V /\ b = a) => mshr'[d][b] = mshr[d][b]
    <3>1. \A d \in Cache, b \in Line :
            /\ d \in V /\ b = a => R[d][b] = Comp(mshr[d][b])
            /\ ~(d \in V /\ b = a) => R[d][b] = mshr[d][b]
      BY <1>0, ReturnedLemma DEF Inv
    <3>2. mshr' = [R EXCEPT ![c][a] = FreeEntry] /\ R \in [Cache -> [Line -> Entry]]
      BY <2>1
    <3>. HIDE DEF R, V
    <3>. QED  BY <3>1, <3>2
  <2>4. \A d \in Cache, b \in Line : (d # c \/ b # a) /\ d \in V /\ b = a => Completed(d, b)
    <3>1. SUFFICES ASSUME NEW d \in V, d \in Cache PROVE Completed(d, a)
      BY <1>1
    <3>2. mshr[d][a] \in Entry /\ mshr[d][a].ret = "INFLIGHT" /\ d # c
      BY <1>1 DEF Inv, TypeOK
    <3>. QED  BY <2>3, <3>1, <3>2, CompLemma DEF Completed
  <2>. QED  BY <2>2, <2>3, <2>4, FreeEntryLemma
<1>. HIDE DEF V
<1>3. QueueShape'
  BY DEF Inv, QueueShape
<1>4. MshrShape'
  <2>1. SUFFICES ASSUME NEW d \in Cache, NEW b \in Line, mshr'[d][b].ret # "FREE"
                 PROVE  Shape(d, mshr'[d][b], b)
    BY DEF MshrShape
  <2>2. mshr'[d][b] = mshr[d][b] \/ Completed(d, b)
    BY <1>2, <2>1
  <2>3. Shape(d, mshr[d][b], b)
    BY <2>1, <2>2 DEF Inv, MshrShape, Completed
  <2>. QED  BY <2>2, <2>3 DEF Shape, Completed
<1>5. MshrBound'
  <2>1. SUFFICES ASSUME NEW d \in Cache PROVE Occupancy(d)' <= MSHR_SIZE[d]
    BY DEF MshrBound
  <2>2. Used(d)' \subseteq Used(d)
    BY <1>2 DEF Used, Completed
  <2>3. IsFiniteSet(Used(d)) /\ Occupancy(d) \in Nat /\ Occupancy(d) <= MSHR_SIZE[d]
    BY OccupancyLemma DEF Inv, MshrBound
  <2>4. Cardinality(Used(d)') <= Cardinality(Used(d)) /\ IsFiniteSet(Used(d)')
    BY <2>2, <2>3, FS_Subset
  <2>5. Cardinality(Used(d)') \in Nat /\ MSHR_SIZE[d] \in Nat
    BY <2>4, FS_CardinalityType, SizeAssumption
  <2>. QED  BY <2>3, <2>4, <2>5 DEF Occupancy
<1>6. MissConserved'
  <2>1. SUFFICES ASSUME NEW u \in Cache, NEW b \in Line PROVE ConservedAt(u, b)'
    BY DEF MissConserved
  <2>2. ConservedAt(u, b)
    BY DEF Inv, MissConserved
  <2>3. CASE u = c /\ b = a
    <3>1. Lower[c] \in Cache => mshr'[Lower[c]][a] = mshr[Lower[c]][a]
      BY <1>1, <1>2, TreeLemma
    <3>2. Lower[c] \in Cache => (InMshr(Lower[c], c, a)' <=> InMshr(Lower[c], c, a))
      BY <3>1, SameInMshr
    <3>. QED  BY <1>2, <2>2, <2>3, <3>2 DEF ConservedAt
  <2>4. CASE u \in V /\ b = a
    <3>1. Lower[u] = c /\ InMshr(c, u, a) /\ mshr'[u][a].ret = "COMPLETED"
      BY <1>1, <1>2, <2>4 DEF Completed
    <3>2. ~InMshr(c, u, a)'
      BY <1>2 DEF InMshr
    <3>. QED  BY <2>2, <2>4, <3>1, <3>2, TreeAssumption DEF ConservedAt
  <2>5. CASE ~(u = c /\ b = a) /\ ~(u \in V /\ b = a)
    <3>1. mshr'[u][b] = mshr[u][b]
      BY <1>2, <2>5
    <3>2. CASE Lower[u] = c /\ b = a
      <4>1. ~InMshr(c, u, a)'
        BY <1>2 DEF InMshr
      <4>2. ~InMshr(c, u, a)
        BY <2>5, <3>2 DEF InMshr, AskedBy, V
      <4>. QED  BY <2>2, <3>1, <3>2, <4>1, <4>2, TreeAssumption DEF ConservedAt
    <3>3. CASE ~(Lower[u] = c /\ b = a) /\ Lower[u] \in Cache
      <4>1. mshr'[Lower[u]][b] = mshr[Lower[u]][b] \/ Completed(Lower[u], b)
        BY <1>2, <3>3
      <4>2. InMshr(Lower[u], u, b)' <=> InMshr(Lower[u], u, b)
        BY <4>1, SameInMshr
      <4>. QED  BY <2>2, <3>1, <3>3, <4>2 DEF ConservedAt
    <3>4. CASE Lower[u] \notin Cache
      BY <2>2, <3>1, <3>4 DEF ConservedAt
    <3>. QED  BY <3>2, <3>3, <3>4
  <2>. QED  BY <2>3, <2>4, <2>5
<1>. QED  BY <1>3, <1>4, <1>5, <1>6 DEF Inv

\* Completing entries in flight changes neither the shape nor the number of
\* the entries in use.
LEMMA KeptMshr ==
  ASSUME Inv, \A d \in Cache, b \in Line : mshr'[d][b] = mshr[d][b] \/ Completed(d, b)
  PROVE  MshrShape' /\ MshrBound'
<1>1. MshrShape'
  <2>1. SUFFICES ASSUME NEW d \in Cache, NEW b \in Line, mshr'[d][b].ret # "FREE"
                 PROVE  Shape(d, mshr'[d][b], b)
    BY DEF MshrShape
  <2>2. mshr'[d][b] = mshr[d][b] \/ Completed(d, b)
    OBVIOUS
  <2>3. Shape(d, mshr[d][b], b)
    BY <2>1, <2>2 DEF Inv, MshrShape, Completed
  <2>. QED  BY <2>2, <2>3 DEF Shape, Completed
<1>2. ASSUME NEW d \in Cache PROVE Occupancy(d)' = Occupancy(d)
  BY SameUsed DEF Completed
<1>. QED  BY <1>1, <1>2 DEF Inv, MshrBound

\* The queues after their oldest packet is taken out.
LEMMA PopRq ==
  ASSUME Inv, NEW c \in Cache, rq[c] # <<>>, NEW q, q = [rq EXCEPT ![c] = Tail(@)]
  PROVE  /\ Head(rq[c]) \in Packet /\ RqShape(c, Head(rq[c]))
         /\ \A d \in Cache : Distinct(q[d]) /\ \A r \in Elem(q[d]) : RqShape(d, r)
         /\ \A l \in Cache, u \in Cache, b \in Line :
              InQueue(q[l], l, u, b) <=>
                InQueue(rq[l], l, u, b) /\ ~(l = c /\ b = Head(rq[c]).addr)
         /\ \A u \in Cache :
              InQueue(rq[c], c, u, Head(rq[c]).addr) <=> AskedBy(c, Head(rq[c]), u)
<1>. DEFINE p == Head(rq[c])
<1>1. rq[c] \in Seq(Packet) /\ Distinct(rq[c]) /\ Tail(rq[c]) \in Seq(Packet)
  BY TailLemma DEF Inv, TypeOK, QueueShape
<1>2. /\ Distinct(Tail(rq[c])) /\ p \in Elem(rq[c])
      /\ Elem(Tail(rq[c])) = {r \in Elem(rq[c]) : r.addr # p.addr}
  BY <1>1, TailElem
<1>3. p \in Packet /\ RqShape(c, p)
  BY <1>1, <1>2, ElemPacket DEF Inv, QueueShape
<1>4. \A d \in Cache : q[d] = IF d = c THEN Tail(rq[c]) ELSE rq[d]
  BY DEF Inv, TypeOK
<1>. HIDE DEF p
<1>5. ASSUME NEW d \in Cache
      PROVE  Distinct(q[d]) /\ \A r \in Elem(q[d]) : RqShape(d, r)
  BY <1>2, <1>4 DEF Inv, QueueShape
<1>6. ASSUME NEW l \in Cache, NEW u \in Cache, NEW b \in Line
      PROVE  InQueue(q[l], l, u, b) <=> InQueue(rq[l], l, u, b) /\ ~(l = c /\ b = p.addr)
  <2>1. CASE l = c
    <3>. DEFINE t == Tail(rq[c])
    <3>0. q[l] = t /\ t \in Seq(Packet) /\ Elem(t) = {r \in Elem(rq[c]) : r.addr # p.addr}
      BY <1>1, <1>2, <1>4, <2>1
    <3>. HIDE DEF t
    <3>1. InQueue(q[l], l, u, b) <=> \E r \in Elem(t) : r.addr = b /\ AskedBy(l, r, u)
      BY <3>0, InQueueElem
    <3>2. InQueue(rq[l], l, u, b) <=> \E r \in Elem(rq[c]) : r.addr = b /\ AskedBy(l, r, u)
      BY <1>1, <2>1, InQueueElem
    <3>. QED  BY <2>1, <3>0, <3>1, <3>2
  <2>2. CASE l # c
    BY <1>4, <2>2
  <2>. QED  BY <2>1, <2>2
<1>7. ASSUME NEW u \in Cache PROVE InQueue(rq[c], c, u, p.addr) <=> AskedBy(c, p, u)
  <2>1. InQueue(rq[c], c, u, p.addr) <=> \E r \in Elem(rq[c]) : r.addr = p.addr /\ AskedBy(c, r, u)
    BY <1>1, InQueueElem
  <2>. QED  BY <1>1, <1>2, <2>1, DistinctElem
<1>. QED  BY <1>3, <1>5, <1>6, <1>7 DEF p

\* The same for the prefetch queue.
LEMMA PopPq ==
  ASSUME Inv, NEW c \in Cache, pq[c] # <<>>, NEW q, q = [pq EXCEPT ![c] = Tail(@)]
  PROVE  /\ Head(pq[c]) \in Packet /\ PqShape(c, Head(pq[c]))
         /\ \A d \in Cache : Distinct(q[d]) /\ \A r \in Elem(q[d]) : PqShape(d, r)
         /\ \A l \in Cache, u \in Cache, b \in Line :
              InQueue(q[l], l, u, b) <=>
                InQueue(pq[l], l, u, b) /\ ~(l = c /\ b = Head(pq[c]).addr)
         /\ \A u \in Cache :
              InQueue(pq[c], c, u, Head(pq[c]).addr) <=> AskedBy(c, Head(pq[c]), u)
<1>. DEFINE p == Head(pq[c])
<1>1. pq[c] \in Seq(Packet) /\ Distinct(pq[c]) /\ Tail(pq[c]) \in Seq(Packet)
  BY TailLemma DEF Inv, TypeOK, QueueShape
<1>2. /\ Distinct(Tail(pq[c])) /\ p \in Elem(pq[c])
      /\ Elem(Tail(pq[c])) = {r \in Elem(pq[c]) : r.addr # p.addr}
  BY <1>1, TailElem
<1>3. p \in Packet /\ PqShape(c, p)
  BY <1>1, <1>2, ElemPacket DEF Inv, QueueShape
<1>4. \A d \in Cache : q[d] = IF d = c THEN Tail(pq[c]) ELSE pq[d]
  BY DEF Inv, TypeOK
<1>. HIDE DEF p
<1>5. ASSUME NEW d \in Cache
      PROVE  Distinct(q[d]) /\ \A r \in Elem(q[d]) : PqShape(d, r)
  BY <1>2, <1>4 DEF Inv, QueueShape
<1>6. ASSUME NEW l \in Cache, NEW u \in Cache, NEW b \in Line
      PROVE  InQueue(q[l], l, u, b) <=> InQueue(pq[l], l, u, b) /\ ~(l = c /\ b = p.addr)
  <2>1. CASE l = c
    <3>. DEFINE t == Tail(pq[c])
    <3>0. q[l] = t /\ t \in Seq(Packet) /\ Elem(t) = {r \in Elem(pq[c]) : r.addr # p.addr}
      BY <1>1, <1>2, <1>4, <2>1
    <3>. HIDE DEF t
    <3>1. InQueue(q[l], l, u, b) <=> \E r \in Elem(t) : r.addr = b /\ AskedBy(l, r, u)
      BY <3>0, InQueueElem
    <3>2. InQueue(pq[l], l, u, b) <=> \E r \in Elem(pq[c]) : r.addr = b /\ AskedBy(l, r, u)
      BY <1>1, <2>1, InQueueElem
    <3>. QED  BY <2>1, <3>0, <3>1, <3>2
  <2>2. CASE l # c
    BY <1>4, <2>2
  <2>. QED  BY <2>1, <2>2
<1>7. ASSUME NEW u \in Cache PROVE InQueue(pq[c], c, u, p.addr) <=> AskedBy(c, p, u)
  <2>1. InQueue(pq[c], c, u, p.addr) <=> \E r \in Elem(pq[c]) : r.addr = p.addr /\ AskedBy(c, r, u)
    BY <1>1, InQueueElem
  <2>. QED  BY <1>1, <1>2, <2>1, DistinctElem
<1>. QED  BY <1>3, <1>5, <1>6, <1>7 DEF p

\* handle_read and handle_prefetch on a hit.
LEMMA RqHitStep ==
  ASSUME Inv, TypeOK', NEW c \in Cache, rq[c] # <<>>,
         rq' = [rq EXCEPT ![c] = Tail(@)],
         mshr' = Returned(c, Head(rq[c]), Head(rq[c]).addr),
         UNCHANGED <<pq, dramRQ>>
  PROVE  Inv'
<1>. DEFINE p == Head(rq[c])
            a == p.addr
            V == IF p.fill < Level[c] THEN {p.via} ELSE {}
<1>0. /\ p \in Packet /\ RqShape(c, p) /\ a \in Line /\ p.fill \in Levels
      /\ p.via \in Cache \cup {NoCache} /\ Shape(c, p, a)
  BY PopRq, PacketLemma DEF RqShape
<1>1. ASSUME NEW v \in V
      PROVE  /\ v \in Cache /\ v # c /\ Lower[v] = c /\ v = p.via
             /\ mshr[v][a].ret = "INFLIGHT" /\ InQueue(rq[c], c, v, a) /\ ConservedAt(v, a)
  <2>1. p.fill < Level[c] /\ v = p.via
    OBVIOUS
  <2>2. p.via \in Cache
    <3>1. Uppers(c) # {}
      BY <1>0, <2>1, TreeAssumption DEF Shape, Levels
    <3>. QED  BY <1>0, <3>1 DEF Shape, Uppers
  <2>3. InQueue(rq[c], c, p.via, a)
    BY <2>1, <2>2, PopRq DEF AskedBy
  <2>. QED  BY <1>0, <2>1, <2>3, AskedLemma
<1>2. \A d \in Cache, b \in Line :
        /\ d \in V /\ b = a => Completed(d, b)
        /\ ~(d \in V /\ b = a) => mshr'[d][b] = mshr[d][b]
  <2>1. \A d \in Cache, b \in Line :
          /\ d \in V /\ b = a => mshr'[d][b] = Comp(mshr[d][b])
          /\ ~(d \in V /\ b = a) => mshr'[d][b] = mshr[d][b]
    BY <1>0, ReturnedLemma DEF Inv
  <2>2. ASSUME NEW d \in V PROVE Completed(d, a)
    <3>1. d \in Cache /\ mshr[d][a] \in Entry /\ mshr[d][a].ret = "INFLIGHT"
      BY <1>0, <1>1 DEF Inv, TypeOK
    <3>. QED  BY <1>0, <2>1, <3>1, CompLemma, SMTT(30) DEF Completed
  <2>. QED  BY <2>1, <2>2
<1>3. ~(p.fill < Level[c]) => \A u \in Cache : ~InQueue(rq[c], c, u, a)
  BY PopRq DEF AskedBy
<1>4. \A u \in Cache : InQueue(rq[c], c, u, a) => u \in V
  BY <1>3, PopRq DEF AskedBy
<1>5. \A l \in Cache, u \in Cache, b \in Line :
        InQueue(rq'[l], l, u, b) <=> InQueue(rq[l], l, u, b) /\ ~(l = c /\ b = a)
  BY PopRq, ZenonT(40)
<1>6. QueueShape'
  BY PopRq DEF Inv, QueueShape
<1>7. MshrShape' /\ MshrBound'
  BY <1>2, KeptMshr
<1>. HIDE DEF V, p, a
<1>8. MissConserved'
  <2>1. SUFFICES ASSUME NEW u \in Cache, NEW b \in Line PROVE ConservedAt(u, b)'
    BY DEF MissConserved
  <2>2. ConservedAt(u, b)
    BY DEF Inv, MissConserved
  <2>3. Lower[u] \in Cache => (InMshr(Lower[u], u, b)' <=> InMshr(Lower[u], u, b))
    BY <1>2, SameInMshr
  <2>4. CASE u \in V /\ b = a
    <3>1. Lower[u] = c /\ InQueue(rq[c], c, u, a) /\ mshr'[u][a].ret = "COMPLETED"
      BY <1>0, <1>1, <1>2, <2>4 DEF Completed
    <3>. QED  BY <1>5, <2>2, <2>3, <2>4, <3>1, TreeAssumption DEF ConservedAt
  <2>5. CASE ~(u \in V /\ b = a)
    <3>1. mshr'[u][b] = mshr[u][b]
      BY <1>2, <2>5
    <3>2. Lower[u] \in Cache =>
            (InQueue(rq'[Lower[u]], Lower[u], u, b) <=> InQueue(rq[Lower[u]], Lower[u], u, b))
      BY <1>4, <1>5, <2>5
    <3>. QED  BY <2>2, <2>3, <3>1, <3>2 DEF ConservedAt
  <2>. QED  BY <2>4, <2>5
<1>. QED  BY <1>6, <1>7, <1>8 DEF Inv

\* handle_prefetch on a hit.
LEMMA PqHitStep ==
  ASSUME Inv, TypeOK', NEW c \in Cache, pq[c] # <<>>,
         pq' = [pq EXCEPT ![c] = Tail(@)],
         mshr' = Returned(c, Head(pq[c]), Head(pq[c]).addr),
         UNCHANGED <<rq, dramRQ>>
  PROVE  Inv'
<1>. DEFINE p == Head(pq[c])
            a == p.addr
            V == IF p.fill < Level[c] THEN {p.via} ELSE {}
<1>0. /\ p \in Packet /\ PqShape(c, p) /\ a \in Line /\ p.fill \in Levels
      /\ p.via \in Cache \cup {NoCache} /\ Shape(c, p, a)
  BY PopPq, PacketLemma DEF PqShape
<1>1. ASSUME NEW v \in V
      PROVE  /\ v \in Cache /\ v # c /\ Lower[v] = c /\ v = p.via
             /\ mshr[v][a].ret = "INFLIGHT" /\ InQueue(pq[c], c, v, a) /\ ConservedAt(v, a)
  <2>1. p.fill < Level[c] /\ v = p.via
    OBVIOUS
  <2>2. p.via \in Cache
    <3>1. Uppers(c) # {}
      BY <1>0, <2>1, TreeAssumption DEF Shape, Levels
    <3>. QED  BY <1>0, <3>1 DEF Shape, Uppers
  <2>3. InQueue(pq[c], c, p.via, a)
    BY <2>1, <2>2, PopPq DEF AskedBy
  <2>. QED  BY <1>0, <2>1, <2>3, AskedLemma
<1>2. \A d \in Cache, b \in Line :
        /\ d \in V /\ b = a => Completed(d, b)
        /\ ~(d \in V /\ b = a) => mshr'[d][b] = mshr[d][b]
  <2>1. \A d \in Cache, b \in Line :
          /\ d \in V /\ b = a => mshr'[d][b] = Comp(mshr[d][b])
          /\ ~(d \in V /\ b = a) => mshr'[d][b] = mshr[d][b]
    BY <1>0, ReturnedLemma DEF Inv
  <2>2. ASSUME NEW d \in V PROVE Completed(d, a)
    <3>1. d \in Cache /\ mshr[d][a] \in Entry /\ mshr[d][a].ret = "INFLIGHT"
      BY <1>0, <1>1 DEF Inv, TypeOK
    <3>. QED  BY <1>0, <2>1, <3>1, CompLemma, SMTT(30) DEF Completed
  <2>. QED  BY <2>1, <2>2
<1>3. ~(p.fill < Level[c]) => \A u \in Cache : ~InQueue(pq[c], c, u, a)
  BY PopPq DEF AskedBy
<1>4. \A u \in Cache : InQueue(pq[c], c, u, a) => u \in V
  BY <1>3, PopPq DEF AskedBy
<1>5. \A l \in Cache, u \in Cache, b \in Line :
        InQueue(pq'[l], l, u, b) <=> InQueue(pq[l], l, u, b) /\ ~(l = c /\ b = a)
  BY PopPq, ZenonT(40)
<1>6. QueueShape'
  BY PopPq DEF Inv, QueueShape
<1>7. MshrShape' /\ MshrBound'
  BY <1>2, KeptMshr
<1>. HIDE DEF V, p, a
<1>8. MissConserved'
  <2>1. SUFFICES ASSUME NEW u \in Cache, NEW b \in Line PROVE ConservedAt(u, b)'
    BY DEF MissConserved
  <2>2. ConservedAt(u, b)
    BY DEF Inv, MissConserved
  <2>3. Lower[u] \in Cache => (InMshr(Lower[u], u, b)' <=> InMshr(Lower[u], u, b))
    BY <1>2, SameInMshr
  <2>4. CASE u \in V /\ b = a
    <3>1. Lower[u] = c /\ InQueue(pq[c], c, u, a) /\ mshr'[u][a].ret = "COMPLETED"
      BY <1>0, <1>1, <1>2, <2>4, ZenonT(40) DEF Completed
    <3>. QED  BY <1>5, <2>2, <2>3, <2>4, <3>1, TreeAssumption DEF ConservedAt
  <2>5. CASE ~(u \in V /\ b = a)
    <3>1. mshr'[u][b] = mshr[u][b]
      BY <1>2, <2>5
    <3>2. Lower[u] \in Cache =>
            (InQueue(pq'[Lower[u]], Lower[u], u, b) <=> InQueue(pq[Lower[u]], Lower[u], u, b))
      BY <1>4, <1>5, <2>5
    <3>. QED  BY <2>2, <2>3, <3>1, <3>2 DEF ConservedAt
  <2>. QED  BY <2>4, <2>5
<1>. QED  BY <1>6, <1>7, <1>8 DEF Inv

\* The requests held for each cache above are the same as before.
LEMMA ConservedFrame ==
  ASSUME Inv, dramRQ' = dramRQ,
         \A u \in Cache, b \in Line :
           mshr'[u][b].ret = "INFLIGHT" <=> mshr[u][b].ret = "INFLIGHT",
         \A u \in Cache, b \in Line : Lower[u] \in Cache =>
           /\ InQueue(rq'[Lower[u]], Lower[u], u, b) <=> InQueue(rq[Lower[u]], Lower[u], u, b)
           /\ InQueue(pq'[Lower[u]], Lower[u], u, b) <=> InQueue(pq[Lower[u]], Lower[u], u, b)
           /\ InMshr(Lower[u], u, b)' <=> InMshr(Lower[u], u, b)
  PROVE  MissConserved'
<1>1. SUFFICES ASSUME NEW u \in Cache, NEW b \in Line PROVE ConservedAt(u, b)'
  BY DEF MissConserved
<1>2. ConservedAt(u, b)
  BY DEF Inv, MissConserved
<1>. QED  BY <1>2 DEF ConservedAt

\* The MSHR entry of line a in cache c changes, but not whether it is free.
LEMMA OneEntry ==
  ASSUME Inv, NEW c \in Cache, NEW a \in Line,
         \A d \in Cache, b \in Line : d # c \/ b # a => mshr'[d][b] = mshr[d][b],
         mshr'[c][a].ret = mshr[c][a].ret,
         mshr'[c][a].ret # "FREE" => Shape(c, mshr'[c][a], a)
  PROVE  MshrShape' /\ MshrBound'
<1>1. MshrShape'
  BY DEF MshrShape, Inv
<1>2. ASSUME NEW d \in Cache PROVE Occupancy(d)' = Occupancy(d)
  BY SameUsed
<1>. QED  BY <1>1, <1>2 DEF Inv, MshrBound

\* What MergeDemand leaves in the MSHR of the line.
LEMMA MergedEntry ==
  ASSUME Inv, NEW c \in Cache, NEW p \in Packet, MergeDemand(c, p)
  PROVE  LET a == p.addr  e == mshr[c][a]  f == mshr'[c][a]
         IN /\ e \in Entry /\ e.ret # "FREE" /\ f.ret = e.ret
            /\ \A d \in Cache, b \in Line : d # c \/ b # a => mshr'[d][b] = mshr[d][b]
            /\ e.type = "PREFETCH" => f.type = p.type /\ f.fill = p.fill /\ f.via = p.via
            /\ e.type # "PREFETCH" =>
                 f.type = e.type /\ f.fill = LowerOf(e.fill, p.fill) /\ f.via = e.via
<1>. DEFINE a == p.addr
            e == mshr[c][a]
            n == NewEntry(p, e.ret)
            t == TakeFill(e, p.fill)
            m == TakeWho(t, p.who)
<1>1. a \in Line /\ e \in Entry /\ e.ret # "FREE" /\ p.fill \in Levels /\ p.who \in SUBSET Req
  BY PacketLemma DEF Inv, TypeOK, MergeDemand
<1>2. mshr' = [mshr EXCEPT ![c][a] = IF e.type = "PREFETCH" THEN n ELSE m]
  BY DEF MergeDemand, Promoted
<1>3. n.ret = e.ret /\ n.type = p.type /\ n.fill = p.fill /\ n.via = p.via
  BY <1>1, NewEntryLemma, EntryLemma
<1>4. t \in Entry /\ t.ret = e.ret /\ t.type = e.type /\ t.fill = LowerOf(e.fill, p.fill) /\ t.via = e.via
  BY <1>1, TakeFillLemma
<1>. HIDE DEF n, t
<1>5. m.ret = t.ret /\ m.type = t.type /\ m.fill = t.fill /\ m.via = t.via
  BY <1>1, <1>4, TakeWhoLemma
<1>. HIDE DEF m
<1>6. /\ mshr'[c][a] = IF e.type = "PREFETCH" THEN n ELSE m
      /\ \A d \in Cache, b \in Line : d # c \/ b # a => mshr'[d][b] = mshr[d][b]
  BY <1>1, <1>2 DEF Inv, TypeOK
<1>. QED  BY <1>1, <1>3, <1>4, <1>5, <1>6

\* A demand packet merged into an MSHR of a cache with no cache above.
LEMMA LeafMerge ==
  ASSUME Inv, TypeOK', NEW c \in Cache, Uppers(c) = {}, NEW p \in Packet,
         p.fill >= Level[c], MergeDemand(c, p), QueueShape',
         \A d \in Cache : d # c => rq'[d] = rq[d], pq' = pq, dramRQ' = dramRQ
  PROVE  Inv'
<1>. DEFINE a == p.addr
<1>1. a \in Line /\ p.fill \in Levels /\ Level[c] \in Levels
  BY PacketLemma, TreeAssumption
<1>2. mshr[c][a].ret # "FREE" /\ mshr[c][a] \in Entry /\ Shape(c, mshr[c][a], a)
  BY <1>1, MergedEntry DEF Inv, MshrShape
<1>3. mshr[c][a].fill \in Levels /\ mshr[c][a].fill >= Level[c]
  BY <1>2, EntryLemma DEF Shape
<1>4. Shape(c, mshr'[c][a], a)
  <2>1. mshr'[c][a].fill >= Level[c]
    BY <1>1, <1>3, MergedEntry DEF LowerOf, Levels
  <2>. QED  BY <1>2, <2>1 DEF Shape
<1>5. MshrShape' /\ MshrBound'
  BY <1>1, <1>4, MergedEntry, OneEntry
<1>6. ASSUME NEW u \in Cache, Lower[u] \in Cache PROVE Lower[u] # c
  BY <1>6, TreeLemma
<1>7. MissConserved'
  <2>1. \A u \in Cache, b \in Line : Lower[u] \in Cache =>
          (InMshr(Lower[u], u, b)' <=> InMshr(Lower[u], u, b))
    BY <1>6, MergedEntry, SameInMshr
  <2>2. \A u \in Cache, b \in Line :
          mshr'[u][b].ret = "INFLIGHT" <=> mshr[u][b].ret = "INFLIGHT"
    BY MergedEntry
  <2>. QED  BY <1>6, <2>1, <2>2, ConservedFrame
<1>. QED  BY <1>5, <1>7 DEF Inv

\* handle_read merges its packet into the MSHR of the line.
LEMMA MergeStep ==
  ASSUME PrivateLines, Inv, TypeOK', NEW c \in Cache, rq[c] # <<>>,
         rq' = [rq EXCEPT ![c] = Tail(@)], MergeDemand(c, Head(rq[c])),
         UNCHANGED <<pq, dramRQ>>
  PROVE  Inv'
<1>. DEFINE p == Head(rq[c])
            a == p.addr
            v == p.via
            e == mshr[c][a]
<1>0. /\ p \in Packet /\ a \in Line /\ Shape(c, p, a) /\ p.type # "PREFETCH"
      /\ p.fill \in Levels /\ Level[c] \in Levels
  BY PopRq, PacketLemma, TreeAssumption DEF RqShape
<1>1. QueueShape'
  BY PopRq DEF Inv, QueueShape
<1>2. CASE Uppers(c) = {}
  BY <1>0, <1>1, <1>2, LeafMerge DEF Shape, Inv, TypeOK
<1>3. CASE Uppers(c) # {}
  <2>1. /\ v \in Uppers(c) /\ p.fill < Level[c] /\ a \in Reach[v]
        /\ v \in Cache /\ Lower[v] = c
    BY <1>0, <1>3 DEF Shape, Uppers
  <2>2. InQueue(rq[c], c, v, a)
    BY <2>1, PopRq DEF AskedBy
  <2>3. /\ mshr[v][a].ret = "INFLIGHT" /\ ~InMshr(c, v, a) /\ ~InQueue(pq[c], c, v, a)
    BY <1>0, <2>1, <2>2 DEF Inv, MissConserved, ConservedAt
  <2>4. e.ret # "FREE" /\ e \in Entry /\ Shape(c, e, a)
    BY <1>0, MergedEntry DEF Inv, MshrShape
  <2>5. ASSUME NEW u \in Uppers(c) PROVE ~InMshr(c, u, a)
    BY <2>1, <2>3, <2>4, <1>3, PrivateUpper DEF InMshr, AskedBy, Shape
  <2>6. e.type = "PREFETCH"
    BY <1>3, <2>4, <2>5 DEF Shape, InMshr, AskedBy
  <2>7. /\ mshr'[c][a].ret = e.ret /\ mshr'[c][a].type = p.type
        /\ mshr'[c][a].fill = p.fill /\ mshr'[c][a].via = v
        /\ \A d \in Cache, b \in Line : d # c \/ b # a => mshr'[d][b] = mshr[d][b]
    BY <1>0, <2>6, MergedEntry
  <2>8. MshrShape' /\ MshrBound'
    <3>1. Shape(c, mshr'[c][a], a)
      BY <1>0, <2>7 DEF Shape
    <3>. QED  BY <1>0, <2>7, <3>1, OneEntry
  <2>9. MissConserved'
    <3>1. SUFFICES ASSUME NEW u \in Cache, NEW b \in Line PROVE ConservedAt(u, b)'
      BY DEF MissConserved
    <3>2. ConservedAt(u, b)
      BY DEF Inv, MissConserved
    <3>3. mshr'[u][b].ret = "INFLIGHT" <=> mshr[u][b].ret = "INFLIGHT"
      BY <2>7
    <3>4. Lower[u] \in Cache =>
            (InQueue(rq'[Lower[u]], Lower[u], u, b) <=>
               InQueue(rq[Lower[u]], Lower[u], u, b) /\ ~(Lower[u] = c /\ b = a))
      BY PopRq, ZenonT(40)
    <3>5. CASE Lower[u] = c /\ b = a
      <4>. HIDE DEF a, v
      <4>1. InMshr(c, u, b)' <=> u = v
        BY <2>1, <2>4, <2>7, <3>5 DEF InMshr, AskedBy
      <4>2. ~InMshr(c, u, b)
        BY <2>5, <3>5 DEF Uppers
      <4>3. InQueue(rq[c], c, u, b) <=> u = v
        BY <2>1, <3>5, PopRq DEF AskedBy, a, v
      <4>. QED  BY <2>3, <3>2, <3>3, <3>4, <3>5, <4>1, <4>2, <4>3, TreeAssumption DEF ConservedAt
    <3>6. CASE ~(Lower[u] = c /\ b = a)
      <4>1. Lower[u] \in Cache => (InMshr(Lower[u], u, b)' <=> InMshr(Lower[u], u, b))
        BY <2>7, <3>6, SameInMshr
      <4>. QED  BY <3>2, <3>3, <3>4, <3>6, <4>1 DEF ConservedAt
    <3>. QED  BY <3>5, <3>6
  <2>. QED  BY <1>1, <2>8, <2>9 DEF Inv
<1>. QED  BY <1>2, <1>3

\* add_rq keeps one packet per line, each of the right form.
LEMMA AddRqShape ==
  ASSUME Inv, NEW c \in Cache, NEW p \in Packet, RqShape(c, p), NEW x
  PROVE  /\ Distinct(AfterAddRq(c, p, x))
         /\ \A r \in Elem(AfterAddRq(c, p, x)) : RqShape(c, r)
<1>. DEFINE q == rq[c]
<1>1. q \in Seq(Packet) /\ Distinct(q) /\ \A r \in Elem(q) : r \in Packet /\ RqShape(c, r)
  BY ElemPacket DEF Inv, TypeOK, QueueShape
<1>. HIDE DEF q
<1>2. Distinct(MergeRq(q, p)) /\ \A r \in Elem(MergeRq(q, p)) : RqShape(c, r)
  <2>1. Distinct(MergeRq(q, p))
    BY <1>1, MergeRqElem
  <2>2. SUFFICES ASSUME NEW r \in Elem(MergeRq(q, p)) PROVE RqShape(c, r)
    BY <2>1
  <2>3. PICK o \in Elem(q) : r = IF o.addr = p.addr THEN TakeWho(o, p.who) ELSE o
    BY <1>1, MergeRqElem
  <2>4. p.who \in SUBSET Req /\ o \in Packet /\ RqShape(c, o)
    BY <1>1, PacketLemma
  <2>5. r.addr = o.addr /\ r.type = o.type /\ r.fill = o.fill /\ r.via = o.via
    BY <2>3, <2>4, TakeWhoLemma
  <2>. QED  BY <2>4, <2>5 DEF RqShape, Shape
<1>3. ~Holds(q, p.addr) =>
        Distinct(Append(q, p)) /\ \A r \in Elem(Append(q, p)) : RqShape(c, r)
  BY <1>1, AppendElem
<1>. QED  BY <1>1, <1>2, <1>3 DEF AfterAddRq, q

\* What add_pq leaves in the prefetch queue, when it does not find the line in
\* the write queue and has room.
LEMMA AddPqShape ==
  ASSUME Inv, NEW c \in Cache, NEW p \in Packet, PqShape(c, p), NEW x
  PROVE  /\ Distinct(AfterAddPq(c, p, x))
         /\ \A r \in Elem(AfterAddPq(c, p, x)) : PqShape(c, r)
         /\ WqHit(c, p.addr, x) => AfterAddPq(c, p, x) = pq[c]
         /\ ~WqHit(c, p.addr, x) /\ Len(pq[c]) < PQ_SIZE[c] /\ Uppers(c) # {} =>
              \A u \in Cache, b \in Line :
                InQueue(AfterAddPq(c, p, x), c, u, b) <=>
                  InQueue(pq[c], c, u, b) \/ (b = p.addr /\ AskedBy(c, p, u))
<1>. DEFINE q == pq[c]
            m == MergePq(q, p)
<1>1. q \in Seq(Packet) /\ Distinct(q) /\ \A r \in Elem(q) : r \in Packet /\ PqShape(c, r)
  BY ElemPacket DEF Inv, TypeOK, QueueShape
<1>. HIDE DEF q
<1>2. p.fill \in Levels /\ p.addr \in Line /\ Level[c] \in Levels
  BY PacketLemma, TreeAssumption
<1>3. /\ m \in Seq(Packet) /\ Distinct(m)
      /\ Elem(m) = {(IF r.addr = p.addr THEN TakeFill(r, p.fill) ELSE r) : r \in Elem(q)}
  BY <1>1, MergePqElem, MergePqType
<1>. HIDE DEF m
<1>4. \A o \in Elem(q) :
        /\ o.fill \in Levels /\ TakeFill(o, p.fill).addr = o.addr
        /\ TakeFill(o, p.fill).type = o.type /\ TakeFill(o, p.fill).via = o.via
        /\ TakeFill(o, p.fill).fill = LowerOf(o.fill, p.fill)
  BY <1>1, <1>2, TakeFillLemma, PacketLemma
<1>5. ASSUME NEW r \in Elem(m) PROVE PqShape(c, r)
  <2>1. PICK o \in Elem(q) : r = IF o.addr = p.addr THEN TakeFill(o, p.fill) ELSE o
    BY <1>3
  <2>2. CASE o.addr # p.addr
    BY <1>1, <2>1, <2>2
  <2>3. CASE o.addr = p.addr
    <3>1. /\ r.addr = o.addr /\ r.type = o.type /\ r.via = o.via
          /\ r.fill = o.fill \/ r.fill = p.fill
      BY <1>4, <2>1, <2>3 DEF LowerOf
    <3>2. PqShape(c, o)
      BY <1>1
    <3>. QED  BY <2>3, <3>1, <3>2 DEF PqShape, Shape
  <2>. QED  BY <2>2, <2>3
<1>6. ~Holds(q, p.addr) =>
        Distinct(Append(q, p)) /\ Elem(Append(q, p)) = Elem(q) \cup {p}
  BY <1>1, AppendElem
<1>7. ASSUME Uppers(c) # {}, Holds(q, p.addr), NEW u \in Cache, NEW b \in Line
      PROVE  InQueue(m, c, u, b) <=> InQueue(q, c, u, b) \/ (b = p.addr /\ AskedBy(c, p, u))
  <2>1. PICK h \in Elem(q) : h.addr = p.addr
    BY <1>1, <1>7, HoldsElem
  <2>2. h.via = p.via
    BY <1>1, <1>7 DEF PqShape, Shape
  <2>3. \A o \in Elem(q) : o.addr = p.addr => o = h
    BY <1>1, <2>1, DistinctElem
  <2>4. /\ InQueue(q, c, u, b) <=> \E r \in Elem(q) : r.addr = b /\ AskedBy(c, r, u)
        /\ InQueue(m, c, u, b) <=> \E r \in Elem(m) : r.addr = b /\ AskedBy(c, r, u)
    BY <1>1, <1>3, InQueueElem
  <2>5. CASE b # p.addr
    <3>1. \A r \in Elem(m) : r.addr = b => r \in Elem(q)
      BY <1>3, <1>4, <2>5
    <3>2. \A r \in Elem(q) : r.addr = b => r \in Elem(m)
      BY <1>3, <2>5
    <3>. QED  BY <2>4, <2>5, <3>1, <3>2
  <2>6. CASE b = p.addr
    <3>. DEFINE g == TakeFill(h, p.fill)
    <3>1. g \in Elem(m) /\ g.addr = b /\ \A r \in Elem(m) : r.addr = b => r = g
      BY <1>3, <1>4, <2>1, <2>3, <2>6
    <3>2. AskedBy(c, g, u) <=> AskedBy(c, h, u) \/ AskedBy(c, p, u)
      BY <1>2, <1>4, <2>2 DEF AskedBy, LowerOf, Levels
    <3>. HIDE DEF g
    <3>. QED  BY <2>1, <2>3, <2>4, <2>6, <3>1, <3>2
  <2>. QED  BY <2>5, <2>6
<1>8. ASSUME ~Holds(q, p.addr), NEW u \in Cache, NEW b \in Line
      PROVE  InQueue(Append(q, p), c, u, b) <=>
               InQueue(q, c, u, b) \/ (b = p.addr /\ AskedBy(c, p, u))
  <2>. DEFINE t == Append(q, p)
  <2>1. t \in Seq(Packet) /\ Elem(t) = Elem(q) \cup {p}
    BY <1>1, <1>6, <1>8, AppendLemma
  <2>. HIDE DEF t
  <2>2. /\ InQueue(q, c, u, b) <=> \E r \in Elem(q) : r.addr = b /\ AskedBy(c, r, u)
        /\ InQueue(t, c, u, b) <=> \E r \in Elem(t) : r.addr = b /\ AskedBy(c, r, u)
    BY <1>1, <2>1, InQueueElem
  <2>. QED  BY <2>1, <2>2 DEF t
<1>9. /\ Distinct(AfterAddPq(c, p, x))
      /\ \A r \in Elem(AfterAddPq(c, p, x)) : PqShape(c, r)
  BY <1>1, <1>3, <1>5, <1>6 DEF AfterAddPq, q, m
<1>10. ~WqHit(c, p.addr, x) /\ Len(q) < PQ_SIZE[c] =>
         AfterAddPq(c, p, x) = IF Holds(q, p.addr) THEN m ELSE Append(q, p)
  <2>1. PQ_SIZE[c] \in Nat /\ Len(q) \in Nat
    BY <1>1, SizeAssumption, SeqLemma
  <2>. QED  BY <2>1 DEF AfterAddPq, q, m
<1>11. WqHit(c, p.addr, x) => AfterAddPq(c, p, x) = q
  BY DEF AfterAddPq, q
<1>. QED  BY <1>7, <1>8, <1>9, <1>10, <1>11 DEF q

\* add_rq called by the core.
LEMMA CoreReadStep ==
  ASSUME Inv, TypeOK', NEW r \in Req, NEW a \in Line, NEW x \in Word, CoreRead(r, a, x)
  PROVE  Inv'
<1>. DEFINE c == Port[r]
            p == [addr |-> a, type |-> "LOAD", fill |-> Level[c], via |-> NoCache,
                  who |-> {r}]
            s == AfterAddRq(c, p, x)
<1>1. c \in Cache /\ Uppers(c) = {} /\ Level[c] \in Levels
  BY TreeAssumption
<1>2. p \in Packet
  BY <1>1, TreeAssumption DEF Packet, Type
<1>3. RqShape(c, p)
  BY <1>1 DEF CoreRead, RqShape, Shape, Levels
<1>4. rq' = [rq EXCEPT ![c] = s] /\ UNCHANGED <<pq, mshr, dramRQ>>
  BY DEF CoreRead
<1>5. Distinct(s) /\ \A o \in Elem(s) : RqShape(c, o)
  BY <1>1, <1>2, <1>3, AddRqShape
<1>. HIDE DEF p, s, c
<1>6. \A d \in Cache : rq'[d] = IF d = c THEN s ELSE rq[d]
  BY <1>1, <1>4 DEF Inv, TypeOK
<1>7. QueueShape'
  BY <1>4, <1>5, <1>6 DEF Inv, QueueShape
<1>8. MshrShape' /\ MshrBound'
  BY <1>4, KeptMshr
<1>9. ASSUME NEW u \in Cache, Lower[u] \in Cache PROVE Lower[u] # c
  BY <1>1, <1>9, TreeLemma
<1>10. MissConserved'
  <2>1. \A u \in Cache, b \in Line : Lower[u] \in Cache =>
          (InMshr(Lower[u], u, b)' <=> InMshr(Lower[u], u, b))
    BY <1>4 DEF InMshr
  <2>. QED  BY <1>4, <1>6, <1>9, <2>1, ConservedFrame
<1>. QED  BY <1>7, <1>8, <1>10 DEF Inv

\* prefetch_line
LEMMA PrefetchLineStep ==
  ASSUME Inv, TypeOK', NEW c \in Cache, NEW a \in Line, NEW x \in Word, NEW f \in Levels,
         PrefetchLine(c, a, x, f)
  PROVE  Inv'
<1>. DEFINE p == [addr |-> a, type |-> "PREFETCH", fill |-> f, via |-> Dcache[c],
                  who |-> {}]
            s == AfterAddPq(c, p, x)
<1>1. p \in Packet
  BY TreeAssumption DEF Packet, Type
<1>2. f \in PfFill[c] /\ f >= Level[c] /\ a \in Reach[c] /\ Len(pq[c]) < PQ_SIZE[c]
  BY PrefetchAssumption DEF PrefetchLine
<1>3. PqShape(c, p)
  <2>1. Uppers(c) # {} => Dcache[c] \in Uppers(c) /\ Level[c] \in Levels
    BY TreeAssumption
  <2>2. Uppers(c) # {} => ~(f < Level[c])
    BY <1>2, <2>1 DEF Levels
  <2>3. f \in PfLevels
    BY <1>2 DEF PfLevels
  <2>4. Lower[c] \in Cache => Dcache[Lower[c]] = c
    BY <1>2, PrefetchAssumption
  <2>. QED  BY <1>2, <2>1, <2>2, <2>3, <2>4 DEF PqShape, Shape
<1>4. pq' = [pq EXCEPT ![c] = s] /\ UNCHANGED <<rq, mshr, dramRQ>>
  BY DEF PrefetchLine
<1>5. Distinct(s) /\ \A o \in Elem(s) : PqShape(c, o)
  BY <1>1, <1>3, AddPqShape
<1>6. Uppers(c) # {} => \A u \in Cache, b \in Line :
        InQueue(s, c, u, b) <=> InQueue(pq[c], c, u, b)
  <2>1. \A u \in Cache : ~AskedBy(c, p, u)
    BY <1>2, TreeAssumption DEF AskedBy, Levels
  <2>2. WqHit(c, p.addr, x) => s = pq[c]
    BY <1>1, <1>3, AddPqShape
  <2>3. ~WqHit(c, p.addr, x) /\ Uppers(c) # {} => \A u \in Cache, b \in Line :
          InQueue(s, c, u, b) <=> InQueue(pq[c], c, u, b) \/ (b = p.addr /\ AskedBy(c, p, u))
    BY <1>1, <1>2, <1>3, AddPqShape
  <2>. HIDE DEF p, s
  <2>. QED  BY <2>1, <2>2, <2>3
<1>. HIDE DEF p, s
<1>7. \A d \in Cache : pq'[d] = IF d = c THEN s ELSE pq[d]
  BY <1>4 DEF Inv, TypeOK
<1>8. QueueShape'
  BY <1>4, <1>5, <1>7 DEF Inv, QueueShape
<1>9. MshrShape' /\ MshrBound'
  BY <1>4, KeptMshr
<1>10. MissConserved'
  <2>1. \A u \in Cache, b \in Line : Lower[u] \in Cache =>
          (InMshr(Lower[u], u, b)' <=> InMshr(Lower[u], u, b))
    BY <1>4 DEF InMshr
  <2>2. \A u \in Cache, b \in Line : Lower[u] \in Cache =>
          (InQueue(pq'[Lower[u]], Lower[u], u, b) <=> InQueue(pq[Lower[u]], Lower[u], u, b))
    BY <1>6, <1>7, TreeLemma
  <2>. QED  BY <1>4, <2>1, <2>2, ConservedFrame
<1>. QED  BY <1>8, <1>9, <1>10 DEF Inv

\* MEMORY_CONTROLLER::process returns a read.
LEMMA DramReadStep ==
  ASSUME Inv, TypeOK', NEW c \in Cache, NEW a \in Line, DramRead(c, a)
  PROVE  Inv'
<1>1. /\ Lower[c] = DRAM /\ DRAM \notin Cache /\ mshr[c][a] \in Entry
      /\ mshr[c][a].ret = "INFLIGHT" /\ UNCHANGED <<rq, pq>> /\ dramRQ' = dramRQ \ {a}
  BY TreeAssumption DEF DramRead, Inv, TypeOK, MissConserved, ConservedAt
<1>2. /\ mshr'[c][a] = Comp(mshr[c][a])
      /\ \A d \in Cache, b \in Line : d # c \/ b # a => mshr'[d][b] = mshr[d][b]
  BY DEF DramRead, Inv, TypeOK, Comp
<1>3. Completed(c, a)
  BY <1>1, <1>2, CompLemma DEF Completed
<1>4. MshrShape' /\ MshrBound'
  BY <1>2, <1>3, KeptMshr
<1>5. QueueShape'
  BY <1>1 DEF Inv, QueueShape
<1>6. MissConserved'
  <2>1. SUFFICES ASSUME NEW u \in Cache, NEW b \in Line PROVE ConservedAt(u, b)'
    BY DEF MissConserved
  <2>2. ConservedAt(u, b)
    BY DEF Inv, MissConserved
  <2>3. CASE Lower[u] = DRAM
    <3>1. u = c
      BY <1>1, <2>3, TreeAssumption
    <3>. QED  BY <1>1, <1>2, <1>3, <2>2, <2>3, <3>1 DEF ConservedAt, Completed
  <2>4. CASE Lower[u] # DRAM
    <3>1. mshr'[u][b] = mshr[u][b]
      BY <1>1, <1>2, <2>4
    <3>2. Lower[u] \in Cache => (InMshr(Lower[u], u, b)' <=> InMshr(Lower[u], u, b))
      BY <1>2, <1>3, SameInMshr
    <3>. QED  BY <1>1, <2>2, <2>4, <3>1, <3>2 DEF ConservedAt
  <2>. QED  BY <2>3, <2>4
<1>. QED  BY <1>4, <1>5, <1>6 DEF Inv

\* handle_prefetch meets an MSHR of its line.
LEMMA PrefetchMergeStep ==
  ASSUME PrivateLines, Inv, TypeOK', NEW c \in Cache, PrefetchMerge(c)
  PROVE  Inv'
<1>. DEFINE p == Head(pq[c])
            a == p.addr
            e == mshr[c][a]
            t == TakeFill(e, p.fill)
<1>0. /\ pq[c] # <<>> /\ pq' = [pq EXCEPT ![c] = Tail(@)] /\ UNCHANGED <<rq, dramRQ>>
      /\ e.ret # "FREE" /\ mshr' = [mshr EXCEPT ![c][a] = t]
  BY DEF PrefetchMerge
<1>1. /\ p \in Packet /\ a \in Line /\ Shape(c, p, a) /\ p.type = "PREFETCH"
      /\ p.fill \in Levels /\ Level[c] \in Levels /\ e \in Entry /\ e.fill \in Levels
      /\ Shape(c, e, a)
  <2>1. p \in Packet /\ PqShape(c, p) /\ Level[c] \in Levels
    BY <1>0, PopPq, TreeAssumption
  <2>2. a \in Line /\ p.fill \in Levels
    BY <2>1, PacketLemma
  <2>3. e \in Entry /\ e.fill \in Levels /\ Shape(c, e, a)
    BY <1>0, <2>2, EntryLemma DEF Inv, TypeOK, MshrShape
  <2>. QED  BY <2>1, <2>2, <2>3 DEF PqShape
<1>2. /\ t.ret = e.ret /\ t.type = e.type /\ t.via = e.via /\ t.fill = LowerOf(e.fill, p.fill)
  BY <1>1, TakeFillLemma
<1>3. QueueShape'
  BY <1>0, PopPq DEF Inv, QueueShape
<1>4. \A l \in Cache, u \in Cache, b \in Line :
        InQueue(pq'[l], l, u, b) <=> InQueue(pq[l], l, u, b) /\ ~(l = c /\ b = a)
  BY <1>0, PopPq
<1>5. \A u \in Cache : InQueue(pq[c], c, u, a) <=> AskedBy(c, p, u)
  BY <1>0, PopPq
<1>. HIDE DEF t, e, p, a
<1>6. mshr'[c][a] = t /\ \A d \in Cache, b \in Line : d # c \/ b # a => mshr'[d][b] = mshr[d][b]
  BY <1>0, <1>1 DEF Inv, TypeOK
<1>7. mshr[c][a] = e
  BY DEF e
<1>8. \A u \in Uppers(c) : AskedBy(c, p, u) => p.via = Dcache[c] /\ a \in Reach[u] /\ ~AskedBy(c, e, u)
  <2>1. SUFFICES ASSUME NEW u \in Uppers(c), AskedBy(c, p, u)
                 PROVE  p.via = Dcache[c] /\ a \in Reach[u] /\ ~AskedBy(c, e, u)
    OBVIOUS
  <2>2. p.via = Dcache[c] /\ a \in Reach[u]
    BY <1>1, <2>1 DEF Shape, AskedBy
  <2>3. u \in Cache /\ Lower[u] = c /\ ConservedAt(u, a)
    BY <1>1 DEF Uppers, Inv, MissConserved
  <2>4. InQueue(pq[c], c, u, a)
    BY <1>5, <2>1, <2>3
  <2>5. ~InMshr(c, u, a)
    BY <2>3, <2>4 DEF ConservedAt
  <2>. QED  BY <1>0, <1>7, <2>2, <2>5 DEF InMshr
<1>9. \A u \in Uppers(c) : AskedBy(c, t, u) <=> AskedBy(c, e, u) \/ AskedBy(c, p, u)
  <2>1. SUFFICES ASSUME NEW u \in Uppers(c)
                 PROVE  AskedBy(c, t, u) <=> AskedBy(c, e, u) \/ AskedBy(c, p, u)
    OBVIOUS
  <2>2. t.fill < Level[c] <=> e.fill < Level[c] \/ p.fill < Level[c]
    BY <1>1, <1>2 DEF LowerOf, Levels
  <2>3. Uppers(c) # {} /\ p.via \in Uppers(c) /\ p.via = Dcache[c] /\ e.via \in Uppers(c)
    BY <1>1, <2>1 DEF Shape
  <2>4. p.fill < Level[c] => e.via = p.via
    <3>1. SUFFICES ASSUME p.fill < Level[c] PROVE e.via = p.via
      OBVIOUS
    <3>2. a \in Reach[p.via] /\ ~AskedBy(c, e, p.via)
      BY <1>8, <2>3, <3>1 DEF AskedBy
    <3>3. CASE e.fill < Level[c]
      <4>1. a \in Reach[e.via]
        BY <1>1, <2>3, <3>3 DEF Shape
      <4>. QED  BY <2>3, <3>2, <4>1, PrivateUpper
    <3>4. CASE ~(e.fill < Level[c])
      BY <1>1, <2>3, <3>4 DEF Shape
    <3>. QED  BY <3>3, <3>4
  <2>. QED  BY <1>2, <2>2, <2>4 DEF AskedBy
<1>10. Shape(c, t, a)
  <2>1. CASE Uppers(c) = {}
    BY <1>1, <1>2, <2>1 DEF Shape, LowerOf
  <2>2. CASE Uppers(c) # {}
    <3>1. e.via \in Uppers(c) /\ p.via \in Uppers(c) /\ p.via = Dcache[c]
      BY <1>1, <2>2 DEF Shape
    <3>2. t.fill < Level[c] => a \in Reach[t.via]
      <4>1. SUFFICES ASSUME t.fill < Level[c] PROVE a \in Reach[e.via]
        BY <1>2
      <4>2. AskedBy(c, e, e.via) \/ AskedBy(c, p, e.via)
        BY <1>2, <1>9, <3>1, <4>1 DEF AskedBy
      <4>. QED  BY <1>1, <1>8, <2>2, <3>1, <4>2 DEF Shape, AskedBy
    <3>3. e.fill < Level[c] => t.fill < Level[c]
      BY <1>1, <1>2 DEF LowerOf, Levels
    <3>. QED  BY <1>1, <1>2, <2>2, <3>1, <3>2, <3>3 DEF Shape
  <2>. QED  BY <2>1, <2>2
<1>11. MshrShape' /\ MshrBound'
  BY <1>1, <1>2, <1>6, <1>7, <1>10, OneEntry
<1>12. MissConserved'
  <2>1. SUFFICES ASSUME NEW u \in Cache, NEW b \in Line PROVE ConservedAt(u, b)'
    BY DEF MissConserved
  <2>2. ConservedAt(u, b)
    BY DEF Inv, MissConserved
  <2>3. mshr'[u][b].ret = "INFLIGHT" <=> mshr[u][b].ret = "INFLIGHT"
    BY <1>2, <1>6, <1>7
  <2>4. CASE Lower[u] = c /\ b = a
    <3>1. u \in Uppers(c)
      BY <2>4 DEF Uppers
    <3>2. InMshr(c, u, b)' <=> AskedBy(c, e, u) \/ AskedBy(c, p, u)
      <4>1. InMshr(c, u, b)' <=> AskedBy(c, t, u)
        BY <1>0, <1>2, <1>6, <2>4 DEF InMshr, AskedBy
      <4>. QED  BY <1>9, <3>1, <4>1
    <3>3. InMshr(c, u, b) <=> AskedBy(c, e, u)
      BY <1>0, <1>7, <2>4 DEF InMshr
    <3>4. InQueue(pq[c], c, u, b) <=> AskedBy(c, p, u)
      BY <1>5, <2>4
    <3>. QED  BY <1>0, <1>4, <2>2, <2>3, <2>4, <3>2, <3>3, <3>4, TreeAssumption DEF ConservedAt
  <2>5. CASE ~(Lower[u] = c /\ b = a)
    <3>1. Lower[u] \in Cache => (InMshr(Lower[u], u, b)' <=> InMshr(Lower[u], u, b))
      BY <1>6, <2>5, SameInMshr
    <3>. QED  BY <1>0, <1>4, <2>2, <2>3, <2>5, <3>1 DEF ConservedAt
  <2>. QED  BY <2>4, <2>5
<1>. QED  BY <1>3, <1>11, <1>12 DEF Inv

\* The read queue below after a new demand miss of cache c.
LEMMA AddRqBelow ==
  ASSUME PrivateLines, Inv, NEW c \in Cache, Lower[c] \in Cache, NEW p \in Packet,
         RqShape(c, p), mshr[c][p.addr].ret = "FREE", Occupancy(c) < MSHR_SIZE[c]
  PROVE  LET l == Lower[c]
             s == AfterAddRq(l, Sent(c, p), AnyWord)
         IN /\ Distinct(s) /\ \A r \in Elem(s) : RqShape(l, r)
            /\ WqHit(l, p.addr, AnyWord) => s = rq[l]
            /\ ~WqHit(l, p.addr, AnyWord) => \A u \in Cache, b \in Line :
                 InQueue(s, l, u, b) <=> InQueue(rq[l], l, u, b) \/ (u = c /\ b = p.addr)
<1>. DEFINE l == Lower[c]
            n == Sent(c, p)
            s == AfterAddRq(l, n, AnyWord)
            q == rq[l]
<1>0. /\ l \in Cache /\ c \in Uppers(l) /\ Uppers(l) # {} /\ Level[c] < Level[l]
      /\ Level[c] \in Levels /\ Level[l] \in Levels
  BY TreeLemma
<1>1. /\ n \in Packet /\ n.addr = p.addr /\ n.type = p.type /\ n.fill = p.fill
      /\ n.via = c /\ p.addr \in Line /\ p.fill \in Levels
  BY SentLemma, PacketLemma
<1>2. n.fill < Level[l] /\ n.fill <= Level[l]
  BY <1>0, <1>1 DEF RqShape, Levels
<1>3. p.addr \in Reach[c] /\ p.addr \in Reach[l]
  BY LineAssumption DEF RqShape, Shape
<1>4. RqShape(l, n)
  <2>1. n.type # "PREFETCH"
    BY <1>1 DEF RqShape
  <2>. QED  BY <1>0, <1>1, <1>2, <1>3, <2>1 DEF RqShape, Shape
<1>5. Distinct(s) /\ \A r \in Elem(s) : RqShape(l, r)
  BY <1>0, <1>1, <1>4, AddRqShape
<1>6. WqHit(l, p.addr, AnyWord) => s = q
  BY <1>1 DEF AfterAddRq
<1>7. ~Holds(q, p.addr)
  BY <1>1, <1>3, RoomBelow
<1>8. /\ Len(q) < RQ_SIZE[l] /\ RQ_SIZE[l] \in Nat /\ q \in Seq(Packet) /\ Len(q) \in Nat
      /\ Distinct(q)
  <2>1. Used(c) # Line
    BY <1>1 DEF Used
  <2>. QED  BY <2>1, InvReadQueueRoom, SizeAssumption, SeqLemma
            DEF ReadQueueRoom, Inv, TypeOK, QueueShape
<1>9. ~WqHit(l, p.addr, AnyWord) => s = Append(q, n)
  BY <1>1, <1>7, <1>8 DEF AfterAddRq
<1>. DEFINE t == Append(q, n)
<1>10. t \in Seq(Packet) /\ Elem(t) = Elem(q) \cup {n}
  BY <1>1, <1>7, <1>8, AppendElem, AppendLemma
<1>11. ASSUME NEW u \in Cache, NEW b \in Line
       PROVE  InQueue(t, l, u, b) <=> InQueue(q, l, u, b) \/ (u = c /\ b = p.addr)
  <2>. HIDE DEF t, q, n, l
  <2>1. /\ InQueue(q, l, u, b) <=> \E r \in Elem(q) : r.addr = b /\ AskedBy(l, r, u)
        /\ InQueue(t, l, u, b) <=> \E r \in Elem(t) : r.addr = b /\ AskedBy(l, r, u)
    BY <1>8, <1>10, InQueueElem
  <2>2. AskedBy(l, n, u) <=> u = c
    BY <1>1, <1>2 DEF AskedBy
  <2>. QED  BY <1>1, <1>10, <2>1, <2>2
<1>. HIDE DEF s, t
<1>. QED  BY <1>5, <1>6, <1>9, <1>11 DEF s, t

\* The MSHR taken by a new miss.
LEMMA NewMshr ==
  ASSUME Inv, NEW c \in Cache, NEW p \in Packet, Shape(c, p, p.addr),
         mshr[c][p.addr].ret = "FREE", Occupancy(c) < MSHR_SIZE[c],
         NEW ret \in {"INFLIGHT", "COMPLETED"},
         mshr' = [mshr EXCEPT ![c][p.addr] = NewEntry(p, ret)]
  PROVE  /\ MshrShape' /\ MshrBound'
         /\ mshr'[c][p.addr].ret = ret
         /\ mshr'[c][p.addr].fill = p.fill /\ mshr'[c][p.addr].via = p.via
         /\ \A d \in Cache, b \in Line : d # c \/ b # p.addr => mshr'[d][b] = mshr[d][b]
<1>. DEFINE a == p.addr
            n == NewEntry(p, ret)
<1>0. a \in Line
  BY PacketLemma
<1>1. n.ret = ret /\ n.fill = p.fill /\ n.via = p.via /\ n.type = p.type
  BY NewEntryLemma
<1>. HIDE DEF n, a
<1>2. mshr'[c][a] = n /\ \A d \in Cache, b \in Line : d # c \/ b # a => mshr'[d][b] = mshr[d][b]
  BY <1>0 DEF Inv, TypeOK, a, n
<1>3. Shape(c, n, a)
  BY <1>1 DEF Shape, a
<1>4. MshrShape'
  BY <1>2, <1>3 DEF MshrShape, Inv
<1>5. MshrBound'
  <2>1. SUFFICES ASSUME NEW d \in Cache PROVE Occupancy(d)' <= MSHR_SIZE[d]
    BY DEF MshrBound
  <2>2. CASE d = c
    <3>1. Used(c)' = Used(c) \cup {a} /\ a \notin Used(c)
      BY <1>0, <1>1, <1>2 DEF Used, a
    <3>2. IsFiniteSet(Used(c)) /\ Occupancy(c) \in Nat /\ MSHR_SIZE[c] \in Nat
      BY OccupancyLemma, SizeAssumption DEF Inv
    <3>3. Cardinality(Used(c)') = Cardinality(Used(c)) + 1
      BY <3>1, <3>2, FS_AddElement
    <3>. QED  BY <2>2, <3>2, <3>3 DEF Occupancy
  <2>3. CASE d # c
    <3>1. Occupancy(d)' = Occupancy(d)
      BY <1>2, <2>3, SameUsed
    <3>. QED  BY <3>1 DEF Inv, MshrBound
  <2>. QED  BY <2>2, <2>3
<1>. QED  BY <1>1, <1>2, <1>4, <1>5 DEF a

\* A new demand miss: its packet leaves the queue it was in, if it was in one,
\* takes an MSHR and is passed down.
LEMMA IssueCore ==
  ASSUME PrivateLines, Inv, TypeOK', NEW c \in Cache, NEW p \in Packet, RqShape(c, p),
         IssueRead(c, p), pq' = pq,
         \A d \in Cache : d # c /\ d # Lower[c] => rq'[d] = rq[d],
         Lower[c] \in Cache => rq'[Lower[c]] = AfterAddRq(Lower[c], Sent(c, p), AnyWord),
         Distinct(rq'[c]) /\ \A r \in Elem(rq'[c]) : RqShape(c, r),
         Uppers(c) # {} =>
           /\ \A u \in Cache : InQueue(rq[c], c, u, p.addr) <=> AskedBy(c, p, u)
           /\ \A u \in Cache, b \in Line :
                InQueue(rq'[c], c, u, b) <=> InQueue(rq[c], c, u, b) /\ b # p.addr
  PROVE  Inv'
<1>. DEFINE a == p.addr
            l == Lower[c]
            hit == WqHit(l, a, AnyWord)
<1>0. /\ a \in Line /\ Shape(c, p, a) /\ mshr[c][a].ret = "FREE" /\ Occupancy(c) < MSHR_SIZE[c]
  BY PacketLemma DEF RqShape, IssueRead, MshrRoom
<1>1. PICK ret \in {"INFLIGHT", "COMPLETED"} :
        /\ mshr' = [mshr EXCEPT ![c][a] = NewEntry(p, ret)]
        /\ l \in Cache => (ret = "INFLIGHT" <=> ~hit) /\ dramRQ' = dramRQ
        /\ l = WALK => dramRQ' = dramRQ
        /\ l = DRAM => IF ret = "INFLIGHT" THEN dramRQ' = dramRQ \cup {a}
                                           ELSE dramRQ' = dramRQ
  BY TreeAssumption DEF IssueRead
<1>2. /\ MshrShape' /\ MshrBound'
      /\ mshr'[c][a].ret = ret /\ mshr'[c][a].fill = p.fill /\ mshr'[c][a].via = p.via
      /\ \A d \in Cache, b \in Line : d # c \/ b # a => mshr'[d][b] = mshr[d][b]
  BY <1>0, <1>1, NewMshr
<1>3. l \in Cache =>
        /\ Distinct(rq'[l]) /\ \A r \in Elem(rq'[l]) : RqShape(l, r)
        /\ \A u \in Cache, b \in Line :
             InQueue(rq'[l], l, u, b) <=> InQueue(rq[l], l, u, b) \/ (u = c /\ b = a /\ ~hit)
  BY <1>0, AddRqBelow
<1>4. QueueShape'
  <2>1. SUFFICES ASSUME NEW d \in Cache
                 PROVE  Distinct(rq'[d]) /\ \A r \in Elem(rq'[d]) : RqShape(d, r)
    BY DEF Inv, QueueShape
  <2>. QED  BY <1>3 DEF Inv, QueueShape
<1>. HIDE DEF hit
<1>5. MissConserved'
  <2>1. SUFFICES ASSUME NEW u \in Cache, NEW b \in Line PROVE ConservedAt(u, b)'
    BY DEF MissConserved
  <2>2. ConservedAt(u, b)
    BY DEF Inv, MissConserved
  <2>3. CASE u = c /\ b = a
    <3>1. CASE l \in Cache
      <4>1. InMshr(l, c, b)' <=> InMshr(l, c, b)
        BY <1>2, <3>1, TreeLemma, SameInMshr
      <4>2. l # DRAM
        BY <3>1, TreeAssumption
      <4>. QED  BY <1>0, <1>1, <1>2, <1>3, <2>2, <2>3, <3>1, <4>1, <4>2 DEF ConservedAt
    <3>2. CASE l = DRAM
      <4>1. l \notin Cache
        BY <3>2, TreeAssumption
      <4>. QED  BY <1>0, <1>1, <1>2, <2>2, <2>3, <3>2, <4>1 DEF ConservedAt
    <3>3. CASE l = WALK
      BY <2>3, <3>3, TreeAssumption DEF ConservedAt
    <3>. QED  BY <3>1, <3>2, <3>3, TreeAssumption
  <2>4. CASE Lower[u] = c /\ b = a
    <3>1. u # c /\ mshr'[u][b] = mshr[u][b] /\ Uppers(c) # {} /\ c # DRAM
      BY <1>2, <2>4, TreeLemma, TreeAssumption
    <3>2. (InMshr(c, u, b)' <=> AskedBy(c, p, u)) /\ ~InMshr(c, u, b)
      BY <1>0, <1>2, <2>4 DEF InMshr, AskedBy
    <3>3. (InQueue(rq[c], c, u, b) <=> AskedBy(c, p, u)) /\ ~InQueue(rq'[c], c, u, b)
      BY <2>4, <3>1
    <3>. QED  BY <2>2, <2>4, <3>1, <3>2, <3>3 DEF ConservedAt
  <2>5. CASE ~(u = c /\ b = a) /\ ~(Lower[u] = c /\ b = a)
    <3>1. mshr'[u][b] = mshr[u][b]
      BY <1>2, <2>5
    <3>2. CASE Lower[u] \in Cache
      <4>1. InMshr(Lower[u], u, b)' <=> InMshr(Lower[u], u, b)
        BY <1>2, <2>5, <3>2, SameInMshr
      <4>2. InQueue(rq'[Lower[u]], Lower[u], u, b) <=> InQueue(rq[Lower[u]], Lower[u], u, b)
        <5>1. CASE Lower[u] = c
          BY <2>5, <5>1, <3>2, TreeLemma
        <5>2. CASE Lower[u] = l /\ Lower[u] # c
          BY <1>3, <2>5, <3>2, <5>2
        <5>3. CASE Lower[u] # l /\ Lower[u] # c
          BY <3>2, <5>3
        <5>. QED  BY <5>1, <5>2, <5>3
      <4>3. Lower[u] # DRAM
        BY <3>2, TreeAssumption
      <4>. QED  BY <2>2, <3>1, <3>2, <4>1, <4>2, <4>3 DEF ConservedAt
    <3>3. CASE Lower[u] = DRAM
      <4>1. b \in dramRQ' <=> b \in dramRQ
        <5>1. CASE l = DRAM
          <6>1. u = c
            BY <3>3, <5>1, TreeAssumption
          <6>. QED  BY <1>1, <2>5, <5>1, <6>1
        <5>2. CASE l # DRAM
          BY <1>1, <5>2, TreeAssumption
        <5>. QED  BY <5>1, <5>2
      <4>2. Lower[u] \notin Cache
        BY <3>3, TreeAssumption
      <4>. QED  BY <2>2, <3>1, <3>3, <4>1, <4>2 DEF ConservedAt
    <3>4. CASE Lower[u] \notin Cache /\ Lower[u] # DRAM
      BY <3>4 DEF ConservedAt
    <3>. QED  BY <3>2, <3>3, <3>4
  <2>. QED  BY <2>3, <2>4, <2>5
<1>. QED  BY <1>2, <1>4, <1>5 DEF Inv

\* handle_read on a miss.
LEMMA ReadMissStep ==
  ASSUME PrivateLines, Inv, TypeOK', NEW c \in Cache, ReadMiss(c)
  PROVE  Inv'
<1>. DEFINE p == Head(rq[c])
            l == Lower[c]
            s == AfterAddRq(l, Sent(c, p), AnyWord)
            q == [rq EXCEPT ![c] = Tail(@)]
<1>1. rq[c] # <<>> /\ pq' = pq
  BY DEF ReadMiss
<1>2. CASE MergeDemand(c, p) /\ rq' = q /\ dramRQ' = dramRQ
  BY <1>1, <1>2, MergeStep
<1>3. CASE IssueRead(c, p) /\ rq' = [RqBelow(c, p) EXCEPT ![c] = Tail(@)]
  <2>1. p \in Packet /\ RqShape(c, p)
    BY <1>1, PopRq
  <2>2. l \in Cache => l # c
    BY TreeLemma
  <2>. HIDE DEF s
  <2>3. RqBelow(c, p) = IF l \in Cache THEN [rq EXCEPT ![l] = s] ELSE rq
    BY DEF RqBelow, s
  <2>4. /\ rq'[c] = Tail(rq[c]) /\ (l \in Cache => rq'[l] = s)
        /\ \A d \in Cache : d # c /\ d # l => rq'[d] = rq[d]
    BY <1>3, <2>2, <2>3 DEF Inv, TypeOK
  <2>5. q[c] = Tail(rq[c])
    BY DEF Inv, TypeOK
  <2>6. /\ Distinct(q[c]) /\ \A r \in Elem(q[c]) : RqShape(c, r)
        /\ \A u \in Cache, b \in Line :
              InQueue(q[c], c, u, b) <=> InQueue(rq[c], c, u, b) /\ b # p.addr
        /\ \A u \in Cache : InQueue(rq[c], c, u, p.addr) <=> AskedBy(c, p, u)
    <3>. HIDE DEF q
    <3>1. q = [rq EXCEPT ![c] = Tail(@)]
      BY DEF q
    <3>. QED  BY <1>1, <3>1, PopRq
  <2>7. rq'[c] = q[c]
    BY <2>4, <2>5
  <2>. HIDE DEF p, q
  <2>8. l \in Cache => rq'[l] = AfterAddRq(l, Sent(c, p), AnyWord)
    BY <2>4 DEF s
  <2>. QED  BY <1>1, <1>3, <2>1, <2>4, <2>6, <2>7, <2>8, IssueCore
<1>. QED  BY <1>2, <1>3 DEF ReadMiss

(***************************************************************************)
(* Stores enter the L1D write queue with lines the L1D is asked for, and   *)
(* nothing is above an L1D to write back into it.                          *)
(***************************************************************************)
StoreReach == \A c \in L1D : \A i \in 1..Len(wq[c]) : wq[c][i].addr \in Reach[c]

\* Every step keeps the stores of an L1D within the lines it is asked for.
LEMMA StoreReachStep ==
  ASSUME TypeOK, StoreReach, [Next]_vars
  PROVE  StoreReach'
<1>. DEFINE Good(c, s) == \A i \in 1..Len(s) : s[i].addr \in Reach[c]
<1>0. \A c \in Cache : wq[c] \in Seq(WbPacket)
  BY DEF TypeOK
<1>1. ASSUME NEW c \in Cache, NEW w \in Way(c) PROVE \A d \in L1D : WqAfterVictim(c, w)[d] = wq[d]
  <2>1. ASSUME Lower[c] \in Cache PROVE Lower[c] \notin L1D
    BY <2>1, TreeLemma, TreeAssumption
  <2>. QED  BY <2>1, TreeAssumption DEF WqAfterVictim, TypeOK
<1>2. ASSUME NEW c \in L1D, wq[c] # <<>> PROVE Good(c, Tail(wq[c]))
  <2>1. wq[c] \in Seq(WbPacket) /\ Good(c, wq[c])
    BY <1>0, TreeAssumption DEF StoreReach
  <2>2. \A i \in 1..Len(Tail(wq[c])) : i + 1 \in 1..Len(wq[c]) /\ Tail(wq[c])[i] = wq[c][i + 1]
    BY <1>2, <2>1, TailLemma
  <2>. QED  BY <2>1, <2>2
<1>3. CASE UNCHANGED wq
  BY <1>3 DEF StoreReach
<1>4. ASSUME NEW c \in Cache, wq[c] # <<>>, wq' = [wq EXCEPT ![c] = Tail(@)]
      PROVE  StoreReach'
  <2>1. \A d \in Cache : wq'[d] = IF d = c THEN Tail(wq[c]) ELSE wq[d]
    BY <1>4 DEF TypeOK
  <2>. QED  BY <1>2, <1>4, <2>1, TreeAssumption DEF StoreReach
<1>5. ASSUME NEW c \in Cache, NEW a \in Line, NEW w \in Way(c), HandleFill(c, a, w)
      PROVE  StoreReach'
  BY <1>1, <1>5 DEF HandleFill, StoreReach
<1>6. ASSUME NEW c \in Cache, NEW w \in Way(c), WritebackFill(c, w) PROVE StoreReach'
  <2>1. c \notin L1D /\ wq' = [WqAfterVictim(c, w) EXCEPT ![c] = Tail(@)]
    BY <1>6 DEF WritebackFill
  <2>2. \A d \in L1D : wq'[d] = WqAfterVictim(c, w)[d]
    BY <2>1, TreeAssumption DEF WqAfterVictim, TypeOK
  <2>. QED  BY <1>1, <2>2 DEF StoreReach
<1>7. ASSUME NEW c \in Cache, NEW a \in Line, NEW x \in Word, CoreStore(c, a, x)
      PROVE  StoreReach'
  <2>. DEFINE n == [addr |-> a, word |-> x]
              s == AfterAddWq(c, a, x)
  <2>1. c \in L1D /\ a \in Reach[c] /\ wq' = [wq EXCEPT ![c] = s]
    BY <1>7 DEF CoreStore
  <2>2. n \in WbPacket /\ n.addr = a
    BY DEF WbPacket
  <2>3. s = wq[c] \/ s = Append(wq[c], n)
    BY DEF AfterAddWq
  <2>. HIDE DEF n
  <2>4. \A i \in 1..Len(Append(wq[c], n)) :
          Append(wq[c], n)[i] = IF i = Len(wq[c]) + 1 THEN n ELSE wq[c][i]
    BY <1>0, <2>2, AppendLemma, SeqLemma
  <2>5. Len(Append(wq[c], n)) = Len(wq[c]) + 1 /\ Len(wq[c]) \in Nat
    BY <1>0, <2>2, AppendLemma, SeqLemma
  <2>6. Good(c, Append(wq[c], n))
    BY <2>1, <2>2, <2>4, <2>5 DEF StoreReach
  <2>. HIDE DEF s
  <2>7. \A d \in Cache : wq'[d] = IF d = c THEN s ELSE wq[d]
    BY <2>1 DEF TypeOK
  <2>8. Good(c, s)
    BY <2>1, <2>3, <2>6 DEF StoreReach
  <2>. QED  BY <2>7, <2>8, TreeAssumption DEF StoreReach
<1>. HIDE DEF Good
<1>8. ASSUME NEW c \in Cache, Operate(c) PROVE StoreReach'
  BY <1>3, <1>4, <1>5, <1>6, <1>8
     DEF Operate, BypassFill, WritebackHit, RfoMiss, ReadHit, ReadMiss, PrefetchHit,
         PrefetchMiss, PrefetchMerge
<1>9. CASE Core
  BY <1>3, <1>7, <1>9 DEF Core, CoreRead, PrefetchLine
<1>10. CASE Memory
  BY <1>3, <1>10 DEF Memory, DramRead, DramWrite, SwapOut
<1>. QED  BY <1>3, <1>8, <1>9, <1>10 DEF Next, vars

\* handle_writeback on a store that misses the L1D.
LEMMA RfoMissStep ==
  ASSUME PrivateLines, Inv, TypeOK', StoreReach, NEW c \in Cache, RfoMiss(c)
  PROVE  Inv'
<1>. DEFINE p == Rfo(c)
<1>1. /\ c \in L1D /\ wq[c] # <<>> /\ pq' = pq /\ wq[c] \in Seq(WbPacket)
      /\ Uppers(c) = {} /\ Level[c] \in Levels
  BY TreeAssumption DEF RfoMiss, Inv, TypeOK
<1>2. p \in Packet /\ p.type = "RFO" /\ p.fill = Level[c] /\ p.addr = Head(wq[c]).addr
  BY <1>1, RfoType DEF Rfo, Inv
<1>3. p.addr \in Reach[c]
  <2>1. 1 \in 1..Len(wq[c]) /\ Head(wq[c]) = wq[c][1]
    BY <1>1, TailLemma
  <2>. QED  BY <1>1, <1>2, <2>1 DEF StoreReach
<1>4. RqShape(c, p)
  BY <1>1, <1>2, <1>3 DEF RqShape, Shape, Levels
<1>. HIDE DEF p
<1>5. CASE MergeDemand(c, p) /\ UNCHANGED <<rq, dramRQ>>
  <2>1. QueueShape'
    BY <1>1, <1>5 DEF Inv, QueueShape
  <2>2. p.fill >= Level[c]
    BY <1>1, <1>2 DEF Levels
  <2>. QED  BY <1>1, <1>2, <1>5, <2>1, <2>2, LeafMerge
<1>6. CASE IssueRead(c, p) /\ rq' = RqBelow(c, p)
  <2>. DEFINE l == Lower[c]
              s == AfterAddRq(l, Sent(c, p), AnyWord)
  <2>1. l \in Cache => l # c
    BY TreeLemma
  <2>. HIDE DEF s
  <2>2. rq' = IF l \in Cache THEN [rq EXCEPT ![l] = s] ELSE rq
    BY <1>6 DEF RqBelow, s
  <2>3. /\ rq'[c] = rq[c] /\ (l \in Cache => rq'[l] = s)
        /\ \A d \in Cache : d # c /\ d # l => rq'[d] = rq[d]
    BY <2>1, <2>2 DEF Inv, TypeOK
  <2>4. Distinct(rq'[c]) /\ \A r \in Elem(rq'[c]) : RqShape(c, r)
    BY <2>3 DEF Inv, QueueShape
  <2>. QED  BY <1>1, <1>2, <1>4, <1>6, <2>3, <2>4, IssueCore DEF s
<1>. QED  BY <1>5, <1>6 DEF RfoMiss, p

\* The prefetch queue below after a prefetch of cache c is passed down.
LEMMA AddPqBelow ==
  ASSUME Inv, NEW c \in Cache, Lower[c] \in Cache, NEW p \in Packet, PqShape(c, p),
         Len(pq[Lower[c]]) # PQ_SIZE[Lower[c]]
  PROVE  LET l == Lower[c]
             s == AfterAddPq(l, Sent(c, p), AnyWord)
         IN /\ Distinct(s) /\ \A r \in Elem(s) : PqShape(l, r)
            /\ \A u \in Cache, b \in Line :
                 InQueue(s, l, u, b) <=>
                   \/ InQueue(pq[l], l, u, b)
                   \/ /\ u = c /\ b = p.addr /\ p.fill <= Level[c]
                      /\ ~WqHit(l, p.addr, AnyWord)
<1>. DEFINE l == Lower[c]
            n == Sent(c, p)
            s == AfterAddPq(l, n, AnyWord)
<1>0. /\ l \in Cache /\ c \in Uppers(l) /\ Uppers(l) # {} /\ Level[c] < Level[l]
      /\ Level[c] \in Levels /\ Level[l] \in Levels
  BY TreeLemma
<1>1. /\ n \in Packet /\ n.addr = p.addr /\ n.type = p.type /\ n.fill = p.fill
      /\ n.via = c /\ p.addr \in Line /\ p.fill \in Levels
  BY SentLemma, PacketLemma
<1>2. n.fill < Level[l] <=> p.fill <= Level[c]
  <2>1. p.fill > Level[c] => p.fill >= Level[l]
    BY <1>1, TreeAssumption
  <2>. QED  BY <1>0, <1>1, <2>1 DEF Levels
<1>3. PqShape(l, n)
  <2>1. p.addr \in Reach[c] /\ p.addr \in Reach[l]
    BY LineAssumption DEF PqShape, Shape
  <2>2. p.type = "PREFETCH" /\ p.fill \in PfLevels /\ Dcache[l] = c
    BY DEF PqShape
  <2>3. Lower[l] \in Cache => Dcache[Lower[l]] = l
    BY <2>2, PrefetchAssumption
  <2>. QED  BY <1>0, <1>1, <2>1, <2>2, <2>3 DEF PqShape, Shape
<1>4. Len(pq[l]) < PQ_SIZE[l]
  <2>1. pq[l] \in Seq(Packet) /\ Len(pq[l]) <= PQ_SIZE[l] /\ PQ_SIZE[l] \in Nat
    BY SizeAssumption DEF Inv, TypeOK
  <2>. QED  BY <2>1, SeqLemma
<1>5. Distinct(s) /\ \A r \in Elem(s) : PqShape(l, r)
  BY <1>0, <1>1, <1>3, AddPqShape
<1>6. ASSUME NEW u \in Cache, NEW b \in Line
      PROVE  InQueue(s, l, u, b) <=>
               \/ InQueue(pq[l], l, u, b)
               \/ /\ u = c /\ b = p.addr /\ p.fill <= Level[c]
                  /\ ~WqHit(l, p.addr, AnyWord)
  <2>1. WqHit(l, n.addr, AnyWord) => s = pq[l]
    BY <1>0, <1>1, <1>3, AddPqShape
  <2>2. ~WqHit(l, n.addr, AnyWord) =>
          (InQueue(s, l, u, b) <=> InQueue(pq[l], l, u, b) \/ (b = n.addr /\ AskedBy(l, n, u)))
    BY <1>0, <1>1, <1>3, <1>4, AddPqShape
  <2>3. AskedBy(l, n, u) <=> u = c /\ p.fill <= Level[c]
    BY <1>1, <1>2 DEF AskedBy
  <2>. HIDE DEF s, n, l
  <2>. QED  BY <1>1, <2>1, <2>2, <2>3
<1>. QED  BY <1>5, <1>6

\* handle_prefetch on a new miss.
LEMMA PrefetchMissStep ==
  ASSUME PrivateLines, Inv, TypeOK', NEW c \in Cache, PrefetchMiss(c)
  PROVE  Inv'
<1>. DEFINE p == Head(pq[c])
            a == p.addr
            l == Lower[c]
            s == AfterAddPq(l, Sent(c, p), AnyWord)
            hit == WqHit(l, a, AnyWord)
            q == [pq EXCEPT ![c] = Tail(@)]
            alloc == p.fill <= Level[c]
<1>0. pq[c] # <<>> /\ rq' = rq /\ mshr[c][a].ret = "FREE" /\ Occupancy(c) < MSHR_SIZE[c]
  BY DEF PrefetchMiss, MshrRoom
<1>1. /\ p \in Packet /\ PqShape(c, p) /\ a \in Line /\ Shape(c, p, a) /\ p.fill \in Levels
      /\ Level[c] \in Levels /\ p.fill \in PfLevels
  BY <1>0, PopPq, PacketLemma, TreeAssumption DEF PqShape
<1>2. /\ \A d \in Cache : Distinct(q[d]) /\ \A r \in Elem(q[d]) : PqShape(d, r)
      /\ \A u \in Cache, b \in Line :
           InQueue(q[c], c, u, b) <=> InQueue(pq[c], c, u, b) /\ b # a
      /\ \A u \in Cache : InQueue(pq[c], c, u, a) <=> AskedBy(c, p, u)
  <2>. HIDE DEF q
  <2>1. q = [pq EXCEPT ![c] = Tail(@)]
    BY DEF q
  <2>. QED  BY <1>0, <2>1, PopPq
<1>3. l = DRAM => alloc /\ l \notin Cache
  BY <1>1, PrefetchAssumption, TreeAssumption DEF PfLevels
<1>4. l \in Cache => l # c
  BY TreeLemma
<1>5. PICK ret \in {"INFLIGHT", "COMPLETED"} :
        /\ alloc => mshr' = [mshr EXCEPT ![c][a] = NewEntry(p, ret)]
        /\ ~alloc => mshr' = mshr
        /\ l \in Cache => (ret = "INFLIGHT" <=> ~hit) /\ dramRQ' = dramRQ
        /\ l = DRAM => IF ret = "INFLIGHT" THEN dramRQ' = dramRQ \cup {a}
                                           ELSE dramRQ' = dramRQ
  BY TreeAssumption DEF PrefetchMiss, Alloc
<1>6. \/ l = DRAM /\ pq' = q
      \/ /\ l \in Cache /\ Len(pq[l]) # PQ_SIZE[l]
         /\ pq' = [pq EXCEPT ![l] = s, ![c] = Tail(@)]
  BY DEF PrefetchMiss
<1>. HIDE DEF s, hit
<1>7. /\ pq'[c] = q[c] /\ (l \in Cache => pq'[l] = s)
      /\ \A d \in Cache : d # c /\ d # l => pq'[d] = pq[d] /\ q[d] = pq[d]
  BY <1>3, <1>4, <1>6 DEF Inv, TypeOK
<1>8. l \in Cache =>
        /\ Distinct(s) /\ \A r \in Elem(s) : PqShape(l, r)
        /\ \A u \in Cache, b \in Line :
             InQueue(s, l, u, b) <=>
               InQueue(pq[l], l, u, b) \/ (u = c /\ b = a /\ alloc /\ ~hit)
  <2>1. SUFFICES ASSUME l \in Cache
                 PROVE  /\ Distinct(s) /\ \A r \in Elem(s) : PqShape(l, r)
                        /\ \A u \in Cache, b \in Line :
                             InQueue(s, l, u, b) <=>
                               InQueue(pq[l], l, u, b) \/ (u = c /\ b = a /\ alloc /\ ~hit)
    OBVIOUS
  <2>2. Len(pq[l]) # PQ_SIZE[l]
    BY <1>3, <1>6, <2>1
  <2>. HIDE DEF p
  <2>. QED  BY <1>1, <2>1, <2>2, AddPqBelow DEF s, hit
<1>. HIDE DEF q
<1>9. QueueShape'
  <2>1. SUFFICES ASSUME NEW d \in Cache
                 PROVE  Distinct(pq'[d]) /\ \A r \in Elem(pq'[d]) : PqShape(d, r)
    BY <1>0 DEF Inv, QueueShape
  <2>. QED  BY <1>2, <1>7, <1>8
<1>10. /\ MshrShape' /\ MshrBound'
       /\ alloc => /\ mshr'[c][a].ret = ret /\ mshr'[c][a].fill = p.fill
                   /\ mshr'[c][a].via = p.via
       /\ ~alloc => mshr'[c][a] = mshr[c][a]
       /\ \A d \in Cache, b \in Line : d # c \/ b # a => mshr'[d][b] = mshr[d][b]
  <2>. HIDE DEF p
  <2>1. CASE alloc
    BY <1>0, <1>1, <1>5, <2>1, NewMshr
  <2>2. CASE ~alloc
    BY <1>5, <2>2, KeptMshr
  <2>. QED  BY <2>1, <2>2
<1>11. ~alloc => \A u \in Cache : ~AskedBy(c, p, u)
  BY <1>1 DEF AskedBy, Levels
<1>. HIDE DEF p, a, alloc
<1>12. MissConserved'
  <2>1. SUFFICES ASSUME NEW u \in Cache, NEW b \in Line PROVE ConservedAt(u, b)'
    BY DEF MissConserved
  <2>2. ConservedAt(u, b)
    BY DEF Inv, MissConserved
  <2>3. CASE u = c /\ b = a
    <3>1. CASE l \in Cache
      <4>1. InMshr(l, c, b)' <=> InMshr(l, c, b)
        BY <1>4, <1>10, <3>1, SameInMshr
      <4>2. l # DRAM
        BY <3>1, TreeAssumption
      <4>. QED  BY <1>0, <1>5, <1>7, <1>8, <1>10, <2>2, <2>3, <3>1, <4>1, <4>2 DEF ConservedAt
    <3>2. CASE l = DRAM
      BY <1>0, <1>3, <1>5, <1>10, <2>2, <2>3, <3>2 DEF ConservedAt
    <3>. QED  BY <1>6, <3>1, <3>2
  <2>4. CASE Lower[u] = c /\ b = a
    <3>1. u # c /\ mshr'[u][b] = mshr[u][b] /\ c # DRAM
      BY <1>10, <2>4, TreeLemma, TreeAssumption
    <3>2. (InMshr(c, u, b)' <=> AskedBy(c, p, u)) /\ ~InMshr(c, u, b)
      BY <1>0, <1>10, <1>11, <2>4 DEF InMshr, AskedBy
    <3>3. (InQueue(pq[c], c, u, b) <=> AskedBy(c, p, u)) /\ ~InQueue(pq'[c], c, u, b)
      BY <1>2, <1>7, <2>4
    <3>. QED  BY <1>0, <2>2, <2>4, <3>1, <3>2, <3>3 DEF ConservedAt
  <2>5. CASE ~(u = c /\ b = a) /\ ~(Lower[u] = c /\ b = a)
    <3>1. mshr'[u][b] = mshr[u][b]
      BY <1>10, <2>5
    <3>2. CASE Lower[u] \in Cache
      <4>1. InMshr(Lower[u], u, b)' <=> InMshr(Lower[u], u, b)
        BY <1>10, <2>5, <3>2, SameInMshr
      <4>2. InQueue(pq'[Lower[u]], Lower[u], u, b) <=> InQueue(pq[Lower[u]], Lower[u], u, b)
        <5>1. CASE Lower[u] = c
          BY <1>2, <1>7, <2>5, <5>1
        <5>2. CASE Lower[u] = l /\ Lower[u] # c
          BY <1>7, <1>8, <2>5, <3>2, <5>2
        <5>3. CASE Lower[u] # l /\ Lower[u] # c
          BY <1>7, <3>2, <5>3
        <5>. QED  BY <5>1, <5>2, <5>3
      <4>3. Lower[u] # DRAM
        BY <3>2, TreeAssumption
      <4>. QED  BY <1>0, <2>2, <3>1, <3>2, <4>1, <4>2, <4>3 DEF ConservedAt
    <3>3. CASE Lower[u] = DRAM
      <4>1. b \in dramRQ' <=> b \in dramRQ
        <5>1. CASE l = DRAM
          <6>1. u = c
            BY <3>3, <5>1, TreeAssumption
          <6>. QED  BY <1>5, <2>5, <5>1, <6>1
        <5>2. CASE l \in Cache
          BY <1>5, <5>2
        <5>. QED  BY <1>6, <5>1, <5>2
      <4>2. Lower[u] \notin Cache
        BY <3>3, TreeAssumption
      <4>. QED  BY <2>2, <3>1, <3>3, <4>1, <4>2 DEF ConservedAt
    <3>4. CASE Lower[u] \notin Cache /\ Lower[u] # DRAM
      BY <3>4 DEF ConservedAt
    <3>. QED  BY <3>2, <3>3, <3>4
  <2>. QED  BY <2>3, <2>4, <2>5
<1>. QED  BY <1>9, <1>10, <1>12 DEF Inv

-----------------------------------------------------------------------------
\* The empty hierarchy satisfies the invariant.
LEMMA InvInit == Init => Inv /\ StoreReach
<1>. SUFFICES ASSUME Init PROVE Inv /\ StoreReach
  OBVIOUS
<1>1. TypeOK
  BY TypeInit
<1>2. \A c \in Cache : rq[c] = <<>> /\ pq[c] = <<>> /\ Elem(rq[c]) = {} /\ Elem(pq[c]) = {}
  BY DEF Init, Elem
<1>3. \A c \in Cache, a \in Line : mshr[c][a].ret = "FREE"
  BY FreeEntryLemma DEF Init
<1>4. QueueShape
  BY <1>2 DEF QueueShape, Distinct
<1>5. MshrShape
  BY <1>3 DEF MshrShape
<1>6. MshrBound
  <2>1. ASSUME NEW c \in Cache PROVE Occupancy(c) <= MSHR_SIZE[c]
    <3>1. Used(c) = {}
      BY <1>3 DEF Used
    <3>. QED  BY <3>1, FS_EmptySet, SizeAssumption DEF Occupancy
  <2>. QED  BY <2>1 DEF MshrBound
<1>7. MissConserved
  BY <1>2, <1>3 DEF MissConserved, ConservedAt, InQueue, InMshr, Init
<1>8. StoreReach
  BY TreeAssumption DEF StoreReach, Init
<1>. QED  BY <1>1, <1>4, <1>5, <1>6, <1>7, <1>8 DEF Inv

\* Every step keeps the invariant.
LEMMA InvNext ==
  ASSUME PrivateLines
  PROVE  Inv /\ StoreReach /\ [Next]_vars => (Inv /\ StoreReach)'
<1>. SUFFICES ASSUME Inv, StoreReach, [Next]_vars PROVE (Inv /\ StoreReach)'
  OBVIOUS
<1>0. TypeOK' /\ StoreReach'
  BY TypeNext, StoreReachStep DEF Inv
<1>1. ASSUME NEW c \in Cache, NEW a \in Line, NEW w \in Way(c), HandleFill(c, a, w)
      PROVE  Inv'
  BY <1>0, <1>1, FillStep DEF HandleFill
<1>2. ASSUME NEW c \in Cache, NEW a \in Line, BypassFill(c, a) PROVE Inv'
  BY <1>0, <1>2, FillStep DEF BypassFill
<1>3. ASSUME NEW c \in Cache, NEW w \in Way(c), WritebackHit(c, w) \/ WritebackFill(c, w)
      PROVE  Inv'
  BY <1>0, <1>3, FrameStep DEF WritebackHit, WritebackFill
<1>4. ASSUME NEW c \in Cache, RfoMiss(c) PROVE Inv'
  BY <1>0, <1>4, RfoMissStep
<1>5. ASSUME NEW c \in Cache, ReadHit(c) PROVE Inv'
  BY <1>0, <1>5, RqHitStep DEF ReadHit
<1>6. ASSUME NEW c \in Cache, ReadMiss(c) PROVE Inv'
  BY <1>0, <1>6, ReadMissStep
<1>7. ASSUME NEW c \in Cache, PrefetchHit(c) PROVE Inv'
  BY <1>0, <1>7, PqHitStep DEF PrefetchHit
<1>8. ASSUME NEW c \in Cache, PrefetchMiss(c) PROVE Inv'
  BY <1>0, <1>8, PrefetchMissStep
<1>9. ASSUME NEW c \in Cache, PrefetchMerge(c) PROVE Inv'
  BY <1>0, <1>9, PrefetchMergeStep
<1>10. CASE Core
  <2>1. ASSUME NEW r \in Req, NEW a \in Line, NEW x \in Word, CoreRead(r, a, x) PROVE Inv'
    BY <1>0, <2>1, CoreReadStep
  <2>2. ASSUME NEW c \in Cache, NEW a \in Line, NEW x \in Word, CoreStore(c, a, x) PROVE Inv'
    BY <1>0, <2>2, FrameStep DEF CoreStore
  <2>3. ASSUME NEW c \in Cache, NEW a \in Line, NEW x \in Word, NEW f \in Levels,
               PrefetchLine(c, a, x, f)
        PROVE  Inv'
    BY <1>0, <2>3, PrefetchLineStep
  <2>. QED  BY <1>0, <1>10, <2>1, <2>2, <2>3 DEF Core
<1>11. CASE Memory
  <2>1. ASSUME NEW c \in Cache, NEW a \in Line, DramRead(c, a) PROVE Inv'
    BY <1>0, <2>1, DramReadStep
  <2>2. ASSUME NEW a \in Line, DramWrite(a) \/ SwapOut(a) PROVE Inv'
    BY <1>0, <2>2, FrameStep DEF DramWrite, SwapOut
  <2>. QED  BY <1>0, <1>11, <2>1, <2>2 DEF Memory
<1>12. CASE UNCHANGED vars
  BY <1>0, <1>12, FrameStep DEF vars
<1>. QED
  BY <1>0, <1>1, <1>2, <1>3, <1>4, <1>5, <1>6, <1>7, <1>8, <1>9, <1>10, <1>11, <1>12
     DEF Next, Operate

\* Through every merge, hit, forward from a write queue, fill and bypass of the
\* CACHE handlers, a miss in flight is held below exactly once until its data
\* returns, so that the assert of return_data never fires, and the request sent
\* by add_rq, whose result is ignored, never meets a full read queue; provided
\* no two caches above the same cache ask for the same line.
THEOREM MissesConserved ==
  ASSUME PrivateLines
  PROVE  Spec => [](MissConserved /\ ReadQueueRoom)
<1>1. Init => Inv /\ StoreReach
  BY InvInit
<1>2. Inv /\ StoreReach /\ [Next]_vars => (Inv /\ StoreReach)'
  BY InvNext
<1>3. Inv => MissConserved /\ ReadQueueRoom
  BY InvReadQueueRoom DEF Inv
<1>. QED  BY <1>1, <1>2, <1>3, PTL DEF Spec

\* In particular the read queue below a cache has room for each miss that finds an
\* MSHR free: the packet that add_rq would drop without a word is never sent.
THEOREM ReadsFindRoom ==
  ASSUME PrivateLines
  PROVE  Spec => []ReadQueueRoom
BY MissesConserved, PTL

-----------------------------------------------------------------------------
(***************************************************************************)
(* No core request is forgotten.  A packet or an MSHR names requests of    *)
(* the cache it is in and no others, one of a prefetch names none, and an  *)
(* MSHR that is free names none; a line is queued once.                    *)
(***************************************************************************)
CoreAbove == \A r \in Req : Lower[Port[r]] # DRAM

Waiting(q, r, a) == \E p \in Elem(q) : p.addr = a /\ r \in p.who

Owned(c, x) == /\ \A r \in x.who : Port[r] = c
               /\ x.type = "PREFETCH" => x.who = {}

\* A packet of a read queue, which holds no prefetch.
Demand(c, p) == p.type # "PREFETCH" /\ \A r \in p.who : Port[r] = c

QueuesOwned ==
  \A c \in Cache :
    /\ Distinct(rq[c]) /\ \A p \in Elem(rq[c]) : Demand(c, p)
    /\ Distinct(pq[c]) /\ \A p \in Elem(pq[c]) : p.who = {}

MshrsOwned ==
  \A c \in Cache, a \in Line :
    Owned(c, mshr[c][a]) /\ (mshr[c][a].ret = "FREE" => mshr[c][a].who = {})

TrackedAt(r, a) ==
  /\ pend[r] = a <=> Waiting(rq[Port[r]], r, a) \/ r \in mshr[Port[r]][a].who
  /\ ~(Waiting(rq[Port[r]], r, a) /\ r \in mshr[Port[r]][a].who)

TrackInv ==
  TypeOK /\ QueuesOwned /\ MshrsOwned /\ \A r \in Req, a \in Line : TrackedAt(r, a)

\* That is what RequestTracked says.
LEMMA TrackedMeans == TrackInv => RequestTracked
<1> SUFFICES ASSUME TrackInv, NEW r \in Req, NEW a \in Line
             PROVE  /\ pend[r] = a <=> WaitsInRq(r, a) \/ WaitsInMshr(r, a)
                    /\ ~(WaitsInRq(r, a) /\ WaitsInMshr(r, a))
  BY DEF RequestTracked
<1>1. Port[r] \in Cache
  BY TreeAssumption
<1>2. WaitsInRq(r, a) <=> Waiting(rq[Port[r]], r, a)
  BY DEF WaitsInRq, Waiting, Elem
<1>3. WaitsInMshr(r, a) <=> r \in mshr[Port[r]][a].who
  BY <1>1 DEF WaitsInMshr, TrackInv, MshrsOwned
<1> QED
  BY <1>2, <1>3 DEF TrackInv, TrackedAt

\* add_rq records the requests of the packet, unless the write queue answers it.
LEMMA AddRqWaits ==
  ASSUME TrackInv, NEW c \in Cache, NEW p \in Packet, Demand(c, p), NEW x
  PROVE  LET q == AfterAddRq(c, p, x) IN
         /\ Distinct(q) /\ \A e \in Elem(q) : Demand(c, e)
         /\ \A r, a : Waiting(rq[c], r, a) => Waiting(q, r, a)
         /\ \A r, a : Waiting(q, r, a) =>
              Waiting(rq[c], r, a) \/ (a = p.addr /\ r \in p.who /\ ~WqHit(c, p.addr, x))
         /\ ~WqHit(c, p.addr, x) /\ (Holds(rq[c], p.addr) \/ Len(rq[c]) < RQ_SIZE[c])
              => \A r \in p.who : Waiting(q, r, p.addr)
<1> DEFINE q == AfterAddRq(c, p, x)
<1>1. rq[c] \in Seq(Packet) /\ Distinct(rq[c]) /\ (\A e \in Elem(rq[c]) : Demand(c, e)) /\ Len(rq[c]) \in Nat
  BY SeqLemma DEF TrackInv, TypeOK, QueuesOwned
<1>2. CASE WqHit(c, p.addr, x)
  <2>1. q = rq[c]
    BY <1>2 DEF AfterAddRq
  <2> HIDE DEF q
  <2> QED
    BY <1>1, <1>2, <2>1 DEF q
<1>3. CASE ~WqHit(c, p.addr, x) /\ Holds(rq[c], p.addr)
  <2>1. q = MergeRq(rq[c], p)
    BY <1>3 DEF AfterAddRq
  <2>2. /\ Distinct(q)
        /\ Elem(q) = {(IF r.addr = p.addr THEN TakeWho(r, p.who) ELSE r) : r \in Elem(rq[c])}
    BY <1>1, <2>1, MergeRqElem
  <2>3. \A e \in Elem(rq[c]) : e \in Packet /\ TakeWho(e, p.who).addr = e.addr /\ TakeWho(e, p.who).type = e.type
                               /\ TakeWho(e, p.who).who = e.who \cup p.who
    <3>1. p.who \in SUBSET Req
      BY PacketLemma
    <3>2. Elem(rq[c]) \subseteq Packet
      BY <1>1, ElemPacket
    <3> QED
      BY <3>1, <3>2, TakeWhoLemma
  <2> HIDE DEF q
  <2>4. ASSUME NEW e \in Elem(q) PROVE Demand(c, e)
    <3>1. PICK r \in Elem(rq[c]) : e = IF r.addr = p.addr THEN TakeWho(r, p.who) ELSE r
      BY <2>2
    <3>2. CASE r.addr = p.addr
      <4>1. e.who = r.who \cup p.who /\ e.type = r.type /\ Demand(c, r)
        BY <1>1, <2>3, <3>1, <3>2
      <4> QED
        BY <4>1 DEF Demand
    <3>3. CASE r.addr # p.addr
      BY <1>1, <3>1, <3>3
    <3> QED
      BY <3>2, <3>3
  <2>5. ASSUME NEW r, NEW a, Waiting(rq[c], r, a) PROVE Waiting(q, r, a)
    <3>1. PICK e \in Elem(rq[c]) : e.addr = a /\ r \in e.who
      BY <2>5 DEF Waiting
    <3>2. CASE e.addr = p.addr
      <4>1. TakeWho(e, p.who) \in Elem(q)
        BY <2>2, <3>2
      <4> QED
        BY <2>3, <3>1, <4>1 DEF Waiting
    <3>3. CASE e.addr # p.addr
      <4>1. e \in Elem(q)
        BY <2>2, <3>3
      <4> QED
        BY <3>1, <4>1 DEF Waiting
    <3> QED
      BY <3>2, <3>3
  <2>6. ASSUME NEW r, NEW a, Waiting(q, r, a)
        PROVE  Waiting(rq[c], r, a) \/ (a = p.addr /\ r \in p.who)
    <3>1. PICK e \in Elem(q) : e.addr = a /\ r \in e.who
      BY <2>6 DEF Waiting
    <3>2. PICK f \in Elem(rq[c]) : e = IF f.addr = p.addr THEN TakeWho(f, p.who) ELSE f
      BY <2>2
    <3> QED
      BY <2>3, <3>1, <3>2 DEF Waiting
  <2>7. ASSUME NEW r \in p.who PROVE Waiting(q, r, p.addr)
    <3>1. PICK e \in Elem(rq[c]) : e.addr = p.addr
      BY <1>1, <1>3, HoldsElem
    <3>2. TakeWho(e, p.who) \in Elem(q)
      BY <2>2, <3>1
    <3> QED
      BY <2>3, <3>1, <3>2 DEF Waiting
  <2> QED
    BY <1>3, <2>2, <2>4, <2>5, <2>6, <2>7 DEF q
<1>4. CASE ~WqHit(c, p.addr, x) /\ ~Holds(rq[c], p.addr) /\ Len(rq[c]) = RQ_SIZE[c]
  <2>1. q = rq[c]
    BY <1>4 DEF AfterAddRq
  <2> HIDE DEF q
  <2>2. ~(Len(rq[c]) < RQ_SIZE[c])
    BY <1>1, <1>4
  <2> QED
    BY <1>1, <1>4, <2>1, <2>2 DEF q
<1>5. CASE ~WqHit(c, p.addr, x) /\ ~Holds(rq[c], p.addr) /\ Len(rq[c]) # RQ_SIZE[c]
  <2>1. q = Append(rq[c], p)
    BY <1>5 DEF AfterAddRq
  <2>2. Distinct(q) /\ Elem(q) = Elem(rq[c]) \cup {p}
    BY <1>1, <1>5, <2>1, AppendElem
  <2> HIDE DEF q
  <2> QED
    BY <1>1, <1>5, <2>2 DEF q, Waiting
<1> QED
  BY <1>2, <1>3, <1>4, <1>5

\* A packet that names no request changes nothing.
LEMMA AddRqSilent ==
  ASSUME TrackInv, NEW c \in Cache, NEW p \in Packet, p.who = {}, p.type # "PREFETCH", NEW x
  PROVE  LET q == AfterAddRq(c, p, x) IN
         /\ Distinct(q) /\ \A e \in Elem(q) : Demand(c, e)
         /\ \A r, a : Waiting(q, r, a) <=> Waiting(rq[c], r, a)
<1>1. Demand(c, p)
  BY DEF Demand
<1> QED
  BY <1>1, AddRqWaits

\* add_pq leaves the packets of the prefetch queue without requests.
LEMMA AddPqSilent ==
  ASSUME TrackInv, NEW c \in Cache, NEW p \in Packet, p.who = {}, NEW x
  PROVE  LET q == AfterAddPq(c, p, x) IN Distinct(q) /\ \A e \in Elem(q) : e.who = {}
<1> DEFINE q == AfterAddPq(c, p, x)
<1>1. pq[c] \in Seq(Packet) /\ Distinct(pq[c]) /\ \A e \in Elem(pq[c]) : e.who = {}
  BY DEF TrackInv, TypeOK, QueuesOwned
<1>2. CASE q = pq[c]
  BY <1>1, <1>2
<1>3. CASE q = MergePq(pq[c], p)
  <2>2. /\ Distinct(q)
        /\ Elem(q) = {(IF r.addr = p.addr THEN TakeFill(r, p.fill) ELSE r) : r \in Elem(pq[c])}
    BY <1>1, <1>3, MergePqElem
  <2>3. \A e \in Elem(pq[c]) : TakeFill(e, p.fill).who = e.who
    BY <1>1, ElemPacket, PacketLemma, TakeFillLemma
  <2> HIDE DEF q
  <2> QED
    BY <1>1, <2>2, <2>3 DEF q
<1>4. CASE q = Append(pq[c], p) /\ ~Holds(pq[c], p.addr)
  <2>2. Distinct(q) /\ Elem(q) = Elem(pq[c]) \cup {p}
    BY <1>1, <1>4, AppendElem
  <2> QED
    BY <1>1, <2>2
<1> QED
  BY <1>2, <1>3, <1>4 DEF AfterAddPq

\* The requests of the head of a read queue are those of its line.
LEMMA PopWaits ==
  ASSUME TrackInv, NEW c \in Cache, rq[c] # <<>>
  PROVE  /\ Distinct(Tail(rq[c])) /\ Demand(c, Head(rq[c])) /\ Head(rq[c]) \in Packet
         /\ \A e \in Elem(Tail(rq[c])) : Demand(c, e)
         /\ \A r, a : Waiting(Tail(rq[c]), r, a) <=> Waiting(rq[c], r, a) /\ a # Head(rq[c]).addr
         /\ \A r : Waiting(rq[c], r, Head(rq[c]).addr) <=> r \in Head(rq[c]).who
<1> DEFINE q == rq[c]
           h == Head(q)
<1>1. q \in Seq(Packet) /\ Distinct(q) /\ \A e \in Elem(q) : Demand(c, e)
  BY DEF TrackInv, TypeOK, QueuesOwned
<1>2. /\ Distinct(Tail(q)) /\ h \in Elem(q) /\ Elem(Tail(q)) = {p \in Elem(q) : p.addr # h.addr}
  BY <1>1, TailElem
<1>3. h \in Packet
  BY <1>1, <1>2, ElemPacket
<1>4. \A e \in Elem(q) : e.addr = h.addr => e = h
  BY <1>1, <1>2, DistinctElem
<1>5. \A r, a : Waiting(Tail(q), r, a) <=> Waiting(q, r, a) /\ a # h.addr
  BY <1>2 DEF Waiting
<1>6. \A r : Waiting(q, r, h.addr) <=> r \in h.who
  BY <1>2, <1>4 DEF Waiting
<1> QED
  BY <1>1, <1>2, <1>3, <1>5, <1>6

\* The packets of a prefetch queue without its head.
LEMMA PopPqSilent ==
  ASSUME TrackInv, NEW c \in Cache, pq[c] # <<>>
  PROVE  /\ Distinct(Tail(pq[c])) /\ \A e \in Elem(Tail(pq[c])) : e.who = {}
         /\ Head(pq[c]) \in Packet /\ Head(pq[c]).who = {}
<1>1. pq[c] \in Seq(Packet) /\ Distinct(pq[c]) /\ \A e \in Elem(pq[c]) : e.who = {}
  BY DEF TrackInv, TypeOK, QueuesOwned
<1>2. /\ Distinct(Tail(pq[c])) /\ Head(pq[c]) \in Elem(pq[c])
      /\ Elem(Tail(pq[c])) = {p \in Elem(pq[c]) : p.addr # Head(pq[c]).addr}
  BY <1>1, TailElem
<1>3. Head(pq[c]) \in Packet
  BY <1>1, <1>2, ElemPacket
<1> QED
  BY <1>1, <1>2, <1>3

-----------------------------------------------------------------------------
(***************************************************************************)
(* The steps.                                                              *)
(***************************************************************************)

\* The entry of line b in cache d keeps its requests.
SameWho(d, b) ==
  /\ mshr'[d][b].who = mshr[d][b].who
  /\ mshr'[d][b].type = mshr[d][b].type
  /\ mshr'[d][b].ret = "FREE" => mshr[d][b].ret = "FREE"

\* An MSHR whose owners stay is owned as before.
LEMMA SameWhoOwned ==
  ASSUME TrackInv, NEW d \in Cache, NEW b \in Line, SameWho(d, b)
  PROVE  /\ Owned(d, mshr'[d][b]) /\ (mshr'[d][b].ret = "FREE" => mshr'[d][b].who = {})
         /\ mshr'[d][b].who = mshr[d][b].who
BY DEF TrackInv, MshrsOwned, SameWho, Owned

\* Nobody's request moves.
LEMMA NothingMoves ==
  ASSUME TrackInv, TypeOK', QueuesOwned', MshrsOwned', UNCHANGED pend,
         \A d \in Cache : \A r, b : Waiting(rq'[d], r, b) <=> Waiting(rq[d], r, b),
         \A d \in Cache, b \in Line : mshr'[d][b].who = mshr[d][b].who
  PROVE  TrackInv'
<1>1. \A r \in Req : Port[r] \in Cache
  BY TreeAssumption
<1> SUFFICES ASSUME NEW r \in Req, NEW a \in Line PROVE TrackedAt(r, a)'
  BY DEF TrackInv
<1>2. TrackedAt(r, a)
  BY DEF TrackInv
<1> QED
  BY <1>1, <1>2 DEF TrackedAt

\* Steps on the write queues, the blocks and memory.
LEMMA FrameTracked ==
  ASSUME TrackInv, TypeOK', UNCHANGED <<rq, pq, mshr, pend>>
  PROVE  TrackInv'
<1>1. QueuesOwned' /\ MshrsOwned'
  BY DEF TrackInv, QueuesOwned, MshrsOwned
<1> QED
  BY <1>1, NothingMoves

\* The requests of S, all of cache c and of line a, are served: they leave the
\* place they were in, and the others stay.
LEMMA ServedTracked ==
  ASSUME TrackInv, TypeOK', QueuesOwned', MshrsOwned', NEW c \in Cache, NEW a \in Line,
         NEW S, Deliver(S), \A r \in S : Port[r] = c,
         \A r \in Req : r \in S => Waiting(rq[c], r, a) \/ r \in mshr[c][a].who,
         \A d \in Cache : \A r \in Req : \A b : Waiting(rq'[d], r, b) => Waiting(rq[d], r, b),
         \A d \in Cache : \A r \in Req : \A b : Waiting(rq[d], r, b) =>
             Waiting(rq'[d], r, b) \/ (d = c /\ b = a /\ r \in S),
         \A d \in Cache, b \in Line : mshr'[d][b].who \subseteq mshr[d][b].who,
         \A d \in Cache, b \in Line : \A r \in Req : r \in mshr[d][b].who =>
             r \in mshr'[d][b].who \/ (d = c /\ b = a /\ r \in S),
         \A r \in S : ~Waiting(rq'[c], r, a) /\ r \notin mshr'[c][a].who
  PROVE  TrackInv'
<1> SUFFICES ASSUME NEW r \in Req, NEW b \in Line PROVE TrackedAt(r, b)'
  BY DEF TrackInv
<1>1. Port[r] \in Cache
  BY TreeAssumption
<1>2. TrackedAt(r, b) /\ TrackedAt(r, a)
  BY DEF TrackInv
<1>3. CASE r \in S
  <2>1. pend[r] = a /\ Port[r] = c /\ pend'[r] = NoLine
    BY <1>2, <1>3 DEF TrackedAt, Deliver
  <2>2. pend'[r] # b
    BY <2>1, LineAssumption
  <2>3. b # a => ~Waiting(rq[c], r, b) /\ r \notin mshr[c][b].who
    BY <1>2, <2>1 DEF TrackedAt
  <2>4. ~Waiting(rq'[c], r, b) /\ r \notin mshr'[c][b].who
    BY <1>3, <2>3
  <2> QED
    BY <2>1, <2>2, <2>4 DEF TrackedAt
<1>4. CASE r \notin S
  <2>1. pend'[r] = pend[r]
    BY <1>4 DEF Deliver
  <2>2. Waiting(rq'[Port[r]], r, b) <=> Waiting(rq[Port[r]], r, b)
    BY <1>1, <1>4
  <2>3. r \in mshr'[Port[r]][b].who <=> r \in mshr[Port[r]][b].who
    BY <1>1, <1>4
  <2> QED
    BY <1>2, <2>1, <2>2, <2>3 DEF TrackedAt
<1> QED
  BY <1>3, <1>4

\* The entries after a fill of line a at cache c, whose data goes up.
LEMMA FillWho ==
  ASSUME TrackInv, NEW c \in Cache, NEW a \in Line,
         mshr' = [Returned(c, mshr[c][a], a) EXCEPT ![c][a] = FreeEntry]
  PROVE  /\ mshr'[c][a] = FreeEntry /\ FreeEntry.who = {}
         /\ \A d \in Cache, b \in Line : d # c \/ b # a => SameWho(d, b)
         /\ MshrsOwned'
<1> DEFINE e == mshr[c][a]
           R == Returned(c, e, a)
<1>1. TypeOK /\ e \in Entry
  BY DEF TrackInv, TypeOK
<1>2. e.via \in Cache \cup {NoCache}
  BY <1>1, EntryLemma
<1>3. R \in [Cache -> [Line -> Entry]]
  BY <1>1, ReturnedType
<1>4. \A d \in Cache, b \in Line : R[d][b] = Comp(mshr[d][b]) \/ R[d][b] = mshr[d][b]
  <2> HIDE DEF e
  <2> QED
    BY <1>1, <1>2, ReturnedLemma
<1> HIDE DEF R
<1>5. mshr' = [R EXCEPT ![c][a] = FreeEntry]
  BY DEF R
<1>6. mshr'[c][a] = FreeEntry /\ \A d \in Cache, b \in Line : d # c \/ b # a => mshr'[d][b] = R[d][b]
  BY <1>3, <1>5
<1>7. \A d \in Cache, b \in Line : mshr[d][b] \in Entry
  BY <1>1 DEF TypeOK
<1>8. ASSUME NEW d \in Cache, NEW b \in Line, d # c \/ b # a PROVE SameWho(d, b)
  <2>1. mshr'[d][b] = Comp(mshr[d][b]) \/ mshr'[d][b] = mshr[d][b]
    BY <1>4, <1>6, <1>8
  <2> QED
    BY <1>7, <2>1, CompLemma DEF SameWho
<1>9. FreeEntry.who = {} /\ FreeEntry.type = "LOAD"
  BY DEF FreeEntry
<1>10. MshrsOwned'
  <2> SUFFICES ASSUME NEW d \in Cache, NEW b \in Line
               PROVE  Owned(d, mshr'[d][b]) /\ (mshr'[d][b].ret = "FREE" => mshr'[d][b].who = {})
    BY DEF MshrsOwned, Owned
  <2>1. CASE d = c /\ b = a
    BY <1>6, <1>9, <2>1 DEF Owned
  <2>2. CASE d # c \/ b # a
    BY <1>8, <2>2, SameWhoOwned
  <2> QED
    BY <2>1, <2>2
<1> QED
  BY <1>6, <1>8, <1>9, <1>10

\* handle_fill serves the requests of the entry.
LEMMA FillTracked ==
  ASSUME TrackInv, TypeOK', NEW c \in Cache, NEW a \in Line, NEW w \in Way(c), HandleFill(c, a, w)
  PROVE  TrackInv'
<1> DEFINE S == mshr[c][a].who
<1>1. /\ mshr' = [Returned(c, mshr[c][a], a) EXCEPT ![c][a] = FreeEntry]
      /\ Deliver(S) /\ UNCHANGED <<rq, pq>>
  BY DEF HandleFill
<1>2. /\ mshr'[c][a] = FreeEntry /\ FreeEntry.who = {} /\ MshrsOwned'
      /\ \A d \in Cache, b \in Line : d # c \/ b # a => SameWho(d, b)
  BY <1>1, FillWho
<1>3. QueuesOwned'
  BY <1>1 DEF TrackInv, QueuesOwned
<1>4. \A r \in S : Port[r] = c
  BY DEF TrackInv, MshrsOwned, Owned
<1>5. \A r \in Req : r \in S => r \in mshr[c][a].who
  OBVIOUS
<1>6. \A d \in Cache, b \in Line : (d # c \/ b # a) => mshr'[d][b].who = mshr[d][b].who
  BY <1>2 DEF SameWho
<1>7. \A r \in Req : r \in S => ~Waiting(rq[c], r, a)
  BY <1>4 DEF TrackInv, TrackedAt
<1>8. S \subseteq Req
  BY EntryLemma DEF TrackInv, TypeOK
<1> HIDE DEF S
<1>9. \A d \in Cache, b \in Line : mshr'[d][b].who \subseteq mshr[d][b].who
  BY <1>2, <1>6
<1>10. \A d \in Cache, b \in Line : \A r \in Req : r \in mshr[d][b].who =>
             r \in mshr'[d][b].who \/ (d = c /\ b = a /\ r \in S)
  BY <1>6 DEF S
<1>11. \A r \in S : ~Waiting(rq'[c], r, a) /\ r \notin mshr'[c][a].who
  BY <1>1, <1>2, <1>7, <1>8
<1>12. \A r \in Req : r \in S => Waiting(rq[c], r, a) \/ r \in mshr[c][a].who
  BY <1>5
<1>13. rq' = rq
  BY <1>1
<1>14. \A d \in Cache : \A r \in Req : \A b : Waiting(rq'[d], r, b) <=> Waiting(rq[d], r, b)
  BY <1>13
<1> QED
  BY <1>1, <1>2, <1>3, <1>4, <1>9, <1>10, <1>11, <1>12, <1>14, ServedTracked

\* A bypassed fill of the LLC, which is not a cache a core asks, serves nobody.
LEMMA BypassTracked ==
  ASSUME CoreAbove, TrackInv, TypeOK', NEW c \in Cache, NEW a \in Line, BypassFill(c, a)
  PROVE  TrackInv'
<1>1. /\ mshr' = [Returned(c, mshr[c][a], a) EXCEPT ![c][a] = FreeEntry]
      /\ Lower[c] = DRAM /\ UNCHANGED <<rq, pq, pend>>
  BY DEF BypassFill
<1>2. /\ mshr'[c][a] = FreeEntry /\ FreeEntry.who = {} /\ MshrsOwned'
      /\ \A d \in Cache, b \in Line : d # c \/ b # a => SameWho(d, b)
  BY <1>1, FillWho
<1>3. QueuesOwned'
  BY <1>1 DEF TrackInv, QueuesOwned
<1>4. mshr[c][a].who = {}
  <2>1. \A r \in mshr[c][a].who : r \in Req /\ Port[r] = c
    BY EntryLemma DEF TrackInv, TypeOK, MshrsOwned, Owned
  <2> QED
    BY <1>1, <2>1 DEF CoreAbove
<1>5. \A d \in Cache, b \in Line : mshr'[d][b].who = mshr[d][b].who
  BY <1>2, <1>4 DEF SameWho
<1>6. \A d \in Cache : \A r, b : Waiting(rq'[d], r, b) <=> Waiting(rq[d], r, b)
  BY <1>1
<1> QED
  BY <1>1, <1>2, <1>3, <1>5, <1>6, NothingMoves

\* The entries after data went up from c.
LEMMA ReturnedWho ==
  ASSUME TrackInv, NEW c \in Cache, NEW p \in Packet, mshr' = Returned(c, p, p.addr)
  PROVE  MshrsOwned' /\ \A d \in Cache, b \in Line : mshr'[d][b].who = mshr[d][b].who
<1>1. TypeOK /\ p.addr \in Line /\ p.via \in Cache \cup {NoCache}
  BY PacketLemma DEF TrackInv
<1>2. \A d \in Cache, b \in Line : mshr'[d][b] = Comp(mshr[d][b]) \/ mshr'[d][b] = mshr[d][b]
  BY <1>1, ReturnedLemma
<1>3. \A d \in Cache, b \in Line : mshr[d][b] \in Entry
  BY <1>1 DEF TypeOK
<1>4. \A d \in Cache, b \in Line : SameWho(d, b)
  BY <1>2, <1>3, CompLemma DEF SameWho
<1>5. \A d \in Cache, b \in Line :
        /\ Owned(d, mshr'[d][b]) /\ (mshr'[d][b].ret = "FREE" => mshr'[d][b].who = {})
        /\ mshr'[d][b].who = mshr[d][b].who
  BY <1>4, SameWhoOwned
<1> QED
  BY <1>5 DEF MshrsOwned, Owned

\* handle_read on a hit serves the requests of the packet.
LEMMA ReadHitTracked ==
  ASSUME TrackInv, TypeOK', NEW c \in Cache, ReadHit(c)
  PROVE  TrackInv'
<1> DEFINE p == Head(rq[c])
           S == p.who
<1>1. /\ rq[c] # <<>> /\ mshr' = Returned(c, p, p.addr) /\ Deliver(S)
      /\ rq' = [rq EXCEPT ![c] = Tail(@)] /\ UNCHANGED pq
  BY DEF ReadHit
<1>2. /\ Distinct(Tail(rq[c])) /\ Demand(c, p) /\ p \in Packet
      /\ \A e \in Elem(Tail(rq[c])) : Demand(c, e)
      /\ \A r, b : Waiting(Tail(rq[c]), r, b) <=> Waiting(rq[c], r, b) /\ b # p.addr
      /\ \A r : Waiting(rq[c], r, p.addr) <=> r \in S
  BY <1>1, PopWaits
<1>3. MshrsOwned' /\ \A d \in Cache, b \in Line : mshr'[d][b].who = mshr[d][b].who
  BY <1>1, <1>2, ReturnedWho
<1>4. rq'[c] = Tail(rq[c]) /\ \A d \in Cache \ {c} : rq'[d] = rq[d]
  BY <1>1 DEF TrackInv, TypeOK
<1>5. QueuesOwned'
  BY <1>1, <1>2, <1>4 DEF TrackInv, QueuesOwned
<1>6. p.addr \in Line /\ \A r \in S : Port[r] = c /\ r \in Req
  BY <1>2, PacketLemma DEF Demand
<1> DEFINE a == p.addr
<1> HIDE DEF p, S, a
<1>7. \A r \in S : r \notin mshr[c][a].who
  BY <1>2, <1>6 DEF TrackInv, TrackedAt, a
<1>8. \A r \in Req : r \in S => Waiting(rq[c], r, a) \/ r \in mshr[c][a].who
  BY <1>2 DEF a
<1>9. \A d \in Cache : \A r \in Req : \A b : Waiting(rq'[d], r, b) => Waiting(rq[d], r, b)
  BY <1>2, <1>4
<1>10. \A d \in Cache : \A r \in Req : \A b : Waiting(rq[d], r, b) =>
             Waiting(rq'[d], r, b) \/ (d = c /\ b = a /\ r \in S)
  BY <1>2, <1>4 DEF a
<1>11. \A r \in S : ~Waiting(rq'[c], r, a) /\ r \notin mshr'[c][a].who
  BY <1>2, <1>3, <1>4, <1>6, <1>7 DEF a
<1>12. a \in Line /\ \A r \in S : Port[r] = c
  BY <1>6 DEF a
<1>13. \A d \in Cache, b \in Line : mshr'[d][b].who \subseteq mshr[d][b].who
  BY <1>3
<1>14. \A d \in Cache, b \in Line : \A r \in Req : r \in mshr[d][b].who =>
             r \in mshr'[d][b].who \/ (d = c /\ b = a /\ r \in S)
  BY <1>3
<1>15. Deliver(S)
  BY <1>1
<1> QED
  BY <1>3, <1>5, <1>8, <1>9, <1>10, <1>11, <1>12, <1>13, <1>14, <1>15, ServedTracked

\* The entry of line a in cache c takes the requests of S, and nothing else changes.
Takes(c, a, S) ==
  /\ mshr'[c][a].who = mshr[c][a].who \cup S
  /\ Owned(c, mshr'[c][a]) /\ mshr'[c][a].ret # "FREE"
  /\ \A d \in Cache, b \in Line : d # c \/ b # a => mshr'[d][b] = mshr[d][b]

\* An MSHR that takes new owners leaves the others as they were.
LEMMA TakesOwned ==
  ASSUME TrackInv, NEW c \in Cache, NEW a \in Line, NEW S, Takes(c, a, S)
  PROVE  MshrsOwned'
<1> SUFFICES ASSUME NEW d \in Cache, NEW b \in Line
             PROVE  Owned(d, mshr'[d][b]) /\ (mshr'[d][b].ret = "FREE" => mshr'[d][b].who = {})
  BY DEF MshrsOwned, Owned
<1>1. CASE d = c /\ b = a
  BY <1>1 DEF Takes
<1>2. CASE d # c \/ b # a
  <2>1. mshr'[d][b] = mshr[d][b]
    BY <1>2 DEF Takes
  <2> QED
    BY <2>1 DEF TrackInv, MshrsOwned
<1> QED
  BY <1>1, <1>2

\* The MSHR of a new miss takes the requests of the packet.
LEMMA IssueTakes ==
  ASSUME TrackInv, NEW c \in Cache, NEW p \in Packet, Demand(c, p), IssueRead(c, p)
  PROVE  Takes(c, p.addr, p.who)
<1>1. p.addr \in Line /\ mshr \in [Cache -> [Line -> Entry]]
  BY PacketLemma DEF TrackInv, TypeOK
<1>2. PICK ret \in {"INFLIGHT", "COMPLETED"} :
        mshr' = [mshr EXCEPT ![c][p.addr] = NewEntry(p, ret)]
  BY DEF IssueRead
<1>3. /\ NewEntry(p, ret).ret = ret /\ NewEntry(p, ret).type = p.type /\ NewEntry(p, ret).who = p.who
  BY NewEntryLemma
<1>4. mshr'[c][p.addr] = NewEntry(p, ret) /\ \A d \in Cache, b \in Line : d # c \/ b # p.addr => mshr'[d][b] = mshr[d][b]
  BY <1>1, <1>2
<1>5. mshr[c][p.addr].who = {}
  BY <1>1 DEF IssueRead, TrackInv, MshrsOwned
<1> QED
  BY <1>3, <1>4, <1>5 DEF Takes, Owned, Demand

\* So does the MSHR it is merged into.
LEMMA MergeTakes ==
  ASSUME TrackInv, NEW c \in Cache, NEW p \in Packet, Demand(c, p), MergeDemand(c, p)
  PROVE  Takes(c, p.addr, p.who)
<1> DEFINE e == mshr[c][p.addr]
<1>1. p.addr \in Line /\ mshr \in [Cache -> [Line -> Entry]] /\ p.fill \in Levels /\ p.who \in SUBSET Req
  BY PacketLemma DEF TrackInv, TypeOK
<1>2. e \in Entry /\ e.ret # "FREE" /\ Owned(c, e) /\ e.ret \in {"FREE", "INFLIGHT", "COMPLETED"}
  BY <1>1, EntryLemma DEF TrackInv, MshrsOwned, MergeDemand
<1> DEFINE n == IF e.type = "PREFETCH" THEN Promoted(p, e) ELSE TakeWho(TakeFill(e, p.fill), p.who)
<1>3. mshr' = [mshr EXCEPT ![c][p.addr] = n]
  BY DEF MergeDemand
<1> HIDE DEF e
<1>4. CASE e.type = "PREFETCH"
  <2>1. n = NewEntry(p, e.ret) /\ e.who = {}
    BY <1>2, <1>4 DEF Promoted, Owned
  <2>2. NewEntry(p, e.ret).ret = e.ret /\ NewEntry(p, e.ret).type = p.type /\ NewEntry(p, e.ret).who = p.who
    BY <1>2, NewEntryLemma
  <2>3. n.who = e.who \cup p.who /\ Owned(c, n) /\ n.ret # "FREE"
    BY <1>2, <2>1, <2>2 DEF Owned, Demand
  <2> HIDE DEF n
  <2>4. mshr'[c][p.addr] = n /\ \A d \in Cache, b \in Line : d # c \/ b # p.addr => mshr'[d][b] = mshr[d][b]
    BY <1>1, <1>3
  <2> QED
    BY <2>3, <2>4 DEF Takes, e
<1>5. CASE e.type # "PREFETCH"
  <2>1. n = TakeWho(TakeFill(e, p.fill), p.who)
    BY <1>5
  <2>2. /\ TakeFill(e, p.fill) \in Entry /\ TakeFill(e, p.fill).ret = e.ret
        /\ TakeFill(e, p.fill).type = e.type /\ TakeFill(e, p.fill).who = e.who
    BY <1>1, <1>2, TakeFillLemma
  <2>3. n.ret = e.ret /\ n.type = e.type /\ n.who = e.who \cup p.who
    <3> DEFINE f == TakeFill(e, p.fill)
    <3>1. f \in Entry /\ f.ret = e.ret /\ f.type = e.type /\ f.who = e.who /\ n = TakeWho(f, p.who)
      BY <2>1, <2>2
    <3> HIDE DEF f, n
    <3>2. TakeWho(f, p.who).ret = f.ret /\ TakeWho(f, p.who).type = f.type
          /\ TakeWho(f, p.who).who = f.who \cup p.who
      BY <1>1, <3>1, TakeWhoLemma
    <3> QED
      BY <3>1, <3>2
  <2> HIDE DEF n
  <2>4. Owned(c, n) /\ n.ret # "FREE"
    BY <1>2, <1>5, <2>3 DEF Owned, Demand
  <2>5. mshr'[c][p.addr] = n /\ \A d \in Cache, b \in Line : d # c \/ b # p.addr => mshr'[d][b] = mshr[d][b]
    BY <1>1, <1>3
  <2> QED
    BY <2>3, <2>4, <2>5 DEF Takes, e
<1> QED
  BY <1>4, <1>5

\* The read queues after a miss of c is passed down.
LEMMA BelowSilent ==
  ASSUME TrackInv, NEW c \in Cache, NEW p \in Packet, p.type # "PREFETCH"
  PROVE  /\ RqBelow(c, p)[c] = rq[c] /\ RqBelow(c, p) \in [Cache -> Seq(Packet)]
         /\ \A d \in Cache :
              /\ Distinct(RqBelow(c, p)[d]) /\ \A e \in Elem(RqBelow(c, p)[d]) : Demand(d, e)
              /\ \A r, b : Waiting(RqBelow(c, p)[d], r, b) <=> Waiting(rq[d], r, b)
<1>0. TypeOK /\ rq \in [Cache -> Seq(Packet)]
  BY DEF TrackInv, TypeOK
<1>1. \A d \in Cache : Distinct(rq[d]) /\ \A e \in Elem(rq[d]) : Demand(d, e)
  BY DEF TrackInv, QueuesOwned
<1>2. RqBelow(c, p) \in [Cache -> Seq(Packet)]
  BY <1>0, RqBelowType
<1>3. CASE Lower[c] \in Cache
  <2> DEFINE l == Lower[c]
             s == AfterAddRq(l, Sent(c, p), AnyWord)
  <2>1. Sent(c, p) \in Packet /\ Sent(c, p).who = {} /\ Sent(c, p).type # "PREFETCH"
    BY SentLemma
  <2>2. /\ Distinct(s) /\ \A e \in Elem(s) : Demand(l, e)
        /\ \A r, b : Waiting(s, r, b) <=> Waiting(rq[l], r, b)
    BY <1>3, <2>1, AddRqSilent
  <2>3. l # c
    BY <1>3, TreeLemma
  <2>4. RqBelow(c, p) = [rq EXCEPT ![l] = s]
    BY <1>3 DEF RqBelow
  <2> HIDE DEF s
  <2>5. RqBelow(c, p)[l] = s /\ \A d \in Cache \ {l} : RqBelow(c, p)[d] = rq[d]
    BY <1>0, <1>3, <2>4
  <2> HIDE DEF l
  <2> QED
    BY <1>1, <1>2, <2>2, <2>3, <2>5
<1>4. CASE Lower[c] \notin Cache
  BY <1>0, <1>1, <1>2, <1>4 DEF RqBelow
<1> QED
  BY <1>3, <1>4

\* handle_read on a miss: the requests of the packet go to the MSHR.
LEMMA ReadMissTracked ==
  ASSUME TrackInv, TypeOK', NEW c \in Cache, ReadMiss(c)
  PROVE  TrackInv'
<1> DEFINE p == Head(rq[c])
           a == p.addr
<1>1. rq[c] # <<>> /\ UNCHANGED <<pq, pend>>
  BY DEF ReadMiss
<1>2. /\ Distinct(Tail(rq[c])) /\ Demand(c, p) /\ p \in Packet
      /\ \A e \in Elem(Tail(rq[c])) : Demand(c, e)
      /\ \A r, b : Waiting(Tail(rq[c]), r, b) <=> Waiting(rq[c], r, b) /\ b # a
      /\ \A r : Waiting(rq[c], r, a) <=> r \in p.who
  BY <1>1, PopWaits
<1>3. a \in Line /\ p.type # "PREFETCH"
  BY <1>2, PacketLemma DEF Demand
<1>4. /\ RqBelow(c, p)[c] = rq[c] /\ RqBelow(c, p) \in [Cache -> Seq(Packet)]
      /\ \A d \in Cache :
           /\ Distinct(RqBelow(c, p)[d]) /\ \A e \in Elem(RqBelow(c, p)[d]) : Demand(d, e)
           /\ \A r, b : Waiting(RqBelow(c, p)[d], r, b) <=> Waiting(rq[d], r, b)
  BY <1>2, <1>3, BelowSilent
<1>5. /\ Takes(c, a, p.who)
      /\ rq' = [rq EXCEPT ![c] = Tail(@)] \/ rq' = [RqBelow(c, p) EXCEPT ![c] = Tail(@)]
  BY <1>2, IssueTakes, MergeTakes DEF ReadMiss
<1>6. \A d \in Cache : Distinct(rq[d]) /\ \A e \in Elem(rq[d]) : Demand(d, e)
  BY DEF TrackInv, QueuesOwned
<1> HIDE DEF p, a
<1>7. /\ rq'[c] = Tail(rq[c])
      /\ \A d \in Cache \ {c} : rq'[d] = rq[d] \/ rq'[d] = RqBelow(c, p)[d]
  BY <1>4, <1>5 DEF TrackInv, TypeOK
<1>8. \A d \in Cache \ {c} : /\ Distinct(rq'[d]) /\ \A e \in Elem(rq'[d]) : Demand(d, e)
                             /\ \A r, b : Waiting(rq'[d], r, b) <=> Waiting(rq[d], r, b)
  BY <1>4, <1>6, <1>7
<1>9. QueuesOwned'
  <2>1. \A d \in Cache : Distinct(rq'[d]) /\ \A e \in Elem(rq'[d]) : Demand(d, e)
    BY <1>2, <1>7, <1>8
  <2> QED
    BY <1>1, <2>1 DEF TrackInv, QueuesOwned, Demand
<1>10. MshrsOwned'
  BY <1>3, <1>5, TakesOwned
<1> SUFFICES ASSUME NEW r \in Req, NEW b \in Line PROVE TrackedAt(r, b)'
  BY <1>9, <1>10 DEF TrackInv
<1>11. TrackedAt(r, b) /\ pend'[r] = pend[r] /\ Port[r] \in Cache
  BY <1>1, TreeAssumption DEF TrackInv
<1>12. CASE Port[r] = c /\ b = a
  <2>1. ~Waiting(rq'[c], r, a) /\ (Waiting(rq[c], r, a) <=> r \in p.who)
    BY <1>2, <1>7
  <2>2. r \in mshr'[c][a].who <=> r \in mshr[c][a].who \/ r \in p.who
    BY <1>5 DEF Takes
  <2> QED
    BY <1>11, <1>12, <2>1, <2>2 DEF TrackedAt
<1>13. CASE ~(Port[r] = c /\ b = a)
  <2>1. Waiting(rq'[Port[r]], r, b) <=> Waiting(rq[Port[r]], r, b)
    BY <1>2, <1>7, <1>8, <1>11, <1>13
  <2>2. mshr'[Port[r]][b] = mshr[Port[r]][b]
    BY <1>5, <1>11, <1>13 DEF Takes
  <2> QED
    BY <1>11, <2>1, <2>2 DEF TrackedAt
<1> QED
  BY <1>12, <1>13

\* A store that misses the L1D names no request.
LEMMA RfoTracked ==
  ASSUME TrackInv, TypeOK', NEW c \in Cache, RfoMiss(c)
  PROVE  TrackInv'
<1> DEFINE p == Rfo(c)
<1>1. wq[c] # <<>> /\ UNCHANGED <<pq, pend>>
  BY DEF RfoMiss
<1>2. p \in Packet /\ p.who = {} /\ p.type = "RFO"
  BY <1>1, RfoType DEF TrackInv, Rfo
<1>3. Demand(c, p) /\ p.addr \in Line
  BY <1>2, PacketLemma DEF Demand
<1>4. /\ RqBelow(c, p) \in [Cache -> Seq(Packet)]
      /\ \A d \in Cache :
           /\ Distinct(RqBelow(c, p)[d]) /\ \A e \in Elem(RqBelow(c, p)[d]) : Demand(d, e)
           /\ \A r, b : Waiting(RqBelow(c, p)[d], r, b) <=> Waiting(rq[d], r, b)
  BY <1>2, BelowSilent
<1>5. Takes(c, p.addr, p.who) /\ (rq' = rq \/ rq' = RqBelow(c, p))
  BY <1>2, <1>3, IssueTakes, MergeTakes DEF RfoMiss
<1>6. \A d \in Cache : Distinct(rq[d]) /\ \A e \in Elem(rq[d]) : Demand(d, e)
  BY DEF TrackInv, QueuesOwned
<1> HIDE DEF p
<1>7. \A d \in Cache : /\ Distinct(rq'[d]) /\ \A e \in Elem(rq'[d]) : Demand(d, e)
                       /\ \A r, b : Waiting(rq'[d], r, b) <=> Waiting(rq[d], r, b)
  BY <1>4, <1>5, <1>6
<1>8. QueuesOwned'
  BY <1>1, <1>7 DEF TrackInv, QueuesOwned, Demand
<1>9. MshrsOwned'
  BY <1>3, <1>5, TakesOwned
<1>10. \A d \in Cache, b \in Line : mshr'[d][b].who = mshr[d][b].who
  BY <1>2, <1>5 DEF Takes
<1> QED
  BY <1>1, <1>7, <1>8, <1>9, <1>10, NothingMoves

\* The steps of handle_prefetch and prefetch_line name no request.
LEMMA PrefetchTracked ==
  ASSUME TrackInv, TypeOK', UNCHANGED <<rq, pend>>, MshrsOwned',
         \A d \in Cache : Distinct(pq'[d]) /\ \A e \in Elem(pq'[d]) : e.who = {},
         \A d \in Cache, b \in Line : mshr'[d][b].who = mshr[d][b].who
  PROVE  TrackInv'
<1>1. QueuesOwned'
  BY DEF TrackInv, QueuesOwned
<1>2. \A d \in Cache : \A r, b : Waiting(rq'[d], r, b) <=> Waiting(rq[d], r, b)
  OBVIOUS
<1> QED
  BY <1>1, <1>2, NothingMoves

\* handle_prefetch on a hit.
LEMMA PrefetchHitTracked ==
  ASSUME TrackInv, TypeOK', NEW c \in Cache, PrefetchHit(c)
  PROVE  TrackInv'
<1>1. /\ pq[c] # <<>> /\ mshr' = Returned(c, Head(pq[c]), Head(pq[c]).addr)
      /\ pq' = [pq EXCEPT ![c] = Tail(@)] /\ UNCHANGED <<rq, pend>>
  BY DEF PrefetchHit
<1>2. /\ Distinct(Tail(pq[c])) /\ \A e \in Elem(Tail(pq[c])) : e.who = {}
      /\ Head(pq[c]) \in Packet /\ Head(pq[c]).who = {}
  BY <1>1, PopPqSilent
<1>3. MshrsOwned' /\ \A d \in Cache, b \in Line : mshr'[d][b].who = mshr[d][b].who
  BY <1>1, <1>2, ReturnedWho
<1>4. pq'[c] = Tail(pq[c]) /\ \A d \in Cache \ {c} : pq'[d] = pq[d]
  BY <1>1 DEF TrackInv, TypeOK
<1>5. \A d \in Cache : Distinct(pq'[d]) /\ \A e \in Elem(pq'[d]) : e.who = {}
  BY <1>2, <1>4 DEF TrackInv, QueuesOwned
<1> QED
  BY <1>1, <1>3, <1>5, PrefetchTracked

\* handle_prefetch on a miss in flight.
LEMMA PrefetchMergeTracked ==
  ASSUME TrackInv, TypeOK', NEW c \in Cache, PrefetchMerge(c)
  PROVE  TrackInv'
<1> DEFINE p == Head(pq[c])
           a == p.addr
<1>1. /\ pq[c] # <<>> /\ mshr' = [mshr EXCEPT ![c][a] = TakeFill(mshr[c][a], p.fill)]
      /\ pq' = [pq EXCEPT ![c] = Tail(@)] /\ UNCHANGED <<rq, pend>>
  BY DEF PrefetchMerge
<1>2. /\ Distinct(Tail(pq[c])) /\ \A e \in Elem(Tail(pq[c])) : e.who = {}
      /\ p \in Packet /\ p.who = {}
  BY <1>1, PopPqSilent
<1>3. a \in Line /\ p.fill \in Levels /\ mshr \in [Cache -> [Line -> Entry]]
  BY <1>2, PacketLemma DEF TrackInv, TypeOK
<1> DEFINE n == TakeFill(mshr[c][a], p.fill)
<1>4. n.ret = mshr[c][a].ret /\ n.type = mshr[c][a].type /\ n.who = mshr[c][a].who
  BY <1>3, TakeFillLemma
<1> HIDE DEF n, a, p
<1>5. mshr' = [mshr EXCEPT ![c][a] = n]
  BY <1>1 DEF n
<1>6. mshr'[c][a] = n /\ \A d \in Cache, b \in Line : d # c \/ b # a => mshr'[d][b] = mshr[d][b]
  BY <1>3, <1>5
<1>7. \A d \in Cache, b \in Line : SameWho(d, b)
  <2> SUFFICES ASSUME NEW d \in Cache, NEW b \in Line PROVE SameWho(d, b)
    OBVIOUS
  <2>1. CASE d = c /\ b = a
    BY <1>4, <1>6, <2>1 DEF SameWho
  <2>2. CASE d # c \/ b # a
    BY <1>6, <2>2 DEF SameWho
  <2> QED
    BY <2>1, <2>2
<1>8. \A d \in Cache, b \in Line :
        /\ Owned(d, mshr'[d][b]) /\ (mshr'[d][b].ret = "FREE" => mshr'[d][b].who = {})
        /\ mshr'[d][b].who = mshr[d][b].who
  BY <1>7, SameWhoOwned
<1>9. MshrsOwned'
  BY <1>8 DEF MshrsOwned, Owned
<1>10. pq'[c] = Tail(pq[c]) /\ \A d \in Cache \ {c} : pq'[d] = pq[d]
  BY <1>1 DEF TrackInv, TypeOK
<1>11. \A d \in Cache : Distinct(pq'[d]) /\ \A e \in Elem(pq'[d]) : e.who = {}
  BY <1>2, <1>10 DEF TrackInv, QueuesOwned
<1> QED
  BY <1>1, <1>8, <1>9, <1>11, PrefetchTracked

\* handle_prefetch on a new miss.
LEMMA PrefetchMissTracked ==
  ASSUME TrackInv, TypeOK', NEW c \in Cache, PrefetchMiss(c)
  PROVE  TrackInv'
<1> DEFINE p == Head(pq[c])
           a == p.addr
           s == AfterAddPq(Lower[c], Sent(c, p), AnyWord)
<1>1. pq[c] # <<>> /\ mshr[c][a].ret = "FREE" /\ UNCHANGED <<rq, pend>>
  BY DEF PrefetchMiss
<1>2. /\ Distinct(Tail(pq[c])) /\ \A e \in Elem(Tail(pq[c])) : e.who = {}
      /\ p \in Packet /\ p.who = {}
  BY <1>1, PopPqSilent
<1>3. a \in Line /\ mshr \in [Cache -> [Line -> Entry]] /\ pq \in [Cache -> Seq(Packet)]
  BY <1>2, PacketLemma DEF TrackInv, TypeOK
<1>4. PICK ret \in {"INFLIGHT", "COMPLETED"} : mshr' = Alloc(c, p, ret)
  BY DEF PrefetchMiss
<1>5. \/ pq' = [pq EXCEPT ![c] = Tail(@)]
      \/ Lower[c] \in Cache /\ pq' = [pq EXCEPT ![Lower[c]] = s, ![c] = Tail(@)]
  BY DEF PrefetchMiss
<1>6. Lower[c] \in Cache => Distinct(s) /\ (\A e \in Elem(s) : e.who = {}) /\ Lower[c] # c
  <2> SUFFICES ASSUME Lower[c] \in Cache
               PROVE  Distinct(s) /\ (\A e \in Elem(s) : e.who = {}) /\ Lower[c] # c
    OBVIOUS
  <2>1. Sent(c, p) \in Packet /\ Sent(c, p).who = {}
    BY <1>2, SentLemma
  <2> QED
    BY <2>1, AddPqSilent, TreeLemma
<1>7. mshr[c][a].who = {}
  BY <1>1, <1>3 DEF TrackInv, MshrsOwned
<1>8. /\ NewEntry(p, ret).ret = ret /\ NewEntry(p, ret).type = p.type /\ NewEntry(p, ret).who = p.who
  BY <1>2, NewEntryLemma
<1>9. \/ mshr' = mshr \/ mshr' = [mshr EXCEPT ![c][a] = NewEntry(p, ret)]
  BY <1>4 DEF Alloc
<1> HIDE DEF p, a, s
<1>10. MshrsOwned' /\ \A d \in Cache, b \in Line : mshr'[d][b].who = mshr[d][b].who
  <2>1. CASE mshr' = mshr
    BY <2>1 DEF TrackInv, MshrsOwned
  <2>2. CASE mshr' = [mshr EXCEPT ![c][a] = NewEntry(p, ret)]
    <3>1. mshr'[c][a] = NewEntry(p, ret) /\ \A d \in Cache, b \in Line : d # c \/ b # a => mshr'[d][b] = mshr[d][b]
      BY <1>3, <2>2
    <3>2. Takes(c, a, {})
      BY <1>2, <1>7, <1>8, <3>1 DEF Takes, Owned
    <3>3. \A d \in Cache, b \in Line : mshr'[d][b].who = mshr[d][b].who
      BY <3>2 DEF Takes
    <3> QED
      BY <1>3, <3>2, <3>3, TakesOwned
  <2> QED
    BY <1>9, <2>1, <2>2
<1>11. \A d \in Cache : pq'[d] = Tail(pq[c]) \/ pq'[d] = pq[d] \/ (Lower[c] \in Cache /\ pq'[d] = s)
  BY <1>3, <1>5, <1>6
<1>12. \A d \in Cache : Distinct(pq'[d]) /\ \A e \in Elem(pq'[d]) : e.who = {}
  BY <1>2, <1>6, <1>11 DEF TrackInv, QueuesOwned
<1> QED
  BY <1>1, <1>10, <1>12, PrefetchTracked

\* prefetch_line.
LEMMA PrefetchLineTracked ==
  ASSUME TrackInv, TypeOK', NEW c \in Cache, NEW a \in Line, NEW x \in Word, NEW f \in Levels,
         PrefetchLine(c, a, x, f)
  PROVE  TrackInv'
<1> DEFINE p == [addr |-> a, type |-> "PREFETCH", fill |-> f, via |-> Dcache[c], who |-> {}]
           s == AfterAddPq(c, p, x)
<1>1. pq' = [pq EXCEPT ![c] = s] /\ UNCHANGED <<rq, mshr, pend>>
  BY DEF PrefetchLine
<1>2. p \in Packet /\ p.who = {}
  BY TreeAssumption DEF Packet, Type
<1> HIDE DEF p
<1>3. Distinct(s) /\ \A e \in Elem(s) : e.who = {}
  BY <1>2, AddPqSilent
<1> HIDE DEF s
<1>4. \A d \in Cache : pq'[d] = s \/ pq'[d] = pq[d]
  BY <1>1 DEF TrackInv, TypeOK
<1>5. \A d \in Cache : Distinct(pq'[d]) /\ \A e \in Elem(pq'[d]) : e.who = {}
  BY <1>3, <1>4 DEF TrackInv, QueuesOwned
<1>6. MshrsOwned' /\ \A d \in Cache, b \in Line : mshr'[d][b].who = mshr[d][b].who
  BY <1>1 DEF TrackInv, MshrsOwned
<1> QED
  BY <1>1, <1>5, <1>6, PrefetchTracked

\* The controller returns a line.
LEMMA DramReadTracked ==
  ASSUME TrackInv, TypeOK', NEW c \in Cache, NEW a \in Line, DramRead(c, a)
  PROVE  TrackInv'
<1>1. mshr' = [mshr EXCEPT ![c][a].ret = "COMPLETED"] /\ UNCHANGED <<rq, pq, pend>>
  BY DEF DramRead
<1>2. mshr \in [Cache -> [Line -> Entry]]
  BY DEF TrackInv, TypeOK
<1>3. mshr'[c][a] = Comp(mshr[c][a]) /\ \A d \in Cache, b \in Line : d # c \/ b # a => mshr'[d][b] = mshr[d][b]
  BY <1>1, <1>2 DEF Comp
<1>4. \A d \in Cache, b \in Line : mshr[d][b] \in Entry
  BY <1>2
<1>5. \A d \in Cache, b \in Line : SameWho(d, b)
  BY <1>3, <1>4, CompLemma DEF SameWho
<1>6. \A d \in Cache, b \in Line :
        /\ Owned(d, mshr'[d][b]) /\ (mshr'[d][b].ret = "FREE" => mshr'[d][b].who = {})
        /\ mshr'[d][b].who = mshr[d][b].who
  BY <1>5, SameWhoOwned
<1>7. MshrsOwned'
  BY <1>6 DEF MshrsOwned, Owned
<1>8. QueuesOwned'
  BY <1>1 DEF TrackInv, QueuesOwned
<1>9. \A d \in Cache : \A r, b : Waiting(rq'[d], r, b) <=> Waiting(rq[d], r, b)
  BY <1>1
<1> QED
  BY <1>1, <1>6, <1>7, <1>8, <1>9, NothingMoves

\* The core asks for a line: the request is recorded, unless it is answered at once.
LEMMA CoreReadTracked ==
  ASSUME TrackInv, TypeOK', NEW r \in Req, NEW a \in Line, NEW x \in Word, CoreRead(r, a, x)
  PROVE  TrackInv'
<1> DEFINE c == Port[r]
           p == [addr |-> a, type |-> "LOAD", fill |-> Level[c], via |-> NoCache, who |-> {r}]
           q == AfterAddRq(c, p, x)
<1>0. c \in Cache /\ Level[c] \in Levels
  BY TreeAssumption
<1>1. /\ pend[r] = NoLine /\ (Holds(rq[c], a) \/ Len(rq[c]) < RQ_SIZE[c])
      /\ rq' = [rq EXCEPT ![c] = q]
      /\ pend' = IF WqHit(c, a, x) THEN pend ELSE [pend EXCEPT ![r] = a]
      /\ UNCHANGED <<pq, mshr>>
  BY DEF CoreRead
<1>2. p \in Packet /\ p.who = {r} /\ p.addr = a /\ p.type # "PREFETCH"
  BY <1>0 DEF Packet, Type
<1>3. Demand(c, p)
  BY <1>2 DEF Demand
<1> HIDE DEF p
<1>4. /\ Distinct(q) /\ \A e \in Elem(q) : Demand(c, e)
      /\ \A s, b : Waiting(rq[c], s, b) => Waiting(q, s, b)
      /\ \A s, b : Waiting(q, s, b) =>
           Waiting(rq[c], s, b) \/ (b = a /\ s = r /\ ~WqHit(c, a, x))
      /\ ~WqHit(c, a, x) => Waiting(q, r, a)
  BY <1>0, <1>1, <1>2, <1>3, AddRqWaits
<1> HIDE DEF q
<1>5. rq'[c] = q /\ \A d \in Cache \ {c} : rq'[d] = rq[d]
  BY <1>0, <1>1 DEF TrackInv, TypeOK
<1>6. MshrsOwned'
  BY <1>1 DEF TrackInv, MshrsOwned
<1>7. QueuesOwned'
  <2>1. \A d \in Cache : Distinct(rq'[d]) /\ \A e \in Elem(rq'[d]) : Demand(d, e)
    BY <1>4, <1>5 DEF TrackInv, QueuesOwned
  <2> QED
    BY <1>1, <2>1 DEF TrackInv, QueuesOwned
<1> SUFFICES ASSUME NEW s \in Req, NEW b \in Line PROVE TrackedAt(s, b)'
  BY <1>6, <1>7 DEF TrackInv
<1>8. TrackedAt(s, b) /\ Port[s] \in Cache /\ mshr' = mshr
  BY <1>1, TreeAssumption DEF TrackInv
<1>9. CASE s = r /\ ~WqHit(c, a, x)
  <2>1. pend'[r] = a
    BY <1>1, <1>9 DEF TrackInv, TypeOK
  <2>2. pend[r] # b
    BY <1>1, LineAssumption
  <2>3. ~Waiting(rq[c], r, b) /\ r \notin mshr[c][b].who
    BY <1>8, <1>9, <2>2 DEF TrackedAt
  <2>4. Waiting(rq'[c], r, b) <=> b = a
    BY <1>4, <1>5, <1>9, <2>3
  <2> QED
    BY <1>8, <1>9, <2>1, <2>3, <2>4 DEF TrackedAt
<1>10. CASE ~(s = r /\ ~WqHit(c, a, x))
  <2>1. pend'[s] = pend[s]
    BY <1>1, <1>10 DEF TrackInv, TypeOK
  <2>2. Waiting(rq'[Port[s]], s, b) <=> Waiting(rq[Port[s]], s, b)
    BY <1>4, <1>5, <1>8, <1>10
  <2> QED
    BY <1>8, <2>1, <2>2 DEF TrackedAt
<1> QED
  BY <1>9, <1>10

\* Every load and fetch a core waits for is recorded in one place of its
\* first-level cache, the queued packet or the MSHR of its line, through every merge
\* of duplicates, promotion of a prefetch and answer from a write queue, for every
\* tree in which no core asks the LLC directly (the index_depend_on_me sets of
\* CACHE::add_rq, handle_read and handle_fill).
THEOREM RequestsStayTracked ==
  ASSUME CoreAbove
  PROVE  Spec => []RequestTracked
<1>1. Init => TrackInv
  <2> SUFFICES ASSUME Init PROVE TrackInv
    OBVIOUS
  <2>1. TypeOK
    BY TypeInit
  <2>2. \A c \in Cache : rq[c] = <<>> /\ pq[c] = <<>> /\ Elem(rq[c]) = {} /\ Elem(pq[c]) = {}
    BY DEF Init, Elem
  <2>3. \A c \in Cache, a \in Line : mshr[c][a] = FreeEntry /\ FreeEntry.who = {}
    BY DEF Init, FreeEntry
  <2>4. QueuesOwned
    BY <2>2 DEF QueuesOwned, Distinct
  <2>5. MshrsOwned
    BY <2>3 DEF MshrsOwned, Owned
  <2>6. ASSUME NEW r \in Req, NEW a \in Line PROVE TrackedAt(r, a)
    <3>1. Port[r] \in Cache /\ pend[r] = NoLine /\ NoLine # a
      BY TreeAssumption, LineAssumption DEF Init
    <3> QED
      BY <2>2, <2>3, <3>1 DEF TrackedAt, Waiting
  <2> QED
    BY <2>1, <2>4, <2>5, <2>6 DEF TrackInv
<1>2. TrackInv /\ [Next]_vars => TrackInv'
  <2> SUFFICES ASSUME TrackInv, [Next]_vars PROVE TrackInv'
    OBVIOUS
  <2>0. TypeOK'
    BY TypeNext DEF TrackInv
  <2>1. ASSUME NEW c \in Cache, NEW a \in Line, NEW w \in Way(c), HandleFill(c, a, w) PROVE TrackInv'
    BY <2>0, <2>1, FillTracked
  <2>2. ASSUME NEW c \in Cache, NEW a \in Line, BypassFill(c, a) PROVE TrackInv'
    BY <2>0, <2>2, BypassTracked
  <2>3. ASSUME NEW c \in Cache, NEW w \in Way(c), WritebackHit(c, w) \/ WritebackFill(c, w) PROVE TrackInv'
    BY <2>0, <2>3, FrameTracked DEF WritebackHit, WritebackFill
  <2>4. ASSUME NEW c \in Cache, RfoMiss(c) PROVE TrackInv'
    BY <2>0, <2>4, RfoTracked
  <2>5. ASSUME NEW c \in Cache, ReadHit(c) PROVE TrackInv'
    BY <2>0, <2>5, ReadHitTracked
  <2>6. ASSUME NEW c \in Cache, ReadMiss(c) PROVE TrackInv'
    BY <2>0, <2>6, ReadMissTracked
  <2>7. ASSUME NEW c \in Cache, PrefetchHit(c) PROVE TrackInv'
    BY <2>0, <2>7, PrefetchHitTracked
  <2>8. ASSUME NEW c \in Cache, PrefetchMiss(c) PROVE TrackInv'
    BY <2>0, <2>8, PrefetchMissTracked
  <2>9. ASSUME NEW c \in Cache, PrefetchMerge(c) PROVE TrackInv'
    BY <2>0, <2>9, PrefetchMergeTracked
  <2>10. CASE Core
    <3>1. ASSUME NEW r \in Req, NEW a \in Line, NEW x \in Word, CoreRead(r, a, x) PROVE TrackInv'
      BY <2>0, <3>1, CoreReadTracked
    <3>2. ASSUME NEW c \in Cache, NEW a \in Line, NEW x \in Word, CoreStore(c, a, x) PROVE TrackInv'
      BY <2>0, <3>2, FrameTracked DEF CoreStore
    <3>3. ASSUME NEW c \in Cache, NEW a \in Line, NEW x \in Word, NEW f \in Levels,
                 PrefetchLine(c, a, x, f)
          PROVE  TrackInv'
      BY <2>0, <3>3, PrefetchLineTracked
    <3> QED
      BY <2>10, <3>1, <3>2, <3>3 DEF Core
  <2>11. CASE Memory
    <3>1. ASSUME NEW c \in Cache, NEW a \in Line, DramRead(c, a) PROVE TrackInv'
      BY <2>0, <3>1, DramReadTracked
    <3>2. ASSUME NEW a \in Line, DramWrite(a) \/ SwapOut(a) PROVE TrackInv'
      BY <2>0, <3>2, FrameTracked DEF DramWrite, SwapOut
    <3> QED
      BY <2>11, <3>1, <3>2 DEF Memory
  <2>12. CASE UNCHANGED vars
    BY <2>0, <2>12, FrameTracked DEF vars
  <2> QED
    BY <2>1, <2>2, <2>3, <2>4, <2>5, <2>6, <2>7, <2>8, <2>9, <2>10, <2>11, <2>12 DEF Next, Operate
<1>3. TrackInv => RequestTracked
  BY TrackedMeans
<1> QED
  BY <1>1, <1>2, <1>3, PTL DEF Spec

-----------------------------------------------------------------------------
(***************************************************************************)
(* Stores.  The data caches end at the memory controller, and the LLC,     *)
(* the one a fill of which may be bypassed, is not an L1D.                 *)
(***************************************************************************)
StoreTree == \A c \in Cache : Lower[c] # WALK /\ (c \in L1D => Lower[c] # DRAM)

\* handle_writeback merges a store into the MSHR of a load.
MergedIntoLoad(a) ==
  \E c \in L1D : /\ wq[c] # <<>> /\ Head(wq[c]).addr = a
                 /\ mshr[c][a].ret # "FREE" /\ mshr[c][a].type = "LOAD"

DirtyAt(c, w, a) == block[c][w].tag = a /\ block[c][w].dirty
OwnedAt(c, a) == mshr[c][a].ret # "FREE" /\ mshr[c][a].type = "RFO"

\* The places where a store is kept, named one by one.
LEMMA KeepsParts ==
  ASSUME NEW a
  PROVE  KeepsStore(a) <=> \/ \E c \in Cache : \E w \in Way(c) : DirtyAt(c, w, a)
                           \/ \E c \in Cache \ L1D : Holds(wq[c], a)
                           \/ \E c \in L1D : OwnedAt(c, a)
                           \/ a \in dramWQ
BY DEF KeepsStore, DirtyAt, OwnedAt

\* The same places after a step.
LEMMA KeepsPartsNext ==
  ASSUME NEW a
  PROVE  KeepsStore(a)' <=> \/ \E c \in Cache : \E w \in Way(c) : DirtyAt(c, w, a)'
                            \/ \E c \in Cache \ L1D : Holds(wq'[c], a)
                            \/ \E c \in L1D : OwnedAt(c, a)'
                            \/ a \in dramWQ'
BY DEF KeepsStore, DirtyAt, OwnedAt, Holds, Way

\* What is kept in one of its places stays kept if each place keeps it.
LEMMA StillKept ==
  ASSUME NEW a, KeepsStore(a),
         \A c \in Cache : \A w \in Way(c) : DirtyAt(c, w, a) => DirtyAt(c, w, a)' \/ KeepsStore(a)',
         \A c \in Cache \ L1D : Holds(wq[c], a) => Holds(wq'[c], a) \/ KeepsStore(a)',
         \A c \in L1D : OwnedAt(c, a) => OwnedAt(c, a)' \/ KeepsStore(a)',
         a \in dramWQ => a \in dramWQ' \/ KeepsStore(a)'
  PROVE  KeepsStore(a)'
<1> SUFFICES ASSUME ~KeepsStore(a)' PROVE FALSE
  OBVIOUS
<1>1. CASE \E c \in Cache : \E w \in Way(c) : DirtyAt(c, w, a)
  BY <1>1, KeepsPartsNext
<1>2. CASE \E c \in Cache \ L1D : Holds(wq[c], a)
  BY <1>2, KeepsPartsNext
<1>3. CASE \E c \in L1D : OwnedAt(c, a)
  BY <1>3, KeepsPartsNext
<1>4. CASE a \in dramWQ
  BY <1>4, KeepsPartsNext
<1> QED
  BY <1>1, <1>2, <1>3, <1>4, KeepsParts

\* A queue of lines with one more, and without its head.
LEMMA HoldsAppend ==
  ASSUME NEW q \in Seq(WbPacket), NEW e \in WbPacket, NEW a
  PROVE  Holds(Append(q, e), a) <=> Holds(q, a) \/ e.addr = a
<1>1. /\ Len(q) \in Nat /\ Len(Append(q, e)) = Len(q) + 1
      /\ \A i \in 1..Len(q) : Append(q, e)[i] = q[i]
      /\ Append(q, e)[Len(q) + 1] = e
  BY AppendLemma, SeqLemma
<1> QED
  BY <1>1 DEF Holds

\* A line of a queue is in its tail or is the head.
LEMMA HoldsTail ==
  ASSUME NEW q \in Seq(WbPacket), q # <<>>, NEW a, Holds(q, a)
  PROVE  Holds(Tail(q), a) \/ Head(q).addr = a
<1>1. /\ Head(q) = q[1] /\ Len(q) \in Nat /\ Len(q) > 0 /\ Len(Tail(q)) = Len(q) - 1
      /\ \A i \in 1..(Len(q) - 1) : Tail(q)[i] = q[i + 1]
  BY TailLemma
<1>2. PICK i \in 1..Len(q) : q[i].addr = a
  BY DEF Holds
<1>3. CASE i = 1
  BY <1>1, <1>2, <1>3
<1>4. CASE i # 1
  <2>1. i - 1 \in 1..(Len(q) - 1) /\ (i - 1) + 1 = i
    BY <1>1, <1>4
  <2>2. Tail(q)[i - 1].addr = a
    BY <1>1, <1>2, <2>1
  <2> QED
    BY <1>1, <2>1, <2>2 DEF Holds
<1> QED
  BY <1>3, <1>4

\* add_wq.
LEMMA AddWqHolds ==
  ASSUME TypeOK, NEW c \in Cache, NEW a \in Line, NEW x \in Word
  PROVE  /\ Holds(AfterAddWq(c, a, x), a)
         /\ \A b : Holds(wq[c], b) => Holds(AfterAddWq(c, a, x), b)
         /\ Len(AfterAddWq(c, a, x)) >= Len(wq[c])
<1>1. wq[c] \in Seq(WbPacket) /\ [addr |-> a, word |-> x] \in WbPacket /\ Len(wq[c]) \in Nat
  BY SeqLemma DEF TypeOK, WbPacket
<1>2. CASE WqHit(c, a, x)
  BY <1>1, <1>2 DEF AfterAddWq, WqHit, Holds
<1>3. CASE ~WqHit(c, a, x)
  <2>1. AfterAddWq(c, a, x) = Append(wq[c], [addr |-> a, word |-> x])
    BY <1>3 DEF AfterAddWq
  <2>2. Len(Append(wq[c], [addr |-> a, word |-> x])) = Len(wq[c]) + 1
    BY <1>1, AppendLemma
  <2> QED
    BY <1>1, <2>1, <2>2, HoldsAppend
<1> QED
  BY <1>2, <1>3

\* A dirty victim of c is held below.
LEMMA VictimHeld ==
  ASSUME TypeOK, StoreTree, NEW c \in Cache, NEW w \in Way(c)
  PROVE  /\ \A d \in Cache, b \in Line : Holds(wq[d], b) => Holds(WqAfterVictim(c, w)[d], b)
         /\ \A d \in L1D \cup {c} : WqAfterVictim(c, w)[d] = wq[d]
         /\ dramWQ \subseteq DramAfterVictim(c, w)
         /\ \A b \in Line : DirtyAt(c, w, b) =>
              \/ \E d \in Cache \ (L1D \cup {c}) : Holds(WqAfterVictim(c, w)[d], b)
              \/ b \in DramAfterVictim(c, w)
         /\ DOMAIN WqAfterVictim(c, w) = Cache
<1>1. wq \in [Cache -> Seq(WbPacket)] /\ (block[c][w].dirty => block[c][w].tag \in Line) /\ L1D \subseteq Cache
  BY TreeAssumption DEF TypeOK, Blk
<1>2. CASE ~block[c][w].dirty
  BY <1>1, <1>2 DEF WqAfterVictim, DramAfterVictim, DirtyAt
<1>3. CASE block[c][w].dirty /\ Lower[c] \notin Cache
  <2>1. Lower[c] = DRAM
    BY <1>3, TreeAssumption DEF StoreTree
  <2> QED
    BY <1>1, <1>3, <2>1 DEF WqAfterVictim, DramAfterVictim, DirtyAt
<1>4. CASE block[c][w].dirty /\ Lower[c] \in Cache
  <2> DEFINE l == Lower[c]
             t == block[c][w].tag
             s == AfterAddWq(l, t, AnyWord)
  <2>1. WqAfterVictim(c, w) = [wq EXCEPT ![l] = s]
    BY <1>4 DEF WqAfterVictim
  <2>2. Holds(s, t) /\ \A b : Holds(wq[l], b) => Holds(s, b)
    BY <1>1, <1>4, AddWqHolds, AnyWordType
  <2>3. l # c /\ l \notin L1D /\ l \in Cache
    BY <1>4, TreeLemma, TreeAssumption
  <2>4. dramWQ \subseteq DramAfterVictim(c, w)
    BY DEF DramAfterVictim
  <2> HIDE DEF s, l
  <2>5. WqAfterVictim(c, w)[l] = s /\ \A d \in Cache \ {l} : WqAfterVictim(c, w)[d] = wq[d]
    BY <1>1, <2>1, <2>3
  <2>6. DOMAIN WqAfterVictim(c, w) = Cache
    BY <1>1, <2>1
  <2> QED
    BY <1>1, <2>2, <2>3, <2>4, <2>5, <2>6 DEF DirtyAt
<1> QED
  BY <1>2, <1>3, <1>4

\* What StoreKept says of line a in this step, or the merge that breaks it.
Kept(a) == KeepsStore(a) \/ Performed(a) => KeepsStore(a)' \/ a \in dramWQ \ dramWQ' \/ MergedIntoLoad(a)

\* No write queue of an L1D gets shorter.
LEMMA NotPerformed ==
  ASSUME TypeOK, TypeOK', NEW a, \A c \in L1D : wq'[c] = wq[c] \/ Len(wq'[c]) >= Len(wq[c])
  PROVE  ~Performed(a)
<1>1. \A c \in L1D : Len(wq[c]) \in Nat /\ Len(wq'[c]) \in Nat
  BY TreeAssumption, SeqLemma DEF TypeOK
<1>2. ASSUME NEW c \in L1D, Len(wq'[c]) < Len(wq[c]) PROVE FALSE
  <2>1. CASE wq'[c] = wq[c]
    BY <1>1, <1>2, <2>1
  <2>2. CASE Len(wq'[c]) >= Len(wq[c])
    <3>1. Len(wq[c]) \in Nat /\ Len(wq'[c]) \in Nat
      BY <1>1
    <3> QED
      BY <1>2, <2>2, <3>1
  <2> QED
    BY <2>1, <2>2
<1> QED
  BY <1>2 DEF Performed

\* Steps that leave the blocks, the write queues and the memory alone and keep the
\* MSHRs of stores.
LEMMA QuietStores ==
  ASSUME TypeOK, TypeOK', NEW a \in Line, UNCHANGED <<wq, block, dramWQ>>,
         \A c \in L1D : OwnedAt(c, a) => OwnedAt(c, a)'
  PROVE  Kept(a)
<1>1. ~Performed(a)
  BY NotPerformed
<1>2. KeepsStore(a) => KeepsStore(a)'
  <2>1. \A c \in Cache : \A w \in Way(c) : DirtyAt(c, w, a) => DirtyAt(c, w, a)'
    BY DEF DirtyAt
  <2> QED
    BY <2>1, StillKept
<1> QED
  BY <1>1, <1>2 DEF Kept

\* return_data and a new MSHR of another kind keep the MSHRs of stores.
LEMMA OwnedKept ==
  ASSUME TypeOK, NEW c \in Cache, NEW a \in Line, NEW p, p.via \in Cache \cup {NoCache}, NEW b \in Line,
         OwnedAt(c, b)
  PROVE  \A d \in Cache : Returned(d, p, a)[c][b].ret # "FREE" /\ Returned(d, p, a)[c][b].type = "RFO"
<1> TAKE d \in Cache
<1>1. Returned(d, p, a)[c][b] = Comp(mshr[c][b]) \/ Returned(d, p, a)[c][b] = mshr[c][b]
  BY ReturnedLemma
<1>2. mshr[c][b] \in Entry
  BY DEF TypeOK
<1> QED
  BY <1>1, <1>2, CompLemma DEF OwnedAt

\* handle_fill: the victim goes down, and a store's line is filled dirty.
LEMMA FillStores ==
  ASSUME TypeOK, TypeOK', StoreTree, NEW a \in Line, NEW c \in Cache, NEW b \in Line, NEW w \in Way(c),
         HandleFill(c, b, w)
  PROVE  Kept(a)
<1> DEFINE e == mshr[c][b]
           R == Returned(c, e, b)
<1>1. /\ wq' = WqAfterVictim(c, w) /\ dramWQ' = DramAfterVictim(c, w)
      /\ FillCache(c, w, b, c \in L1D /\ e.type = "RFO")
      /\ mshr' = [R EXCEPT ![c][b] = FreeEntry]
  BY DEF HandleFill
<1>2. /\ \A d \in Cache, x \in Line : Holds(wq[d], x) => Holds(wq'[d], x)
      /\ \A d \in L1D \cup {c} : wq'[d] = wq[d]
      /\ dramWQ \subseteq dramWQ'
      /\ \A x \in Line : DirtyAt(c, w, x) =>
           (\E d \in Cache \ (L1D \cup {c}) : Holds(wq'[d], x)) \/ x \in dramWQ'
  BY <1>1, VictimHeld
<1>3. /\ block'[c][w] = [valid |-> TRUE, tag |-> b, dirty |-> (c \in L1D /\ e.type = "RFO")]
      /\ \A d \in Cache : \A v \in Way(d) : d # c \/ v # w => block'[d][v] = block[d][v]
  BY <1>1 DEF FillCache, TypeOK
<1>4. ~Performed(a)
  BY <1>2, NotPerformed
<1>5. \A d \in Cache : \A v \in Way(d) : DirtyAt(d, v, a) => DirtyAt(d, v, a)' \/ KeepsStore(a)'
  <2> SUFFICES ASSUME NEW d \in Cache, NEW v \in Way(d), DirtyAt(d, v, a)
               PROVE  DirtyAt(d, v, a)' \/ KeepsStore(a)'
    OBVIOUS
  <2>1. CASE d = c /\ v = w
    <3>1. (\E f \in Cache \ (L1D \cup {c}) : Holds(wq'[f], a)) \/ a \in dramWQ'
      BY <1>2, <2>1
    <3> QED
      BY <3>1, KeepsPartsNext
  <2>2. CASE d # c \/ v # w
    <3>1. block'[d][v] = block[d][v]
      BY <1>3, <2>2
    <3> QED
      BY <3>1 DEF DirtyAt
  <2> QED
    BY <2>1, <2>2
<1>6. \A d \in L1D : OwnedAt(d, a) => OwnedAt(d, a)' \/ KeepsStore(a)'
  <2> SUFFICES ASSUME NEW d \in L1D, OwnedAt(d, a) PROVE OwnedAt(d, a)' \/ KeepsStore(a)'
    OBVIOUS
  <2>0. d \in Cache
    BY TreeAssumption
  <2>1. CASE d = c /\ a = b
    <3>1. c \in L1D /\ e.type = "RFO"
      BY <2>1 DEF OwnedAt
    <3>2. block'[c][w].tag = b /\ block'[c][w].dirty
      <4> DEFINE d0 == c \in L1D /\ e.type = "RFO"
      <4>1. d0 = TRUE
        BY <3>1
      <4>2. block'[c][w] = [valid |-> TRUE, tag |-> b, dirty |-> d0]
        BY <1>3
      <4> HIDE DEF d0
      <4> QED
        BY <4>1, <4>2
    <3>3. DirtyAt(c, w, a)'
      BY <2>1, <3>2 DEF DirtyAt
    <3> QED
      BY <3>3, KeepsPartsNext
  <2>2. CASE d # c \/ a # b
    <3>1. e.via \in Cache \cup {NoCache}
      BY EntryLemma DEF TypeOK
    <3>2. R \in [Cache -> [Line -> Entry]]
      BY ReturnedType
    <3>3. R[d][a].ret # "FREE" /\ R[d][a].type = "RFO"
      <4> HIDE DEF e
      <4> QED
        BY <2>0, <3>1, OwnedKept
    <3> HIDE DEF R
    <3>4. mshr'[d][a] = R[d][a]
      BY <1>1, <2>0, <2>2, <3>2
    <3> QED
      BY <3>3, <3>4 DEF OwnedAt
  <2> QED
    BY <2>1, <2>2
<1>7. KeepsStore(a) => KeepsStore(a)'
  BY <1>2, <1>5, <1>6, StillKept
<1> QED
  BY <1>4, <1>7 DEF Kept

\* A bypassed fill, which is not one of an L1D.
LEMMA BypassStores ==
  ASSUME TypeOK, TypeOK', StoreTree, NEW a \in Line, NEW c \in Cache, NEW b \in Line, BypassFill(c, b)
  PROVE  Kept(a)
<1> DEFINE e == mshr[c][b]
           R == Returned(c, e, b)
<1>1. mshr' = [R EXCEPT ![c][b] = FreeEntry] /\ Lower[c] = DRAM /\ UNCHANGED <<wq, block, dramWQ>>
  BY DEF BypassFill
<1>2. e.via \in Cache \cup {NoCache} /\ R \in [Cache -> [Line -> Entry]]
  BY EntryLemma, ReturnedType DEF TypeOK
<1>3. ASSUME NEW d \in L1D, OwnedAt(d, a) PROVE OwnedAt(d, a)'
  <2>1. d \in Cache /\ d # c
    BY <1>1, TreeAssumption DEF StoreTree
  <2>2. R[d][a].ret # "FREE" /\ R[d][a].type = "RFO"
    <3> HIDE DEF e
    <3> QED
      BY <1>2, <1>3, <2>1, OwnedKept
  <2> HIDE DEF R
  <2>3. mshr'[d][a] = R[d][a]
    BY <1>1, <1>2, <2>1
  <2> QED
    BY <2>2, <2>3 DEF OwnedAt
<1> QED
  BY <1>1, <1>3, QuietStores

\* A write-back that hits makes the block dirty.
LEMMA WritebackHitStores ==
  ASSUME TypeOK, TypeOK', NEW a \in Line, NEW c \in Cache, NEW w \in Way(c), WritebackHit(c, w)
  PROVE  Kept(a)
<1> DEFINE h == Head(wq[c]).addr
<1>1. /\ wq[c] # <<>> /\ IsHit(c, h, w) /\ block' = [block EXCEPT ![c][w].dirty = TRUE]
      /\ wq' = [wq EXCEPT ![c] = Tail(@)] /\ UNCHANGED <<mshr, dramWQ>>
  BY DEF WritebackHit
<1>2. block[c][w] \in Blk /\ block[c][w].tag = h
  BY <1>1 DEF TypeOK, IsHit
<1>3. /\ block'[c][w].tag = h /\ block'[c][w].dirty = TRUE
      /\ \A d \in Cache : \A v \in Way(d) : d # c \/ v # w => block'[d][v] = block[d][v]
  <2>1. block'[c][w] = [block[c][w] EXCEPT !.dirty = TRUE]
        /\ \A d \in Cache : \A v \in Way(d) : d # c \/ v # w => block'[d][v] = block[d][v]
    BY <1>1 DEF TypeOK
  <2> QED
    BY <1>2, <2>1 DEF Blk
<1>4. wq \in [Cache -> Seq(WbPacket)]
  BY DEF TypeOK
<1> HIDE DEF h
<1>5. wq'[c] = Tail(wq[c]) /\ \A d \in Cache \ {c} : wq'[d] = wq[d]
  BY <1>1, <1>4
<1>6. a = h => KeepsStore(a)'
  <2>1. a = h => DirtyAt(c, w, a)'
    BY <1>3 DEF DirtyAt
  <2> QED
    BY <2>1, KeepsPartsNext
<1>7. Performed(a) => a = h
  <2> SUFFICES ASSUME Performed(a) PROVE a = h
    OBVIOUS
  <2>1. PICK d \in L1D : Len(wq'[d]) < Len(wq[d]) /\ a = Head(wq[d]).addr
    BY DEF Performed
  <2>2. d \in Cache /\ Len(wq[d]) \in Nat
    BY <1>4, TreeAssumption, SeqLemma
  <2>3. d = c
    BY <1>5, <2>1, <2>2
  <2> QED
    BY <2>1, <2>3 DEF h
<1>8. KeepsStore(a) => KeepsStore(a)'
  <2>1. \A d \in Cache : \A v \in Way(d) : DirtyAt(d, v, a) => DirtyAt(d, v, a)' \/ KeepsStore(a)'
    <3> SUFFICES ASSUME NEW d \in Cache, NEW v \in Way(d), DirtyAt(d, v, a)
                 PROVE  DirtyAt(d, v, a)' \/ KeepsStore(a)'
      OBVIOUS
    <3>1. CASE d = c /\ v = w
      BY <1>2, <1>6, <3>1 DEF DirtyAt
    <3>2. CASE d # c \/ v # w
      <4>1. block'[d][v] = block[d][v]
        BY <1>3, <3>2
      <4> QED
        BY <4>1 DEF DirtyAt
    <3> QED
      BY <3>1, <3>2
  <2>2. \A d \in Cache \ L1D : Holds(wq[d], a) => Holds(wq'[d], a) \/ KeepsStore(a)'
    <3>1. Holds(wq[c], a) => Holds(wq'[c], a) \/ KeepsStore(a)'
      BY <1>1, <1>4, <1>5, <1>6, HoldsTail DEF h
    <3> QED
      BY <1>5, <3>1
  <2>3. \A d \in L1D : OwnedAt(d, a) => OwnedAt(d, a)'
    BY <1>1 DEF OwnedAt
  <2> QED
    BY <1>1, <2>1, <2>2, <2>3, StillKept
<1> QED
  BY <1>6, <1>7, <1>8 DEF Kept

\* A write-back that misses fills a dirty block.
LEMMA WritebackFillStores ==
  ASSUME TypeOK, TypeOK', StoreTree, NEW a \in Line, NEW c \in Cache, NEW w \in Way(c), WritebackFill(c, w)
  PROVE  Kept(a)
<1> DEFINE h == Head(wq[c]).addr
           V == WqAfterVictim(c, w)
<1>1. /\ c \notin L1D /\ wq[c] # <<>> /\ FillCache(c, w, h, TRUE)
      /\ wq' = [V EXCEPT ![c] = Tail(@)] /\ dramWQ' = DramAfterVictim(c, w) /\ UNCHANGED mshr
  BY DEF WritebackFill
<1>2. /\ \A d \in Cache, x \in Line : Holds(wq[d], x) => Holds(V[d], x)
      /\ \A d \in L1D \cup {c} : V[d] = wq[d]
      /\ dramWQ \subseteq dramWQ'
      /\ \A x \in Line : DirtyAt(c, w, x) =>
           (\E d \in Cache \ (L1D \cup {c}) : Holds(V[d], x)) \/ x \in dramWQ'
      /\ DOMAIN V = Cache
  BY <1>1, VictimHeld
<1>3. /\ block'[c][w] = [valid |-> TRUE, tag |-> h, dirty |-> TRUE]
      /\ \A d \in Cache : \A v \in Way(d) : d # c \/ v # w => block'[d][v] = block[d][v]
  BY <1>1 DEF FillCache, TypeOK
<1>4. wq[c] \in Seq(WbPacket)
  BY DEF TypeOK
<1> HIDE DEF h, V
<1>5. wq'[c] = Tail(wq[c]) /\ \A d \in Cache \ {c} : wq'[d] = V[d]
  BY <1>1, <1>2
<1>6. a = h => KeepsStore(a)'
  <2>1. a = h => DirtyAt(c, w, a)'
    BY <1>3 DEF DirtyAt
  <2> QED
    BY <2>1, KeepsPartsNext
<1>7. ~Performed(a)
  <2>1. \A d \in L1D : d \in Cache /\ d # c
    BY <1>1, TreeAssumption
  <2>2. \A d \in L1D : wq'[d] = wq[d]
    BY <1>2, <1>5, <2>1
  <2> QED
    BY <2>2, NotPerformed
<1>8. KeepsStore(a) => KeepsStore(a)'
  <2>1. \A d \in Cache : \A v \in Way(d) : DirtyAt(d, v, a) => DirtyAt(d, v, a)' \/ KeepsStore(a)'
    <3> SUFFICES ASSUME NEW d \in Cache, NEW v \in Way(d), DirtyAt(d, v, a)
                 PROVE  DirtyAt(d, v, a)' \/ KeepsStore(a)'
      OBVIOUS
    <3>1. CASE d = c /\ v = w
      <4>1. (\E f \in Cache \ (L1D \cup {c}) : Holds(wq'[f], a)) \/ a \in dramWQ'
        BY <1>2, <1>5, <3>1
      <4> QED
        BY <4>1, KeepsPartsNext
    <3>2. CASE d # c \/ v # w
      <4>1. block'[d][v] = block[d][v]
        BY <1>3, <3>2
      <4> QED
        BY <4>1 DEF DirtyAt
    <3> QED
      BY <3>1, <3>2
  <2>2. \A d \in Cache \ L1D : Holds(wq[d], a) => Holds(wq'[d], a) \/ KeepsStore(a)'
    <3>1. Holds(wq[c], a) => Holds(wq'[c], a) \/ KeepsStore(a)'
      BY <1>1, <1>4, <1>5, <1>6, HoldsTail DEF h
    <3> QED
      BY <1>2, <1>5, <3>1
  <2>3. \A d \in L1D : OwnedAt(d, a) => OwnedAt(d, a)'
    BY <1>1 DEF OwnedAt
  <2> QED
    BY <1>2, <2>1, <2>2, <2>3, StillKept
<1> QED
  BY <1>7, <1>8 DEF Kept


\* One MSHR is written; a store's only by an entry for a store.
LEMMA OneMshr ==
  ASSUME TypeOK, TypeOK', NEW a \in Line, NEW c \in Cache, NEW b \in Line, NEW x,
         mshr' = [mshr EXCEPT ![c][b] = x], OwnedAt(c, b) => x.ret # "FREE" /\ x.type = "RFO"
  PROVE  \A d \in L1D : OwnedAt(d, a) => OwnedAt(d, a)'
<1> SUFFICES ASSUME NEW d \in L1D, OwnedAt(d, a) PROVE OwnedAt(d, a)'
  OBVIOUS
<1>0. d \in Cache /\ mshr \in [Cache -> [Line -> Entry]]
  BY TreeAssumption DEF TypeOK
<1>1. CASE d = c /\ a = b
  <2>1. mshr'[d][a] = x
    BY <1>0, <1>1
  <2> QED
    BY <1>1, <2>1 DEF OwnedAt
<1>2. CASE d # c \/ a # b
  <2>1. mshr'[d][a] = mshr[d][a]
    BY <1>0, <1>2
  <2> QED
    BY <2>1 DEF OwnedAt
<1> QED
  BY <1>1, <1>2

\* A packet that meets an MSHR leaves a store's what it is.
LEMMA MergeOwned ==
  ASSUME TypeOK, TypeOK', NEW a \in Line, NEW c \in Cache, NEW p, p.addr \in Line, MergeDemand(c, p)
  PROVE  \A d \in L1D : OwnedAt(d, a) => OwnedAt(d, a)'
<1> DEFINE e == mshr[c][p.addr]
           x == IF e.type = "PREFETCH" THEN Promoted(p, e) ELSE TakeWho(TakeFill(e, p.fill), p.who)
<1>1. mshr' = [mshr EXCEPT ![c][p.addr] = x]
  BY DEF MergeDemand
<1>2. e \in Entry
  BY DEF TypeOK
<1>3. OwnedAt(c, p.addr) => x.ret # "FREE" /\ x.type = "RFO"
  BY <1>2 DEF OwnedAt, Entry, TakeWho, TakeFill
<1> HIDE DEF x
<1> QED
  BY <1>1, <1>3, OneMshr

\* A new miss takes a free MSHR.
LEMMA IssueOwned ==
  ASSUME TypeOK, TypeOK', NEW a \in Line, NEW c \in Cache, NEW p, p.addr \in Line, IssueRead(c, p)
  PROVE  \A d \in L1D : OwnedAt(d, a) => OwnedAt(d, a)'
<1>1. PICK x : mshr' = [mshr EXCEPT ![c][p.addr] = x]
  BY DEF IssueRead
<1>2. ~OwnedAt(c, p.addr)
  BY DEF IssueRead, OwnedAt
<1> QED
  BY <1>1, <1>2, OneMshr

\* handle_read, handle_prefetch, prefetch_line and the controller's reads.
LEMMA QuietActions ==
  ASSUME TypeOK, TypeOK', NEW a \in Line, NEW c \in Cache,
         \/ ReadHit(c) \/ ReadMiss(c) \/ PrefetchHit(c) \/ PrefetchMiss(c) \/ PrefetchMerge(c)
         \/ \E b \in Line : DramRead(c, b)
  PROVE  Kept(a)
<1>0. /\ rq[c] # <<>> => Head(rq[c]) \in Packet
      /\ pq[c] # <<>> => Head(pq[c]) \in Packet
  BY TailLemma DEF TypeOK
<1>1. ASSUME NEW p \in Packet, mshr' = Returned(c, p, p.addr), UNCHANGED <<wq, block, dramWQ>>
      PROVE  Kept(a)
  <2>1. p.via \in Cache \cup {NoCache} /\ p.addr \in Line
    BY DEF Packet
  <2>2. ASSUME NEW d \in L1D, OwnedAt(d, a) PROVE OwnedAt(d, a)'
    <3>1. d \in Cache
      BY TreeAssumption
    <3>2. Returned(c, p, p.addr)[d][a].ret # "FREE" /\ Returned(c, p, p.addr)[d][a].type = "RFO"
      BY <2>1, <2>2, <3>1, OwnedKept
    <3> QED
      BY <1>1, <3>2 DEF OwnedAt
  <2> QED
    BY <1>1, <2>2, QuietStores
<1>2. CASE ReadHit(c)
  BY <1>0, <1>1, <1>2 DEF ReadHit
<1>3. CASE ReadMiss(c)
  <2> DEFINE p == Head(rq[c])
  <2>1. p.addr \in Line
    BY <1>0, <1>3 DEF ReadMiss, Packet
  <2>2. (IssueRead(c, p) \/ MergeDemand(c, p)) /\ UNCHANGED <<wq, block, dramWQ>>
    BY <1>3 DEF ReadMiss
  <2> HIDE DEF p
  <2>3. \A d \in L1D : OwnedAt(d, a) => OwnedAt(d, a)'
    BY <2>1, <2>2, IssueOwned, MergeOwned
  <2> QED
    BY <2>2, <2>3, QuietStores
<1>4. CASE PrefetchHit(c)
  BY <1>0, <1>1, <1>4 DEF PrefetchHit
<1>5. CASE PrefetchMiss(c)
  <2> DEFINE p == Head(pq[c])
  <2>1. p.addr \in Line /\ ~OwnedAt(c, p.addr) /\ UNCHANGED <<wq, block, dramWQ>>
    BY <1>0, <1>5 DEF PrefetchMiss, Packet, OwnedAt
  <2>2. mshr' = mshr \/ \E x : mshr' = [mshr EXCEPT ![c][p.addr] = x]
    BY <1>5 DEF PrefetchMiss, Alloc
  <2> HIDE DEF p
  <2>3. \A d \in L1D : OwnedAt(d, a) => OwnedAt(d, a)'
    <3>1. CASE mshr' = mshr
      BY <3>1 DEF OwnedAt
    <3>2. CASE \E x : mshr' = [mshr EXCEPT ![c][p.addr] = x]
      BY <2>1, <3>2, OneMshr
    <3> QED
      BY <2>2, <3>1, <3>2
  <2> QED
    BY <2>1, <2>3, QuietStores
<1>6. CASE PrefetchMerge(c)
  <2> DEFINE b == Head(pq[c]).addr
             x == TakeFill(mshr[c][b], Head(pq[c]).fill)
  <2>1. b \in Line /\ UNCHANGED <<wq, block, dramWQ>> /\ mshr[c][b] \in Entry
    BY <1>0, <1>6 DEF PrefetchMerge, Packet, TypeOK
  <2>2. mshr' = [mshr EXCEPT ![c][b] = x]
    BY <1>6, <2>1 DEF PrefetchMerge, TypeOK
  <2>3. OwnedAt(c, b) => x.ret # "FREE" /\ x.type = "RFO"
    BY <2>1 DEF OwnedAt, TakeFill, Entry
  <2> HIDE DEF b, x
  <2>4. \A d \in L1D : OwnedAt(d, a) => OwnedAt(d, a)'
    BY <2>1, <2>2, <2>3, OneMshr
  <2> QED
    BY <2>1, <2>4, QuietStores
<1>7. CASE \E b \in Line : DramRead(c, b)
  <2>1. PICK b \in Line : DramRead(c, b)
    BY <1>7
  <2> DEFINE x == [mshr[c][b] EXCEPT !.ret = "COMPLETED"]
  <2>2. mshr' = [mshr EXCEPT ![c][b] = x] /\ UNCHANGED <<wq, block, dramWQ>> /\ mshr[c][b] \in Entry
    BY <2>1 DEF DramRead, TypeOK
  <2>3. OwnedAt(c, b) => x.ret # "FREE" /\ x.type = "RFO"
    BY <2>2 DEF OwnedAt, Entry
  <2> HIDE DEF x
  <2>4. \A d \in L1D : OwnedAt(d, a) => OwnedAt(d, a)'
    BY <2>2, <2>3, OneMshr
  <2> QED
    BY <2>2, <2>4, QuietStores
<1> QED
  BY <1>2, <1>3, <1>4, <1>5, <1>6, <1>7

\* A store that misses takes its line's MSHR, unless a load has it.
LEMMA RfoStores ==
  ASSUME TypeOK, TypeOK', NEW a \in Line, NEW c \in Cache, RfoMiss(c)
  PROVE  Kept(a)
<1> DEFINE p == Rfo(c)
           h == p.addr
           e == mshr[c][h]
<1>1. /\ c \in L1D /\ wq[c] # <<>> /\ wq' = [wq EXCEPT ![c] = Tail(@)]
      /\ (IssueRead(c, p) \/ MergeDemand(c, p))
      /\ UNCHANGED <<block, dramWQ>>
  BY DEF RfoMiss
<1>2. h \in Line /\ h = Head(wq[c]).addr
  <2>1. Head(wq[c]) \in WbPacket
    BY <1>1, TailLemma DEF TypeOK
  <2> QED
    BY <2>1 DEF Rfo, WbPacket
<1>3. wq \in [Cache -> Seq(WbPacket)] /\ mshr \in [Cache -> [Line -> Entry]]
  BY DEF TypeOK
<1>4. p.type = "RFO"
  BY DEF Rfo
<1>5. a = h => OwnedAt(c, a)' \/ MergedIntoLoad(a)
  <2> SUFFICES ASSUME a = h PROVE OwnedAt(c, a)' \/ MergedIntoLoad(a)
    OBVIOUS
  <2>1. CASE IssueRead(c, p)
    <3>1. \E r \in {"COMPLETED", "INFLIGHT"} : mshr' = [mshr EXCEPT ![c][h] = NewEntry(p, r)]
      BY <2>1 DEF IssueRead
    <3>2. PICK r \in {"COMPLETED", "INFLIGHT"} : mshr'[c][a] = NewEntry(p, r)
      BY <1>2, <1>3, <3>1
    <3> QED
      BY <1>4, <3>2 DEF OwnedAt, NewEntry
  <2>2. CASE MergeDemand(c, p) /\ e.type = "PREFETCH"
    <3>1. mshr' = [mshr EXCEPT ![c][h] = Promoted(p, e)] /\ e.ret # "FREE"
      BY <2>2 DEF MergeDemand
    <3>2. mshr'[c][a] = Promoted(p, e)
      BY <1>2, <1>3, <3>1
    <3> QED
      BY <1>4, <3>1, <3>2 DEF OwnedAt, NewEntry, Promoted
  <2>3. CASE MergeDemand(c, p) /\ e.type = "RFO"
    <3>1. OwnedAt(c, a)
      BY <2>3 DEF MergeDemand, OwnedAt
    <3> QED
      BY <1>1, <1>2, <2>3, <3>1, MergeOwned
  <2>4. CASE MergeDemand(c, p) /\ e.type = "LOAD"
    BY <1>1, <1>2, <2>4 DEF MergeDemand, MergedIntoLoad
  <2>5. e \in Entry
    BY <1>2, <1>3
  <2> QED
    BY <1>1, <2>1, <2>2, <2>3, <2>4, <2>5 DEF Entry, Type
<1>6. \A d \in L1D : OwnedAt(d, a) => OwnedAt(d, a)'
  <2> HIDE DEF p
  <2> QED
    BY <1>1, <1>2, IssueOwned, MergeOwned
<1> HIDE DEF p, h
<1>7. wq'[c] = Tail(wq[c]) /\ \A d \in Cache \ {c} : wq'[d] = wq[d]
  BY <1>1, <1>3
<1>8. Performed(a) => a = h
  <2> SUFFICES ASSUME Performed(a) PROVE a = h
    OBVIOUS
  <2>1. PICK d \in L1D : Len(wq'[d]) < Len(wq[d]) /\ a = Head(wq[d]).addr
    BY DEF Performed
  <2>2. d \in Cache /\ Len(wq[d]) \in Nat
    BY <1>3, TreeAssumption, SeqLemma
  <2>3. d = c
    BY <1>7, <2>1, <2>2
  <2> QED
    BY <1>2, <2>1, <2>3
<1>9. KeepsStore(a) => KeepsStore(a)'
  <2>1. \A d \in Cache : \A v \in Way(d) : DirtyAt(d, v, a) => DirtyAt(d, v, a)'
    BY <1>1 DEF DirtyAt
  <2>2. \A d \in Cache \ L1D : Holds(wq[d], a) => Holds(wq'[d], a)
    BY <1>1, <1>7
  <2> QED
    BY <1>1, <1>6, <2>1, <2>2, StillKept
<1>10. a = h => KeepsStore(a)' \/ MergedIntoLoad(a)
  BY <1>1, <1>5, KeepsPartsNext
<1> QED
  BY <1>8, <1>9, <1>10 DEF Kept

\* The calls from above and below, and a page that is swapped out.
LEMMA OutsideStores ==
  ASSUME TypeOK, TypeOK', NEW a \in Line,
         \/ \E r \in Req, b \in Line, x \in Word : CoreRead(r, b, x)
         \/ \E c \in Cache, b \in Line, x \in Word : CoreStore(c, b, x)
         \/ \E c \in Cache, b \in Line, x \in Word, f \in Levels : PrefetchLine(c, b, x, f)
         \/ \E b \in Line : DramWrite(b) \/ SwapOut(b)
         \/ UNCHANGED vars
  PROVE  Kept(a)
<1>1. CASE UNCHANGED <<wq, mshr, block, dramWQ>>
  BY <1>1, QuietStores DEF OwnedAt
<1>2. ASSUME NEW c \in Cache, NEW b \in Line, NEW x \in Word, CoreStore(c, b, x) PROVE Kept(a)
  <2>1. c \in L1D /\ wq' = [wq EXCEPT ![c] = AfterAddWq(c, b, x)] /\ UNCHANGED <<mshr, block, dramWQ>>
    BY <1>2 DEF CoreStore
  <2>2. wq'[c] = AfterAddWq(c, b, x) /\ \A d \in Cache \ {c} : wq'[d] = wq[d]
    BY <2>1 DEF TypeOK
  <2>3. Len(AfterAddWq(c, b, x)) >= Len(wq[c])
    BY AddWqHolds
  <2>4. \A d \in L1D : wq'[d] = wq[d] \/ Len(wq'[d]) >= Len(wq[d])
    BY <2>2, <2>3, TreeAssumption
  <2>5. ~Performed(a)
    BY <2>4, NotPerformed
  <2>6. \A d \in Cache \ L1D : Holds(wq[d], a) => Holds(wq'[d], a)
    BY <2>1, <2>2
  <2>7. /\ \A d \in L1D : OwnedAt(d, a) => OwnedAt(d, a)'
        /\ \A d \in Cache : \A v \in Way(d) : DirtyAt(d, v, a) => DirtyAt(d, v, a)'
    BY <2>1 DEF OwnedAt, DirtyAt
  <2>8. KeepsStore(a) => KeepsStore(a)'
    BY <2>1, <2>6, <2>7, StillKept
  <2> QED
    BY <2>5, <2>8 DEF Kept
<1>3. ASSUME NEW b \in Line, DramWrite(b) PROVE Kept(a)
  <2>1. dramWQ' = dramWQ \ {b} /\ UNCHANGED <<wq, mshr, block>>
    BY <1>3 DEF DramWrite
  <2>2. ~Performed(a)
    BY <2>1, NotPerformed
  <2>3. /\ \A d \in L1D : OwnedAt(d, a) => OwnedAt(d, a)'
        /\ \A d \in Cache : \A v \in Way(d) : DirtyAt(d, v, a) => DirtyAt(d, v, a)'
    BY <2>1 DEF OwnedAt, DirtyAt
  <2>4. KeepsStore(a) /\ a \notin dramWQ \ dramWQ' => KeepsStore(a)'
    BY <2>1, <2>3, StillKept
  <2> QED
    BY <2>2, <2>4 DEF Kept
<1>4. ASSUME NEW b \in Line, SwapOut(b) PROVE Kept(a)
  <2>1. UNCHANGED <<wq, mshr, dramWQ>>
    BY <1>4 DEF SwapOut
  <2>2. ~Performed(a)
    BY <2>1, NotPerformed
  <2>3. ASSUME NEW d \in Cache, NEW v \in Way(d), DirtyAt(d, v, a) PROVE DirtyAt(d, v, a)'
    <3>1. block[d][v] \in Blk
      BY DEF TypeOK
    <3>2. block'[d][v] = [block[d][v] EXCEPT !.valid = FALSE] \/ block'[d][v] = block[d][v]
      BY <1>4 DEF SwapOut
    <3>3. block'[d][v].tag = block[d][v].tag /\ block'[d][v].dirty = block[d][v].dirty
      BY <3>1, <3>2 DEF Blk
    <3> QED
      BY <2>3, <3>3 DEF DirtyAt
  <2>4. KeepsStore(a) => KeepsStore(a)'
    BY <2>1, <2>3, StillKept DEF OwnedAt
  <2> QED
    BY <2>2, <2>4 DEF Kept
<1>5. CASE \E r \in Req, b \in Line, x \in Word : CoreRead(r, b, x)
  BY <1>1, <1>5 DEF CoreRead
<1>6. CASE \E c \in Cache, b \in Line, x \in Word, f \in Levels : PrefetchLine(c, b, x, f)
  BY <1>1, <1>6 DEF PrefetchLine
<1>7. CASE UNCHANGED vars
  BY <1>1, <1>7 DEF vars
<1> QED
  BY <1>2, <1>3, <1>4, <1>5, <1>6, <1>7

\* No step but a merge into a load loses the last copy of a store.
LEMMA StoreStep ==
  ASSUME TypeOK, TypeOK', StoreTree, [Next]_vars, NEW a \in Line
  PROVE  Kept(a)
<1>1. CASE \E c \in Cache : Operate(c)
  <2>1. PICK c \in Cache : Operate(c)
    BY <1>1
  <2>2. CASE \E b \in Line, w \in Way(c) : HandleFill(c, b, w)
    BY <2>2, FillStores
  <2>3. CASE \E b \in Line : BypassFill(c, b)
    BY <2>3, BypassStores
  <2>4. CASE \E w \in Way(c) : WritebackHit(c, w) \/ WritebackFill(c, w)
    BY <2>4, WritebackHitStores, WritebackFillStores
  <2>5. CASE RfoMiss(c)
    BY <2>5, RfoStores
  <2>6. CASE ReadHit(c) \/ ReadMiss(c) \/ PrefetchHit(c) \/ PrefetchMiss(c) \/ PrefetchMerge(c)
    BY <2>6, QuietActions
  <2> QED
    BY <2>1, <2>2, <2>3, <2>4, <2>5, <2>6 DEF Operate
<1>2. CASE Core
  BY <1>2, OutsideStores DEF Core
<1>3. CASE Memory
  <2>1. CASE \E c \in Cache, b \in Line : DramRead(c, b)
    BY <2>1, QuietActions
  <2>2. CASE \E b \in Line : DramWrite(b) \/ SwapOut(b)
    BY <2>2, OutsideStores
  <2> QED
    BY <1>3, <2>1, <2>2 DEF Memory
<1>4. CASE UNCHANGED vars
  BY <1>4, OutsideStores
<1> QED
  BY <1>1, <1>2, <1>3, <1>4 DEF Next


-----------------------------------------------------------------------------
(***************************************************************************)
(* Where the L1Ds take no loads no store is lost: their read queues stay   *)
(* empty and no MSHR of theirs is a load's, a freed one included, since    *)
(* data is only returned to a miss in flight.                              *)
(***************************************************************************)
NoLoads == \A r \in Req : Port[r] \notin L1D

LoadEntry(e) == e.ret # "FREE" /\ e.type = "LOAD"

QuietL1d ==
  \A c \in L1D : rq[c] = <<>> /\ \A a \in Line : ~LoadEntry(mshr[c][a])

\* return_data on behalf of a request that is held.
LEMMA ReturnQuiet ==
  ASSUME Inv, QuietL1d, NEW c \in Cache, NEW a \in Line, NEW p,
         p.fill \in Levels, p.via \in Cache \cup {NoCache}, Shape(c, p, a),
         p.fill < Level[c] => \/ InQueue(rq[c], c, p.via, a) \/ InQueue(pq[c], c, p.via, a)
                              \/ InMshr(c, p.via, a)
  PROVE  \A d \in L1D, b \in Line : ~LoadEntry(Returned(c, p, a)[d][b])
<1> SUFFICES ASSUME NEW d \in L1D, NEW b \in Line PROVE ~LoadEntry(Returned(c, p, a)[d][b])
  OBVIOUS
<1>0. TypeOK /\ d \in Cache /\ mshr[d][b] \in Entry /\ ~LoadEntry(mshr[d][b])
  BY TreeAssumption DEF Inv, TypeOK, QuietL1d
<1>1. CASE p.fill < Level[c] /\ d = p.via /\ b = a
  <2>1. Returned(c, p, a)[d][b] = Comp(mshr[d][b])
    BY <1>0, <1>1, ReturnedLemma
  <2>2. mshr[d][b].ret = "INFLIGHT"
    BY <1>1, AskedLemma
  <2> QED
    BY <1>0, <2>1, <2>2, CompLemma DEF LoadEntry
<1>2. CASE ~(p.fill < Level[c] /\ d = p.via /\ b = a)
  BY <1>0, <1>2, ReturnedLemma
<1> QED
  BY <1>1, <1>2

\* A miss that takes or merges into an MSHR.
LEMMA OneQuiet ==
  ASSUME TypeOK, QuietL1d, NEW c \in Cache, NEW b \in Line, NEW x,
         mshr' = [mshr EXCEPT ![c][b] = x], c \in L1D => ~LoadEntry(x)
  PROVE  \A d \in L1D, a \in Line : ~LoadEntry(mshr'[d][a])
<1> SUFFICES ASSUME NEW d \in L1D, NEW a \in Line PROVE ~LoadEntry(mshr'[d][a])
  OBVIOUS
<1>0. d \in Cache /\ mshr \in [Cache -> [Line -> Entry]] /\ ~LoadEntry(mshr[d][a])
  BY TreeAssumption DEF TypeOK, QuietL1d
<1>1. CASE d = c /\ a = b
  <2>1. mshr'[d][a] = x
    BY <1>0, <1>1
  <2> QED
    BY <1>1, <2>1
<1>2. CASE d # c \/ a # b
  <2>1. mshr'[d][a] = mshr[d][a]
    BY <1>0, <1>2
  <2> QED
    BY <1>0, <2>1
<1> QED
  BY <1>1, <1>2

\* A demand packet of a type other than LOAD, or of a cache that is no L1D.
LEMMA DemandQuiet ==
  ASSUME TypeOK, QuietL1d, NEW c \in Cache, NEW p, p.addr \in Line, IssueRead(c, p) \/ MergeDemand(c, p),
         c \in L1D => p.type # "LOAD"
  PROVE  \A d \in L1D, a \in Line : ~LoadEntry(mshr'[d][a])
<1>1. CASE IssueRead(c, p)
  <2>1. PICK r : mshr' = [mshr EXCEPT ![c][p.addr] = NewEntry(p, r)]
    BY <1>1 DEF IssueRead
  <2>2. c \in L1D => ~LoadEntry(NewEntry(p, r))
    BY DEF LoadEntry, NewEntry
  <2> QED
    BY <2>1, <2>2, OneQuiet
<1>2. CASE MergeDemand(c, p)
  <2> DEFINE e == mshr[c][p.addr]
             x == IF e.type = "PREFETCH" THEN Promoted(p, e) ELSE TakeWho(TakeFill(e, p.fill), p.who)
  <2>1. mshr' = [mshr EXCEPT ![c][p.addr] = x]
    BY <1>2 DEF MergeDemand
  <2>2. e \in Entry /\ (c \in L1D => ~LoadEntry(e))
    BY DEF TypeOK, QuietL1d
  <2>3. ASSUME c \in L1D PROVE ~LoadEntry(x)
    <3>1. CASE e.type = "PREFETCH"
      BY <2>3, <3>1 DEF LoadEntry, Promoted, NewEntry
    <3>2. CASE e.type # "PREFETCH"
      <4>1. x.ret = e.ret /\ x.type = e.type
        BY <2>2, <3>2 DEF Entry, TakeWho, TakeFill
      <4> QED
        BY <2>2, <2>3, <4>1 DEF LoadEntry
    <3> QED
      BY <3>1, <3>2
  <2> HIDE DEF x
  <2> QED
    BY <2>1, <2>3, OneQuiet
<1> QED
  BY <1>1, <1>2

\* The read queue of an L1D is not below any cache.
LEMMA BelowQuiet ==
  ASSUME TypeOK, NEW c \in Cache, NEW p, NEW d \in L1D
  PROVE  RqBelow(c, p)[d] = rq[d] /\ d \in DOMAIN RqBelow(c, p)
<1>1. d \in Cache /\ Lower[c] # d /\ rq \in [Cache -> Seq(Packet)]
  BY TreeAssumption DEF TypeOK, Uppers
<1> QED
  BY <1>1 DEF RqBelow

\* Without loads, the read queues of the L1D stay empty and none of its misses is a load.
LEMMA QuietNext ==
  ASSUME Inv, TypeOK', NoLoads, QuietL1d, [Next]_vars
  PROVE  QuietL1d'
<1>0. /\ TypeOK /\ rq \in [Cache -> Seq(Packet)] /\ L1D \subseteq Cache
      /\ \A c \in L1D : rq[c] = <<>>
      /\ \A c \in Cache : rq[c] # <<>> => c \notin L1D
  BY TreeAssumption DEF Inv, TypeOK, QuietL1d
<1>1. CASE UNCHANGED <<rq, mshr>>
  BY <1>1 DEF QuietL1d
<1> DEFINE QuietRq == \A d \in L1D : rq'[d] = <<>>
           QuietMshr == \A d \in L1D, b \in Line : ~LoadEntry(mshr'[d][b])
<1>2. QuietRq /\ QuietMshr => QuietL1d'
  BY DEF QuietL1d, LoadEntry
<1>3. UNCHANGED rq => QuietRq
  BY <1>0
<1>4. ASSUME NEW c \in Cache, NEW a \in Line, mshr[c][a].ret # "FREE",
             mshr' = [Returned(c, mshr[c][a], a) EXCEPT ![c][a] = FreeEntry]
      PROVE  QuietMshr
  <2> DEFINE e == mshr[c][a]
             R == Returned(c, e, a)
  <2>1. e.fill \in Levels /\ e.via \in Cache \cup {NoCache} /\ Shape(c, e, a)
    BY <1>4, EntryLemma DEF Inv, TypeOK, MshrShape
  <2>2. e.fill < Level[c] => InMshr(c, e.via, a)
    BY <1>4 DEF InMshr, AskedBy
  <2>3. R \in [Cache -> [Line -> Entry]]
    BY <1>0, <2>1, ReturnedType DEF TypeOK
  <2>4. \A d \in L1D, b \in Line : ~LoadEntry(R[d][b])
    <3> HIDE DEF e
    <3> QED
      BY <2>1, <2>2, ReturnQuiet
  <2>5. ~LoadEntry(FreeEntry)
    BY DEF LoadEntry, FreeEntry
  <2>6. mshr' = [R EXCEPT ![c][a] = FreeEntry]
    BY <1>4
  <2> HIDE DEF R
  <2> SUFFICES ASSUME NEW d \in L1D, NEW b \in Line PROVE ~LoadEntry(mshr'[d][b])
    OBVIOUS
  <2>7. mshr'[d][b] = R[d][b] \/ mshr'[d][b] = FreeEntry
    BY <1>0, <2>3, <2>6
  <2> QED
    BY <2>4, <2>5, <2>7
<1>5. ASSUME NEW c \in Cache, Operate(c) PROVE QuietL1d'
  <2>1. CASE \E a \in Line, w \in Way(c) : HandleFill(c, a, w)
    BY <1>2, <1>3, <1>4, <2>1 DEF HandleFill
  <2>2. CASE \E a \in Line : BypassFill(c, a)
    BY <1>2, <1>3, <1>4, <2>2 DEF BypassFill
  <2>3. CASE \E w \in Way(c) : WritebackHit(c, w) \/ WritebackFill(c, w)
    BY <1>1, <2>3 DEF WritebackHit, WritebackFill
  <2>4. CASE RfoMiss(c)
    <3> DEFINE p == Rfo(c)
    <3>1. p.addr \in Line /\ p.type = "RFO"
      <4>1. Head(wq[c]) \in WbPacket
        BY <1>0, <2>4, TailLemma DEF TypeOK, RfoMiss
      <4> QED
        BY <4>1 DEF Rfo, WbPacket
    <3>2. (IssueRead(c, p) /\ rq' = RqBelow(c, p)) \/ (MergeDemand(c, p) /\ UNCHANGED rq)
      BY <2>4 DEF RfoMiss
    <3> HIDE DEF p
    <3>3. QuietMshr
      BY <1>0, <3>1, <3>2, DemandQuiet
    <3>4. QuietRq
      BY <1>0, <3>2, BelowQuiet
    <3> QED
      BY <1>2, <3>3, <3>4
  <2>5. CASE ReadHit(c)
    <3> DEFINE p == Head(rq[c])
    <3>1. /\ rq[c] # <<>> /\ c \notin L1D /\ mshr' = Returned(c, p, p.addr)
          /\ rq' = [rq EXCEPT ![c] = Tail(@)]
      BY <1>0, <2>5 DEF ReadHit
    <3>2. p \in Packet /\ p \in Elem(rq[c])
      BY <1>0, <3>1, TailElem, ElemPacket DEF Inv, QueueShape
    <3>3. p.addr \in Line /\ p.fill \in Levels /\ p.via \in Cache \cup {NoCache} /\ Shape(c, p, p.addr)
      BY <3>2, PacketLemma DEF Inv, QueueShape, RqShape
    <3>4. p.fill < Level[c] => InQueue(rq[c], c, p.via, p.addr)
      <4>1. rq[c] \in Seq(Packet)
        BY <1>0 DEF TypeOK
      <4> QED
        BY <3>2, <4>1, InQueueElem DEF AskedBy
    <3> HIDE DEF p
    <3>5. QuietMshr
      BY <3>1, <3>3, <3>4, ReturnQuiet
    <3> QED
      BY <1>0, <1>2, <3>1, <3>5
  <2>6. CASE ReadMiss(c)
    <3> DEFINE p == Head(rq[c])
    <3>1. rq[c] # <<>> /\ c \notin L1D
      BY <1>0, <2>6 DEF ReadMiss
    <3>2. p.addr \in Line
      BY <1>0, <3>1, HeadTypes, PacketLemma
    <3>3. \/ IssueRead(c, p) /\ rq' = [RqBelow(c, p) EXCEPT ![c] = Tail(@)]
          \/ MergeDemand(c, p) /\ rq' = [rq EXCEPT ![c] = Tail(@)]
      BY <2>6 DEF ReadMiss
    <3> HIDE DEF p
    <3>4. QuietMshr
      BY <1>0, <3>1, <3>2, <3>3, DemandQuiet
    <3>5. \A d \in L1D : RqBelow(c, p)[d] = <<>> /\ d \in DOMAIN RqBelow(c, p) /\ d # c
      BY <1>0, <3>1, BelowQuiet
    <3>6. QuietRq
      BY <1>0, <3>1, <3>3, <3>5
    <3> QED
      BY <1>2, <3>4, <3>6
  <2>7. CASE PrefetchHit(c)
    <3> DEFINE p == Head(pq[c])
    <3>1. pq[c] # <<>> /\ mshr' = Returned(c, p, p.addr) /\ UNCHANGED rq
      BY <2>7 DEF PrefetchHit
    <3>2. p \in Packet /\ p \in Elem(pq[c])
      BY <1>0, <3>1, TailElem, ElemPacket DEF Inv, QueueShape, TypeOK
    <3>3. p.addr \in Line /\ p.fill \in Levels /\ p.via \in Cache \cup {NoCache} /\ Shape(c, p, p.addr)
      BY <3>2, PacketLemma DEF Inv, QueueShape, PqShape
    <3>4. p.fill < Level[c] => InQueue(pq[c], c, p.via, p.addr)
      <4>1. pq[c] \in Seq(Packet)
        BY <1>0 DEF TypeOK
      <4> QED
        BY <3>2, <4>1, InQueueElem DEF AskedBy
    <3> HIDE DEF p
    <3>5. QuietMshr
      BY <3>1, <3>3, <3>4, ReturnQuiet
    <3> QED
      BY <1>2, <1>3, <3>1, <3>5
  <2>8. CASE PrefetchMiss(c)
    <3> DEFINE p == Head(pq[c])
    <3>1. pq[c] # <<>> /\ UNCHANGED rq
      BY <2>8 DEF PrefetchMiss
    <3>2. p \in Packet /\ p \in Elem(pq[c])
      BY <1>0, <3>1, TailElem, ElemPacket DEF Inv, QueueShape, TypeOK
    <3>3. p.addr \in Line /\ p.type = "PREFETCH"
      BY <3>2, PacketLemma DEF Inv, QueueShape, PqShape
    <3>4. mshr' = mshr \/ \E r : mshr' = [mshr EXCEPT ![c][p.addr] = NewEntry(p, r)]
      BY <2>8 DEF PrefetchMiss, Alloc
    <3> HIDE DEF p
    <3>5. \A r : ~LoadEntry(NewEntry(p, r))
      BY <3>3 DEF LoadEntry, NewEntry
    <3>6. CASE mshr' = mshr
      BY <1>1, <3>1, <3>6
    <3>7. CASE \E r : mshr' = [mshr EXCEPT ![c][p.addr] = NewEntry(p, r)]
      <4>1. QuietMshr
        BY <1>0, <3>3, <3>5, <3>7, OneQuiet
      <4> QED
        BY <1>2, <1>3, <3>1, <4>1
    <3> QED
      BY <3>4, <3>6, <3>7
  <2>9. CASE PrefetchMerge(c)
    <3> DEFINE b == Head(pq[c]).addr
               x == TakeFill(mshr[c][b], Head(pq[c]).fill)
    <3>1. b \in Line /\ UNCHANGED rq /\ mshr[c][b] \in Entry
      <4>1. pq[c] # <<>> /\ UNCHANGED rq
        BY <2>9 DEF PrefetchMerge
      <4>2. Head(pq[c]) \in Packet
        BY <1>0, <4>1, TailLemma DEF TypeOK
      <4> QED
        BY <1>0, <4>1, <4>2 DEF Packet, TypeOK
    <3>2. mshr' = [mshr EXCEPT ![c][b] = x]
      BY <1>0, <2>9, <3>1 DEF PrefetchMerge, TypeOK
    <3>3. x.ret = mshr[c][b].ret /\ x.type = mshr[c][b].type
      BY <3>1 DEF TakeFill, Entry
    <3>4. c \in L1D => ~LoadEntry(x)
      BY <3>1, <3>3 DEF LoadEntry, QuietL1d
    <3> HIDE DEF b, x
    <3>5. QuietMshr
      BY <1>0, <3>1, <3>2, <3>4, OneQuiet
    <3> QED
      BY <1>2, <1>3, <3>1, <3>5
  <2> QED
    BY <1>5, <2>1, <2>2, <2>3, <2>4, <2>5, <2>6, <2>7, <2>8, <2>9 DEF Operate
<1>6. CASE Core
  <2>1. ASSUME NEW r \in Req, NEW a \in Line, NEW x \in Word, CoreRead(r, a, x) PROVE QuietL1d'
    <3>1. UNCHANGED mshr /\ \E q : rq' = [rq EXCEPT ![Port[r]] = q]
      BY <2>1 DEF CoreRead
    <3>2. Port[r] \notin L1D
      BY DEF NoLoads
    <3>3. QuietRq
      BY <1>0, <3>1, <3>2
    <3> QED
      BY <1>2, <3>1, <3>3 DEF QuietL1d
  <2> QED
    BY <1>1, <1>6, <2>1 DEF Core, CoreStore, PrefetchLine
<1>7. CASE Memory
  <2>1. ASSUME NEW c \in Cache, NEW a \in Line, DramRead(c, a) PROVE QuietL1d'
    <3> DEFINE x == Comp(mshr[c][a])
    <3>1. mshr' = [mshr EXCEPT ![c][a] = x] /\ UNCHANGED rq /\ mshr[c][a] \in Entry
      BY <1>0, <2>1 DEF DramRead, TypeOK, Comp
    <3>2. mshr[c][a].ret = "INFLIGHT"
      BY <2>1 DEF DramRead, Inv, MissConserved, ConservedAt
    <3>3. c \in L1D => ~LoadEntry(mshr[c][a])
      BY DEF QuietL1d
    <3>4. x.type = mshr[c][a].type
      BY <3>1, CompLemma
    <3>5. c \in L1D => ~LoadEntry(x)
      BY <3>2, <3>3, <3>4 DEF LoadEntry
    <3> HIDE DEF x
    <3>6. QuietMshr
      BY <1>0, <3>1, <3>5, OneQuiet
    <3> QED
      BY <1>2, <1>3, <3>1, <3>6
  <2> QED
    BY <1>1, <1>7, <2>1 DEF Memory, DramWrite, SwapOut
<1>8. CASE UNCHANGED vars
  BY <1>1, <1>8 DEF vars
<1> QED
  BY <1>5, <1>6, <1>7, <1>8 DEF Next

\* With no load outstanding in the L1D no store merges into one.
LEMMA QuietMerge == QuietL1d => \A a \in Line : ~MergedIntoLoad(a)
BY DEF QuietL1d, MergedIntoLoad, LoadEntry

\* The one way a store is lost: from the moment handle_writeback of an L1D is done
\* with it until its line is written to memory, a line that was stored to stays
\* dirty in some block, queued on its way down or owned by an RFO, in every step
\* but one that merges the store into the MSHR of a load of the line.
THEOREM StoresLostOnlyByMerge ==
  ASSUME StoreTree
  PROVE  Spec => [][\A a \in Line : Kept(a)]_vars
<1>1. TypeOK /\ TypeOK' /\ [Next]_vars => \A a \in Line : Kept(a)
  BY StoreStep
<1> QED
  BY <1>1, TypeCorrect, PTL DEF Spec

\* Where the core's loads do not reach the L1D, so that handle_writeback meets no
\* MSHR of a load, no store is ever lost.
THEOREM StoresStay ==
  ASSUME StoreTree, PrivateLines, NoLoads
  PROVE  Spec => StoreKept
<1>1. Init => QuietL1d
  <2>1. L1D \subseteq Cache
    BY TreeAssumption
  <2> QED
    BY <2>1 DEF Init, QuietL1d, LoadEntry, FreeEntry
<1>2. Init => Inv /\ StoreReach
  BY InvInit
<1>3. Inv /\ StoreReach /\ [Next]_vars => (Inv /\ StoreReach)'
  BY InvNext
<1>4. Inv /\ Inv' /\ QuietL1d /\ [Next]_vars => QuietL1d'
  BY QuietNext DEF Inv
<1>5. Inv /\ Inv' /\ QuietL1d /\ [Next]_vars =>
        \A a \in Line : KeepsStore(a) \/ Performed(a) => KeepsStore(a)' \/ a \in dramWQ \ dramWQ'
  <2>1. ASSUME Inv, Inv', QuietL1d, [Next]_vars, NEW a \in Line
        PROVE  KeepsStore(a) \/ Performed(a) => KeepsStore(a)' \/ a \in dramWQ \ dramWQ'
    <3>1. Kept(a)
      BY <2>1, StoreStep DEF Inv
    <3> QED
      BY <2>1, <3>1, QuietMerge DEF Kept
  <2> QED
    BY <2>1
<1> QED
  BY <1>1, <1>2, <1>3, <1>4, <1>5, PTL DEF Spec, StoreKept
=============================================================================
