---------------------------- MODULE PolicyProofs ----------------------------
(***************************************************************************)
(* The units of a core that keep tables of their own, for all their sizes. *)
(*                                                                         *)
(* Replacement: lru_update keeps the positions a permutation and           *)
(* lru_victim takes the way used longest ago; the policies of the LLC keep *)
(* what was used again, and the sampler of SHiP is the last lines.         *)
(* Virtual memory: the tables of va_to_pa stay inverse of each other, a    *)
(* page keeps its frame while it has one, and a swap takes one page.       *)
(* POWER7: it keeps the fastest configuration, and what its prefetchers    *)
(* fetch follows earlier accesses.                                         *)
(* SMS: what its tables record of a region, end for room and predict is    *)
(* what was accessed.                                                      *)
(***************************************************************************)
EXTENDS LruReplacement, VirtualMemory, Rrip, Power7, Sms,
        FiniteSetTheorems, WellFoundedInduction, TLAPS

-----------------------------------------------------------------------------
(***************************************************************************)
(* LRU replacement.                                                        *)
(***************************************************************************)

BehindPairs == {p \in Way \X Way : lru[p[1]] > lru[p[2]]}

LruInv == valid \in [Way -> BOOLEAN] /\ Permutation

\* Ways and positions are numbers below NUM_WAY.
LEMMA Numbers ==
  /\ \A p \in Way : p \in Nat /\ p <= NUM_WAY - 1 /\ p < NUM_WAY
  /\ Permutation => \A a \in Way : lru[a] \in Way
<1>1. \A p \in Way : p \in Nat /\ p <= NUM_WAY - 1 /\ p < NUM_WAY
  BY WayAssumption DEF Way
<1>2. Permutation => \A a \in Way : lru[a] \in Way
  BY DEF Permutation
<1> QED
  BY <1>1, <1>2

\* Where a position x goes when the way in position z is used.
MovedBy(x, z) == IF x < z THEN x + 1 ELSE x

\* Moving the positions in front of z by one keeps them distinct.
LEMMA MovedInjective ==
  \A x, y, z \in Nat : x # z /\ y # z /\ MovedBy(x, z) = MovedBy(y, z) => x = y
BY DEF MovedBy

\* What lru_update writes.
LEMMA Updated ==
  ASSUME Permutation, NEW w \in Way, lru_update(w)
  PROVE  /\ lru' \in [Way -> Way]
         /\ lru'[w] = 0
         /\ \A a \in Way \ {w} :
              lru'[a] = IF lru[a] < lru[w] THEN lru[a] + 1 ELSE lru[a]
<1>1. lru' = [a \in Way |-> IF a = w THEN 0
                            ELSE IF lru[a] < lru[w] THEN lru[a] + 1 ELSE lru[a]]
  BY DEF lru_update, LruAged
<1>2. \A a \in Way : lru[a] \in Way
  BY DEF Permutation
<1>3. \A a \in Way : lru[a] < lru[w] => lru[a] + 1 \in Way
  BY <1>2, WayAssumption DEF Way
<1>4. 0 \in Way
  BY WayAssumption DEF Way
<1> QED
  BY <1>1, <1>2, <1>3, <1>4

\* lru_update keeps the positions a permutation.
LEMMA UpdatePermutes ==
  ASSUME Permutation, NEW w \in Way, lru_update(w)
  PROVE  Permutation'
<1>1. /\ lru' \in [Way -> Way]
      /\ lru'[w] = 0
      /\ \A a \in Way \ {w} : lru'[a] = IF lru[a] < lru[w] THEN lru[a] + 1 ELSE lru[a]
  BY Updated
<1>2. /\ \A a \in Way : lru[a] \in Nat /\ lru[a] < NUM_WAY
      /\ \A a, b \in Way : lru[a] = lru[b] => a = b
      /\ \A p \in Way : \E a \in Way : lru[a] = p
  BY Numbers DEF Permutation
<1>3. ASSUME NEW a \in Way, NEW b \in Way, lru'[a] = lru'[b]
      PROVE  a = b
  <2>1. \A c \in Way \ {w} : lru[c] # lru[w]
    BY <1>2
  <2>2. \A c \in Way \ {w} : lru'[c] # 0
    BY <1>1, <1>2, <2>1
  <2>3. CASE a = w \/ b = w
    BY <1>1, <1>3, <2>2, <2>3
  <2>4. CASE a # w /\ b # w
    <3>1. /\ lru'[a] = IF lru[a] < lru[w] THEN lru[a] + 1 ELSE lru[a]
          /\ lru'[b] = IF lru[b] < lru[w] THEN lru[b] + 1 ELSE lru[b]
          /\ lru[a] \in Nat /\ lru[b] \in Nat /\ lru[w] \in Nat
          /\ lru[a] # lru[w] /\ lru[b] # lru[w]
      BY <1>1, <1>2, <2>1, <2>4
    <3>2. lru[a] = lru[b]
      BY <1>3, <3>1, MovedInjective DEF MovedBy
    <3> QED
      BY <1>2, <3>2
  <2> QED
    BY <2>3, <2>4
<1>4. ASSUME NEW p \in Way PROVE \E a \in Way : lru'[a] = p
  <2>1. CASE p = 0
    BY <1>1, <2>1
  <2>2. CASE p # 0 /\ p <= lru[w]
    <3>1. p - 1 \in Way /\ p \in Nat
      BY <2>2, WayAssumption DEF Way
    <3>2. PICK a \in Way : lru[a] = p - 1
      BY <1>2, <3>1
    <3>3. a # w /\ lru[a] < lru[w]
      BY <1>2, <2>2, <3>1, <3>2
    <3>4. lru'[a] = p
      BY <1>1, <3>1, <3>2, <3>3
    <3> QED
      BY <3>4
  <2>3. CASE p > lru[w]
    <3>1. PICK a \in Way : lru[a] = p
      BY <1>2
    <3>2. a # w /\ ~(lru[a] < lru[w])
      BY <1>2, <2>3, <3>1
    <3> QED
      BY <1>1, <3>1, <3>2
  <2>4. p \in Nat /\ lru[w] \in Nat
    BY <1>2, WayAssumption DEF Way
  <2> QED
    BY <2>1, <2>2, <2>3, <2>4
<1> QED
  BY <1>1, <1>3, <1>4 DEF Permutation, Way

\* The order of use after lru_update: w is the way used last, and the order of
\* the others is what it was.
LEMMA UpdateOrders ==
  ASSUME Permutation, NEW w \in Way, lru_update(w)
  PROVE  BehindPairs' = {p \in BehindPairs : p[1] # w /\ p[2] # w} \cup ((Way \ {w}) \X {w})
<1>1. /\ lru' \in [Way -> Way]
      /\ lru'[w] = 0
      /\ \A a \in Way \ {w} : lru'[a] = IF lru[a] < lru[w] THEN lru[a] + 1 ELSE lru[a]
  BY Updated
<1>2. /\ \A a \in Way : lru[a] \in Nat /\ lru'[a] \in Nat
      /\ \A a, b \in Way : lru[a] = lru[b] => a = b
  BY <1>1, Numbers DEF Permutation
<1>3. \A a \in Way \ {w} : lru[a] # lru[w]
  BY <1>2
<1>4. \A a \in Way \ {w} : lru'[a] > 0
  BY <1>1, <1>2, <1>3
<1>5. \A a, b \in Way \ {w} : lru'[a] > lru'[b] <=> lru[a] > lru[b]
  <2>1. SUFFICES ASSUME NEW a \in Way \ {w}, NEW b \in Way \ {w}
                 PROVE  lru'[a] > lru'[b] <=> lru[a] > lru[b]
    OBVIOUS
  <2>2. /\ lru'[a] = IF lru[a] < lru[w] THEN lru[a] + 1 ELSE lru[a]
        /\ lru'[b] = IF lru[b] < lru[w] THEN lru[b] + 1 ELSE lru[b]
        /\ lru[a] # lru[w] /\ lru[b] # lru[w]
        /\ lru[a] \in Nat /\ lru[b] \in Nat /\ lru[w] \in Nat
    BY <1>1, <1>2, <1>3
  <2> QED
    BY <2>2
<1>6. \A a, b \in Way : lru'[a] > lru'[b] <=> \/ a # w /\ b # w /\ lru[a] > lru[b]
                                              \/ a # w /\ b = w
  BY <1>1, <1>2, <1>4, <1>5
<1>7. BehindPairs' = {p \in Way \X Way : lru'[p[1]] > lru'[p[2]]}
  BY DEF BehindPairs, Way
<1> QED
  BY <1>6, <1>7 DEF BehindPairs

\* The way in the last position is older than every other.
LEMMA LastIsOldest ==
  ASSUME Permutation, NEW w \in Way, lru[w] = NUM_WAY - 1
  PROVE  \A a \in Way \ {w} : <<w, a>> \in BehindPairs
<1>1. /\ \A a \in Way : lru[a] \in Nat /\ lru[a] <= NUM_WAY - 1
      /\ \A a \in Way \ {w} : lru[a] # lru[w]
  BY Numbers DEF Permutation
<1>2. \A a \in Way \ {w} : lru[w] > lru[a]
  BY <1>1, WayAssumption
<1> QED
  BY <1>2 DEF BehindPairs

\* The constructor of CACHE gives every way its own position.
LEMMA InitInv ==
  ASSUME LruInit
  PROVE  LruInv
BY WayAssumption DEF LruInit, LruInv, Permutation, Way

\* Every step keeps the permutation.
LEMMA NextInv ==
  ASSUME LruInv, [LruNext]_lruVars
  PROVE  LruInv'
<1>1. CASE UNCHANGED lruVars
  BY <1>1 DEF LruInv, Permutation, lruVars, Way
<1>2. ASSUME NEW w \in Way, LruFill(w) \/ LruHit(w) \/ WritebackHit(w) \/ Invalidate(w)
      PROVE  LruInv'
  <2>1. Way' = Way
    BY DEF Way
  <2>2. valid' \in [Way -> BOOLEAN]
    BY <1>2 DEF LruInv, LruFill, LruHit, WritebackHit, Invalidate, lruVars
  <2>3. Permutation'
    <3>1. CASE lru_update(w)
      BY <3>1, UpdatePermutes DEF LruInv
    <3>2. CASE lru' = lru
      BY <3>2, <2>1 DEF LruInv, Permutation
    <3> QED
      BY <1>2, <3>1, <3>2 DEF LruFill, LruHit, WritebackHit, Invalidate, lruVars
  <2> QED
    BY <2>1, <2>2, <2>3 DEF LruInv
<1> QED
  BY <1>1, <1>2 DEF LruNext

\* The positions of a set stay a permutation of its ways whatever hits, fills
\* and invalidations come, for any number of ways (lru_update), so lru_victim
\* always finds a victim.
THEOREM LruPermutes == LruSpec => []Permutation
<1>1. LruInv => Permutation
  BY DEF LruInv
<1> QED
  BY <1>1, InitInv, NextInv, PTL DEF LruSpec

\* lru_update and lru_victim implement replacement by order of use: an empty
\* way first, else the way used longest ago.
THEOREM LruImplements == LruSpec => RecencySpec
<1>1. LruInit => Recency!Init
  <2>1. SUFFICES ASSUME LruInit PROVE Recency!Init
    OBVIOUS
  <2>2. BehindPairs = {p \in Way \X Way : p[1] > p[2]}
    BY <2>1 DEF BehindPairs, LruInit
  <2>3. \A a \in Way : a \in Nat
    BY WayAssumption DEF Way
  <2> QED
    BY <2>1, <2>2, <2>3 DEF Recency!Init, LruInit, BehindPairs
<1>2. LruInv /\ [LruNext]_lruVars => [Recency!Next]_(Recency!vars)
  <2>1. SUFFICES ASSUME LruInv, LruNext PROVE Recency!Next \/ UNCHANGED <<valid, BehindPairs>>
    BY DEF lruVars, Recency!vars, BehindPairs, Way
  <2>2. PICK w \in Way : LruFill(w) \/ LruHit(w) \/ WritebackHit(w) \/ Invalidate(w)
    BY <2>1 DEF LruNext
  <2>3. lru_update(w) => Recency!Used(w)
    BY <2>1, UpdateOrders DEF Recency!Used, BehindPairs, LruInv
  <2>4. lru' = lru => BehindPairs' = BehindPairs
    BY DEF BehindPairs, Way
  <2>5. CASE LruFill(w)
    <3>1. IF \E a \in Way : ~valid[a] THEN ~valid[w] ELSE Recency!Oldest(w)
      BY <2>1, <2>5, LastIsOldest DEF LruFill, LruVictim, Recency!Oldest, BehindPairs, LruInv
    <3>2. Recency!Fill(w)
      BY <2>3, <2>5, <3>1 DEF LruFill, Recency!Fill
    <3> QED
      BY <3>2 DEF Recency!Next
  <2>6. CASE LruHit(w)
    BY <2>3, <2>6 DEF LruHit, Recency!Hit, Recency!Next
  <2>7. CASE WritebackHit(w)
    BY <2>4, <2>7 DEF WritebackHit, lruVars
  <2>8. CASE Invalidate(w)
    BY <2>4, <2>8 DEF Invalidate, Recency!Invalidate, Recency!Next, BehindPairs
  <2> QED
    BY <2>2, <2>5, <2>6, <2>7, <2>8
<1> QED
  BY <1>1, <1>2, InitInv, NextInv, PTL DEF LruSpec, RecencySpec, Recency!Spec

-----------------------------------------------------------------------------
(***************************************************************************)
(* Virtual memory.                                                         *)
(***************************************************************************)

\* A page table that is not empty has a lowest vpage, so the swap finds one.
LEMMA LowestPage ==
  ASSUME DOMAIN page_table \subseteq VPage, DOMAIN page_table # {}
  PROVE  NRU_vpage \in DOMAIN page_table
<1> DEFINE D == DOMAIN page_table
           L == OpToRel(<, Nat)
           R == LexPairOrdering(L, L, Nat, Nat)
<1>1. D \subseteq Nat \X Nat /\ D # {}
  BY VmAssumption DEF VPage
<1>2. IsWellFoundedOn(L, Nat)
  BY NatLessThanWellFounded
<1>3. \A x, y \in Nat : x < y => <<x, y>> \in L
  BY DEF OpToRel
<1> HIDE DEF L
<1>4. IsWellFoundedOn(R, Nat \X Nat)
  BY <1>2, WFLexPairOrdering
<1>5. ASSUME NEW v \in Nat \X Nat, NEW w \in Nat \X Nat, Before(v, w)
      PROVE  <<v, w>> \in R
  BY <1>3, <1>5 DEF LexPairOrdering, Before
<1> HIDE DEF R, D
<1>6. PICK v \in D : \A w \in D : ~ (<<w, v>> \in R)
  BY <1>1, <1>4, WFMin
<1>7. ASSUME NEW w \in D \ {v} PROVE Before(v, w)
  <2>1. v \in Nat \X Nat /\ w \in Nat \X Nat /\ ~Before(w, v) /\ v # w
    BY <1>1, <1>5, <1>6
  <2> QED
    BY <2>1 DEF Before
<1>8. v \in DOMAIN page_table /\ \A w \in DOMAIN page_table \ {v} : Before(v, w)
  BY <1>6, <1>7 DEF D
<1> QED
  BY <1>8 DEF NRU_vpage

VmInv == TablesInverse /\ FramesCounted

\* Only a finite set of pages exists, so the page table is finite.
LEMMA FiniteTable ==
  ASSUME TablesInverse
  PROVE  IsFiniteSet(DOMAIN page_table) /\ Cardinality(DOMAIN page_table) \in Nat
<1>1. IsFiniteSet(VPage)
  BY VmAssumption, FS_Product DEF VPage
<1>2. DOMAIN page_table \in SUBSET VPage
  BY DEF TablesInverse
<1>3. IsFiniteSet(DOMAIN page_table)
  BY <1>1, <1>2, FS_Subset
<1> QED
  BY <1>3, FS_CardinalityType

\* A first touch takes a page nobody owns.
LEMMA AllocateInv ==
  ASSUME VmInv, NEW v \in VPage, v \notin DOMAIN page_table, NEW f, Allocate(v, f)
  PROVE  VmInv'
<1> USE DEF VmInv
<1> DEFINE D == DOMAIN page_table
           E == DOMAIN inverse_table
<1>1. f \notin E
  BY DEF Allocate, Chosen, Adjacent, Free
<1>2. /\ page_table' = [w \in D \cup {v} |-> IF w = v THEN f ELSE page_table[w]]
      /\ inverse_table' = [g \in E \cup {f} |-> IF g = f THEN v ELSE inverse_table[g]]
      /\ allocated_pages < DRAM_PAGES /\ allocated_pages' = allocated_pages + 1
  <2>1. allocated_pages \in Nat
    BY FiniteTable DEF FramesCounted
  <2> QED
    BY <2>1, VmAssumption DEF Allocate, DramFull
<1>3. DOMAIN page_table' = D \cup {v} /\ DOMAIN inverse_table' = E \cup {f}
  BY <1>2
<1>4. TablesInverse'
  <2>1. DOMAIN page_table' \subseteq VPage
    BY <1>3 DEF TablesInverse
  <2>2. ASSUME NEW w \in DOMAIN page_table'
        PROVE  page_table'[w] \in DOMAIN inverse_table' /\ inverse_table'[page_table'[w]] = w
    <3>1. CASE w = v
      BY <1>2, <1>3, <3>1
    <3>2. CASE w # v
      <4>1. w \in D /\ page_table'[w] = page_table[w]
        BY <1>2, <1>3, <3>2
      <4>2. page_table[w] \in E /\ inverse_table[page_table[w]] = w /\ page_table[w] # f
        BY <1>1, <4>1 DEF TablesInverse
      <4> QED
        BY <1>2, <1>3, <4>1, <4>2
    <3> QED
      BY <3>1, <3>2
  <2>3. ASSUME NEW g \in DOMAIN inverse_table'
        PROVE  inverse_table'[g] \in DOMAIN page_table' /\ page_table'[inverse_table'[g]] = g
    <3>1. CASE g = f
      BY <1>2, <1>3, <3>1
    <3>2. CASE g # f
      <4>1. g \in E /\ inverse_table'[g] = inverse_table[g]
        BY <1>2, <1>3, <3>2
      <4>2. inverse_table[g] \in D /\ page_table[inverse_table[g]] = g /\ inverse_table[g] # v
        BY <4>1 DEF TablesInverse
      <4> QED
        BY <1>2, <1>3, <4>1, <4>2
    <3> QED
      BY <3>1, <3>2
  <2> QED
    BY <2>1, <2>2, <2>3 DEF TablesInverse
<1>5. FramesCounted'
  <2>1. IsFiniteSet(D) /\ Cardinality(D) \in Nat
    BY FiniteTable
  <2>2. Cardinality(D \cup {v}) = Cardinality(D) + 1
    BY <2>1, FS_AddElement
  <2> QED
    BY <1>2, <1>3, <2>1, <2>2, VmAssumption DEF FramesCounted
<1> QED
  BY <1>4, <1>5

\* A swap hands the page of the evicted vpage to the new one.
LEMMA SwapInv ==
  ASSUME VmInv, NEW c, NEW v \in VPage, v \notin DOMAIN page_table, Swap(c, v)
  PROVE  VmInv'
<1> USE DEF VmInv
<1> DEFINE D == DOMAIN page_table
           E == DOMAIN inverse_table
           old == NRU_vpage
           f == page_table[old]
<1>0. IsFiniteSet(D) /\ Cardinality(D) \in Nat
  BY FiniteTable
<1>1. old \in D
  <2>1. D # {}
    BY <1>0, FS_EmptySet, VmAssumption DEF Swap, DramFull, FramesCounted
  <2> QED
    BY <2>1, LowestPage DEF TablesInverse
<1>2. /\ page_table' = [w \in (D \ {old}) \cup {v} |-> IF w = v THEN f ELSE page_table[w]]
      /\ inverse_table' = [inverse_table EXCEPT ![f] = v]
      /\ allocated_pages' = allocated_pages
  BY DEF Swap, InverseMoved
<1> HIDE DEF old
<1>3. f \in E /\ inverse_table[f] = old
  BY <1>1 DEF TablesInverse
<1>4. DOMAIN page_table' = (D \ {old}) \cup {v} /\ DOMAIN inverse_table' = E
  BY <1>2
<1>5. TablesInverse'
  <2>1. DOMAIN page_table' \subseteq VPage
    BY <1>4 DEF TablesInverse
  <2>2. ASSUME NEW w \in DOMAIN page_table'
        PROVE  page_table'[w] \in DOMAIN inverse_table' /\ inverse_table'[page_table'[w]] = w
    <3>1. CASE w = v
      <4>1. page_table'[w] = f
        BY <1>2, <1>4, <3>1
      <4>2. inverse_table'[f] = v
        BY <1>2, <1>3
      <4> QED
        BY <1>3, <1>4, <3>1, <4>1, <4>2
    <3>2. CASE w # v
      <4>1. w \in D /\ w # old /\ page_table'[w] = page_table[w]
        BY <1>2, <1>4, <3>2
      <4>2. page_table[w] \in E /\ inverse_table[page_table[w]] = w /\ page_table[w] # f
        BY <1>3, <4>1 DEF TablesInverse
      <4> QED
        BY <1>2, <1>4, <4>1, <4>2
    <3> QED
      BY <3>1, <3>2
  <2>3. ASSUME NEW g \in DOMAIN inverse_table'
        PROVE  inverse_table'[g] \in DOMAIN page_table' /\ page_table'[inverse_table'[g]] = g
    <3>1. CASE g = f
      BY <1>2, <1>3, <1>4, <3>1
    <3>2. CASE g # f
      <4>1. g \in E /\ inverse_table'[g] = inverse_table[g]
        BY <1>2, <1>4, <3>2
      <4>2. /\ inverse_table[g] \in D /\ page_table[inverse_table[g]] = g
            /\ inverse_table[g] # v /\ inverse_table[g] # old
        BY <3>2, <4>1 DEF TablesInverse
      <4> QED
        BY <1>2, <1>4, <4>1, <4>2
    <3> QED
      BY <3>1, <3>2
  <2> QED
    BY <2>1, <2>2, <2>3 DEF TablesInverse
<1>6. FramesCounted'
  <2>1. IsFiniteSet(D \ {old}) /\ Cardinality(D \ {old}) = Cardinality(D) - 1
    BY <1>0, <1>1, FS_RemoveElement
  <2>2. Cardinality((D \ {old}) \cup {v}) = Cardinality(D)
    <3>1. v \notin D \ {old}
      OBVIOUS
    <3> HIDE DEF D
    <3>2. Cardinality((D \ {old}) \cup {v}) = Cardinality(D \ {old}) + 1
      BY <2>1, <3>1, FS_AddElement
    <3> QED
      BY <1>0, <2>1, <3>2
  <2> QED
    BY <1>2, <1>4, <2>2 DEF FramesCounted
<1> QED
  BY <1>5, <1>6

\* For any number of cores and pages: the two tables are inverse of each other
\* and the allocator never exceeds DRAM_PAGES, through every allocation and
\* every swap of va_to_pa.
THEOREM TranslationSound == VmSpec => []TablesSound
<1>1. VmInit => VmInv
  <2> SUFFICES ASSUME VmInit PROVE VmInv
    OBVIOUS
  <2>1. DOMAIN page_table = {} /\ DOMAIN inverse_table = {}
    BY DEF VmInit
  <2> QED
    BY <2>1, FS_EmptySet, VmAssumption DEF VmInit, VmInv, TablesInverse, FramesCounted
<1>2. VmInv /\ [VmNext]_vmVars => VmInv'
  <2> SUFFICES ASSUME VmInv, [VmNext]_vmVars PROVE VmInv'
    OBVIOUS
  <2>1. ASSUME UNCHANGED <<tables, allocated_pages>> PROVE VmInv'
    BY <2>1 DEF VmInv, TablesInverse, FramesCounted, tables
  <2>2. ASSUME NEW c \in CPU, NEW p \in VmPage, va_to_pa(c, p) PROVE VmInv'
    <3> DEFINE v == <<c, p>>
    <3>1. v \in VPage
      BY DEF VPage
    <3>2. CASE UNCHANGED <<tables, allocated_pages>>
      BY <2>1, <3>2
    <3>3. ASSUME v \notin DOMAIN page_table, NEW f, Allocate(v, f) PROVE VmInv'
      BY <3>1, <3>3, AllocateInv
    <3>4. CASE v \notin DOMAIN page_table /\ Swap(c, v)
      BY <3>1, <3>4, SwapInv
    <3> QED
      BY <2>2, <3>2, <3>3, <3>4 DEF va_to_pa
  <2>3. ASSUME NEW c \in CPU, NEW t, TlbFill(c, t) \/ TlbHit(c, t) \/ TlbEvict(c, t) PROVE VmInv'
    BY <2>1, <2>3 DEF TlbFill, TlbHit, TlbEvict
  <2>4. CASE UNCHANGED vmVars
    BY <2>1, <2>4 DEF vmVars
  <2> QED
    BY <2>2, <2>3, <2>4 DEF VmNext
<1> QED
  BY <1>1, <1>2, PTL DEF VmSpec, VmInv, TablesSound

\* What a step does to the mapped pages, and to those of core 0 in its TLBs.
StepStable ==
  /\ \A v \in DOMAIN page_table \cap DOMAIN page_table' : page_table'[v] = page_table[v]
  /\ allocated_pages < DRAM_PAGES => DOMAIN page_table \subseteq DOMAIN page_table'

StepShootdown ==
  \A v \in DOMAIN page_table \ DOMAIN page_table' : \A t \in held'[v[1]] : t[1] # v[2]

\* held is a set of translations for each core.
HeldShape == DOMAIN held = CPU

\* The tables of va_to_pa have their shape in every state.
LEMMA HeldShaped == VmSpec => []HeldShape
<1>1. VmInit => HeldShape
  BY DEF VmInit, HeldShape
<1>2. HeldShape /\ [VmNext]_vmVars => HeldShape'
  BY DEF HeldShape, VmNext, vmVars, va_to_pa, Swap, TlbFill, TlbHit, TlbEvict
<1> QED
  BY <1>1, <1>2, PTL DEF VmSpec

\* Only a swap takes a page away, and it takes the lowest.
LEMMA StepKeeps ==
  ASSUME VmInv, [VmNext]_vmVars
  PROVE  \/ DOMAIN page_table \subseteq DOMAIN page_table' /\ StepStable
         \/ \E c \in CPU, p \in VmPage :
              Swap(c, <<c, p>>) /\ <<c, p>> \notin DOMAIN page_table /\ StepStable
<1> DEFINE Goal == \/ DOMAIN page_table \subseteq DOMAIN page_table' /\ StepStable
                   \/ \E c \in CPU, p \in VmPage :
                        Swap(c, <<c, p>>) /\ <<c, p>> \notin DOMAIN page_table /\ StepStable
<1>1. ASSUME UNCHANGED tables PROVE Goal
  BY <1>1 DEF tables, StepStable
<1>2. ASSUME NEW c \in CPU, NEW p \in VmPage, va_to_pa(c, p) PROVE Goal
  <2>1. CASE UNCHANGED <<tables, allocated_pages>>
    BY <1>1, <2>1
  <2>2. ASSUME <<c, p>> \notin DOMAIN page_table, NEW f, Allocate(<<c, p>>, f) PROVE Goal
    <3>1. page_table' = [w \in DOMAIN page_table \cup {<<c, p>>} |->
                           IF w = <<c, p>> THEN f ELSE page_table[w]]
      BY <2>2 DEF Allocate
    <3> QED
      BY <2>2, <3>1 DEF StepStable
  <2>3. ASSUME <<c, p>> \notin DOMAIN page_table, Swap(c, <<c, p>>) PROVE Goal
    <3>1. page_table' = [w \in (DOMAIN page_table \ {NRU_vpage}) \cup {<<c, p>>} |->
                           IF w = <<c, p>> THEN page_table[NRU_vpage] ELSE page_table[w]]
      BY <2>3 DEF Swap
    <3>2. \A v \in DOMAIN page_table \cap DOMAIN page_table' : page_table'[v] = page_table[v]
      BY <2>3, <3>1
    <3>3. ~(allocated_pages < DRAM_PAGES)
      <4>1. IsFiniteSet(DOMAIN page_table) /\ Cardinality(DOMAIN page_table) \in Nat
        BY FiniteTable DEF VmInv
      <4> QED
        BY <2>3, <4>1, VmAssumption DEF Swap, DramFull, VmInv, FramesCounted
    <3> QED
      BY <2>3, <3>2, <3>3 DEF StepStable
  <2> QED
    BY <1>2, <2>1, <2>2, <2>3 DEF va_to_pa
<1>3. ASSUME NEW c \in CPU, NEW t, TlbFill(c, t) \/ TlbHit(c, t) \/ TlbEvict(c, t) PROVE Goal
  BY <1>1, <1>3 DEF TlbFill, TlbHit, TlbEvict
<1>4. CASE UNCHANGED vmVars
  BY <1>1, <1>4 DEF vmVars
<1> QED
  BY <1>2, <1>3, <1>4 DEF VmNext

\* For any number of cores and pages: a page keeps its frame while it is mapped,
\* and no page is swapped out before DRAM is full (va_to_pa).
THEOREM FramesNeverMove == VmSpec => FramesStable
<1>1. VmInv /\ [VmNext]_vmVars => [StepStable]_vmVars
  BY StepKeeps
<1>2. TablesSound => VmInv
  BY DEF TablesSound, VmInv
<1> QED
  BY <1>1, <1>2, TranslationSound, PTL DEF VmSpec, FramesStable, StepStable

\* In a simulation of one core a swap also leaves no TLB with a translation of the
\* page that it takes (main.cc:547).  With a second core it does.
THEOREM SwapsSafe == ASSUME CPU = {0} PROVE VmSpec => SwapSafe
<1>1. VmInv /\ HeldShape /\ [VmNext]_vmVars => [StepShootdown]_vmVars
  <2> SUFFICES ASSUME VmInv, HeldShape, [VmNext]_vmVars PROVE StepShootdown
    OBVIOUS
  <2>1. CASE DOMAIN page_table \subseteq DOMAIN page_table'
    BY <2>1 DEF StepShootdown
  <2>2. ASSUME NEW c \in CPU, NEW p \in VmPage, Swap(c, <<c, p>>),
               <<c, p>> \notin DOMAIN page_table
        PROVE  StepShootdown
    <3>1. page_table' = [w \in (DOMAIN page_table \ {NRU_vpage}) \cup {<<c, p>>} |->
                           IF w = <<c, p>> THEN page_table[NRU_vpage] ELSE page_table[w]]
      BY <2>2 DEF Swap
    <3>2. DOMAIN page_table \ DOMAIN page_table' \subseteq {NRU_vpage}
      BY <3>1
    <3>3. held'[0] = {t \in held[0] : ~SamePage(NRU_vpage, t)}
      BY <2>2 DEF Swap, HeldAfterSwap, HeldShape
    <3>4. ASSUME NEW v \in DOMAIN page_table \ DOMAIN page_table', NEW t \in held'[v[1]]
          PROVE  t[1] # v[2]
      <4>1. v = NRU_vpage /\ v[1] = 0
        BY <3>2 DEF VmInv, TablesInverse, VPage
      <4> QED
        BY <3>3, <3>4, <4>1 DEF SamePage
    <3> QED
      BY <3>4 DEF StepShootdown
  <2> QED
    BY <2>1, <2>2, StepKeeps
<1>2. TablesSound => VmInv
  BY DEF TablesSound, VmInv
<1>3. VmSpec => Shootdown
  BY <1>1, <1>2, TranslationSound, HeldShaped, PTL DEF VmSpec, Shootdown, StepShootdown
<1> QED
  BY <1>3, FramesNeverMove DEF SwapSafe

-----------------------------------------------------------------------------
(***************************************************************************)
(* Sequences and least elements.                                           *)
(***************************************************************************)

\* The least element of a set of natural numbers that is not empty.
LEMMA LeastNatural ==
  ASSUME NEW S \in SUBSET Nat, S # {}
  PROVE  Min(S) \in S /\ \A y \in S : Min(S) <= y
<1> DEFINE L == OpToRel(<, Nat)
<1>1. \A x, y \in Nat : x < y => <<x, y>> \in L
  BY DEF OpToRel
<1>2. IsWellFoundedOn(L, Nat)
  BY NatLessThanWellFounded
<1> HIDE DEF L
<1>3. PICK x \in S : \A y \in S : ~(<<y, x>> \in L)
  BY <1>2, WFMin
<1>4. ASSUME NEW y \in S PROVE x <= y
  <2>1. x \in Nat /\ y \in Nat
    OBVIOUS
  <2>2. ~(y < x)
    BY <1>1, <1>3, <2>1
  <2> QED
    BY <2>1, <2>2
<1>5. \E z \in S : \A y \in S : z <= y
  BY <1>4
<1> QED
  BY <1>5, Zenon DEF Min

\* A sequence with e in front of s.
LEMMA InFront ==
  ASSUME NEW S, NEW e \in S, NEW s \in Seq(S)
  PROVE  /\ <<e>> \o s \in Seq(S) /\ Len(<<e>> \o s) = Len(s) + 1
         /\ (<<e>> \o s)[1] = e
         /\ \A k \in 2..(Len(s) + 1) : (<<e>> \o s)[k] = s[k - 1]
OBVIOUS

\* What is left of s without its element k.
LEMMA TakenOut ==
  ASSUME NEW S, NEW s \in Seq(S), NEW k \in 1..Len(s)
  PROVE  /\ RemoveAt(s, k) \in Seq(S) /\ Len(RemoveAt(s, k)) = Len(s) - 1
         /\ \A i \in 1..(k - 1) : RemoveAt(s, k)[i] = s[i]
         /\ \A i \in k..(Len(s) - 1) : RemoveAt(s, k)[i] = s[i + 1]
<1>1. /\ SubSeq(s, 1, k - 1) \in Seq(S) /\ Len(SubSeq(s, 1, k - 1)) = k - 1
      /\ \A i \in 1..(k - 1) : SubSeq(s, 1, k - 1)[i] = s[i]
  OBVIOUS
<1>2. /\ SubSeq(s, k + 1, Len(s)) \in Seq(S) /\ Len(SubSeq(s, k + 1, Len(s))) = Len(s) - k
      /\ \A i \in 1..(Len(s) - k) : SubSeq(s, k + 1, Len(s))[i] = s[k + i]
  OBVIOUS
<1> DEFINE a == SubSeq(s, 1, k - 1)
           b == SubSeq(s, k + 1, Len(s))
<1>3. RemoveAt(s, k) = a \o b
  BY DEF RemoveAt
<1>4. a \in Seq(S) /\ b \in Seq(S) /\ Len(a) = k - 1 /\ Len(b) = Len(s) - k /\ k \in Nat /\ Len(s) \in Nat /\ k >= 1 /\ k <= Len(s)
  BY <1>1, <1>2
<1> HIDE DEF a, b
<1>5. /\ a \o b \in Seq(S) /\ Len(a \o b) = Len(s) - 1
      /\ \A i \in 1..(k - 1) : (a \o b)[i] = a[i]
      /\ \A i \in k..(Len(s) - 1) : (a \o b)[i] = b[i - k + 1]
  BY <1>4, SMTT(30)
<1>6. \A i \in k..(Len(s) - 1) : i - k + 1 \in 1..(Len(s) - k) /\ k + (i - k + 1) = i + 1
  BY <1>4
<1>7. \A i \in k..(Len(s) - 1) : b[i - k + 1] = s[i + 1]
  BY <1>2, <1>6 DEF b
<1>8. \A i \in 1..(k - 1) : a[i] = s[i]
  BY <1>1 DEF a
<1> QED
  BY <1>3, <1>5, <1>7, <1>8

-----------------------------------------------------------------------------
(***************************************************************************)
(* The policies that predict when a line is used again.                    *)
(***************************************************************************)

\* What the sampler keeps of a line, and its entries.
Sample == [tag : LlcTag, ip : Ip, used : BOOLEAN]
SamplerEntry == [valid : BOOLEAN, tag : LlcTag \cup {0}, ip : Ip \cup {NoIp}, used : BOOLEAN, lru : Nat]

\* The first Len(rec) ways of the sampler smp are valid, and the way in position k
\* of its order holds the line rec has in position k.
Mirrors(smp, rec) ==
  /\ rec \in Seq(Sample) /\ Len(rec) <= LLC_WAY
  /\ smp \in [LlcWay -> SamplerEntry]
  /\ \A w \in LlcWay : w < Len(rec) =>
       /\ smp[w].valid /\ smp[w].lru < Len(rec)
       /\ rec[smp[w].lru + 1] = [tag |-> smp[w].tag, ip |-> smp[w].ip, used |-> smp[w].used]
  /\ \A w \in LlcWay : w >= Len(rec) => ~smp[w].valid /\ smp[w].lru = w
  /\ \A w, x \in LlcWay : smp[w].lru = smp[x].lru => w = x
  /\ \A k \in 1..Len(rec) : \E w \in LlcWay : w < Len(rec) /\ smp[w].lru = k - 1
  /\ \A k, l \in 1..Len(rec) : rec[k].tag = rec[l].tag => k = l

\* Ways are numbers below LLC_WAY.
LEMMA Ways ==
  LLC_WAY \in Nat /\ LLC_WAY >= 1 /\ 0 \in LlcWay
  /\ \A w \in LlcWay : w \in Nat /\ w < LLC_WAY
BY RripAssumption DEF LlcWay

\* The line of entry e comes to the front of rec; what came before way w, which
\* takes it, moves back by one, and the rest stays where it is.
ToFront(w, e, rec) ==
  /\ e \in SamplerEntry /\ e.valid /\ e.lru = 0
  /\ rec \in Seq(Sample) /\ Len(recent) <= Len(rec) /\ Len(rec) <= LLC_WAY
  /\ w < Len(rec) /\ sampler[w].lru < Len(rec)
  /\ \A x \in LlcWay \ {w} : x < Len(rec) => x < Len(recent)
  /\ rec[1] = [tag |-> e.tag, ip |-> e.ip, used |-> e.used]
  /\ \A j \in 2..(sampler[w].lru + 1) : j - 1 <= Len(recent) /\ rec[j] = recent[j - 1]
  /\ \A j \in (sampler[w].lru + 2)..Len(rec) : j <= Len(recent) /\ rec[j] = recent[j]
  /\ \A j \in 1..Len(recent) : recent[j].tag = e.tag => j = sampler[w].lru + 1

\* Then the sampler goes on to mirror the lines.
LEMMA FrontMirrors ==
  ASSUME Mirrors(sampler, recent), NEW w \in LlcWay, NEW e, NEW rec, ToFront(w, e, rec)
  PROVE  Mirrors([Moved(w) EXCEPT ![w] = e], rec)
<1> DEFINE n == Len(recent)
           m == Len(rec)
           L == sampler[w].lru
           smp == [Moved(w) EXCEPT ![w] = e]
           Lru(x) == IF x = w THEN 0 ELSE IF sampler[x].lru < L THEN sampler[x].lru + 1 ELSE sampler[x].lru
<1>1. /\ n \in Nat /\ m \in Nat /\ n <= m /\ m <= LLC_WAY /\ m >= 1
      /\ L \in Nat /\ L < m /\ LLC_WAY \in Nat
      /\ \A x \in LlcWay : x \in Nat /\ sampler[x] \in SamplerEntry /\ sampler[x].lru \in Nat
  BY Ways DEF Mirrors, ToFront, SamplerEntry
<1>2. /\ smp \in [LlcWay -> SamplerEntry]
      /\ smp[w] = e
      /\ \A x \in LlcWay \ {w} :
           /\ smp[x].valid = sampler[x].valid /\ smp[x].tag = sampler[x].tag
           /\ smp[x].ip = sampler[x].ip /\ smp[x].used = sampler[x].used
           /\ sampler[x].lru < L => smp[x].lru = sampler[x].lru + 1
           /\ ~(sampler[x].lru < L) => smp[x].lru = sampler[x].lru
  <2>1. Moved(w) = [x \in LlcWay |-> IF sampler[x].lru < L THEN [sampler[x] EXCEPT !.lru = @ + 1] ELSE sampler[x]]
    BY DEF Moved
  <2>2. smp = [x \in LlcWay |-> IF x = w THEN e ELSE Moved(w)[x]]
    BY <2>1
  <2> DEFINE r(x) == [valid |-> sampler[x].valid, tag |-> sampler[x].tag, ip |-> sampler[x].ip,
                      used |-> sampler[x].used, lru |-> sampler[x].lru + 1]
  <2>3. ASSUME NEW x \in LlcWay
        PROVE  [sampler[x] EXCEPT !.lru = @ + 1] = r(x) /\ r(x) \in SamplerEntry
    <3>1. sampler[x] \in SamplerEntry
      BY <1>1
    <3> QED
      BY <3>1 DEF SamplerEntry
  <2>4. \A x \in LlcWay \ {w} : /\ sampler[x].lru < L => smp[x] = r(x)
                                /\ ~(sampler[x].lru < L) => smp[x] = sampler[x]
    BY <2>1, <2>2, <2>3
  <2>5. smp \in [LlcWay -> SamplerEntry]
    <3>1. e \in SamplerEntry
      BY DEF ToFront
    <3>2. ASSUME NEW x \in LlcWay PROVE smp[x] \in SamplerEntry
      <4>1. CASE x = w
        BY <2>2, <3>1, <4>1
      <4>2. CASE x # w /\ sampler[x].lru < L
        <5>1. smp[x] = r(x) /\ r(x) \in SamplerEntry
          BY <2>3, <2>4, <4>2
        <5> HIDE DEF smp, r
        <5> QED
          BY <5>1
      <4>3. CASE x # w /\ ~(sampler[x].lru < L)
        <5>1. smp[x] = sampler[x] /\ sampler[x] \in SamplerEntry
          BY <1>1, <2>4, <4>3
        <5> HIDE DEF smp
        <5> QED
          BY <5>1
      <4> QED
        BY <4>1, <4>2, <4>3
    <3>3. smp = [x \in LlcWay |-> smp[x]]
      BY <2>2
    <3> HIDE DEF smp
    <3> QED
      BY <3>2, <3>3
  <2> HIDE DEF smp
  <2>6. ASSUME NEW x \in LlcWay \ {w}
        PROVE  /\ smp[x].valid = sampler[x].valid /\ smp[x].tag = sampler[x].tag
               /\ smp[x].ip = sampler[x].ip /\ smp[x].used = sampler[x].used
               /\ sampler[x].lru < L => smp[x].lru = sampler[x].lru + 1
               /\ ~(sampler[x].lru < L) => smp[x].lru = sampler[x].lru
    <3>1. CASE sampler[x].lru < L
      <4>1. smp[x] = r(x)
        BY <2>4, <3>1
      <4> QED
        BY <3>1, <4>1
    <3>2. CASE ~(sampler[x].lru < L)
      <4>1. smp[x] = sampler[x]
        BY <2>4, <3>2
      <4> QED
        BY <3>2, <4>1
    <3> QED
      BY <3>1, <3>2
  <2> QED
    BY <2>2, <2>5, <2>6 DEF smp
<1>2a. \A x \in LlcWay : smp[x].lru \in Nat
  BY <1>2 DEF SamplerEntry
<1>3. \A x \in LlcWay \ {w} : sampler[x].lru # L
  BY DEF Mirrors
<1> HIDE DEF n, m, L, smp
<1>4. ASSUME NEW x \in LlcWay, x < m
      PROVE  /\ smp[x].valid /\ smp[x].lru < m
             /\ rec[smp[x].lru + 1] = [tag |-> smp[x].tag, ip |-> smp[x].ip, used |-> smp[x].used]
  <2>1. CASE x = w
    BY <1>1, <1>2, <2>1 DEF ToFront
  <2>2. CASE x # w
    <3>1. /\ x < n /\ sampler[x].valid /\ sampler[x].lru < n
          /\ recent[sampler[x].lru + 1] = [tag |-> sampler[x].tag, ip |-> sampler[x].ip, used |-> sampler[x].used]
      BY <1>4, <2>2 DEF Mirrors, ToFront, n, m
    <3>2. CASE sampler[x].lru < L
      <4>1. smp[x].lru + 1 \in 2..(L + 1) /\ (smp[x].lru + 1) - 1 = sampler[x].lru + 1 /\ smp[x].lru < m
        BY <1>1, <1>2, <1>2a, <2>2, <3>2
      <4>2. rec[smp[x].lru + 1] = recent[sampler[x].lru + 1]
        <5> DEFINE j == smp[x].lru + 1
        <5>1. j \in 2..(L + 1) /\ j - 1 = sampler[x].lru + 1
          BY <4>1
        <5> HIDE DEF j
        <5>2. rec[j] = recent[j - 1]
          BY <5>1 DEF L, ToFront
        <5> QED
          BY <5>1, <5>2 DEF j
      <4> QED
        BY <1>2, <2>2, <3>1, <4>1, <4>2
    <3>3. CASE ~(sampler[x].lru < L)
      <4>1. smp[x].lru = sampler[x].lru /\ smp[x].lru + 1 \in (L + 2)..m /\ smp[x].lru < m
        BY <1>1, <1>2, <1>2a, <1>3, <2>2, <3>1, <3>3
      <4>2. rec[smp[x].lru + 1] = recent[sampler[x].lru + 1]
        BY <4>1 DEF L, m, ToFront
      <4> QED
        BY <1>2, <2>2, <3>1, <4>1, <4>2
    <3> QED
      BY <3>2, <3>3
  <2> QED
    BY <2>1, <2>2
<1>5. ASSUME NEW x \in LlcWay, x >= m
      PROVE  ~smp[x].valid /\ smp[x].lru = x
  <2>1. x # w /\ x >= n
    BY <1>1, <1>5 DEF m, n, ToFront
  <2>2. ~sampler[x].valid /\ sampler[x].lru = x
    BY <2>1 DEF Mirrors, n
  <2> QED
    BY <1>1, <1>2, <1>5, <2>1, <2>2
<1>6. ASSUME NEW x \in LlcWay, NEW y \in LlcWay, smp[x].lru = smp[y].lru
      PROVE  x = y
  <2>1. \A z \in LlcWay \ {w} : smp[z].lru # 0
    BY <1>1, <1>2, <1>3
  <2>2. CASE x = w \/ y = w
    BY <1>2, <1>6, <2>1, <2>2 DEF ToFront
  <2>3. CASE x # w /\ y # w
    <3>1. sampler[x].lru = sampler[y].lru
      <4>1. /\ sampler[x].lru < L => smp[x].lru = sampler[x].lru + 1
            /\ ~(sampler[x].lru < L) => smp[x].lru = sampler[x].lru
            /\ sampler[y].lru < L => smp[y].lru = sampler[y].lru + 1
            /\ ~(sampler[y].lru < L) => smp[y].lru = sampler[y].lru
            /\ sampler[x].lru # L /\ sampler[y].lru # L
            /\ sampler[x].lru \in Nat /\ sampler[y].lru \in Nat /\ L \in Nat
        BY <1>1, <1>2, <1>3, <2>3
      <4> QED
        BY <1>6, <4>1
    <3> QED
      BY <3>1 DEF Mirrors
  <2> QED
    BY <2>2, <2>3
<1>7. ASSUME NEW k \in 1..m
      PROVE  \E x \in LlcWay : x < m /\ smp[x].lru = k - 1
  <2>1. CASE k = 1
    <3>1. w < m /\ smp[w].lru = k - 1
      BY <1>2, <2>1 DEF m, ToFront
    <3> QED
      BY <3>1
  <2>2. CASE k # 1 /\ k <= L + 1
    <3>1. k \in 2..(L + 1) /\ k - 1 \in 1..n
      BY <1>1, <2>2 DEF L, n, ToFront
    <3>2. PICK x \in LlcWay : x < n /\ sampler[x].lru = (k - 1) - 1
      BY <3>1 DEF Mirrors, n
    <3>3. x # w /\ x < m /\ smp[x].lru = k - 1
      BY <1>1, <1>2, <3>1, <3>2 DEF L
    <3> QED
      BY <3>3
  <2>3. CASE k > L + 1
    <3>1. k \in (L + 2)..m /\ k \in 1..n
      BY <1>1, <2>3 DEF L, n, m, ToFront
    <3>2. PICK x \in LlcWay : x < n /\ sampler[x].lru = k - 1
      BY <1>1, <3>1 DEF Mirrors, n
    <3>3. x # w /\ x < m /\ smp[x].lru = k - 1
      BY <1>1, <1>2, <2>3, <3>2 DEF L
    <3> QED
      BY <3>3
  <2> QED
    BY <1>1, <2>1, <2>2, <2>3
<1>8. ASSUME NEW k \in 1..m, NEW l \in 1..m, rec[k].tag = rec[l].tag
      PROVE  k = l
  <2> DEFINE old(j) == IF j <= L + 1 THEN j - 1 ELSE j
  <2>1. \A j \in 2..m : old(j) \in 1..n /\ rec[j] = recent[old(j)] /\ old(j) # L + 1
    <3> TAKE j \in 2..m
    <3>1. CASE j <= L + 1
      BY <1>1, <3>1 DEF L, n, ToFront
    <3>2. CASE j > L + 1
      BY <1>1, <3>2, SMTT(30) DEF L, n, m, ToFront
    <3> QED
      BY <1>1, <3>1, <3>2
  <2>2. \A j \in 2..m : rec[j].tag # rec[1].tag
    <3> TAKE j \in 2..m
    <3>1. rec[1].tag = e.tag
      BY DEF ToFront
    <3> QED
      BY <2>1, <3>1 DEF L, n, ToFront
  <2>3. CASE k = 1 \/ l = 1
    BY <1>1, <1>8, <2>2, <2>3
  <2>4. CASE k # 1 /\ l # 1
    <3>1. k \in 2..m /\ l \in 2..m
      BY <1>1, <2>4
    <3>2. /\ old(k) \in 1..n /\ old(l) \in 1..n
          /\ recent[old(k)].tag = recent[old(l)].tag
      BY <1>8, <2>1, <3>1
    <3>3. old(k) = old(l)
      <4> HIDE DEF old
      <4> QED
        BY <3>2 DEF Mirrors, n
    <3> QED
      BY <1>1, <2>1, <3>1, <3>3
  <2> QED
    BY <2>3, <2>4
<1>9. rec \in Seq(Sample) /\ m <= LLC_WAY
  BY DEF m, ToFront
<1> QED
  BY <1>2, <1>4, <1>5, <1>6, <1>7, <1>8, <1>9 DEF Mirrors, m, smp

\* update_sampler takes the entry of the line, an unused one or the last, and puts
\* the line in front.
LEMMA UpdateMirrors ==
  ASSUME Mirrors(sampler, recent), NEW tag \in LlcTag, NEW ip \in Ip, update_sampler(tag, ip)
  PROVE  Mirrors(sampler', recent')
<1> DEFINE n == Len(recent)
           w == Match(tag)
           e == SampledAs(w, tag, ip)
           L == sampler[w].lru
<1>1. /\ n \in Nat /\ n <= LLC_WAY /\ LLC_WAY \in Nat /\ recent \in Seq(Sample)
      /\ LlcWay \subseteq Nat
      /\ \A x \in LlcWay : x \in Nat /\ sampler[x] \in SamplerEntry /\ sampler[x].lru \in Nat
      /\ 0 \notin LlcTag /\ tag # 0
  BY Ways, RripAssumption DEF Mirrors, SamplerEntry
<1>2. sampler' = [Moved(w) EXCEPT ![w] = e]
  BY DEF update_sampler
<1>2a. \A x \in LlcWay : x < n =>
         /\ sampler[x].valid /\ sampler[x].lru < n
         /\ recent[sampler[x].lru + 1] = [tag |-> sampler[x].tag, ip |-> sampler[x].ip, used |-> sampler[x].used]
  BY DEF Mirrors
<1>2b. \A x \in LlcWay : x >= n => ~sampler[x].valid /\ sampler[x].lru = x
  BY DEF Mirrors
<1>3. CASE Sampled(tag) # {}
  <2>1. w \in LlcWay /\ sampler[w].valid /\ sampler[w].tag = tag
    <3>1. Sampled(tag) \subseteq Nat
      BY <1>1 DEF Sampled
    <3>2. w \in Sampled(tag)
      BY <1>3, <3>1, LeastNatural DEF Match
    <3> QED
      BY <3>2 DEF Sampled
  <2>2. /\ w < n /\ L < n /\ L \in Nat /\ w \in Nat
        /\ recent[L + 1] = [tag |-> tag, ip |-> sampler[w].ip, used |-> sampler[w].used]
    <3> HIDE DEF w, n
    <3>1. w < n
      BY <1>1, <1>2b, <2>1
    <3> QED
      BY <1>1, <1>2a, <2>1, <3>1
  <2>3. \A j \in 1..n : recent[j].tag = tag => j = L + 1
    <3>1. L + 1 \in 1..n /\ recent[L + 1].tag = tag
      BY <1>1, <2>2
    <3> QED
      BY <3>1 DEF Mirrors
  <2>4. Known(tag) # {} /\ Min(Known(tag)) = L + 1
    <3>1. Known(tag) = {L + 1}
      BY <1>1, <2>2, <2>3 DEF Known
    <3> QED
      <4>1. L + 1 \in Nat
        BY <2>2
      <4> HIDE DEF L
      <4>2. Min({L + 1}) \in {L + 1}
        BY <4>1, LeastNatural
      <4> QED
        BY <3>1, <4>2
  <2> DEFINE r == [tag |-> tag, ip |-> recent[L + 1].ip, used |-> TRUE]
             rest == RemoveAt(recent, L + 1)
  <2>5. recent' = <<r>> \o rest
    BY <2>4 DEF update_sampler
  <2>6. /\ r \in Sample
        /\ r = [tag |-> tag, ip |-> sampler[w].ip, used |-> TRUE]
    <3>1. recent[L + 1] \in Sample
      BY <1>1, <2>2
    <3> QED
      BY <2>2, <3>1 DEF Sample
  <2>7. /\ rest \in Seq(Sample) /\ Len(rest) = n - 1
        /\ \A i \in 1..L : rest[i] = recent[i]
        /\ \A i \in (L + 1)..(n - 1) : rest[i] = recent[i + 1]
    <3>1. L + 1 \in 1..n /\ (L + 1) - 1 = L
      BY <1>1, <2>2, SMTT(30)
    <3> QED
      BY <1>1, <3>1, TakenOut
  <2> HIDE DEF r, rest
  <2>8. /\ recent' \in Seq(Sample) /\ Len(recent') = n
        /\ recent'[1] = r
        /\ \A k \in 2..n : recent'[k] = rest[k - 1]
    BY <1>1, <2>5, <2>6, <2>7, InFront
  <2>9. e = [valid |-> TRUE, tag |-> tag, ip |-> sampler[w].ip, used |-> TRUE, lru |-> 0]
        /\ e \in SamplerEntry
    <3>1. sampler[w] \in SamplerEntry
      BY <1>1, <2>1
    <3> QED
      BY <1>3, <2>1, <3>1 DEF SampledAs, SamplerEntry
  <2> HIDE DEF e, w
  <2>10. \A j \in 2..(L + 1) : j - 1 <= n /\ recent'[j] = recent[j - 1]
    <3> TAKE j \in 2..(L + 1)
    <3>1. j - 1 \in 1..L /\ j \in 2..n /\ j - 1 <= n
      BY <1>1, <2>2
    <3> QED
      BY <2>7, <2>8, <3>1
  <2>11. \A j \in (L + 2)..n : j <= n /\ recent'[j] = recent[j]
    <3> TAKE j \in (L + 2)..n
    <3>1. j - 1 \in (L + 1)..(n - 1) /\ (j - 1) + 1 = j /\ j \in 2..n
      BY <1>1, <2>2, SMTT(30)
    <3> QED
      BY <2>7, <2>8, <3>1, SMTT(30)
  <2>12. ToFront(w, e, recent')
    BY <1>1, <2>2, <2>3, <2>6, <2>8, <2>9, <2>10, <2>11, SMTT(30) DEF ToFront
  <2> QED
    BY <1>2, <2>1, <2>12, FrontMirrors
<1>4. CASE Sampled(tag) = {}
  <2>1. Known(tag) = {}
    <3> SUFFICES ASSUME NEW k \in 1..n, recent[k].tag = tag PROVE FALSE
      BY DEF Known
    <3>1. PICK x \in LlcWay : x < n /\ sampler[x].lru = k - 1
      BY DEF Mirrors
    <3>2. sampler[x].valid /\ recent[sampler[x].lru + 1].tag = sampler[x].tag
      <4>1. /\ sampler[x].valid
            /\ recent[sampler[x].lru + 1] = [tag |-> sampler[x].tag, ip |-> sampler[x].ip, used |-> sampler[x].used]
        BY <1>2a, <3>1, Zenon
      <4> QED
        BY <4>1
    <3>3. sampler[x].lru + 1 = k
      BY <1>1, <3>1
    <3> QED
      BY <1>4, <3>2, <3>3 DEF Sampled
  <2> DEFINE r == [tag |-> tag, ip |-> ip, used |-> FALSE]
             rest == Latest(recent)
  <2>2. recent' = <<r>> \o rest
    BY <2>1 DEF update_sampler
  <2>3. r \in Sample
    BY DEF Sample
  <2>4. e = [valid |-> TRUE, tag |-> tag, ip |-> ip, used |-> FALSE, lru |-> 0]
        /\ e \in SamplerEntry
    BY <1>4 DEF SampledAs, SamplerEntry
  <2>5. \A j \in 1..n : recent[j].tag # tag
    BY <2>1 DEF Known
  <2>6. \A x \in LlcWay : sampler[x].valid <=> x < n
    <3> TAKE x \in LlcWay
    <3>1. x < n \/ x >= n
      BY <1>1
    <3>2. x >= n => ~(x < n)
      BY <1>1
    <3> HIDE DEF n
    <3> QED
      BY <1>2a, <1>2b, <3>1, <3>2, Zenon
  <2>7. CASE n < LLC_WAY
    <3>1. n \in Invalid /\ \A x \in Invalid : n <= x
      BY <1>1, <2>6, <2>7 DEF Invalid, LlcWay
    <3>2. w = n
      <4>1. Invalid \subseteq Nat /\ Invalid # {}
        BY <1>1, <3>1 DEF Invalid
      <4>2. Min(Invalid) \in Invalid /\ \A y \in Invalid : Min(Invalid) <= y
        BY <4>1, LeastNatural
      <4>3. w = Min(Invalid)
        BY <1>4, <4>1 DEF Match
      <4> HIDE DEF w, n
      <4>4. n <= w /\ w <= n /\ w \in Nat
        BY <3>1, <4>1, <4>2, <4>3
      <4> QED
        BY <1>1, <4>4
    <3>3. w \in LlcWay /\ L = n
      BY <1>1, <3>1, <3>2 DEF Mirrors, Invalid
    <3>4. rest = recent
      BY <1>1, <2>7 DEF Latest
    <3>5. /\ recent' \in Seq(Sample) /\ Len(recent') = n + 1
          /\ recent'[1] = r
          /\ \A k \in 2..(n + 1) : recent'[k] = recent[k - 1]
      <4> HIDE DEF r
      <4> QED
        BY <1>1, <2>2, <2>3, <3>4, InFront
    <3> HIDE DEF w, e
    <3>6. ToFront(w, e, recent')
      BY <1>1, <2>4, <2>5, <2>7, <3>2, <3>3, <3>5 DEF ToFront
    <3> QED
      BY <1>2, <3>3, <3>6, FrontMirrors
  <2>8. CASE n = LLC_WAY
    <3>1. Invalid = {}
      BY <1>1, <2>6, <2>8, Ways DEF Invalid
    <3>2. w \in LlcWay /\ L = LLC_WAY - 1
      <4>1. n \in 1..n
        BY <1>1, <2>8, Ways
      <4>2. \E x \in LlcWay : sampler[x].lru = LLC_WAY - 1
        BY <2>8, <4>1 DEF Mirrors
      <4>3. w = CHOOSE x \in LlcWay : sampler[x].lru = LLC_WAY - 1
        BY <1>4, <3>1 DEF Match
      <4> QED
        BY <4>2, <4>3
    <3>3. /\ rest \in Seq(Sample) /\ Len(rest) = n - 1
          /\ \A k \in 1..(n - 1) : rest[k] = recent[k]
      BY <1>1, <2>8, Ways DEF Latest
    <3>4. /\ recent' \in Seq(Sample) /\ Len(recent') = n
          /\ recent'[1] = r
          /\ \A k \in 2..n : recent'[k] = rest[k - 1]
      <4> HIDE DEF r, rest
      <4> QED
        BY <1>1, <2>2, <2>3, <3>3, InFront
    <3> HIDE DEF w, e, rest
    <3>5. \A j \in 2..n : j - 1 <= n /\ recent'[j] = recent[j - 1]
      <4> TAKE j \in 2..n
      <4> HIDE DEF n
      <4>1. j - 1 \in 1..(n - 1) /\ j - 1 <= n
        BY <1>1
      <4> QED
        BY <3>3, <3>4, <4>1
    <3>6. ToFront(w, e, recent')
      BY <1>1, <2>4, <2>5, <2>8, <3>2, <3>4, <3>5, Ways DEF ToFront
    <3> QED
      BY <1>2, <3>2, <3>6, FrontMirrors
  <2> QED
    BY <1>1, <2>7, <2>8
<1> QED
  BY <1>3, <1>4

\* A way that has had no hit is never predicted to be used at once, and one that has
\* is predicted to be used before all ways behind it.
Predicted(r, hit, after) ==
  /\ r \in [LlcWay -> 0..maxRRPV] /\ hit \subseteq LlcWay
  /\ after \in [LlcWay -> SUBSET LlcWay]
  /\ \A w \in LlcWay \ hit : r[w] >= 1
  /\ \A w \in LlcWay : \A x \in after[w] : r[w] < r[x]

RripInv ==
  /\ policy \in {"srrip", "drrip", "ship"}
  /\ llc \in [LlcWay -> LlcTag \cup {0}]
  /\ Predicted(rrpv, reused, behind)
  /\ overtaken = {}
  /\ Mirrors(sampler, recent)

\* llc_find_victim ages all ways alike, and none beyond maxRRPV.
LEMMA AgedAlike ==
  ASSUME rrpv \in [LlcWay -> 0..maxRRPV]
  PROVE  /\ Rounds \in 0..maxRRPV /\ AgedRrpv \in [LlcWay -> 0..maxRRPV]
         /\ \A w \in LlcWay : AgedRrpv[w] = rrpv[w] + Rounds
<1> DEFINE S == {maxRRPV - rrpv[w] : w \in {x \in LlcWay : rrpv[x] <= maxRRPV}}
<1>1. \A w \in LlcWay : rrpv[w] \in Nat /\ rrpv[w] <= 3 /\ maxRRPV - rrpv[w] \in S
  BY DEF maxRRPV
<1>2. S \subseteq Nat /\ S # {}
  <2>1. \A w \in LlcWay : maxRRPV - rrpv[w] \in Nat
    BY <1>1 DEF maxRRPV
  <2>2. maxRRPV - rrpv[0] \in S
    BY <1>1, Ways
  <2> QED
    BY <2>1, <2>2
<1>3. Min(S) \in S /\ \A y \in S : Min(S) <= y
  BY <1>2, LeastNatural
<1>4. Rounds = Min(S)
  BY DEF Rounds
<1> HIDE DEF S
<1>5. Rounds \in Nat /\ \A w \in LlcWay : Rounds <= 3 - rrpv[w]
  BY <1>1, <1>2, <1>3, <1>4 DEF maxRRPV
<1>6. Rounds \in 0..3
  BY <1>1, <1>5, Ways
<1>7. \A w \in LlcWay : rrpv[w] + Rounds \in 0..3
  BY <1>1, <1>5
<1> QED
  BY <1>6, <1>7 DEF AgedRrpv, maxRRPV

\* Aging keeps the order of the predictions.
LEMMA AgingPredicted ==
  ASSUME Predicted(rrpv, reused, behind)
  PROVE  Predicted(AgedRrpv, reused, behind)
<1>1. /\ Rounds \in 0..3 /\ AgedRrpv \in [LlcWay -> 0..maxRRPV]
      /\ \A w \in LlcWay : AgedRrpv[w] = rrpv[w] + Rounds
      /\ \A w \in LlcWay : rrpv[w] \in 0..3
  BY AgedAlike DEF Predicted, maxRRPV
<1>2. \A w \in LlcWay : behind[w] \subseteq LlcWay
  BY DEF Predicted
<1>3. \A w \in LlcWay : \A x \in behind[w] : AgedRrpv[w] < AgedRrpv[x]
  BY <1>1, <1>2 DEF Predicted
<1>4. \A w \in LlcWay \ reused : AgedRrpv[w] >= 1
  BY <1>1 DEF Predicted
<1> QED
  BY <1>1, <1>3, <1>4 DEF Predicted

\* A hit puts its way in front of all that had none.
LEMMA HitPredicted ==
  ASSUME Predicted(rrpv, reused, behind), NEW w \in LlcWay,
         rrpv' = [rrpv EXCEPT ![w] = HitRrpv(w)], Reuse(w)
  PROVE  Predicted(rrpv', reused', behind')
<1>1. /\ \A x \in LlcWay : rrpv[x] \in 0..3 /\ behind[x] \subseteq LlcWay
      /\ rrpv' \in [LlcWay -> 0..3]
      /\ rrpv'[w] = 0 /\ \A x \in LlcWay \ {w} : rrpv'[x] = rrpv[x]
  BY DEF Predicted, HitRrpv, maxRRPV
<1>2. /\ reused' = reused \cup {w}
      /\ behind'[w] = LlcWay \ (reused \cup {w})
      /\ \A x \in LlcWay \ {w} : behind'[x] = behind[x] \ {w}
      /\ behind' \in [LlcWay -> SUBSET LlcWay]
  BY <1>1 DEF Reuse
<1>3. ASSUME NEW x \in LlcWay, NEW y \in behind'[x] PROVE rrpv'[x] < rrpv'[y]
  <2>1. y \in LlcWay /\ y # w
    BY <1>1, <1>2
  <2>2. CASE x = w
    BY <1>1, <1>2, <2>1, <2>2 DEF Predicted
  <2>3. CASE x # w
    BY <1>1, <1>2, <2>1, <2>3 DEF Predicted
  <2> QED
    BY <2>2, <2>3
<1>4. reused' \subseteq LlcWay /\ \A x \in LlcWay \ reused' : rrpv'[x] >= 1
  BY <1>1, <1>2 DEF Predicted
<1> QED
  BY <1>1, <1>2, <1>3, <1>4 DEF Predicted, maxRRPV

\* A way that is filled, or given another prediction, is behind none and has none
\* behind it.
LEMMA ForgetPredicted ==
  ASSUME NEW r, NEW hit, Predicted(r, reused, behind), NEW w \in LlcWay, NEW v \in 1..maxRRPV,
         hit \in {reused, reused \ {w}}, Forget(w)
  PROVE  Predicted([r EXCEPT ![w] = v], hit, behind')
<1> DEFINE q == [r EXCEPT ![w] = v]
<1>1. /\ \A x \in LlcWay : r[x] \in 0..3 /\ behind[x] \subseteq LlcWay
      /\ q \in [LlcWay -> 0..3] /\ v \in 1..3
      /\ q[w] = v /\ \A x \in LlcWay \ {w} : q[x] = r[x]
  BY DEF Predicted, maxRRPV
<1>2. /\ behind'[w] = {}
      /\ \A x \in LlcWay \ {w} : behind'[x] = behind[x] \ {w}
      /\ behind' \in [LlcWay -> SUBSET LlcWay]
  BY <1>1 DEF Forget
<1>3. ASSUME NEW x \in LlcWay, NEW y \in behind'[x] PROVE q[x] < q[y]
  <2>1. x # w /\ y # w /\ y \in behind[x] /\ y \in LlcWay
    BY <1>1, <1>2
  <2> QED
    BY <1>1, <2>1 DEF Predicted
<1>4. hit \subseteq LlcWay /\ \A x \in LlcWay \ hit : q[x] >= 1
  BY <1>1 DEF Predicted
<1> HIDE DEF q
<1>5. Predicted(q, hit, behind')
  BY <1>1, <1>2, <1>3, <1>4 DEF Predicted, maxRRPV
<1> QED
  BY <1>5 DEF q

\* A hit of the LLC.
LEMMA HitKeeps ==
  ASSUME RripInv, NEW w \in LlcWay, LlcHit(w)
  PROVE  RripInv'
<1>1. PICK a \in LlcAccess : UpdateHit(w, a[2], a[1])
  BY DEF LlcHit
<1>2. llc[w] \in LlcTag /\ UNCHANGED <<policy, role, llc, overtaken>>
  BY DEF LlcHit, RripInv
<1>3. CASE policy = "drrip" /\ a[1] = "WRITEBACK"
  <2>1. /\ rrpv' = [rrpv EXCEPT ![w] = maxRRPV - 1]
        /\ Forget(w) /\ UNCHANGED <<reused, sampler, recent>>
    BY <1>1, <1>3 DEF UpdateHit, SamplerKept
  <2>2. maxRRPV - 1 \in 1..maxRRPV
    BY DEF maxRRPV
  <2>3. Predicted(rrpv', reused', behind')
    BY <2>1, <2>2, ForgetPredicted DEF RripInv
  <2> QED
    BY <1>2, <2>1, <2>3 DEF RripInv
<1>4. CASE policy = "ship" /\ a[1] = "WRITEBACK"
  <2>1. UNCHANGED <<rrpv, reused, behind, sampler, recent>>
    BY <1>1, <1>4 DEF UpdateHit, SamplerKept
  <2> QED
    BY <1>2, <2>1 DEF RripInv
<1>5. CASE ~(policy = "drrip" /\ a[1] = "WRITEBACK") /\ ~(policy = "ship" /\ a[1] = "WRITEBACK")
  <2>1. /\ rrpv' = [rrpv EXCEPT ![w] = HitRrpv(w)] /\ Reuse(w)
        /\ IF policy = "ship" /\ role = "sampled" THEN update_sampler(llc[w], a[2])
           ELSE SamplerKept
    BY <1>1, <1>5 DEF UpdateHit
  <2>2. Predicted(rrpv', reused', behind')
    BY <2>1, HitPredicted DEF RripInv
  <2>3. Mirrors(sampler', recent')
    <3>1. CASE policy = "ship" /\ role = "sampled"
      <4>1. a[2] \in Ip
        BY <1>5, <3>1 DEF LlcAccess
      <4> QED
        BY <1>2, <2>1, <3>1, <4>1, UpdateMirrors DEF RripInv
    <3>2. CASE ~(policy = "ship" /\ role = "sampled")
      BY <2>1, <3>2 DEF SamplerKept, RripInv
    <3> QED
      BY <3>1, <3>2
  <2> QED
    BY <1>2, <2>2, <2>3 DEF RripInv
<1> QED
  BY <1>3, <1>4, <1>5

\* A fill: the victim has nothing behind it.
LEMMA FillKeeps ==
  ASSUME RripInv, NEW w \in LlcWay, NEW tag \in LlcTag, LlcFill(w, tag)
  PROVE  RripInv'
<1>1. PICK a \in LlcAccess : UpdateFill(w, tag, a[2], a[1], AgedRrpv)
  BY DEF LlcFill
<1>2. /\ llc' \in [LlcWay -> LlcTag \cup {0}] /\ UNCHANGED <<policy, role>>
      /\ overtaken' = behind[w]
  BY DEF LlcFill, RripInv
<1>3. Predicted(AgedRrpv, reused, behind)
  BY AgingPredicted DEF RripInv
<1>4. behind[w] = {}
  <2>1. AgedRrpv[w] = 3
    <3>1. /\ \A x \in LlcWay : AgedRrpv[x] = rrpv[x] + Rounds
          /\ \A x \in LlcWay : rrpv[x] \in 0..3
      BY AgedAlike DEF RripInv, Predicted, maxRRPV
    <3> DEFINE S == {x \in LlcWay : AgedRrpv[x] = maxRRPV}
    <3>2. S # {}
      <4> DEFINE T == {maxRRPV - rrpv[x] : x \in {x \in LlcWay : rrpv[x] <= maxRRPV}}
      <4>0. \A x \in LlcWay : rrpv[x] <= maxRRPV /\ maxRRPV - rrpv[x] \in Nat
        BY <3>1 DEF maxRRPV
      <4>1. T \subseteq Nat /\ T # {}
        <5>1. maxRRPV - rrpv[0] \in T
          BY <4>0, Ways
        <5> QED
          BY <4>0, <5>1
      <4>2. Rounds \in T
        BY <4>1, LeastNatural DEF Rounds
      <4>3. PICK x \in LlcWay : Rounds = 3 - rrpv[x]
        BY <4>2 DEF maxRRPV
      <4>4. AgedRrpv[x] = 3
        BY <3>1, <4>3
      <4> QED
        BY <4>4 DEF maxRRPV
    <3>3. S \subseteq Nat
      BY Ways
    <3>4. w = Min(S)
      BY DEF LlcFill, llc_find_victim
    <3> QED
      BY <3>2, <3>3, <3>4, LeastNatural DEF maxRRPV
  <2>2. \A x \in behind[w] : x \in LlcWay /\ AgedRrpv[x] \in 0..3 /\ AgedRrpv[w] < AgedRrpv[x]
    BY <1>3 DEF Predicted, maxRRPV
  <2> QED
    BY <2>1, <2>2
<1>5. /\ reused' = reused \ {w} /\ Forget(w)
      /\ IF policy = "ship" /\ role = "sampled" /\ a[1] # "WRITEBACK"
         THEN update_sampler(tag, a[2]) ELSE SamplerKept
      /\ rrpv' = [AgedRrpv EXCEPT ![w] =
           IF policy = "drrip" /\ a[1] # "WRITEBACK" /\ Bimodal(role) THEN BipRrpv
           ELSE IF policy = "ship" /\ a[1] # "WRITEBACK" THEN ShipRrpv(a[2])
           ELSE maxRRPV - 1]
  BY <1>1 DEF UpdateFill
<1>6. PICK v \in 1..maxRRPV : rrpv' = [AgedRrpv EXCEPT ![w] = v]
  <2>1. BipRrpv \in {2, 3} /\ ShipRrpv(a[2]) \in {2, 3} /\ maxRRPV = 3
    BY DEF BipRrpv, ShipRrpv, maxRRPV
  <2> DEFINE v == IF policy = "drrip" /\ a[1] # "WRITEBACK" /\ Bimodal(role) THEN BipRrpv
                  ELSE IF policy = "ship" /\ a[1] # "WRITEBACK" THEN ShipRrpv(a[2])
                  ELSE maxRRPV - 1
  <2>2. v \in 1..maxRRPV
    BY <2>1
  <2>3. rrpv' = [AgedRrpv EXCEPT ![w] = v]
    BY <1>5
  <2> HIDE DEF v
  <2> QED
    BY <2>2, <2>3
<1>7. Predicted(rrpv', reused', behind')
  <2>1. reused' \in {reused, reused \ {w}}
    BY <1>5
  <2> QED
    <3>1. Forget(w) /\ v \in 1..maxRRPV
      BY <1>5, <1>6
    <3>2. Predicted([AgedRrpv EXCEPT ![w] = v], reused', behind')
      BY ONLY <1>3, <2>1, <3>1, ForgetPredicted, w \in LlcWay
    <3> QED
      BY <1>6, <3>2
<1>8. Mirrors(sampler', recent')
  <2>1. CASE policy = "ship" /\ role = "sampled" /\ a[1] # "WRITEBACK"
    <3>1. a[2] \in Ip
      BY <2>1 DEF LlcAccess
    <3> QED
      BY <1>5, <2>1, <3>1, UpdateMirrors DEF RripInv
  <2>2. CASE ~(policy = "ship" /\ role = "sampled" /\ a[1] # "WRITEBACK")
    BY <1>5, <2>2 DEF SamplerKept, RripInv
  <2> QED
    BY <2>1, <2>2
<1> QED
  BY <1>2, <1>4, <1>7, <1>8 DEF RripInv

\* The LLC keeps what was reused longer than what was not, and the sampler learns
\* from the lines accessed last, for every associativity and every policy
\* (llc_find_victim, llc_update_replacement_state, update_sampler).
THEOREM ReuseKept == RripSpec => []ReuseLearned
<1>1. RripInit => RripInv
  <2> SUFFICES ASSUME RripInit PROVE RripInv
    OBVIOUS
  <2>1. Predicted(rrpv, reused, behind)
    BY DEF RripInit, Predicted, maxRRPV
  <2>2. /\ recent = <<>> /\ sampler = [w \in LlcWay |-> [valid |-> FALSE, tag |-> 0, ip |-> NoIp, used |-> FALSE, lru |-> w]]
    BY DEF RripInit
  <2>3. /\ recent \in Seq(Sample) /\ Len(recent) = 0
    BY <2>2
  <2>4. \A w \in LlcWay : w \in Nat
    BY Ways
  <2>5. sampler \in [LlcWay -> SamplerEntry]
    BY <2>2, <2>4 DEF SamplerEntry
  <2>6. Mirrors(sampler, recent)
    BY <2>2, <2>3, <2>4, <2>5, Ways DEF Mirrors
  <2> QED
    BY <2>1, <2>6 DEF RripInit, RripInv
<1>2. RripInv /\ [RripNext]_rripVars => RripInv'
  <2> SUFFICES ASSUME RripInv, [RripNext]_rripVars PROVE RripInv'
    OBVIOUS
  <2>1. ASSUME NEW w \in LlcWay, LlcHit(w) PROVE RripInv'
    BY <2>1, HitKeeps
  <2>2. ASSUME NEW w \in LlcWay, NEW tag \in LlcTag, LlcFill(w, tag) PROVE RripInv'
    BY <2>2, FillKeeps
  <2>3. CASE LlcStall
    <3>1. rrpv' = AgedRrpv /\ UNCHANGED <<policy, llc, reused, behind, overtaken, sampler, recent>>
      BY <2>3 DEF LlcStall, SamplerKept
    <3>2. Predicted(rrpv', reused', behind')
      BY <3>1, AgingPredicted DEF RripInv
    <3> QED
      BY <3>1, <3>2 DEF RripInv
  <2>4. CASE OtherSet
    BY <2>4 DEF OtherSet, RripInv
  <2>5. CASE UNCHANGED rripVars
    BY <2>5 DEF rripVars, RripInv
  <2> QED
    BY <2>1, <2>2, <2>3, <2>4, <2>5 DEF RripNext
<1>3. RripInv => ReuseLearned
  <2> SUFFICES ASSUME RripInv PROVE SamplerExact
    BY DEF RripInv, ReuseLearned, ReusedOutlive
  <2>1. Mirrors(sampler, recent)
    BY DEF RripInv
  <2> DEFINE n == Len(recent)
             e(x) == [tag |-> sampler[x].tag, ip |-> sampler[x].ip, used |-> sampler[x].used]
  <2>2. n \in Nat /\ DOMAIN recent = 1..n /\ \A x \in LlcWay : x \in Nat /\ sampler[x].lru \in Nat
    BY <2>1, Ways DEF Mirrors, SamplerEntry
  <2>3. ASSUME NEW x \in LlcWay, sampler[x].valid
        PROVE  \E k \in DOMAIN recent : e(x) = recent[k]
    <3>1. x < n
      BY <2>1, <2>2, <2>3 DEF Mirrors
    <3>2. sampler[x].lru + 1 \in 1..n /\ recent[sampler[x].lru + 1] = e(x)
      BY <2>1, <2>2, <3>1 DEF Mirrors
    <3> QED
      BY <2>2, <3>2
  <2>4. ASSUME NEW k \in DOMAIN recent
        PROVE  \E x \in LlcWay : sampler[x].valid /\ e(x) = recent[k]
    <3>1. k \in 1..n
      BY <2>2
    <3>2. PICK x \in LlcWay : x < n /\ sampler[x].lru = k - 1
      BY <2>1, <3>1 DEF Mirrors
    <3>3. sampler[x].valid /\ recent[sampler[x].lru + 1] = e(x) /\ sampler[x].lru + 1 = k
      <4>1. sampler[x].lru + 1 = k
        BY <2>2, <3>1, <3>2
      <4>2. sampler[x].valid /\ recent[sampler[x].lru + 1] = e(x)
        BY <2>1, <3>2, Zenon DEF Mirrors
      <4> QED
        BY <4>1, <4>2
    <3> QED
      BY <3>3
  <2> HIDE DEF e
  <2>5. {e(x) : x \in {y \in LlcWay : sampler[y].valid}} = {recent[k] : k \in DOMAIN recent}
    BY <2>3, <2>4, Zenon
  <2> QED
    BY <2>5 DEF SamplerExact, e
<1> QED
  BY <1>1, <1>2, <1>3, PTL DEF RripSpec

-----------------------------------------------------------------------------
(***************************************************************************)
(* POWER7: the choice of a configuration.                                  *)
(***************************************************************************)

\* Configurations are numbers.
LEMMA Configs ==
  NumConfigs \in Nat /\ NumConfigs >= 1 /\ 0 \in Config /\ NumConfigs - 1 \in Config
  /\ \A c \in Config : c \in Nat /\ c <= NumConfigs - 1
BY Power7Assumption DEF Config

\* get_winner_config finds a configuration with the fewest cycles.
LEMMA WinnerFastest ==
  ASSUME NEW s \in [Config -> Nat]
  PROVE  /\ get_winner_config(s) \in Config
         /\ \A d \in Config : s[get_winner_config(s)] <= s[d]
<1> DEFINE V == {s[c] : c \in Config}
           least == Min(V)
           B == {NumConfigs - 1 - c : c \in {d \in Config : s[d] = least}}
           c0 == NumConfigs - 1 - Min(B)
<1>1. V \subseteq Nat /\ V # {}
  BY Configs
<1>2. least \in V /\ \A y \in V : least <= y
  BY <1>1, LeastNatural
<1> HIDE DEF least
<1>3. PICK b \in Config : s[b] = least
  BY <1>2
<1>4. \A d \in Config : s[d] \in Nat /\ least \in Nat /\ least <= s[d]
  BY <1>1, <1>2
<1>5. B \subseteq Nat /\ B # {}
  <2>1. \A c \in Config : NumConfigs - 1 - c \in Nat
    BY Configs
  <2>2. NumConfigs - 1 - b \in B
    BY <1>3
  <2> QED
    BY <2>1, <2>2
<1>6. Min(B) \in B /\ \A y \in B : Min(B) <= y
  BY <1>5, LeastNatural
<1>7. PICK c \in Config : s[c] = least /\ Min(B) = NumConfigs - 1 - c
  BY <1>6
<1>8. \A d \in Config : s[d] = least => c >= d
  <2> TAKE d \in Config
  <2>1. s[d] = least => NumConfigs - 1 - d \in B
    OBVIOUS
  <2>2. s[d] = least => Min(B) <= NumConfigs - 1 - d
    BY <1>6, <2>1
  <2> HIDE DEF B
  <2> QED
    BY <1>7, <2>2, Configs
<1>9. \A d \in Config : s[c] < s[d] \/ (s[c] = s[d] /\ c >= d)
  BY <1>4, <1>7, <1>8
<1>10. \E x \in Config : \A d \in Config : s[x] < s[d] \/ (s[x] = s[d] /\ x >= d)
  BY <1>9
<1>11. /\ get_winner_config(s) \in Config
       /\ \A d \in Config : s[get_winner_config(s)] < s[d]
                            \/ (s[get_winner_config(s)] = s[d] /\ get_winner_config(s) >= d)
  BY <1>10, Zenon DEF get_winner_config
<1> QED
  BY <1>4, <1>11

\* The cycles measured are those that passed: of the configurations already tried
\* in this round they are kept, of the one in force they run, of the others there
\* are none.
Measuring ==
  /\ mode \in {"Explore", "Exploit"} /\ config \in Config
  /\ cpu_cycle \in Nat /\ cycle_stamp \in Nat /\ cycle_stamp <= cpu_cycle
  /\ cycle_stats \in [Config -> Nat] /\ spent \in [Config -> Nat]
  /\ mode = "Explore" =>
       /\ spent[config] = cpu_cycle - cycle_stamp
       /\ \A c \in Config : c < config => spent[c] = cycle_stats[c]
       /\ \A c \in Config : c > config => spent[c] = 0
\* Cycles that passed between two readings of the clock.
LEMMA Elapsed ==
  \A x, y, z \in Nat : x <= y /\ z >= y => z - x \in Nat /\ x <= z /\ z - z = 0
OBVIOUS

\* What one access does to the cycles.
LEMMA AccessMeasured ==
  ASSUME Measuring, NEW a \in Access, Invoke(a)
  PROVE  /\ Measuring'
         /\ mode = "Explore" /\ mode' = "Exploit" =>
              \A c \in Config : spent'[config'] <= spent'[c]
<1>1. PICK d \in Nat : cpu_cycle' = cpu_cycle + d
  BY Power7Assumption DEF Invoke
<1>2. spent' = IF mode = "Exploit" THEN NoCycles ELSE [spent EXCEPT ![config] = @ + cpu_cycle' - cpu_cycle]
  BY DEF Invoke
<1>3. /\ mode \in {"Explore", "Exploit"} /\ config \in Config /\ config \in Nat
      /\ cpu_cycle \in Nat /\ cycle_stamp \in Nat /\ cycle_stamp <= cpu_cycle
      /\ cycle_stats \in [Config -> Nat] /\ spent \in [Config -> Nat]
      /\ cpu_cycle' \in Nat /\ cpu_cycle' >= cpu_cycle
  BY <1>1, Configs DEF Measuring
<1>0. cpu_cycle' - cycle_stamp \in Nat /\ cycle_stamp <= cpu_cycle' /\ cpu_cycle' - cpu_cycle' = 0
  BY <1>3, Elapsed, Zenon
<1>4. NoCycles \in [Config -> Nat] /\ \A c \in Config : NoCycles[c] = 0
  BY DEF NoCycles
<1>5. mode = "Explore" =>
        /\ spent' \in [Config -> Nat]
        /\ spent'[config] = cpu_cycle' - cycle_stamp
        /\ \A c \in Config : c < config => spent'[c] = cycle_stats[c]
        /\ \A c \in Config : c > config => spent'[c] = 0
  <2> SUFFICES ASSUME mode = "Explore" PROVE
        /\ spent' \in [Config -> Nat]
        /\ spent'[config] = cpu_cycle' - cycle_stamp
        /\ \A c \in Config : c < config => spent'[c] = cycle_stats[c]
        /\ \A c \in Config : c > config => spent'[c] = 0
    OBVIOUS
  <2>1. spent' = [spent EXCEPT ![config] = spent[config] + d]
    BY <1>1, <1>2, <1>3
  <2>2. /\ spent[config] = cpu_cycle - cycle_stamp /\ spent[config] \in Nat
        /\ \A c \in Config : c < config => spent[c] = cycle_stats[c]
        /\ \A c \in Config : c > config => spent[c] = 0
    BY <1>3 DEF Measuring
  <2>3. spent'[config] = spent[config] + d /\ \A c \in Config \ {config} : spent'[c] = spent[c]
    BY <1>3, <2>1
  <2>4. spent' \in [Config -> Nat]
    BY <1>3, <2>1, <2>2
  <2> QED
    BY <1>1, <1>3, <2>2, <2>3, <2>4, Configs
<1>6. mode = "Exploit" => spent' = NoCycles
  BY <1>2
<1>7. CASE Explore
  <2>1. /\ mode = "Exploit" /\ mode' = "Explore" /\ config' = 0
        /\ cycle_stats' = NoCycles /\ cycle_stamp' = cpu_cycle'
    BY <1>7 DEF Explore, EpochIs, set_params, NewEpoch
  <2> QED
    BY <1>3, <1>4, <1>6, <2>1, Configs DEF Measuring
<1> DEFINE M == [cycle_stats EXCEPT ![config] = cpu_cycle' - cycle_stamp]
<1>8. M \in [Config -> Nat] /\ M[config] = cpu_cycle' - cycle_stamp
      /\ \A c \in Config \ {config} : M[c] = cycle_stats[c]
  BY <1>0, <1>3
<1>9. CASE Exploit
  <2>1. /\ mode = "Explore" /\ mode' = "Exploit" /\ config = NumConfigs - 1
        /\ config' = get_winner_config(M)
        /\ cycle_stats' = NoCycles /\ cycle_stamp' = cpu_cycle'
    BY <1>9 DEF Exploit, EpochIs, set_params, NewEpoch, Measured
  <2>2. \A c \in Config : M[c] = spent'[c]
    BY <1>3, <1>5, <1>8, <2>1, Configs
  <2>3. config' \in Config /\ \A c \in Config : M[config'] <= M[c]
    <3> HIDE DEF M
    <3> QED
      BY <1>8, <2>1, WinnerFastest
  <2> HIDE DEF M
  <2> QED
    BY <1>3, <1>4, <1>5, <2>1, <2>2, <2>3 DEF Measuring
<1>10. CASE TryNext
  <2>1. /\ mode = "Explore" /\ mode' = "Explore" /\ config # NumConfigs - 1 /\ config' = config + 1
        /\ cycle_stats' = M /\ cycle_stamp' = cpu_cycle'
    BY <1>10 DEF TryNext, EpochIs, set_params, NewEpoch, Measured
  <2>2. config' \in Config
    BY <1>3, <2>1, Configs DEF Config
  <2> HIDE DEF M
  <2>3. \A c \in Config : c < config' => spent'[c] = cycle_stats'[c]
    BY <1>3, <1>5, <1>8, <2>1, Configs
  <2>4. \A c \in Config : c > config' => spent'[c] = 0
    BY <1>3, <1>5, <2>1, Configs
  <2>5. spent'[config'] = 0
    BY <1>3, <1>5, <2>1, <2>2, Configs
  <2>6. cycle_stamp' \in Nat /\ cycle_stamp' <= cpu_cycle' /\ cpu_cycle' - cycle_stamp' = 0
    <3>1. cpu_cycle' <= cpu_cycle'
      BY <1>3
    <3> QED
      BY <1>0, <1>3, <2>1, <3>1, Zenon
  <2>7. cycle_stats' \in [Config -> Nat] /\ spent' \in [Config -> Nat]
    BY <1>5, <1>8, <2>1
  <2> QED
    BY <1>3, <2>1, <2>2, <2>3, <2>4, <2>5, <2>6, <2>7 DEF Measuring
<1>11. CASE Within
  <2>1. UNCHANGED <<mode, config, cycle_stats, cycle_stamp>>
    BY <1>11 DEF Within
  <2> QED
    BY <1>3, <1>4, <1>5, <1>6, <2>1 DEF Measuring
<1> QED
  BY <1>7, <1>9, <1>10, <1>11 DEF Invoke

\* After a round of exploration the configuration kept is one under which the fewest
\* cycles passed, for any number of accesses and configurations
\* (POWER7_Pref::invoke_prefetcher, get_winner_config).
THEOREM FastestStays == Power7Spec => FastestKept
<1>1. Power7Init => Measuring
  BY Configs DEF Power7Init, Measuring, NoCycles
<1>2. Measuring /\ [Power7Next]_power7Vars => Measuring'
  <2>1. Measuring /\ Power7Next => Measuring'
    BY AccessMeasured DEF Power7Next
  <2>2. Measuring /\ UNCHANGED power7Vars => Measuring'
    BY DEF power7Vars, tuning, Measuring
  <2> QED
    BY <2>1, <2>2
<1>3. Measuring /\ [Power7Next]_power7Vars
        => [mode = "Explore" /\ mode' = "Exploit" => \A c \in Config : spent'[config'] <= spent'[c]]_power7Vars
  BY AccessMeasured DEF Power7Next
<1> QED
  BY <1>1, <1>2, <1>3, PTL DEF Power7Spec, FastestKept

-----------------------------------------------------------------------------
(***************************************************************************)
(* POWER7: paths, runs and trackers.                                       *)
(***************************************************************************)

\* What Last3 keeps of the path p when x comes.
LEMMA LastThree ==
  ASSUME NEW p \in Seq(Int), NEW x \in Int
  PROVE  /\ Last3(p, x) \in Seq(Int) /\ Len(Last3(p, x)) >= 1
         /\ Last3(p, x)[Len(Last3(p, x))] = x
         /\ Len(p) <= 3 => Len(Last3(p, x)) <= 3
         /\ p # <<>> /\ p[Len(p)] = x => Last3(p, x) = p
         /\ p # <<>> /\ p[Len(p)] # x =>
              Len(Last3(p, x)) >= 2 /\ Last3(p, x)[Len(Last3(p, x)) - 1] = p[Len(p)]
         /\ Len(p) >= 2 /\ p[Len(p)] # x =>
              Len(Last3(p, x)) >= 3 /\ Last3(p, x)[Len(Last3(p, x)) - 2] = p[Len(p) - 1]
<1>1. CASE p # <<>> /\ p[Len(p)] = x
  <2>1. Last3(p, x) = p
    BY <1>1 DEF Last3
  <2>2. Len(p) \in Nat /\ Len(p) >= 1
    BY <1>1
  <2> QED
    BY <1>1, <2>1, <2>2
<1>2. CASE ~(p # <<>> /\ p[Len(p)] = x) /\ Len(p) < 3
  <2>1. Last3(p, x) = Append(p, x)
    BY <1>2 DEF Last3
  <2>2. Append(p, x) \in Seq(Int) /\ Len(Append(p, x)) = Len(p) + 1 /\ Append(p, x)[Len(p) + 1] = x
        /\ \A k \in 1..Len(p) : Append(p, x)[k] = p[k]
    OBVIOUS
  <2>3. Len(p) \in Nat /\ (p # <<>> => Len(p) >= 1)
    OBVIOUS
  <2> QED
    BY <1>2, <2>1, <2>2, <2>3
<1>3. CASE ~(p # <<>> /\ p[Len(p)] = x) /\ ~(Len(p) < 3)
  <2>1. Last3(p, x) = Append(Tail(p), x)
    BY <1>3 DEF Last3
  <2>2. Len(p) \in Nat /\ Len(p) >= 3 /\ p # <<>>
    BY <1>3
  <2>3. Tail(p) \in Seq(Int) /\ Len(Tail(p)) = Len(p) - 1 /\ \A k \in 1..(Len(p) - 1) : Tail(p)[k] = p[k + 1]
    BY <2>2
  <2> DEFINE t == Tail(p)
  <2>4. t \in Seq(Int) /\ Len(t) = Len(p) - 1
    BY <2>3
  <2> HIDE DEF t
  <2>5. Append(t, x) \in Seq(Int) /\ Len(Append(t, x)) = Len(p) /\ Append(t, x)[Len(p)] = x
        /\ \A k \in 1..(Len(p) - 1) : Append(t, x)[k] = t[k]
    BY <2>2, <2>4
  <2>6. t[Len(p) - 1] = p[Len(p)] /\ t[Len(p) - 2] = p[Len(p) - 1]
    BY <2>2, <2>3 DEF t
  <2>7. Last3(p, x) = Append(t, x)
    BY <2>1 DEF t
  <2>8. /\ Append(t, x)[Len(p) - 1] = p[Len(p)]
        /\ Append(t, x)[Len(p) - 2] = p[Len(p) - 1]
    BY <2>2, <2>5, <2>6, SMTT(30)
  <2> DEFINE q == Append(t, x)
  <2>9. /\ q \in Seq(Int) /\ Len(q) = Len(p) /\ q[Len(p)] = x
        /\ q[Len(p) - 1] = p[Len(p)] /\ q[Len(p) - 2] = p[Len(p) - 1] /\ Last3(p, x) = q
    BY <2>5, <2>7, <2>8
  <2> HIDE DEF q
  <2>10. p[Len(p)] # x
    BY <1>3, <2>2
  <2>11. Len(q) - 1 = Len(p) - 1 /\ Len(q) - 2 = Len(p) - 2 /\ Len(q) >= 3 /\ Len(q) >= 2 /\ Len(q) >= 1
         /\ (Len(p) <= 3 => Len(q) <= 3)
    BY <2>2, <2>9
  <2> QED
    BY <2>9, <2>10, <2>11, Zenon
<1> QED
  BY <1>1, <1>2, <1>3

\* A run of lines is no longer than asked for, begins where asked, and stays in the page.
LEMMA RunInPage ==
  ASSUME NEW offset \in Int, NEW step \in Int, NEW from \in {0, 1}, NEW to \in Int, to >= from - 1
  PROVE  /\ Len(Run(offset, step, from, to)) <= to - from + 1
         /\ \A k \in DOMAIN Run(offset, step, from, to) : InPage(Run(offset, step, from, to)[k])
         /\ Run(offset, step, from, to) # <<>> => Run(offset, step, from, to)[1] = offset + from * step
<1> DEFINE out == {k \in from..to : ~InPage(offset + k * step)}
           last == IF out = {} THEN to ELSE Min(out) - 1
           n == last - from + 1
           r == [k \in 1..n |-> offset + (from + k - 1) * step]
<1>1. Run(offset, step, from, to) = r
  BY DEF Run
<1>2. out \subseteq Nat
  OBVIOUS
<1>3. out # {} => Min(out) \in out /\ \A y \in out : Min(out) <= y
  BY <1>2, LeastNatural
<1>4. /\ last \in Int /\ last <= to /\ last >= from - 1
      /\ \A j \in from..last : j \in from..to /\ j \notin out
  <2>1. CASE out = {}
    <3>1. last = to
      BY <2>1
    <3>2. \A j \in from..to : j \notin out
      BY <2>1
    <3> HIDE DEF last, out
    <3> QED
      BY <3>1, <3>2
  <2>2. CASE out # {}
    <3>1. Min(out) \in from..to
      BY <1>3, <2>2
    <3>2. last = Min(out) - 1
      BY <2>2
    <3> HIDE DEF last
    <3>3. \A j \in from..last : j < Min(out) /\ j \in from..to
      BY <3>1, <3>2
    <3>4. \A y \in out : ~(y < Min(out))
      <4> TAKE y \in out
      <4>1. y \in Nat /\ Min(out) \in Nat /\ Min(out) <= y
        BY <1>2, <1>3, <2>2
      <4> HIDE DEF out
      <4> QED
        BY <4>1
    <3> QED
      BY <3>1, <3>2, <3>3, <3>4
  <2> QED
    BY <2>1, <2>2
<1>5. \A j \in from..last : InPage(offset + j * step)
  BY <1>4
<1> HIDE DEF last
<1>6. n \in Nat /\ n <= to - from + 1
  BY <1>4
<1>7. DOMAIN r = 1..n /\ Len(r) = n
  BY <1>6
<1>8. \A k \in 1..n : from + k - 1 \in from..last
  BY <1>4
<1>9. \A k \in 1..n : r[k] = offset + (from + k - 1) * step
  OBVIOUS
<1>10. \A k \in 1..n : InPage(r[k])
  BY <1>5, <1>8, <1>9
<1>11. r # <<>> => r[1] = offset + from * step
  <2> SUFFICES ASSUME r # <<>> PROVE r[1] = offset + from * step
    OBVIOUS
  <2>1. n >= 1
    <3> SUFFICES ASSUME n = 0 PROVE FALSE
      BY <1>6
    <3>1. r = <<>>
      BY <1>7
    <3> QED
      BY <3>1
  <2>2. r[1] = offset + (from + 1 - 1) * step
    BY <2>1, <1>6, <1>9
  <2>3. from + 1 - 1 = from
    OBVIOUS
  <2> QED
    BY <2>2, <2>3
<1> QED
  BY <1>1, <1>6, <1>7, <1>10, <1>11

\* A run of lines that begins with the line accessed stays in its page and within its degree.
LEMMA RunFromHere ==
  ASSUME NEW offset \in Int, NEW step \in Int, NEW d \in Int, d >= 0 - 1
  PROVE  /\ Len(Run(offset, step, 0, d)) <= d - 0 + 1
         /\ \A k \in DOMAIN Run(offset, step, 0, d) : InPage(Run(offset, step, 0, d)[k])
<1>1. 0 \in {0, 1} /\ 0 \in Int
  OBVIOUS
<1> QED
  BY <1>1, RunInPage

\* t is s without its element i, if it has one.
Without(t, s, i) ==
  \A j \in 1..Len(t) : /\ j < i => j <= Len(s) /\ t[j] = s[j]
                       /\ j >= i => j + 1 <= Len(s) /\ t[j] = s[j + 1]

\* What the tables of trackers do when one leaves.
LEMMA OneLeaves ==
  ASSUME NEW S, NEW s \in Seq(S)
  PROVE  /\ Without(s, s, Len(s) + 1)
         /\ s # <<>> => Tail(s) \in Seq(S) /\ Without(Tail(s), s, 1)
         /\ s # <<>> => Front(s) \in Seq(S) /\ Without(Front(s), s, Len(s))
         /\ \A i \in 1..Len(s) : RemoveAt(s, i) \in Seq(S) /\ Without(RemoveAt(s, i), s, i)
<1>1. Without(s, s, Len(s) + 1)
  BY DEF Without
<1>2. s # <<>> => Tail(s) \in Seq(S) /\ Without(Tail(s), s, 1)
  <2> SUFFICES ASSUME s # <<>> PROVE Tail(s) \in Seq(S) /\ Without(Tail(s), s, 1)
    OBVIOUS
  <2>1. Tail(s) \in Seq(S) /\ Len(Tail(s)) = Len(s) - 1 /\ \A k \in 1..(Len(s) - 1) : Tail(s)[k] = s[k + 1]
    OBVIOUS
  <2> QED
    BY <2>1 DEF Without
<1>3. s # <<>> => Front(s) \in Seq(S) /\ Without(Front(s), s, Len(s))
  <2> SUFFICES ASSUME s # <<>> PROVE Front(s) \in Seq(S) /\ Without(Front(s), s, Len(s))
    OBVIOUS
  <2>1. Front(s) \in Seq(S) /\ Len(Front(s)) = Len(s) - 1 /\ \A k \in 1..(Len(s) - 1) : Front(s)[k] = s[k]
    <3>1. Len(s) \in Nat /\ Len(s) - 1 \in Nat /\ Len(s) - 1 <= Len(s)
      OBVIOUS
    <3>2. ASSUME NEW m \in 1..Len(s)
          PROVE  /\ SubSeq(s, 1, m - 1) \in Seq(S) /\ Len(SubSeq(s, 1, m - 1)) = m - 1
                 /\ \A k \in 1..(m - 1) : SubSeq(s, 1, m - 1)[k] = s[k]
      OBVIOUS
    <3>3. Len(s) \in 1..Len(s)
      BY <3>1
    <3> QED
      BY <3>2, <3>3 DEF Front
  <2> QED
    BY <2>1 DEF Without
<1>4. ASSUME NEW i \in 1..Len(s) PROVE RemoveAt(s, i) \in Seq(S) /\ Without(RemoveAt(s, i), s, i)
  <2>1. /\ RemoveAt(s, i) \in Seq(S) /\ Len(RemoveAt(s, i)) = Len(s) - 1
        /\ \A k \in 1..(i - 1) : RemoveAt(s, i)[k] = s[k]
        /\ \A k \in i..(Len(s) - 1) : RemoveAt(s, i)[k] = s[k + 1]
    BY TakenOut
  <2> HIDE DEF RemoveAt
  <2> QED
    BY <2>1 DEF Without
<1> QED
  BY <1>1, <1>2, <1>3, <1>4

-----------------------------------------------------------------------------
(***************************************************************************)
(* The streamer and its trackers.                                          *)
(***************************************************************************)

KnownPage == {a.page : a \in Access}
KnownPc == {a.pc : a \in Access}

PathTyped ==
  /\ path.page \in [KnownPage -> Seq(Int)] /\ \A x \in KnownPage : Len(path.page[x]) <= 3
  /\ path.pc \in [KnownPc -> Seq(Int)] /\ \A x \in KnownPc : Len(path.pc[x]) <= 3
  /\ path = [page |-> path.page, pc |-> path.pc]

StreamTracker == [page : KnownPage, last_offset : Int, last_dir : {-1, 0, 1}]

\* A tracker knows the last line of the path p, and the last move if it says so.
OnStream(t, p) ==
  /\ Len(p) >= 1 /\ p[Len(p)] = t.last_offset
  /\ t.last_dir = 1 => Len(p) >= 2 /\ p[Len(p) - 1] < p[Len(p)]
  /\ t.last_dir = -1 => Len(p) >= 2 /\ p[Len(p) - 1] > p[Len(p)]

StreamsTrue ==
  /\ streams \in Seq(StreamTracker)
  /\ \A i, j \in 1..Len(streams) : streams[i].page = streams[j].page => i = j
  /\ \A i \in 1..Len(streams) : OnStream(streams[i], path.page[streams[i].page])

\* A page has one tracker: where it is found.
LEMMA StreamFound ==
  ASSUME NEW S, NEW s \in Seq(S), NEW x
  PROVE  LET i == SelectInSeq(s, LAMBDA t : t.page = x) IN
         /\ i = 0 => \A j \in 1..Len(s) : s[j].page # x
         /\ i # 0 => i \in 1..Len(s) /\ s[i].page = x
<1> DEFINE I == {i \in 1..Len(s) : s[i].page = x}
<1>1. SelectInSeq(s, LAMBDA t : t.page = x) = IF I # {} THEN Min(I) ELSE 0
  BY DEF SelectInSeq
<1>2. I \subseteq Nat
  OBVIOUS
<1>3. I # {} => Min(I) \in I
  BY <1>2, LeastNatural
<1>4. I # {} => Min(I) \in 1..Len(s) /\ s[Min(I)].page = x /\ Min(I) # 0
  BY <1>3
<1> QED
  BY <1>1, <1>4

\* The trackers that stay and a new one of the page of the access.
LEMMA StreamJoins ==
  ASSUME StreamsTrue, NEW b \in Seq(StreamTracker), NEW i \in Nat, Without(b, streams, i),
         NEW n \in StreamTracker, \A j \in 1..Len(b) : b[j].page # n.page,
         streams' = Append(b, n),
         OnStream(n, path'.page[n.page]),
         \A x \in KnownPage \ {n.page} : path'.page[x] = path.page[x]
  PROVE  StreamsTrue'
<1>1. /\ streams \in Seq(StreamTracker)
      /\ \A k, j \in 1..Len(streams) : streams[k].page = streams[j].page => k = j
      /\ \A k \in 1..Len(streams) : OnStream(streams[k], path.page[streams[k].page])
  BY DEF StreamsTrue
<1>2. /\ streams' \in Seq(StreamTracker) /\ Len(streams') = Len(b) + 1 /\ streams'[Len(b) + 1] = n
      /\ \A k \in 1..Len(b) : streams'[k] = b[k]
  OBVIOUS
<1>3. \A k \in 1..Len(b) : \E j \in 1..Len(streams) : b[k] = streams[j] /\ (k < i => j = k) /\ (k >= i => j = k + 1)
  BY <1>1 DEF Without
<1>4. \A k, j \in 1..Len(b) : b[k].page = b[j].page => k = j
  <2> SUFFICES ASSUME NEW k \in 1..Len(b), NEW j \in 1..Len(b), b[k].page = b[j].page PROVE k = j
    OBVIOUS
  <2>1. PICK kk \in 1..Len(streams) : b[k] = streams[kk] /\ (k < i => kk = k) /\ (k >= i => kk = k + 1)
    BY <1>3
  <2>2. PICK jj \in 1..Len(streams) : b[j] = streams[jj] /\ (j < i => jj = j) /\ (j >= i => jj = j + 1)
    BY <1>3
  <2>3. kk = jj
    BY <1>1, <2>1, <2>2
  <2> QED
    BY <2>1, <2>2, <2>3
<1>5. \A k \in 1..Len(b) : b[k] \in StreamTracker /\ b[k].page \in KnownPage
  <2>1. \A k \in 1..Len(b) : b[k] \in StreamTracker
    OBVIOUS
  <2>2. \A t \in StreamTracker : t.page \in KnownPage
    BY DEF StreamTracker
  <2> QED
    BY <2>1, <2>2
<1>6. \A k \in 1..Len(b) : OnStream(b[k], path'.page[b[k].page])
  BY <1>1, <1>3, <1>5
<1>7. \A k \in 1..Len(streams') : k \in 1..Len(b) \/ k = Len(b) + 1
  BY <1>2
<1>8. \A k, j \in 1..Len(streams') : streams'[k].page = streams'[j].page => k = j
  BY <1>2, <1>4, <1>7
<1>9. \A k \in 1..Len(streams') : OnStream(streams'[k], path'.page[streams'[k].page])
  BY <1>2, <1>6, <1>7
<1> QED
  BY <1>2, <1>8, <1>9 DEF StreamsTrue

\* A counter of three values at its top.
LEMMA Three == \A n \in Nat : n <= 3 /\ n >= 3 => n = 3
OBVIOUS

\* One less, counted back.
LEMMA OneLess == \A n \in Nat : (n - 1) + 1 = n /\ (n - 1) - 0 + 1 = n
                              /\ n - 1 \in Int /\ n - 1 >= 0 - 1
OBVIOUS

\* What one access does to the trackers of the streamer, and what is fetched.
LEMMA StreamerTrue ==
  ASSUME PathTyped, StreamsTrue, NEW a \in Access, a.offset \in Int,
         streamer_pref_degree' \in Nat,
         streams' = Streamer(a).table,
         path'.page = [path.page EXCEPT ![a.page] = Last3(path.page[a.page], a.offset)]
  PROVE  /\ StreamsTrue'
         /\ Len(Streamer(a).lines) <= streamer_pref_degree'
         /\ \A k \in DOMAIN Streamer(a).lines : InPage(Streamer(a).lines[k])
         /\ Streamer(a).lines # <<>> =>
              LET p == path'.page[a.page] IN
              /\ Len(p) = 3
              /\ \/ p[1] < p[2] /\ p[2] < p[3] /\ Streamer(a).lines[1] = p[3] + 1
                 \/ p[1] > p[2] /\ p[2] > p[3] /\ Streamer(a).lines[1] = p[3] - 1
<1> DEFINE i == SelectInSeq(streams, LAMBDA t : t.page = a.page)
           t == streams[i]
           dir == IF a.offset > t.last_offset THEN 1 ELSE -1
           p == path.page[a.page]
           q == Last3(p, a.offset)
           kept == IF Len(streams) >= streamer_num_trackers THEN Tail(streams) ELSE streams
           fresh == [page |-> a.page, last_offset |-> a.offset, last_dir |-> 0]
           moved == [page |-> a.page, last_offset |-> a.offset, last_dir |-> dir]
           ahead == Run(a.offset, dir, 1, streamer_pref_degree')
           nothing == << >>
<1>1. a.page \in KnownPage
  BY DEF KnownPage
<1>2. /\ streams \in Seq(StreamTracker)
      /\ \A k, j \in 1..Len(streams) : streams[k].page = streams[j].page => k = j
      /\ \A k \in 1..Len(streams) : OnStream(streams[k], path.page[streams[k].page])
  BY DEF StreamsTrue
<1>3. p \in Seq(Int) /\ Len(p) <= 3 /\ Len(p) \in Nat
  BY <1>1 DEF PathTyped
<1>4. /\ i = 0 => \A j \in 1..Len(streams) : streams[j].page # a.page
      /\ i # 0 => i \in 1..Len(streams) /\ streams[i].page = a.page
  BY <1>2, StreamFound
<1>5. /\ path'.page[a.page] = q
      /\ \A x \in KnownPage \ {a.page} : path'.page[x] = path.page[x]
  BY <1>1 DEF PathTyped
<1>6. Streamer(a) =
        IF i = 0 THEN [table |-> Append(kept, fresh), lines |-> nothing]
        ELSE IF a.offset = t.last_offset THEN [table |-> streams, lines |-> nothing]
        ELSE [table |-> Append(RemoveAt(streams, i), moved),
              lines |-> IF DirMatch(t, dir) THEN ahead ELSE nothing]
  BY DEF Streamer
<1> HIDE DEF i, p
<1>7. /\ q \in Seq(Int) /\ Len(q) >= 1 /\ q[Len(q)] = a.offset /\ Len(q) <= 3
      /\ p # <<>> /\ p[Len(p)] = a.offset => q = p
      /\ p # <<>> /\ p[Len(p)] # a.offset => Len(q) >= 2 /\ q[Len(q) - 1] = p[Len(p)]
      /\ Len(p) >= 2 /\ p[Len(p)] # a.offset => Len(q) >= 3 /\ q[Len(q) - 2] = p[Len(p) - 1]
  BY <1>3, LastThree, Zenon DEF q
<1> HIDE DEF q, kept, ahead, nothing
<1>11. Len(q) \in Nat /\ Len(q) <= 3
  BY <1>7
<1>8. CASE i = 0
  <2>1. streams' = Append(kept, fresh) /\ Streamer(a).lines = nothing
    BY <1>6, <1>8
  <2>2. fresh \in StreamTracker /\ fresh.page = a.page
    BY <1>1 DEF StreamTracker
  <2>3. OnStream(fresh, path'.page[fresh.page])
    BY <1>5, <1>7 DEF OnStream
  <2>4. kept \in Seq(StreamTracker) /\ \E k \in Nat : Without(kept, streams, k)
    <3>1. CASE Len(streams) >= streamer_num_trackers
      <4>1. kept = Tail(streams)
        BY <3>1 DEF kept
      <4>2. streams # <<>>
        BY <1>2, <3>1, Power7Assumption
      <4> QED
        BY <1>2, <4>1, <4>2, OneLeaves
    <3>2. CASE ~(Len(streams) >= streamer_num_trackers)
      <4>1. kept = streams
        BY <3>2 DEF kept
      <4>2. Len(streams) + 1 \in Nat
        BY <1>2
      <4> QED
        BY <1>2, <4>1, <4>2, OneLeaves
    <3> QED
      BY <3>1, <3>2
  <2>5. PICK k \in Nat : Without(kept, streams, k)
    BY <2>4
  <2>6. \A j \in 1..Len(kept) : kept[j].page # a.page
    <3>1. \A j \in 1..Len(kept) : \E l \in 1..Len(streams) : kept[j] = streams[l]
      BY <1>2, <2>4, <2>5 DEF Without
    <3> QED
      BY <1>4, <1>8, <3>1
  <2> HIDE DEF fresh
  <2>7. StreamsTrue'
    BY <1>5, <2>1, <2>2, <2>3, <2>4, <2>5, <2>6, StreamJoins
  <2> QED
    BY <2>1, <2>7 DEF nothing
<1>9. CASE i # 0 /\ a.offset = t.last_offset
  <2>1. streams' = streams /\ Streamer(a).lines = nothing
    BY <1>6, <1>9
  <2>0. OnStream(t, p)
    BY <1>2, <1>4, <1>9 DEF p
  <2>2. OnStream(t, p) /\ p # <<>>
    BY <1>3, <2>0 DEF OnStream
  <2>3. q = p
    BY <1>7, <1>9, <2>2 DEF OnStream
  <2>4. path'.page[a.page] = path.page[a.page]
    BY <1>5, <2>3 DEF p
  <2>5. \A x \in KnownPage : path'.page[x] = path.page[x]
    BY <1>5, <2>4
  <2>6. \A j \in 1..Len(streams) : streams[j].page \in KnownPage
    <3>1. \A j \in 1..Len(streams) : streams[j] \in StreamTracker
      BY <1>2
    <3>2. \A x \in StreamTracker : x.page \in KnownPage
      BY DEF StreamTracker
    <3> QED
      BY <3>1, <3>2
  <2>7. StreamsTrue'
    BY <1>2, <2>1, <2>5, <2>6 DEF StreamsTrue
  <2> QED
    BY <2>1, <2>7 DEF nothing
<1>10. CASE i # 0 /\ a.offset # t.last_offset
  <2>1. streams' = Append(RemoveAt(streams, i), moved)
        /\ Streamer(a).lines = IF DirMatch(t, dir) THEN ahead ELSE nothing
    BY <1>6, <1>10
  <2>2. i \in 1..Len(streams) /\ streams[i].page = a.page /\ i \in Nat
    BY <1>4, <1>10
  <2>3. t \in StreamTracker
    BY <1>2, <2>2
  <2>4. t.last_offset \in Int /\ t.last_dir \in {-1, 0, 1}
    BY <2>3 DEF StreamTracker
  <2>5. OnStream(t, p) /\ p # <<>> /\ p[Len(p)] = t.last_offset
    <3>1. OnStream(t, p)
      BY <1>2, <2>2 DEF p
    <3> QED
      BY <1>3, <3>1 DEF OnStream
  <2>6. Len(q) >= 2 /\ q[Len(q) - 1] = t.last_offset /\ q[Len(q)] = a.offset
    BY <1>7, <1>10, <2>5
  <2>7. dir \in {-1, 1} /\ (dir = 1 => t.last_offset < a.offset) /\ (dir = -1 => t.last_offset > a.offset)
    BY <1>10, <2>4
  <2> HIDE DEF t, dir
  <2>8. moved \in StreamTracker /\ moved.page = a.page
    BY <1>1, <2>7 DEF StreamTracker
  <2>9. OnStream(moved, path'.page[moved.page])
    BY <1>5, <1>7, <2>6, <2>7 DEF OnStream
  <2>10. RemoveAt(streams, i) \in Seq(StreamTracker) /\ Without(RemoveAt(streams, i), streams, i)
    BY <1>2, <2>2, OneLeaves
  <2> DEFINE b == RemoveAt(streams, i)
  <2>11. b \in Seq(StreamTracker) /\ Without(b, streams, i) /\ streams' = Append(b, moved)
    BY <2>1, <2>10
  <2> HIDE DEF b, moved
  <2>12. \A j \in 1..Len(b) : b[j].page # moved.page
    <3> SUFFICES ASSUME NEW j \in 1..Len(b) PROVE b[j].page # a.page
      BY <2>8
    <3>1. \E l \in 1..Len(streams) : b[j] = streams[l] /\ l # i
      BY <1>2, <2>2, <2>11 DEF Without
    <3> QED
      BY <1>2, <2>2, <3>1
  <2>13. StreamsTrue'
    BY <1>5, <2>2, <2>8, <2>9, <2>11, <2>12, StreamJoins
  <2>14. CASE ~DirMatch(t, dir)
    BY <2>1, <2>13, <2>14 DEF nothing
  <2>15. CASE DirMatch(t, dir)
    <3>1. Streamer(a).lines = ahead /\ dir = t.last_dir
      BY <2>1, <2>15 DEF DirMatch
    <3>2. dir \in Int /\ 1 * dir = dir
      BY <2>7
    <3>3. streamer_pref_degree' \in Int /\ streamer_pref_degree' >= 1 - 1
      OBVIOUS
    <3>4. /\ Len(ahead) <= streamer_pref_degree' - 1 + 1
          /\ \A k \in DOMAIN ahead : InPage(ahead[k])
          /\ ahead # <<>> => ahead[1] = a.offset + 1 * dir
      BY <3>2, <3>3, RunInPage DEF ahead
    <3>5. streamer_pref_degree' - 1 + 1 = streamer_pref_degree'
      BY OneLess
    <3>6. Len(p) >= 2 /\ Len(q) = 3 /\ q[1] = p[Len(p) - 1] /\ q[2] = p[Len(p)] /\ q[3] = a.offset
      <4>1. Len(p) >= 2
        BY <2>5, <2>7, <3>1 DEF OnStream
      <4>2. Len(q) >= 3 /\ q[Len(q) - 2] = p[Len(p) - 1]
        BY <1>7, <1>10, <2>5, <4>1
      <4>3. Len(q) = 3
        BY <1>11, <4>2, Three, Zenon
      <4> QED
        BY <2>5, <2>6, <4>1, <4>2, <4>3
    <3>7. /\ dir = 1 => p[Len(p) - 1] < p[Len(p)]
          /\ dir = -1 => p[Len(p) - 1] > p[Len(p)]
      BY <2>5, <3>1 DEF OnStream
    <3>8. /\ dir = 1 => q[1] < q[2] /\ q[2] < q[3]
          /\ dir = -1 => q[1] > q[2] /\ q[2] > q[3]
      BY <2>5, <2>7, <3>6, <3>7
    <3>9. /\ dir = 1 => a.offset + 1 * dir = q[3] + 1
          /\ dir = -1 => a.offset + 1 * dir = q[3] - 1
      BY <3>6
    <3>10. ahead # <<>> =>
             \/ q[1] < q[2] /\ q[2] < q[3] /\ ahead[1] = q[3] + 1
             \/ q[1] > q[2] /\ q[2] > q[3] /\ ahead[1] = q[3] - 1
      BY <2>7, <3>4, <3>8, <3>9
    <3> QED
      BY <1>5, <2>13, <3>1, <3>4, <3>5, <3>6, <3>10
  <2> QED
    BY <2>14, <2>15
<1> QED
  BY <1>8, <1>9, <1>10

-----------------------------------------------------------------------------
(***************************************************************************)
(* The stride prefetcher and its trackers.                                 *)
(***************************************************************************)

StrideTracker == [pc : KnownPc, last_cl_addr : Int, last_stride : Int]

\* A tracker knows the last line of the path p, and the last stride if it has one.
OnStride(t, p) ==
  /\ Len(p) >= 1 /\ p[Len(p)] = t.last_cl_addr
  /\ t.last_stride # 0 => Len(p) >= 2 /\ p[Len(p)] - p[Len(p) - 1] = t.last_stride

StridesTrue ==
  /\ strides \in Seq(StrideTracker)
  /\ \A i, j \in 1..Len(strides) : strides[i].pc = strides[j].pc => i = j
  /\ \A i \in 1..Len(strides) : OnStride(strides[i], path.pc[strides[i].pc])

\* An instruction has one tracker: where it is found.
LEMMA StrideFound ==
  ASSUME NEW S, NEW s \in Seq(S), NEW x
  PROVE  LET i == SelectInSeq(s, LAMBDA t : t.pc = x) IN
         /\ i = 0 => \A j \in 1..Len(s) : s[j].pc # x
         /\ i # 0 => i \in 1..Len(s) /\ s[i].pc = x
<1> DEFINE I == {i \in 1..Len(s) : s[i].pc = x}
<1>1. SelectInSeq(s, LAMBDA t : t.pc = x) = IF I # {} THEN Min(I) ELSE 0
  BY DEF SelectInSeq
<1>2. I \subseteq Nat
  OBVIOUS
<1>3. I # {} => Min(I) \in I
  BY <1>2, LeastNatural
<1>4. I # {} => Min(I) \in 1..Len(s) /\ s[Min(I)].pc = x /\ Min(I) # 0
  BY <1>3
<1> QED
  BY <1>1, <1>4

\* A new tracker in front of the trackers that stay.
LEMMA StrideJoins ==
  ASSUME StridesTrue, NEW b \in Seq(StrideTracker), NEW i \in Nat, Without(b, strides, i),
         NEW n \in StrideTracker, \A j \in 1..Len(b) : b[j].pc # n.pc,
         strides' = <<n>> \o b,
         OnStride(n, path'.pc[n.pc]),
         \A x \in KnownPc \ {n.pc} : path'.pc[x] = path.pc[x]
  PROVE  StridesTrue'
<1>1. /\ strides \in Seq(StrideTracker)
      /\ \A k, j \in 1..Len(strides) : strides[k].pc = strides[j].pc => k = j
      /\ \A k \in 1..Len(strides) : OnStride(strides[k], path.pc[strides[k].pc])
  BY DEF StridesTrue
<1>2. /\ strides' \in Seq(StrideTracker) /\ Len(strides') = Len(b) + 1 /\ strides'[1] = n
      /\ \A k \in 2..(Len(b) + 1) : strides'[k] = b[k - 1]
  BY InFront
<1>3. \A k \in 1..Len(b) : \E j \in 1..Len(strides) : b[k] = strides[j] /\ (k < i => j = k) /\ (k >= i => j = k + 1)
  <2> TAKE k \in 1..Len(b)
  <2>1. /\ k < i => k <= Len(strides) /\ b[k] = strides[k]
        /\ k >= i => k + 1 <= Len(strides) /\ b[k] = strides[k + 1]
    BY DEF Without
  <2>2. Len(strides) \in Nat /\ k \in Nat /\ k >= 1
    BY <1>1
  <2>3. CASE k < i
    <3>1. k \in 1..Len(strides)
      BY <2>1, <2>2, <2>3
    <3> QED
      BY <2>1, <2>2, <2>3, <3>1
  <2>4. CASE k >= i
    <3>1. k + 1 \in 1..Len(strides)
      BY <2>1, <2>2, <2>4
    <3> QED
      BY <2>1, <2>2, <2>4, <3>1
  <2> QED
    BY <2>2, <2>3, <2>4
<1>4. \A k, j \in 1..Len(b) : b[k].pc = b[j].pc => k = j
  <2> SUFFICES ASSUME NEW k \in 1..Len(b), NEW j \in 1..Len(b), b[k].pc = b[j].pc PROVE k = j
    OBVIOUS
  <2>1. PICK kk \in 1..Len(strides) : b[k] = strides[kk] /\ (k < i => kk = k) /\ (k >= i => kk = k + 1)
    BY <1>3
  <2>2. PICK jj \in 1..Len(strides) : b[j] = strides[jj] /\ (j < i => jj = j) /\ (j >= i => jj = j + 1)
    BY <1>3
  <2>3. kk = jj
    BY <1>1, <2>1, <2>2
  <2> QED
    BY <2>1, <2>2, <2>3
<1>5. \A k \in 1..Len(b) : b[k] \in StrideTracker /\ b[k].pc \in KnownPc
  <2>1. \A k \in 1..Len(b) : b[k] \in StrideTracker
    OBVIOUS
  <2>2. \A t \in StrideTracker : t.pc \in KnownPc
    BY DEF StrideTracker
  <2> QED
    BY <2>1, <2>2
<1>6. \A k \in 1..Len(b) : OnStride(b[k], path'.pc[b[k].pc])
  <2> TAKE k \in 1..Len(b)
  <2>1. PICK j \in 1..Len(strides) : b[k] = strides[j]
    BY <1>3
  <2>2. OnStride(b[k], path.pc[b[k].pc])
    BY <1>1, <2>1
  <2>3. path'.pc[b[k].pc] = path.pc[b[k].pc]
    BY <1>5
  <2> QED
    BY <2>2, <2>3
<1>7. \A k \in 1..Len(strides') : k = 1 \/ (k \in 2..(Len(b) + 1) /\ k - 1 \in 1..Len(b))
  BY <1>2
<1>8. \A k, j \in 1..Len(strides') : strides'[k].pc = strides'[j].pc => k = j
  <2> SUFFICES ASSUME NEW k \in 1..Len(strides'), NEW j \in 1..Len(strides'), strides'[k].pc = strides'[j].pc
               PROVE  k = j
    OBVIOUS
  <2>1. CASE k = 1 /\ j # 1
    BY <1>2, <1>7, <2>1
  <2>2. CASE k # 1 /\ j = 1
    BY <1>2, <1>7, <2>2
  <2>3. CASE k # 1 /\ j # 1
    <3>1. k - 1 \in 1..Len(b) /\ j - 1 \in 1..Len(b) /\ strides'[k] = b[k - 1] /\ strides'[j] = b[j - 1]
      BY <1>2, <1>7, <2>3
    <3>2. k - 1 = j - 1
      BY <1>4, <3>1
    <3> QED
      BY <3>2
  <2> QED
    BY <2>1, <2>2, <2>3
<1>9. \A k \in 1..Len(strides') : OnStride(strides'[k], path'.pc[strides'[k].pc])
  BY <1>2, <1>6, <1>7
<1> QED
  BY <1>2, <1>8, <1>9 DEF StridesTrue

\* What one access does to the trackers of the stride prefetcher, and what is fetched.
LEMMA StrideTrue ==
  ASSUME PathTyped, StridesTrue, NEW a \in Access, a.offset \in Int, NEW line \in Int,
         line = a.page * PAGE_LINES + a.offset,
         stride_pref_degree' \in Nat,
         strides' = Stride(a).table,
         path'.pc = [path.pc EXCEPT ![a.pc] = Last3(path.pc[a.pc], line)]
  PROVE  /\ StridesTrue'
         /\ Len(Stride(a).lines) <= stride_pref_degree'
         /\ \A k \in DOMAIN Stride(a).lines : InPage(Stride(a).lines[k])
         /\ Stride(a).lines # <<>> =>
              LET p == path'.pc[a.pc] IN
              Len(p) = 3 /\ p[2] - p[1] = p[3] - p[2]
<1> DEFINE i == SelectInSeq(strides, LAMBDA t : t.pc = a.pc)
           t == strides[i]
           step == line - t.last_cl_addr
           p == path.pc[a.pc]
           q == Last3(p, line)
           kept == IF Len(strides) >= stride_num_trackers THEN Front(strides) ELSE strides
           fresh == [pc |-> a.pc, last_cl_addr |-> line, last_stride |-> 0]
           moved == [pc |-> a.pc, last_cl_addr |-> line, last_stride |-> step]
           ahead == Run(a.offset, step, 0, stride_pref_degree' - 1)
           nothing == << >>
<1>1. a.pc \in KnownPc
  BY DEF KnownPc
<1>2. /\ strides \in Seq(StrideTracker)
      /\ \A k, j \in 1..Len(strides) : strides[k].pc = strides[j].pc => k = j
      /\ \A k \in 1..Len(strides) : OnStride(strides[k], path.pc[strides[k].pc])
  BY DEF StridesTrue
<1>3. p \in Seq(Int) /\ Len(p) <= 3 /\ Len(p) \in Nat
  BY <1>1 DEF PathTyped
<1>4. /\ i = 0 => \A j \in 1..Len(strides) : strides[j].pc # a.pc
      /\ i # 0 => i \in 1..Len(strides) /\ strides[i].pc = a.pc
  BY <1>2, StrideFound
<1>5. /\ path'.pc[a.pc] = q
      /\ \A x \in KnownPc \ {a.pc} : path'.pc[x] = path.pc[x]
  BY <1>1 DEF PathTyped
<1>6. Stride(a) =
        IF i = 0 THEN [table |-> <<fresh>> \o kept, lines |-> nothing]
        ELSE IF step = 0 THEN [table |-> strides, lines |-> nothing]
        ELSE [table |-> <<moved>> \o RemoveAt(strides, i),
              lines |-> IF step = t.last_stride THEN ahead ELSE nothing]
  BY DEF Stride, Cons
<1> HIDE DEF i, p
<1>7. /\ q \in Seq(Int) /\ Len(q) >= 1 /\ q[Len(q)] = line /\ Len(q) <= 3
      /\ p # <<>> /\ p[Len(p)] = line => q = p
      /\ p # <<>> /\ p[Len(p)] # line => Len(q) >= 2 /\ q[Len(q) - 1] = p[Len(p)]
      /\ Len(p) >= 2 /\ p[Len(p)] # line => Len(q) >= 3 /\ q[Len(q) - 2] = p[Len(p) - 1]
  BY <1>3, LastThree, Zenon DEF q
<1> HIDE DEF q, kept, ahead, nothing
<1>11. Len(q) \in Nat /\ Len(q) <= 3
  BY <1>7
<1>8. CASE i = 0
  <2>1. strides' = <<fresh>> \o kept /\ Stride(a).lines = nothing
    BY <1>6, <1>8
  <2>2. fresh \in StrideTracker /\ fresh.pc = a.pc
    BY <1>1 DEF StrideTracker
  <2>3. OnStride(fresh, path'.pc[fresh.pc])
    BY <1>5, <1>7 DEF OnStride
  <2>4. kept \in Seq(StrideTracker) /\ \E k \in Nat : Without(kept, strides, k)
    <3>1. CASE Len(strides) >= stride_num_trackers
      <4>1. kept = Front(strides)
        BY <3>1 DEF kept
      <4>2. strides # <<>> /\ Len(strides) \in Nat
        BY <1>2, <3>1, Power7Assumption
      <4> QED
        BY <1>2, <4>1, <4>2, OneLeaves
    <3>2. CASE ~(Len(strides) >= stride_num_trackers)
      <4>1. kept = strides
        BY <3>2 DEF kept
      <4>2. Len(strides) + 1 \in Nat
        BY <1>2
      <4> QED
        BY <1>2, <4>1, <4>2, OneLeaves
    <3> QED
      BY <3>1, <3>2
  <2>5. PICK k \in Nat : Without(kept, strides, k)
    BY <2>4
  <2>6. \A j \in 1..Len(kept) : kept[j].pc # a.pc
    <3>1. \A j \in 1..Len(kept) : \E l \in 1..Len(strides) : kept[j] = strides[l]
      BY <1>2, <2>4, <2>5 DEF Without
    <3> QED
      BY <1>4, <1>8, <3>1
  <2> HIDE DEF fresh
  <2>7. StridesTrue'
    <3>1. StridesTrue /\ \A j \in 1..Len(kept) : kept[j].pc # fresh.pc
      BY <1>1, <2>2, <2>6
    <3>2. \A x \in KnownPc \ {fresh.pc} : path'.pc[x] = path.pc[x]
      BY <1>5, <2>2
    <3> QED
      BY <2>1, <2>2, <2>3, <2>4, <2>5, <3>1, <3>2, StrideJoins
  <2> QED
    BY <2>1, <2>7 DEF nothing
<1>9. CASE i # 0 /\ step = 0
  <2>1. strides' = strides /\ Stride(a).lines = nothing
    BY <1>6, <1>9
  <2>0. OnStride(t, p) /\ t \in StrideTracker
    BY <1>2, <1>4, <1>9 DEF p
  <2>2. OnStride(t, p) /\ p # <<>>
    BY <1>3, <2>0 DEF OnStride
  <2>8. t.last_cl_addr = line
    <3>1. t.last_cl_addr \in Int
      BY <2>0 DEF StrideTracker
    <3> HIDE DEF t
    <3> QED
      BY <3>1, <1>9
  <2>3. q = p
    BY <1>7, <2>8, <2>2 DEF OnStride
  <2>4. path'.pc[a.pc] = path.pc[a.pc]
    BY <1>5, <2>3 DEF p
  <2>5. \A x \in KnownPc : path'.pc[x] = path.pc[x]
    BY <1>5, <2>4
  <2>6. \A j \in 1..Len(strides) : strides[j].pc \in KnownPc
    <3>1. \A j \in 1..Len(strides) : strides[j] \in StrideTracker
      BY <1>2
    <3>2. \A x \in StrideTracker : x.pc \in KnownPc
      BY DEF StrideTracker
    <3> QED
      BY <3>1, <3>2
  <2>7. StridesTrue'
    BY <1>2, <2>1, <2>5, <2>6 DEF StridesTrue
  <2> QED
    BY <2>1, <2>7 DEF nothing
<1>10. CASE i # 0 /\ step # 0
  <2>1. strides' = <<moved>> \o RemoveAt(strides, i)
        /\ Stride(a).lines = IF step = t.last_stride THEN ahead ELSE nothing
    BY <1>6, <1>10
  <2>2. i \in 1..Len(strides) /\ strides[i].pc = a.pc /\ i \in Nat
    BY <1>4, <1>10
  <2>3. t \in StrideTracker
    BY <1>2, <2>2
  <2>4. t.last_cl_addr \in Int /\ t.last_stride \in Int
    BY <2>3 DEF StrideTracker
  <2>5. OnStride(t, p) /\ p # <<>> /\ p[Len(p)] = t.last_cl_addr
    <3>1. OnStride(t, p)
      BY <1>2, <2>2 DEF p
    <3> QED
      BY <1>3, <3>1 DEF OnStride
  <2> HIDE DEF t
  <2>7. step \in Int /\ p[Len(p)] # line /\ line - t.last_cl_addr = step /\ step # 0
    BY <1>10, <2>4, <2>5
  <2>6. Len(q) >= 2 /\ q[Len(q) - 1] = t.last_cl_addr /\ q[Len(q)] = line
    BY <1>7, <2>7, <2>5
  <2> HIDE DEF step
  <2>8. moved \in StrideTracker /\ moved.pc = a.pc
    BY <1>1, <2>7 DEF StrideTracker
  <2>9. OnStride(moved, path'.pc[moved.pc])
    BY <1>5, <1>7, <2>6, <2>7 DEF OnStride
  <2>10. RemoveAt(strides, i) \in Seq(StrideTracker) /\ Without(RemoveAt(strides, i), strides, i)
    BY <1>2, <2>2, OneLeaves
  <2> DEFINE b == RemoveAt(strides, i)
  <2>11. b \in Seq(StrideTracker) /\ Without(b, strides, i) /\ strides' = <<moved>> \o b
    BY <2>1, <2>10
  <2> HIDE DEF b, moved
  <2>12. \A j \in 1..Len(b) : b[j].pc # moved.pc
    <3> SUFFICES ASSUME NEW j \in 1..Len(b) PROVE b[j].pc # a.pc
      BY <2>8
    <3>0. /\ j < i => j <= Len(strides) /\ b[j] = strides[j]
          /\ j >= i => j + 1 <= Len(strides) /\ b[j] = strides[j + 1]
      BY <2>11 DEF Without
    <3>1. \E l \in 1..Len(strides) : b[j] = strides[l] /\ l # i
      <4>1. CASE j < i
        BY <2>2, <3>0, <4>1
      <4>2. CASE j >= i
        <5>1. j + 1 \in 1..Len(strides) /\ j + 1 # i
          BY <1>2, <2>2, <3>0, <4>2
        <5> QED
          BY <3>0, <4>2, <5>1
      <4> QED
        BY <2>2, <4>1, <4>2
    <3> QED
      BY <1>2, <2>2, <3>1
  <2>13. StridesTrue'
    BY <1>5, <2>2, <2>8, <2>9, <2>11, <2>12, StrideJoins
  <2>14. CASE step # t.last_stride
    BY <2>1, <2>13, <2>14 DEF nothing
  <2>15. CASE step = t.last_stride
    <3>1. Stride(a).lines = ahead
      BY <2>1, <2>15
    <3>3. stride_pref_degree' - 1 \in Int /\ stride_pref_degree' - 1 >= 0 - 1
      BY OneLess
    <3>4. /\ Len(ahead) <= (stride_pref_degree' - 1) - 0 + 1
          /\ \A k \in DOMAIN ahead : InPage(ahead[k])
      <4>1. ASSUME NEW d \in Int, d >= 0 - 1, NEW r, r = Run(a.offset, step, 0, d)
            PROVE  Len(r) <= d - 0 + 1 /\ \A k \in DOMAIN r : InPage(r[k])
        BY <2>7, <4>1, RunFromHere, Zenon
      <4> QED
        BY <3>3, <4>1 DEF ahead
    <3>5. (stride_pref_degree' - 1) - 0 + 1 = stride_pref_degree'
      BY OneLess
    <3>6. Len(p) >= 2 /\ Len(q) = 3 /\ q[1] = p[Len(p) - 1] /\ q[2] = p[Len(p)] /\ q[3] = line
      <4>1. Len(p) >= 2
        BY <2>5, <2>7, <2>15 DEF OnStride
      <4>2. Len(q) >= 3 /\ q[Len(q) - 2] = p[Len(p) - 1]
        BY <1>7, <2>7, <4>1
      <4>3. Len(q) = 3
        BY <1>11, <4>2, Three, Zenon
      <4> QED
        BY <2>5, <2>6, <4>1, <4>2, <4>3
    <3>7. p[Len(p)] - p[Len(p) - 1] = step
      BY <2>5, <2>7, <2>15 DEF OnStride
    <3>8. q[2] - q[1] = q[3] - q[2]
      BY <2>5, <2>7, <3>6, <3>7
    <3> QED
      BY <1>5, <2>13, <3>1, <3>4, <3>5, <3>6, <3>8
  <2> QED
    BY <2>14, <2>15
<1> QED
  BY <1>8, <1>9, <1>10

-----------------------------------------------------------------------------
(***************************************************************************)
(* The two together.                                                       *)
(***************************************************************************)

\* The inductive invariant of AheadConfirmed.
AheadInv ==
  /\ Measuring
  /\ streamer_pref_degree = get_streamer_degree(config)
  /\ stride_pref_degree = get_stride_degree(config)
  /\ PathTyped /\ StreamsTrue /\ StridesTrue
  /\ AheadConfirmed

\* Degrees are natural numbers.
LEMMA DegreesNatural ==
  \A c \in Config : get_streamer_degree(c) \in Nat /\ get_stride_degree(c) \in Nat
<1> TAKE c \in Config
<1>1. c \in Nat
  BY Configs
<1>2. c \div 2 \in Nat
  BY <1>1
<1> QED
  BY <1>1, <1>2, Power7Assumption DEF get_streamer_degree, get_stride_degree

\* The degrees are those of the configuration, after each access too.
LEMMA DegreesSet ==
  ASSUME AheadInv, NEW a \in Access, Invoke(a)
  PROVE  /\ streamer_pref_degree' = get_streamer_degree(config')
         /\ stride_pref_degree' = get_stride_degree(config')
<1>1. CASE Explore
  BY <1>1 DEF Explore, set_params
<1>2. CASE Exploit
  BY <1>2 DEF Exploit, set_params
<1>3. CASE TryNext
  BY <1>3 DEF TryNext, set_params
<1>4. CASE Within
  BY <1>4 DEF Within, AheadInv
<1> QED
  BY <1>1, <1>2, <1>3, <1>4 DEF Invoke

\* An access keeps it.
LEMMA AccessConfirmed ==
  ASSUME AheadInv, NEW a \in Access, Invoke(a)
  PROVE  AheadInv'
<1>1. Measuring'
  BY AccessMeasured DEF AheadInv
<1>2. /\ streamer_pref_degree' = get_streamer_degree(config')
      /\ stride_pref_degree' = get_stride_degree(config')
  BY DegreesSet
<1>3. streamer_pref_degree' \in Nat /\ stride_pref_degree' \in Nat
  BY <1>1, <1>2, DegreesNatural DEF Measuring
<1> DEFINE line == a.page * PAGE_LINES + a.offset
<1>4. a.offset \in Int /\ line \in Int
  <2>1. a.page \in Nat /\ a.offset \in Nat /\ PAGE_LINES \in Nat
    BY Power7Assumption
  <2>2. \A x, y, z \in Nat : x * y + z \in Int
    OBVIOUS
  <2> QED
    BY <2>1, <2>2
<1>5. PathTyped /\ StreamsTrue /\ StridesTrue
  BY DEF AheadInv
<1>6. path' = [path EXCEPT !.page[a.page] = Last3(@, a.offset), !.pc[a.pc] = Last3(@, line)]
  BY DEF Invoke
<1> HIDE DEF line
<1>7. /\ path'.page = [path.page EXCEPT ![a.page] = Last3(path.page[a.page], a.offset)]
      /\ path'.pc = [path.pc EXCEPT ![a.pc] = Last3(path.pc[a.pc], line)]
      /\ path' = [page |-> path'.page, pc |-> path'.pc]
  <2>1. path = [page |-> path.page, pc |-> path.pc]
    BY <1>5 DEF PathTyped
  <2> QED
    BY <1>6, <2>1
<1>8. PathTyped'
  <2>1. a.page \in KnownPage /\ a.pc \in KnownPc
    BY DEF KnownPage, KnownPc
  <2>2. /\ path.page \in [KnownPage -> Seq(Int)] /\ \A x \in KnownPage : Len(path.page[x]) <= 3
        /\ path.pc \in [KnownPc -> Seq(Int)] /\ \A x \in KnownPc : Len(path.pc[x]) <= 3
    BY <1>5 DEF PathTyped
  <2>3. /\ Last3(path.page[a.page], a.offset) \in Seq(Int) /\ Len(Last3(path.page[a.page], a.offset)) <= 3
        /\ Last3(path.pc[a.pc], line) \in Seq(Int) /\ Len(Last3(path.pc[a.pc], line)) <= 3
    BY <1>4, <2>1, <2>2, LastThree
  <2>4. path'.page \in [KnownPage -> Seq(Int)] /\ \A x \in KnownPage : Len(path'.page[x]) <= 3
    BY <1>7, <2>1, <2>2, <2>3
  <2>5. path'.pc \in [KnownPc -> Seq(Int)] /\ \A x \in KnownPc : Len(path'.pc[x]) <= 3
    BY <1>7, <2>1, <2>2, <2>3
  <2> QED
    BY <1>7, <2>4, <2>5 DEF PathTyped
<1>9. /\ streams' = Streamer(a).table /\ strides' = Stride(a).table
      /\ fetched_ahead' = [stream |-> Streamer(a).lines, stride |-> Stride(a).lines, of |-> a]
  BY DEF Invoke
<1>10. /\ StreamsTrue'
       /\ Len(Streamer(a).lines) <= streamer_pref_degree'
       /\ \A k \in DOMAIN Streamer(a).lines : InPage(Streamer(a).lines[k])
       /\ Streamer(a).lines # <<>> =>
            LET p == path'.page[a.page] IN
            /\ Len(p) = 3
            /\ \/ p[1] < p[2] /\ p[2] < p[3] /\ Streamer(a).lines[1] = p[3] + 1
               \/ p[1] > p[2] /\ p[2] > p[3] /\ Streamer(a).lines[1] = p[3] - 1
  BY <1>3, <1>4, <1>5, <1>7, <1>9, StreamerTrue
<1>11. /\ StridesTrue'
       /\ Len(Stride(a).lines) <= stride_pref_degree'
       /\ \A k \in DOMAIN Stride(a).lines : InPage(Stride(a).lines[k])
       /\ Stride(a).lines # <<>> =>
            LET p == path'.pc[a.pc] IN
            Len(p) = 3 /\ p[2] - p[1] = p[3] - p[2]
  BY <1>3, <1>4, <1>5, <1>7, <1>9, StrideTrue DEF line
<1>12. /\ fetched_ahead'.stream = Streamer(a).lines /\ fetched_ahead'.stride = Stride(a).lines
       /\ fetched_ahead'.of = a
  BY <1>9
<1>13. DegreesObeyed'
  BY <1>2, <1>10, <1>11, <1>12 DEF DegreesObeyed, InPage
<1>14. PatternsConfirmed'
  BY <1>10, <1>11, <1>12 DEF PatternsConfirmed
<1> QED
  BY <1>1, <1>2, <1>8, <1>10, <1>11, <1>13, <1>14 DEF AheadInv, AheadConfirmed

\* What is prefetched is within the degrees of the configuration and in the page,
\* and follows two earlier moves, for any number of pages, instructions and
\* trackers (Streamer and StridePrefetcher under POWER7_Pref).
THEOREM AheadKept == Power7Spec => []AheadConfirmed
<1>1. Power7Init => AheadInv
  <2> SUFFICES ASSUME Power7Init PROVE AheadInv
    OBVIOUS
  <2>1. Measuring
    BY Configs DEF Power7Init, Measuring, NoCycles
  <2>2. PathTyped
    <3>1. path = [page |-> [p \in KnownPage |-> <<>>], pc |-> [p \in KnownPc |-> <<>>]]
      BY DEF Power7Init, KnownPage, KnownPc
    <3> QED
      BY <3>1 DEF PathTyped
  <2>3. StreamsTrue /\ StridesTrue
    BY DEF Power7Init, StreamsTrue, StridesTrue
  <2>4. fetched_ahead = [stream |-> <<>>, stride |-> <<>>, of |-> "none"] /\ config = 0
        /\ get_streamer_degree(0) \in Nat /\ get_stride_degree(0) \in Nat
    BY DegreesNatural, Configs DEF Power7Init
  <2>5. AheadConfirmed
    BY <2>4 DEF AheadConfirmed, DegreesObeyed, PatternsConfirmed
  <2> QED
    BY <2>1, <2>2, <2>3, <2>5 DEF AheadInv, Power7Init
<1>2. AheadInv /\ [Power7Next]_power7Vars => AheadInv'
  <2>1. AheadInv /\ Power7Next => AheadInv'
    BY AccessConfirmed DEF Power7Next
  <2>2. AheadInv /\ UNCHANGED power7Vars => AheadInv'
    BY DEF power7Vars, tuning, AheadInv, Measuring, PathTyped, StreamsTrue, StridesTrue,
           AheadConfirmed, DegreesObeyed, PatternsConfirmed
  <2> QED
    BY <2>1, <2>2
<1>3. AheadInv => AheadConfirmed
  BY DEF AheadInv
<1> QED
  BY <1>1, <1>2, <1>3, PTL DEF Power7Spec

-----------------------------------------------------------------------------
(***************************************************************************)
(* Spatial memory streaming.  The inductive invariant says of each table   *)
(* what HistoryTrue says of it, that no age is above the number of         *)
(* accesses, and that a pattern is in the set of its signature, the only   *)
(* one where it is looked for.                                             *)
(***************************************************************************)
FilterEntry == [page : Region, pc : Pc, trigger : Offset]
AccEntry == [page : Region, pc : Pc, trigger : Offset, pattern : SUBSET Offset, age : Nat]
PhtEntry == [signature : Signature, pattern : SUBSET Offset, age : Nat]
PhtSet == 0..(pht_sets - 1)

\* No entry is older than n.
Young(table, n) == \A i \in 1..Len(table) : table[i].age <= n

SmsTyped ==
  /\ filter_table \in Seq(FilterEntry)
  /\ acc_table \in Seq(AccEntry) /\ Young(acc_table, clock)
  /\ pht \in [PhtSet -> Seq(PhtEntry)] /\ \A s \in PhtSet : Young(pht[s], clock)
  /\ clock \in Nat
  /\ used \in [Region -> Nat] /\ \A p \in Region : used[p] <= clock
  /\ generation \in [Region -> [pc : Nat, trigger : Nat, offsets : SUBSET Offset]]
  /\ generation_learned \in [Signature -> SUBSET Offset]

OnePage(table) == \A i, j \in 1..Len(table) : table[i].page = table[j].page => i = j
OneSignature(table) == \A i, j \in 1..Len(table) : table[i].signature = table[j].signature => i = j

BeganAs(f, g) == g.pc = f.pc /\ g.trigger = f.trigger /\ g.offsets = {f.trigger}
GrewAs(e, g) == g.pc = e.pc /\ g.trigger = e.trigger /\ g.offsets = e.pattern

GenerationsKept ==
  /\ OnePage(filter_table) /\ OnePage(acc_table)
  /\ \A i \in 1..Len(filter_table), j \in 1..Len(acc_table) : filter_table[i].page # acc_table[j].page
  /\ \A i \in 1..Len(filter_table) : BeganAs(filter_table[i], generation[filter_table[i].page])
  /\ \A j \in 1..Len(acc_table) : GrewAs(acc_table[j], generation[acc_table[j].page])

\* The patterns of a set t are the ones learned, h, for signatures of that set.
Remembers(t, s, h) ==
  /\ OneSignature(t)
  /\ \A i \in 1..Len(t) : SetOf(t[i].signature) = s /\ t[i].pattern = h[t[i].signature]

HistoryKept == \A s \in PhtSet : Remembers(pht[s], s, generation_learned)

PrefetchTrue ==
  issued # <<>> /\ ~enable_pref_buffer =>
    LET g == generation[issued[1][1]] IN
    {issued[k] : k \in DOMAIN issued}
      = {issued[1][1]} \X (generation_learned[<<g.pc, g.trigger>>] \ {g.trigger})

SmsInv == SmsTyped /\ GenerationsKept /\ OldestIdle /\ HistoryKept /\ PrefetchTrue

-----------------------------------------------------------------------------
\* The elements of t are elements of s, each taken once and element x not at all.
TakenFrom(t, s, x) ==
  \E g \in [1..Len(t) -> (1..Len(s)) \ {x}] :
    /\ \A i, j \in 1..Len(t) : g[i] = g[j] => i = j
    /\ \A j \in 1..Len(t) : t[j] = s[g[j]]

\* A whole sequence, its tail and the sequence without one element are taken from it.
LEMMA AllTaken ==
  ASSUME NEW S, NEW s \in Seq(S)
  PROVE  /\ TakenFrom(s, s, Len(s) + 1)
         /\ s # <<>> => Tail(s) \in Seq(S) /\ TakenFrom(Tail(s), s, 1)
         /\ \A i \in 1..Len(s) : RemoveAt(s, i) \in Seq(S) /\ TakenFrom(RemoveAt(s, i), s, i)
<1>0. Len(s) \in Nat
  OBVIOUS
<1>1. ASSUME NEW t \in Seq(S), NEW k \in Nat, Without(t, s, k) PROVE TakenFrom(t, s, k)
  <2> DEFINE g == [j \in 1..Len(t) |-> IF j < k THEN j ELSE j + 1]
  <2>0. Len(t) \in Nat
    OBVIOUS
  <2>1. \A j \in 1..Len(t) : g[j] \in (1..Len(s)) \ {k} /\ t[j] = s[g[j]]
    BY <1>0, <1>1, <2>0 DEF Without
  <2>2. \A i, j \in 1..Len(t) : g[i] = g[j] => i = j
    BY <2>0
  <2>3. g \in [1..Len(t) -> (1..Len(s)) \ {k}]
    BY <2>1
  <2> HIDE DEF g
  <2> QED
    BY <2>1, <2>2, <2>3 DEF TakenFrom
<1>2. Len(s) + 1 \in Nat /\ 1 \in Nat /\ \A i \in 1..Len(s) : i \in Nat
  BY <1>0
<1>3. TakenFrom(s, s, Len(s) + 1)
  BY <1>1, <1>2, OneLeaves
<1>4. s # <<>> => Tail(s) \in Seq(S) /\ TakenFrom(Tail(s), s, 1)
  BY <1>1, <1>2, OneLeaves
<1>5. \A i \in 1..Len(s) : RemoveAt(s, i) \in Seq(S) /\ TakenFrom(RemoveAt(s, i), s, i)
  BY <1>1, <1>2, OneLeaves
<1> QED
  BY <1>3, <1>4, <1>5

\* A sequence with one more element.
LEMMA OneMore ==
  ASSUME NEW S, NEW s \in Seq(S), NEW e \in S
  PROVE  /\ Append(s, e) \in Seq(S) /\ Len(Append(s, e)) = Len(s) + 1 /\ Len(s) \in Nat
         /\ \A i \in 1..Len(s) : Append(s, e)[i] = s[i]
         /\ Append(s, e)[Len(s) + 1] = e
OBVIOUS

\* Where a region, and a signature, is found.
LEMMA HeldAt ==
  ASSUME NEW S, NEW s \in Seq(S), NEW x
  PROVE  /\ Held(s, x) = 0 => \A j \in 1..Len(s) : s[j].page # x
         /\ Held(s, x) # 0 => Held(s, x) \in 1..Len(s) /\ s[Held(s, x)].page = x
BY StreamFound DEF Held, Find

\* Where Find finds a signature in a set of the history, and that it misses none.
LEMMA FoundAt ==
  ASSUME NEW S, NEW s \in Seq(S), NEW x
  PROVE  LET i == Find(s, LAMBDA e : e.signature = x) IN
         /\ i = 0 => \A j \in 1..Len(s) : s[j].signature # x
         /\ i # 0 => i \in 1..Len(s) /\ s[i].signature = x
<1> DEFINE I == {i \in 1..Len(s) : s[i].signature = x}
<1>1. Find(s, LAMBDA e : e.signature = x) = IF I # {} THEN Min(I) ELSE 0
  BY DEF Find, SelectInSeq
<1>2. I \subseteq Nat
  OBVIOUS
<1>3. I # {} => Min(I) \in I
  BY <1>2, LeastNatural
<1>4. I # {} => Min(I) \in 1..Len(s) /\ s[Min(I)].signature = x /\ Min(I) # 0
  BY <1>3
<1> QED
  BY <1>1, <1>4

\* A table that is not empty has an oldest entry.
LEMMA OldestThere ==
  ASSUME NEW S, NEW t \in Seq(S), t # <<>>, NEW n \in Nat, Young(t, n),
         \A i \in 1..Len(t) : t[i].age \in Nat
  PROVE  OldestEntry(t) \in 1..Len(t)
<1> DEFINE D == 1..Len(t)
           V == {n - t[i].age : i \in D}
           B == {Len(t) - i : i \in {j \in D : n - t[j].age = Min(V)}}
<1>0. Len(t) \in Nat /\ 1 \in D /\ DOMAIN t = D
  OBVIOUS
<1>1. V \subseteq Nat /\ V # {}
  BY <1>0 DEF Young
<1>2. Min(V) \in V /\ \A y \in V : Min(V) <= y
  BY <1>1, LeastNatural
<1>3. PICK i0 \in D : n - t[i0].age = Min(V)
  BY <1>2
<1>4. B \subseteq Nat /\ B # {}
  <2>1. \A i \in D : Len(t) - i \in Nat
    BY <1>0
  <2>2. Len(t) - i0 \in B
    BY <1>3
  <2> QED
    BY <2>1, <2>2
<1>5. Min(B) \in B /\ \A y \in B : Min(B) <= y
  BY <1>4, LeastNatural
<1>6. PICK i \in D : n - t[i].age = Min(V) /\ Min(B) = Len(t) - i
  BY <1>5
<1>7. ASSUME NEW j \in D PROVE t[j].age < t[i].age \/ (t[j].age = t[i].age /\ j <= i)
  <2>1. t[j].age \in Nat /\ t[i].age \in Nat /\ Min(V) <= n - t[j].age /\ Min(V) \in Nat
    BY <1>1, <1>2
  <2>2. t[j].age <= t[i].age
    BY <1>6, <2>1
  <2>3. t[j].age = t[i].age => j <= i
    <3> SUFFICES ASSUME t[j].age = t[i].age PROVE j <= i
      OBVIOUS
    <3>1. Len(t) - j \in B
      BY <1>6
    <3>2. Min(B) <= Len(t) - j
      BY <1>5, <3>1
    <3> HIDE DEF B
    <3> QED
      BY <1>0, <1>6, <3>2
  <2> QED
    BY <2>1, <2>2, <2>3
<1>8. \E k \in DOMAIN t : \A j \in DOMAIN t : t[j].age < t[k].age \/ (t[j].age = t[k].age /\ j <= k)
  BY <1>0, <1>7
<1>9. OldestEntry(t) \in DOMAIN t
  BY <1>8, Zenon DEF OldestEntry
<1> QED
  BY <1>0, <1>9

\* The lines of a bitmap, one after the other, are all its lines.
LEMMA LinesInOrder ==
  ASSUME NEW L \in SUBSET Nat, IsFiniteSet(L)
  PROVE  /\ Cardinality(L) \in Nat
         /\ {NthLine(L, k) : k \in 1..Cardinality(L)} = L
<1> DEFINE n == Cardinality(L)
           Below(x) == {y \in L : y < x}
           r == [x \in L |-> Cardinality(Below(x))]
<1>0. n \in Nat
  BY FS_CardinalityType
<1>1. \A x \in L : IsFiniteSet(Below(x)) /\ Cardinality(Below(x)) \in 0..(n - 1)
  <2> TAKE x \in L
  <2>1. Below(x) \in SUBSET L /\ x \notin Below(x) /\ x \in Nat
    OBVIOUS
  <2>2. IsFiniteSet(Below(x)) /\ Cardinality(Below(x)) <= n /\ (n = Cardinality(Below(x)) => L = Below(x))
    BY <2>1, FS_Subset
  <2>3. Cardinality(Below(x)) \in Nat
    BY <2>2, FS_CardinalityType
  <2> HIDE DEF Below
  <2> QED
    BY <1>0, <2>1, <2>2, <2>3
<1>2. \A x, y \in L : x < y => Cardinality(Below(x)) # Cardinality(Below(y))
  <2> TAKE x, y \in L
  <2> SUFFICES ASSUME x < y PROVE Cardinality(Below(x)) # Cardinality(Below(y))
    OBVIOUS
  <2>0. /\ x \in L /\ ~(x < x) /\ x < y
        /\ \A z \in L : z < x => z < y
    OBVIOUS
  <2>1. Below(x) \in SUBSET Below(y) /\ x \in Below(y) /\ x \notin Below(x)
    BY <2>0, Zenon
  <2>2. IsFiniteSet(Below(y))
    BY <1>1
  <2> HIDE DEF Below
  <2> QED
    BY <2>1, <2>2, FS_Subset
<1>3. \A x, y \in L : r[x] = r[y] => x = y
  <2> TAKE x, y \in L
  <2>1. x < y \/ y < x \/ x = y
    OBVIOUS
  <2> HIDE DEF Below
  <2> QED
    BY <1>2, <2>1
<1> HIDE DEF Below
<1>4. r \in [L -> 0..(n - 1)]
  BY <1>1
<1>5. r \in Injection(L, 0..(n - 1))
  BY <1>3, <1>4 DEF Injection, IsInjective
<1>6. IsFiniteSet(0..(n - 1)) /\ Cardinality(0..(n - 1)) = n
  <2>1. 0 \in Int /\ n - 1 \in Int
    BY <1>0
  <2>2. IsFiniteSet(0..(n - 1)) /\ Cardinality(0..(n - 1)) = IF 0 > n - 1 THEN 0 ELSE (n - 1) - 0 + 1
    BY <2>1, FS_Interval
  <2> QED
    BY <1>0, <2>2
<1>7. r \in Surjection(L, 0..(n - 1))
  BY <1>5, <1>6, FS_Injection
<1>8. \A k \in 1..n : NthLine(L, k) \in L /\ r[NthLine(L, k)] = k - 1
  <2> TAKE k \in 1..n
  <2>1. k - 1 \in 0..(n - 1)
    BY <1>0
  <2>2. PICK x \in L : r[x] = k - 1
    BY <1>7, <2>1 DEF Surjection
  <2>3. \E z \in L : Cardinality({y \in L : y < z}) = k - 1
    BY <2>2 DEF Below
  <2>4. NthLine(L, k) \in L /\ Cardinality({y \in L : y < NthLine(L, k)}) = k - 1
    BY <2>3, Zenon DEF NthLine
  <2> QED
    BY <2>4 DEF Below
<1>9. \A x \in L : \E k \in 1..n : x = NthLine(L, k)
  <2> TAKE x \in L
  <2>1. r[x] \in 0..(n - 1)
    BY <1>4
  <2>2. r[x] + 1 \in 1..n /\ (r[x] + 1) - 1 = r[x]
    BY <1>0, <2>1
  <2>3. NthLine(L, r[x] + 1) \in L /\ r[NthLine(L, r[x] + 1)] = r[x]
    BY <1>8, <2>2
  <2>4. x = NthLine(L, r[x] + 1)
    BY <1>3, <2>3
  <2> QED
    BY <2>2, <2>4
<1> QED
  BY <1>0, <1>8, <1>9

-----------------------------------------------------------------------------
\* A signature belongs to a set.
LEMMA SetThere ==
  ASSUME NEW sig \in Signature
  PROVE  SetOf(sig) \in PhtSet
<1>1. sig[1] \in Nat /\ sig[2] \in Nat /\ Cardinality(Offset) \in Nat /\ pht_sets \in Nat \ {0}
  BY SmsAssumption, FS_CardinalityType DEF Signature
<1>2. \A a, b, c \in Nat : a * b + c \in Nat
  OBVIOUS
<1>3. \A a \in Nat, m \in Nat \ {0} : a % m \in 0..(m - 1)
  OBVIOUS
<1>4. sig[1] * Cardinality(Offset) + sig[2] \in Nat
  BY <1>1, <1>2
<1> QED
  BY <1>1, <1>3, <1>4 DEF SetOf, PhtSet

\* A function on 1..n is a sequence.
LEMMA Listed ==
  ASSUME NEW S, NEW n \in Nat, NEW f \in [1..n -> S]
  PROVE  f \in Seq(S) /\ Len(f) = n
OBVIOUS

SameRegion(e, f) == e.page = f.page /\ e.pc = f.pc /\ e.trigger = f.trigger /\ e.pattern = f.pattern
SamePattern(e, f) == e.signature = f.signature /\ e.pattern = f.pattern

\* update_age_acc_table, for entries as they were.
LEMMA OlderAcc ==
  ASSUME NEW t \in Seq(AccEntry)
  PROVE  /\ Older(t) \in Seq(AccEntry) /\ Len(Older(t)) = Len(t) /\ Len(t) \in Nat
         /\ \A i \in 1..Len(t) : SameRegion(Older(t)[i], t[i]) /\ Older(t)[i].age = t[i].age + 1
<1>1. DOMAIN t = 1..Len(t) /\ Len(t) \in Nat /\ \A i \in 1..Len(t) : t[i] \in AccEntry
  OBVIOUS
<1>2. Older(t) = [i \in 1..Len(t) |-> [t[i] EXCEPT !.age = @ + 1]]
  BY <1>1 DEF Older
<1>3. \A e \in AccEntry : /\ [e EXCEPT !.age = @ + 1] \in AccEntry
                          /\ SameRegion([e EXCEPT !.age = @ + 1], e)
                          /\ [e EXCEPT !.age = @ + 1].age = e.age + 1
  BY DEF AccEntry, SameRegion
<1>4. Older(t) \in [1..Len(t) -> AccEntry] /\ \A i \in 1..Len(t) : Older(t)[i] = [t[i] EXCEPT !.age = @ + 1]
  BY <1>1, <1>2, <1>3
<1>5. Older(t) \in Seq(AccEntry) /\ Len(Older(t)) = Len(t)
  BY <1>1, <1>4, Listed
<1> QED
  BY <1>1, <1>3, <1>4, <1>5

\* update_age_pht.
LEMMA OlderPht ==
  ASSUME NEW t \in Seq(PhtEntry)
  PROVE  /\ Older(t) \in Seq(PhtEntry) /\ Len(Older(t)) = Len(t) /\ Len(t) \in Nat
         /\ \A i \in 1..Len(t) : SamePattern(Older(t)[i], t[i]) /\ Older(t)[i].age = t[i].age + 1
<1>1. DOMAIN t = 1..Len(t) /\ Len(t) \in Nat /\ \A i \in 1..Len(t) : t[i] \in PhtEntry
  OBVIOUS
<1>2. Older(t) = [i \in 1..Len(t) |-> [t[i] EXCEPT !.age = @ + 1]]
  BY <1>1 DEF Older
<1>3. \A e \in PhtEntry : /\ [e EXCEPT !.age = @ + 1] \in PhtEntry
                          /\ SamePattern([e EXCEPT !.age = @ + 1], e)
                          /\ [e EXCEPT !.age = @ + 1].age = e.age + 1
  BY DEF PhtEntry, SamePattern
<1>4. Older(t) \in [1..Len(t) -> PhtEntry] /\ \A i \in 1..Len(t) : Older(t)[i] = [t[i] EXCEPT !.age = @ + 1]
  BY <1>1, <1>2, <1>3
<1>5. Older(t) \in Seq(PhtEntry) /\ Len(Older(t)) = Len(t)
  BY <1>1, <1>4, Listed
<1> QED
  BY <1>1, <1>3, <1>4, <1>5

\* update_age_pht changes ages only, and no age is above the accesses.
LEMMA TouchPht ==
  ASSUME NEW t \in Seq(PhtEntry), NEW i \in 1..Len(t), NEW n \in Nat, Young(t, n)
  PROVE  /\ Touch(t, i) \in Seq(PhtEntry) /\ Len(Touch(t, i)) = Len(t) /\ Len(t) \in Nat
         /\ \A j \in 1..Len(t) : SamePattern(Touch(t, i)[j], t[j])
         /\ Young(Touch(t, i), n + 1)
<1> DEFINE o == Older(t)
<1>1. /\ o \in Seq(PhtEntry) /\ Len(o) = Len(t) /\ Len(t) \in Nat
      /\ \A j \in 1..Len(t) : SamePattern(o[j], t[j]) /\ o[j].age = t[j].age + 1
  BY OlderPht
<1>2. Touch(t, i) = [o EXCEPT ![i].age = 0]
  BY DEF Touch
<1> HIDE DEF o
<1>3. \A e \in PhtEntry : /\ [e EXCEPT !.age = 0] \in PhtEntry
                          /\ SamePattern([e EXCEPT !.age = 0], e) /\ [e EXCEPT !.age = 0].age = 0
  BY DEF PhtEntry, SamePattern
<1>4. /\ Touch(t, i) \in Seq(PhtEntry) /\ Len(Touch(t, i)) = Len(t)
      /\ Touch(t, i)[i] = [o[i] EXCEPT !.age = 0]
      /\ \A j \in 1..Len(t) : j # i => Touch(t, i)[j] = o[j]
  <2>1. o[i] \in PhtEntry
    BY <1>1
  <2> DEFINE x == [o[i] EXCEPT !.age = 0]
  <2>2. x \in PhtEntry
    BY <1>3, <2>1
  <2>3. Touch(t, i) = [o EXCEPT ![i] = x]
    BY <1>2
  <2> HIDE DEF x
  <2>4. [o EXCEPT ![i] = x] \in Seq(PhtEntry) /\ Len([o EXCEPT ![i] = x]) = Len(o)
    BY <1>1, <2>2
  <2>5. Touch(t, i)[i] = x /\ \A j \in 1..Len(t) : j # i => Touch(t, i)[j] = o[j]
    BY <1>1, <2>3
  <2> QED
    BY <1>1, <2>3, <2>4, <2>5 DEF x
<1>5. \A j \in 1..Len(t) : SamePattern(Touch(t, i)[j], t[j]) /\ Touch(t, i)[j].age <= n + 1
  <2> TAKE j \in 1..Len(t)
  <2>1. CASE j = i
    <3>1. o[i] \in PhtEntry /\ SamePattern(o[i], t[i])
      BY <1>1
    <3>2. SamePattern([o[i] EXCEPT !.age = 0], o[i]) /\ [o[i] EXCEPT !.age = 0].age = 0
      BY <1>3, <3>1
    <3>3. Touch(t, i)[j] = [o[i] EXCEPT !.age = 0]
      BY <1>4, <2>1
    <3>4. 0 <= n + 1
      OBVIOUS
    <3> QED
      BY <2>1, <3>1, <3>2, <3>3, <3>4 DEF SamePattern
  <2>2. CASE j # i
    <3>0. t[j] \in PhtEntry /\ t[j].age <= n
      BY DEF Young
    <3>1. t[j].age \in Nat /\ t[j].age <= n
      BY <3>0 DEF PhtEntry
    <3> QED
      BY <1>1, <1>4, <2>2, <3>1
  <2> QED
    BY <2>1, <2>2
<1> QED
  BY <1>1, <1>4, <1>5 DEF Young

\* What a set of the history remembers does not depend on ages.
LEMMA SameRemembers ==
  ASSUME NEW t, NEW u, NEW s, NEW h, Len(u) = Len(t), Remembers(t, s, h),
         \A j \in 1..Len(t) : SamePattern(u[j], t[j])
  PROVE  Remembers(u, s, h)
BY DEF Remembers, OneSignature, SamePattern

\* The set of the history after insert_pht_table.
Inserted(set, sig, pattern) ==
  LET i == Find(set, LAMBDA e : e.signature = sig)
      room == IF Len(set) >= sms_pht_assoc THEN RemoveAt(set, OldestEntry(set)) ELSE set IN
  IF i # 0
  THEN Touch([set EXCEPT ![i].pattern = pattern], i)
  ELSE Append([j \in DOMAIN room |-> [room[j] EXCEPT !.age = 0]],
              [signature |-> sig, pattern |-> pattern, age |-> 0])

\* After insert_pht_table the set remembers the new pattern and the others as before.
LEMMA InsertedRemembers ==
  ASSUME NEW t \in Seq(PhtEntry), NEW n \in Nat, Young(t, n), NEW sig \in Signature,
         NEW pattern \in SUBSET Offset, NEW h \in [Signature -> SUBSET Offset],
         Remembers(t, SetOf(sig), h)
  PROVE  /\ Inserted(t, sig, pattern) \in Seq(PhtEntry)
         /\ Young(Inserted(t, sig, pattern), n + 1)
         /\ Remembers(Inserted(t, sig, pattern), SetOf(sig), [h EXCEPT ![sig] = pattern])
<1> DEFINE i == Find(t, LAMBDA e : e.signature = sig)
           h2 == [h EXCEPT ![sig] = pattern]
<1>0. Len(t) \in Nat /\ DOMAIN t = 1..Len(t) /\ \A j \in 1..Len(t) : t[j] \in PhtEntry
  OBVIOUS
<1>1. /\ i = 0 => \A j \in 1..Len(t) : t[j].signature # sig
      /\ i # 0 => i \in 1..Len(t) /\ t[i].signature = sig
  BY FoundAt
<1>2. h2[sig] = pattern /\ \A x \in Signature : x # sig => h2[x] = h[x]
  OBVIOUS
<1>3. CASE i # 0
  <2> DEFINE u == [t EXCEPT ![i] = [t[i] EXCEPT !.pattern = pattern]]
  <2>1. Inserted(t, sig, pattern) = Touch(u, i)
    BY <1>3 DEF Inserted
  <2>2. \A e \in PhtEntry : /\ [e EXCEPT !.pattern = pattern] \in PhtEntry
                            /\ [e EXCEPT !.pattern = pattern].signature = e.signature
                            /\ [e EXCEPT !.pattern = pattern].pattern = pattern
                            /\ [e EXCEPT !.pattern = pattern].age = e.age
    BY DEF PhtEntry
  <2>3. i \in 1..Len(t) /\ t[i].signature = sig /\ t[i] \in PhtEntry
    BY <1>0, <1>1, <1>3
  <2> HIDE DEF i, h2
  <2>4. /\ u \in Seq(PhtEntry) /\ Len(u) = Len(t)
        /\ u[i].signature = sig /\ u[i].pattern = pattern /\ u[i].age = t[i].age
        /\ \A j \in 1..Len(t) : j # i => u[j] = t[j]
    BY <2>2, <2>3
  <2> HIDE DEF u
  <2>5. Young(u, n)
    BY <2>3, <2>4 DEF Young
  <2>6. Remembers(u, SetOf(sig), h2)
    <3>1. \A j \in 1..Len(t) : u[j].signature = t[j].signature
      BY <2>3, <2>4
    <3>2. OneSignature(u)
      BY <2>4, <3>1 DEF Remembers, OneSignature
    <3>3. ASSUME NEW j \in 1..Len(t)
          PROVE  SetOf(u[j].signature) = SetOf(sig) /\ u[j].pattern = h2[u[j].signature]
      <4>1. CASE j = i
        BY <1>2, <2>4, <4>1
      <4>2. CASE j # i
        <5>1. u[j] = t[j] /\ t[j].signature # sig /\ t[j].signature \in Signature
          BY <1>0, <2>3, <2>4, <4>2 DEF Remembers, OneSignature, PhtEntry
        <5> QED
          BY <1>2, <5>1 DEF Remembers
      <4> QED
        BY <4>1, <4>2
    <3> QED
      BY <2>4, <3>2, <3>3 DEF Remembers
  <2>7. i \in 1..Len(u)
    BY <2>3, <2>4
  <2>8. /\ Touch(u, i) \in Seq(PhtEntry) /\ Len(Touch(u, i)) = Len(u)
        /\ \A j \in 1..Len(u) : SamePattern(Touch(u, i)[j], u[j])
        /\ Young(Touch(u, i), n + 1)
    BY <2>4, <2>5, <2>7, TouchPht
  <2>9. Remembers(Touch(u, i), SetOf(sig), h2)
    BY <2>6, <2>8, SameRemembers
  <2> QED
    BY <2>1, <2>8, <2>9 DEF h2
<1>4. CASE i = 0
  <2> DEFINE room == IF Len(t) >= sms_pht_assoc THEN RemoveAt(t, OldestEntry(t)) ELSE t
             reset == [j \in DOMAIN room |-> [room[j] EXCEPT !.age = 0]]
             new == [signature |-> sig, pattern |-> pattern, age |-> 0]
             u == Append(reset, new)
  <2>1. Inserted(t, sig, pattern) = u
    BY <1>4 DEF Inserted
  <2>2. room \in Seq(PhtEntry) /\ \E x : TakenFrom(room, t, x)
    <3>1. CASE Len(t) >= sms_pht_assoc
      <4>1. t # <<>>
        BY <3>1, SmsAssumption
      <4>2. \A j \in 1..Len(t) : t[j].age \in Nat
        BY <1>0 DEF PhtEntry
      <4>3. OldestEntry(t) \in 1..Len(t)
        BY <4>1, <4>2, OldestThere
      <4> QED
        BY <3>1, <4>3, AllTaken
    <3>2. CASE ~(Len(t) >= sms_pht_assoc)
      BY <3>2, AllTaken
    <3> QED
      BY <3>1, <3>2
  <2> HIDE DEF room
  <2>3. /\ reset \in Seq(PhtEntry) /\ Len(reset) = Len(room) /\ Len(room) \in Nat
        /\ \A j \in 1..Len(room) : SamePattern(reset[j], room[j]) /\ reset[j].age = 0
    <3>1. DOMAIN room = 1..Len(room) /\ Len(room) \in Nat /\ \A j \in 1..Len(room) : room[j] \in PhtEntry
      BY <2>2
    <3>2. \A e \in PhtEntry : /\ [e EXCEPT !.age = 0] \in PhtEntry
                              /\ SamePattern([e EXCEPT !.age = 0], e) /\ [e EXCEPT !.age = 0].age = 0
      BY DEF PhtEntry, SamePattern
    <3>3. \A j \in 1..Len(room) : reset[j] = [room[j] EXCEPT !.age = 0] /\ reset[j] \in PhtEntry
      BY <3>1, <3>2
    <3>4. reset \in [1..Len(room) -> PhtEntry]
      BY <3>1, <3>2
    <3>5. reset \in Seq(PhtEntry) /\ Len(reset) = Len(room)
      BY <3>1, <3>4, Listed
    <3> QED
      BY <3>1, <3>2, <3>3, <3>5
  <2> HIDE DEF reset
  <2>4. new \in PhtEntry /\ new.signature = sig /\ new.pattern = pattern /\ new.age = 0
    BY DEF PhtEntry
  <2> HIDE DEF new
  <2>5. /\ u \in Seq(PhtEntry) /\ Len(u) = Len(room) + 1
        /\ \A j \in 1..Len(room) : u[j] = reset[j]
        /\ u[Len(room) + 1] = new
    BY <2>3, <2>4, OneMore
  <2> HIDE DEF u
  <2>6. \A j \in 1..Len(u) : j \in 1..Len(room) \/ j = Len(room) + 1
    BY <2>3, <2>5
  <2>7. Young(u, n + 1)
    <3> SUFFICES ASSUME NEW j \in 1..Len(u) PROVE u[j].age <= n + 1
      BY DEF Young
    <3>1. u[j].age = 0
      BY <2>3, <2>4, <2>5, <2>6
    <3> QED
      BY <3>1
  <2>8. PICK g \in [1..Len(room) -> 1..Len(t)] :
          /\ \A j, k \in 1..Len(room) : g[j] = g[k] => j = k
          /\ \A j \in 1..Len(room) : room[j] = t[g[j]]
    BY <2>2 DEF TakenFrom
  <2>9. \A j \in 1..Len(room) : /\ u[j].signature = t[g[j]].signature /\ u[j].pattern = t[g[j]].pattern
                                /\ g[j] \in 1..Len(t)
    BY <2>3, <2>5, <2>8 DEF SamePattern
  <2>10. \A j \in 1..Len(room) : u[j].signature # sig
    <3> HIDE DEF i
    <3> QED
      BY <1>1, <1>4, <2>9
  <2> HIDE DEF i, h2
  <2>11. OneSignature(u)
    <3> SUFFICES ASSUME NEW j \in 1..Len(u), NEW k \in 1..Len(u), u[j].signature = u[k].signature
                 PROVE  j = k
      BY DEF OneSignature
    <3>1. CASE j \in 1..Len(room) /\ k \in 1..Len(room)
      <4>1. g[j] = g[k]
        BY <2>9, <3>1 DEF Remembers, OneSignature
      <4> QED
        BY <2>8, <3>1, <4>1
    <3>2. CASE j = Len(room) + 1 \/ k = Len(room) + 1
      BY <2>4, <2>5, <2>6, <2>10, <3>2
    <3> QED
      BY <2>6, <3>1, <3>2
  <2>12. ASSUME NEW j \in 1..Len(u)
         PROVE  SetOf(u[j].signature) = SetOf(sig) /\ u[j].pattern = h2[u[j].signature]
    <3>1. CASE j = Len(room) + 1
      BY <1>2, <2>4, <2>5, <3>1 DEF h2
    <3>2. CASE j \in 1..Len(room)
      <4>1. t[g[j]].signature \in Signature /\ t[g[j]].signature # sig
        BY <1>0, <2>9, <2>10, <3>2 DEF PhtEntry
      <4>2. SetOf(t[g[j]].signature) = SetOf(sig) /\ t[g[j]].pattern = h[t[g[j]].signature]
        BY <2>9, <3>2 DEF Remembers
      <4>3. h2[t[g[j]].signature] = h[t[g[j]].signature]
        BY <1>2, <4>1 DEF h2
      <4> QED
        BY <2>9, <3>2, <4>2, <4>3
    <3> QED
      BY <2>6, <3>1, <3>2
  <2>13. Remembers(u, SetOf(sig), h2)
    BY <2>11, <2>12 DEF Remembers
  <2> QED
    BY <2>1, <2>5, <2>7, <2>13 DEF h2
<1> QED
  BY <1>3, <1>4

\* update_age_acc_table.
LEMMA TouchAcc ==
  ASSUME NEW t \in Seq(AccEntry), NEW i \in 1..Len(t)
  PROVE  /\ Touch(t, i) \in Seq(AccEntry) /\ Len(Touch(t, i)) = Len(t) /\ Len(t) \in Nat
         /\ \A j \in 1..Len(t) : SameRegion(Touch(t, i)[j], t[j])
         /\ Touch(t, i)[i].age = 0
         /\ \A j \in 1..Len(t) : j # i => Touch(t, i)[j].age = t[j].age + 1
<1> DEFINE o == Older(t)
<1>1. /\ o \in Seq(AccEntry) /\ Len(o) = Len(t) /\ Len(t) \in Nat
      /\ \A j \in 1..Len(t) : SameRegion(o[j], t[j]) /\ o[j].age = t[j].age + 1
  BY OlderAcc
<1>2. Touch(t, i) = [o EXCEPT ![i].age = 0]
  BY DEF Touch
<1> HIDE DEF o
<1>3. \A e \in AccEntry : /\ [e EXCEPT !.age = 0] \in AccEntry
                          /\ SameRegion([e EXCEPT !.age = 0], e) /\ [e EXCEPT !.age = 0].age = 0
  BY DEF AccEntry, SameRegion
<1> DEFINE x == [o[i] EXCEPT !.age = 0]
<1>4. o[i] \in AccEntry
  BY <1>1
<1>5. x \in AccEntry /\ SameRegion(x, o[i]) /\ x.age = 0
  BY <1>3, <1>4
<1>6. Touch(t, i) = [o EXCEPT ![i] = x]
  BY <1>2
<1> HIDE DEF x
<1>7. [o EXCEPT ![i] = x] \in Seq(AccEntry) /\ Len([o EXCEPT ![i] = x]) = Len(o)
  BY <1>1, <1>5
<1>8. Touch(t, i)[i] = x /\ \A j \in 1..Len(t) : j # i => Touch(t, i)[j] = o[j]
  BY <1>1, <1>6
<1>9. \A j \in 1..Len(t) : SameRegion(Touch(t, i)[j], t[j])
  <2> TAKE j \in 1..Len(t)
  <2>1. CASE j = i
    BY <1>1, <1>5, <1>8, <2>1 DEF SameRegion
  <2>2. CASE j # i
    BY <1>1, <1>8, <2>2
  <2> QED
    BY <2>1, <2>2
<1> QED
  BY <1>1, <1>5, <1>6, <1>7, <1>8, <1>9

\* What is not older than n is not older than n + 1.
LEMMA YoungLater ==
  ASSUME NEW S, NEW t \in Seq(S), NEW n \in Nat, Young(t, n), \A i \in 1..Len(t) : t[i].age \in Nat
  PROVE  Young(t, n + 1)
BY DEF Young

\* What is true of the history whatever becomes of the other tables.
LEMMA HistoryLater ==
  ASSUME SmsTyped, HistoryKept, clock' = clock + 1, UNCHANGED <<pht, generation_learned>>
  PROVE  HistoryKept' /\ \A s \in PhtSet : Young(pht'[s], clock')
<1>1. ASSUME NEW s \in PhtSet PROVE Young(pht[s], clock + 1)
  <2>1. pht[s] \in Seq(PhtEntry) /\ Young(pht[s], clock) /\ clock \in Nat
    BY DEF SmsTyped
  <2>2. \A i \in 1..Len(pht[s]) : pht[s][i] \in PhtEntry
    BY <2>1
  <2>3. \A i \in 1..Len(pht[s]) : pht[s][i].age \in Nat
    BY <2>2 DEF PhtEntry
  <2> QED
    BY <2>1, <2>3, YoungLater
<1> QED
  BY <1>1 DEF HistoryKept, Remembers

\* Regions by their last access, when one is accessed.
LEMMA UsedNow ==
  ASSUME SmsTyped, NEW page \in Region, clock' = clock + 1, used' = [used EXCEPT ![page] = clock']
  PROVE  /\ clock' \in Nat /\ used' \in [Region -> Nat] /\ \A p \in Region : used'[p] <= clock'
         /\ used'[page] = clock + 1
         /\ \A p \in Region : p # page => used'[p] = used[p] /\ used'[p] < clock + 1
<1>1. clock \in Nat /\ used \in [Region -> Nat] /\ \A p \in Region : used[p] <= clock
  BY DEF SmsTyped
<1>2. used'[page] = clock + 1 /\ \A p \in Region : p # page => used'[p] = used[p]
  BY <1>1
<1>3. used' \in [Region -> Nat]
  BY <1>1
<1>4. \A p \in Region : p # page => used'[p] < clock + 1
  BY <1>1, <1>2
<1> QED
  BY <1>1, <1>2, <1>3, <1>4

\* No prefetch but from the buffer.
LEMMA DrainTrue ==
  ASSUME Drain, UNCHANGED enable_pref_buffer
  PROVE  PrefetchTrue'
<1>1. CASE enable_pref_buffer
  BY <1>1 DEF PrefetchTrue
<1>2. CASE ~enable_pref_buffer
  <2>1. issued' = <<>>
    BY <1>2 DEF Drain
  <2> QED
    BY <2>1 DEF PrefetchTrue
<1> QED
  BY <1>1, <1>2

\* A region in the accumulation table is accessed again.
LEMMA AccumulateStep ==
  ASSUME SmsInv, UNCHANGED enable_pref_buffer,
         NEW pc \in Pc, NEW page \in Region, NEW offset \in Offset, Accumulate(pc, page, offset)
  PROVE  SmsInv'
<1> DEFINE i == Held(acc_table, page)
           n == Len(acc_table)
           x == [acc_table[i] EXCEPT !.pattern = @ \cup {offset}]
           u == [acc_table EXCEPT ![i] = x]
<1>1. /\ i # 0 /\ acc_table' = Touch(u, i) /\ Drain
      /\ clock' = clock + 1 /\ used' = [used EXCEPT ![page] = clock']
      /\ generation' = [generation EXCEPT ![page].offsets = @ \cup {offset}]
      /\ UNCHANGED <<filter_table, pht, generation_learned>>
  BY DEF Accumulate, Seen
<1>2. acc_table \in Seq(AccEntry) /\ n \in Nat /\ clock \in Nat
  BY DEF SmsInv, SmsTyped
<1>3. i \in 1..n /\ acc_table[i].page = page /\ acc_table[i] \in AccEntry
  BY <1>1, <1>2, HeldAt
<1>4. /\ x \in AccEntry /\ x.page = page /\ x.pc = acc_table[i].pc /\ x.trigger = acc_table[i].trigger
      /\ x.pattern = acc_table[i].pattern \cup {offset}
  BY <1>3 DEF AccEntry
<1> HIDE DEF i, x
<1>5. u \in Seq(AccEntry) /\ Len(u) = n /\ u[i] = x /\ \A j \in 1..n : j # i => u[j] = acc_table[j]
  BY <1>2, <1>3, <1>4
<1> HIDE DEF u
<1>6. /\ acc_table' \in Seq(AccEntry) /\ Len(acc_table') = n
      /\ \A j \in 1..n : SameRegion(acc_table'[j], u[j])
      /\ acc_table'[i].age = 0
      /\ \A j \in 1..n : j # i => acc_table'[j].age = acc_table[j].age + 1
  BY <1>1, <1>3, <1>5, TouchAcc
<1>7. /\ acc_table'[i].page = page /\ acc_table'[i].pc = acc_table[i].pc
      /\ acc_table'[i].trigger = acc_table[i].trigger
      /\ acc_table'[i].pattern = acc_table[i].pattern \cup {offset}
      /\ \A j \in 1..n : j # i => SameRegion(acc_table'[j], acc_table[j])
  <2>1. SameRegion(acc_table'[i], x) /\ \A j \in 1..n : j # i => SameRegion(acc_table'[j], acc_table[j])
    BY <1>3, <1>5, <1>6
  <2> QED
    BY <1>4, <2>1 DEF SameRegion
<1>8. \A j \in 1..n : /\ acc_table[j] \in AccEntry /\ acc_table[j].age \in Nat /\ acc_table[j].page \in Region
                      /\ acc_table[j].age <= clock /\ (j # i => acc_table[j].page # page)
  <2> TAKE j \in 1..n
  <2>0. acc_table[j] \in AccEntry
    BY <1>2
  <2>1. acc_table[j] \in AccEntry /\ acc_table[j].age <= clock
    BY <2>0 DEF SmsInv, SmsTyped, Young
  <2>2. j # i => acc_table[j].page # page
    BY <1>3 DEF SmsInv, GenerationsKept, OnePage
  <2> QED
    BY <2>1, <2>2 DEF AccEntry
<1>9. Young(acc_table', clock')
  <2> SUFFICES ASSUME NEW j \in 1..n PROVE acc_table'[j].age <= clock + 1
    BY <1>1, <1>6 DEF Young
  <2>1. CASE j = i
    BY <1>2, <1>6, <2>1
  <2>2. CASE j # i
    BY <1>2, <1>6, <1>8, <2>2
  <2> QED
    BY <2>1, <2>2
<1>10. /\ used'[page] = clock + 1 /\ clock' \in Nat /\ used' \in [Region -> Nat]
       /\ \A p \in Region : used'[p] <= clock'
       /\ \A p \in Region : p # page => used'[p] = used[p] /\ used'[p] < clock + 1
  BY <1>1, UsedNow DEF SmsInv
<1>11. /\ generation' \in [Region -> [pc : Nat, trigger : Nat, offsets : SUBSET Offset]]
       /\ generation'[page] = [generation[page] EXCEPT !.offsets = @ \cup {offset}]
       /\ \A p \in Region : p # page => generation'[p] = generation[p]
  <2>1. generation \in [Region -> [pc : Nat, trigger : Nat, offsets : SUBSET Offset]]
    BY DEF SmsInv, SmsTyped
  <2>2. [generation[page] EXCEPT !.offsets = @ \cup {offset}] \in [pc : Nat, trigger : Nat, offsets : SUBSET Offset]
    BY <2>1
  <2> QED
    BY <1>1, <2>1, <2>2
<1>12. SmsTyped'
  <2>1. \A s \in PhtSet : Young(pht'[s], clock')
    BY <1>1, HistoryLater DEF SmsInv
  <2> QED
    BY <1>1, <1>6, <1>9, <1>10, <1>11, <2>1 DEF SmsInv, SmsTyped
<1>13. GenerationsKept'
  <2>0. GenerationsKept /\ filter_table' = filter_table
    BY <1>1 DEF SmsInv
  <2>1. \A j \in 1..n : acc_table'[j].page = acc_table[j].page
    BY <1>3, <1>7 DEF SameRegion
  <2>2. OnePage(acc_table')
    BY <1>6, <2>0, <2>1 DEF OnePage, GenerationsKept
  <2>3. \A k \in 1..Len(filter_table), j \in 1..n : filter_table[k].page # acc_table'[j].page
    BY <2>0, <2>1 DEF GenerationsKept
  <2>4. ASSUME NEW k \in 1..Len(filter_table) PROVE BeganAs(filter_table[k], generation'[filter_table[k].page])
    <3>0. filter_table[k] \in FilterEntry
      BY DEF SmsInv, SmsTyped
    <3>1. filter_table[k].page \in Region
      BY <3>0 DEF FilterEntry
    <3>2. filter_table[k].page # page
      BY <1>3, <2>0 DEF GenerationsKept
    <3> QED
      BY <1>11, <2>0, <3>1, <3>2 DEF GenerationsKept
  <2>5. ASSUME NEW j \in 1..n PROVE GrewAs(acc_table'[j], generation'[acc_table'[j].page])
    <3>1. GrewAs(acc_table[j], generation[acc_table[j].page])
      BY <2>0 DEF GenerationsKept
    <3>2. CASE j = i
      <4>1. GrewAs(acc_table[i], generation[page])
        BY <1>3, <3>1, <3>2
      <4>2. /\ generation'[page].pc = generation[page].pc /\ generation'[page].trigger = generation[page].trigger
            /\ generation'[page].offsets = generation[page].offsets \cup {offset}
        BY <1>11 DEF SmsInv, SmsTyped
      <4> QED
        BY <1>7, <3>2, <4>1, <4>2 DEF GrewAs
    <3>3. CASE j # i
      <4>1. generation'[acc_table[j].page] = generation[acc_table[j].page]
        BY <1>8, <1>11, <3>3
      <4> QED
        BY <1>7, <3>1, <3>3, <4>1 DEF GrewAs, SameRegion
    <3> QED
      BY <3>2, <3>3
  <2> QED
    BY <1>6, <2>0, <2>2, <2>3, <2>4, <2>5 DEF GenerationsKept
<1>14. OldestIdle'
  <2>0. DOMAIN acc_table' = 1..n /\ DOMAIN acc_table = 1..n
    BY <1>2, <1>6
  <2> SUFFICES ASSUME NEW j \in 1..n, NEW k \in 1..n
               PROVE  used'[acc_table'[j].page] < used'[acc_table'[k].page] <=> acc_table'[j].age > acc_table'[k].age
    BY <2>0 DEF OldestIdle
  <2>1. \A m \in 1..n : /\ m = i => used'[acc_table'[m].page] = clock + 1 /\ acc_table'[m].age = 0
                        /\ m # i => /\ used'[acc_table'[m].page] = used[acc_table[m].page]
                                    /\ used[acc_table[m].page] < clock + 1
                                    /\ used[acc_table[m].page] \in Nat
                                    /\ acc_table'[m].age = acc_table[m].age + 1
    <3> TAKE m \in 1..n
    <3>1. CASE m = i
      BY <1>6, <1>7, <1>10, <3>1
    <3>2. CASE m # i
      <4>1. acc_table[m].page \in Region /\ acc_table[m].page # page /\ acc_table'[m].page = acc_table[m].page
        BY <1>7, <1>8, <3>2 DEF SameRegion
      <4> QED
        BY <1>6, <1>10, <3>2, <4>1
    <3> QED
      BY <3>1, <3>2
  <2>2. used[acc_table[j].page] < used[acc_table[k].page] <=> acc_table[j].age > acc_table[k].age
    BY <2>0 DEF SmsInv, OldestIdle
  <2>3. acc_table[j].age \in Nat /\ acc_table[k].age \in Nat
    BY <1>8
  <2>4. CASE j = i /\ k = i
    BY <2>1, <2>4, <1>2
  <2>5. CASE j = i /\ k # i
    <3>1. used'[acc_table'[j].page] = clock + 1 /\ acc_table'[j].age = 0
      BY <2>1, <2>5
    <3>2. used'[acc_table'[k].page] < clock + 1 /\ used'[acc_table'[k].page] \in Nat /\ acc_table'[k].age = acc_table[k].age + 1
      BY <2>1, <2>5
    <3> QED
      BY <1>2, <2>3, <3>1, <3>2
  <2>6. CASE j # i /\ k = i
    <3>1. used'[acc_table'[k].page] = clock + 1 /\ acc_table'[k].age = 0
      BY <2>1, <2>6
    <3>2. used'[acc_table'[j].page] < clock + 1 /\ acc_table'[j].age = acc_table[j].age + 1
      BY <2>1, <2>6
    <3> QED
      BY <1>2, <2>3, <3>1, <3>2
  <2>7. CASE j # i /\ k # i
    BY <2>1, <2>2, <2>3, <2>7
  <2> QED
    BY <2>4, <2>5, <2>6, <2>7
<1> QED
  BY <1>1, <1>12, <1>13, <1>14, HistoryLater, DrainTrue DEF SmsInv

\* insert_pht_table writes one set.
LEMMA InsertWrites ==
  ASSUME NEW table, NEW sig, NEW pattern
  PROVE  insert_pht_table(table, sig, pattern)
           = [table EXCEPT ![SetOf(sig)] = Inserted(table[SetOf(sig)], sig, pattern)]
<1> DEFINE i == Find(table[SetOf(sig)], LAMBDA e : e.signature = sig)
<1>1. CASE i # 0
  BY <1>1 DEF insert_pht_table, Inserted
<1>2. CASE i = 0
  BY <1>2 DEF insert_pht_table, Inserted
<1> QED
  BY <1>1, <1>2

\* The entries of the accumulation table, and the one to evict if there is no room.
LEMMA AccRoom ==
  ASSUME SmsTyped
  PROVE  /\ Len(acc_table) \in Nat /\ acc_table \in Seq(AccEntry)
         /\ \A j \in 1..Len(acc_table) :
              /\ acc_table[j] \in AccEntry /\ acc_table[j].age \in Nat /\ acc_table[j].age <= clock
              /\ acc_table[j].page \in Region /\ acc_table[j].pattern \in SUBSET Offset
              /\ <<acc_table[j].pc, acc_table[j].trigger>> \in Signature
         /\ ~(Len(acc_table) < sms_at_size) => OldestEntry(acc_table) \in 1..Len(acc_table)
<1>1. acc_table \in Seq(AccEntry) /\ Len(acc_table) \in Nat /\ Young(acc_table, clock) /\ clock \in Nat
  BY DEF SmsTyped
<1>2. \A j \in 1..Len(acc_table) : acc_table[j] \in AccEntry
  BY <1>1
<1>3. \A e \in AccEntry : /\ e.age \in Nat /\ e.page \in Region /\ e.pattern \in SUBSET Offset
                          /\ <<e.pc, e.trigger>> \in Signature
  BY DEF AccEntry, Signature
<1>4. ~(Len(acc_table) < sms_at_size) => OldestEntry(acc_table) \in 1..Len(acc_table)
  <2> SUFFICES ASSUME ~(Len(acc_table) < sms_at_size) PROVE OldestEntry(acc_table) \in 1..Len(acc_table)
    OBVIOUS
  <2>1. acc_table # <<>>
    BY <1>1, SmsAssumption
  <2> QED
    BY <1>1, <1>2, <1>3, <2>1, OldestThere
<1> QED
  BY <1>1, <1>2, <1>3, <1>4 DEF Young

\* evict_acc_table: the history learns the pattern of the generation that ends.
LEMMA EvictStep ==
  ASSUME SmsTyped, HistoryKept, EvictAcc, clock' = clock + 1
  PROVE  /\ pht' \in [PhtSet -> Seq(PhtEntry)] /\ \A s \in PhtSet : Young(pht'[s], clock')
         /\ generation_learned' \in [Signature -> SUBSET Offset] /\ HistoryKept'
<1>0. /\ pht \in [PhtSet -> Seq(PhtEntry)] /\ generation_learned \in [Signature -> SUBSET Offset]
      /\ clock \in Nat /\ \A s \in PhtSet : Young(pht[s], clock)
  BY DEF SmsTyped
<1>1. CASE Len(acc_table) < sms_at_size
  <2>1. UNCHANGED <<pht, generation_learned>>
    BY <1>1 DEF EvictAcc
  <2> QED
    BY <1>0, <2>1, HistoryLater
<1>2. CASE ~(Len(acc_table) < sms_at_size)
  <2> DEFINE v == acc_table[OldestEntry(acc_table)]
             sig == <<v.pc, v.trigger>>
             s0 == SetOf(sig)
             t == Inserted(pht[s0], sig, v.pattern)
             h == [generation_learned EXCEPT ![sig] = v.pattern]
  <2>1. pht' = [pht EXCEPT ![s0] = t] /\ generation_learned' = h
    BY <1>2, InsertWrites DEF EvictAcc
  <2>2. sig \in Signature /\ v.pattern \in SUBSET Offset
    BY <1>2, AccRoom
  <2> HIDE DEF v, sig
  <2>3. s0 \in PhtSet
    BY <2>2, SetThere
  <2>4. Remembers(pht[s0], s0, generation_learned)
    BY <2>3 DEF HistoryKept
  <2>5. t \in Seq(PhtEntry) /\ Young(t, clock + 1) /\ Remembers(t, s0, h)
    BY <1>0, <2>2, <2>3, <2>4, InsertedRemembers
  <2> HIDE DEF t
  <2>6. h \in [Signature -> SUBSET Offset] /\ \A x \in Signature : x # sig => h[x] = generation_learned[x]
    BY <1>0, <2>2
  <2>7. pht'[s0] = t /\ \A s \in PhtSet : s # s0 => pht'[s] = pht[s]
    BY <1>0, <2>1, <2>3
  <2>8. pht' \in [PhtSet -> Seq(PhtEntry)]
    BY <1>0, <2>1, <2>5
  <2>9. ASSUME NEW s \in PhtSet, s # s0 PROVE Young(pht[s], clock + 1) /\ Remembers(pht[s], s, h)
    <3>1. pht[s] \in Seq(PhtEntry) /\ Remembers(pht[s], s, generation_learned)
      BY <1>0 DEF HistoryKept
    <3>2. \A i \in 1..Len(pht[s]) : pht[s][i] \in PhtEntry
      BY <3>1
    <3>3. \A i \in 1..Len(pht[s]) : pht[s][i].age \in Nat /\ pht[s][i].signature \in Signature
      BY <3>2 DEF PhtEntry
    <3>4. \A i \in 1..Len(pht[s]) : pht[s][i].signature # sig
      BY <2>9, <3>1 DEF Remembers
    <3>5. Young(pht[s], clock + 1)
      BY <1>0, <3>1, <3>3, YoungLater
    <3> HIDE DEF h
    <3> QED
      BY <2>6, <3>1, <3>3, <3>4, <3>5 DEF Remembers
  <2> HIDE DEF h, s0
  <2>10. \A s \in PhtSet : Young(pht'[s], clock + 1) /\ Remembers(pht'[s], s, h)
    <3> TAKE s \in PhtSet
    <3>1. CASE s = s0
      BY <2>5, <2>7, <3>1
    <3>2. CASE s # s0
      BY <2>7, <2>9, <3>2
    <3> QED
      BY <3>1, <3>2
  <2>11. HistoryKept'
    BY <2>1, <2>10 DEF HistoryKept, Remembers, OneSignature
  <2> QED
    BY <2>1, <2>6, <2>8, <2>10, <2>11
<1> QED
  BY <1>1, <1>2

\* A region in the filter table is accessed again.
LEMMA PromoteStep ==
  ASSUME SmsInv, UNCHANGED enable_pref_buffer,
         NEW pc \in Pc, NEW page \in Region, NEW offset \in Offset, Promote(pc, page, offset)
  PROVE  SmsInv'
<1> DEFINE i == Held(filter_table, page)
           f == filter_table[i]
           room == IF Len(acc_table) < sms_at_size THEN acc_table
                   ELSE RemoveAt(acc_table, OldestEntry(acc_table))
           o == Older(room)
           n == Len(room)
           new == [page |-> f.page, pc |-> f.pc, trigger |-> f.trigger, pattern |-> {f.trigger, offset}, age |-> 0]
<1>1. /\ Held(acc_table, page) = 0 /\ i # 0 /\ EvictAcc /\ acc_table' = Append(o, new)
      /\ filter_table' = RemoveAt(filter_table, i) /\ Drain
      /\ clock' = clock + 1 /\ used' = [used EXCEPT ![page] = clock']
      /\ generation' = [generation EXCEPT ![page].offsets = @ \cup {offset}]
  BY DEF Promote, Seen, insert_acc_table, evict_filter_table
<1>0. SmsTyped /\ GenerationsKept /\ HistoryKept /\ OldestIdle /\ clock \in Nat
  BY DEF SmsInv, SmsTyped
<1>2. filter_table \in Seq(FilterEntry) /\ Len(filter_table) \in Nat
      /\ \A k \in 1..Len(filter_table) : filter_table[k] \in FilterEntry
  BY <1>0 DEF SmsTyped
<1>3. i \in 1..Len(filter_table) /\ f.page = page /\ f \in FilterEntry
  BY <1>1, <1>2, HeldAt
<1>4. /\ acc_table \in Seq(AccEntry) /\ Len(acc_table) \in Nat
      /\ \A j \in 1..Len(acc_table) :
              /\ acc_table[j] \in AccEntry /\ acc_table[j].age \in Nat /\ acc_table[j].age <= clock
              /\ acc_table[j].page \in Region
      /\ ~(Len(acc_table) < sms_at_size) => OldestEntry(acc_table) \in 1..Len(acc_table)
  BY <1>0, AccRoom
<1>5. \A j \in 1..Len(acc_table) : acc_table[j].page # page
  BY <1>1, <1>4, HeldAt
<1>6. room \in Seq(AccEntry) /\ \E x : TakenFrom(room, acc_table, x)
  <2>1. CASE Len(acc_table) < sms_at_size
    BY <1>4, <2>1, AllTaken
  <2>2. CASE ~(Len(acc_table) < sms_at_size)
    BY <1>4, <2>2, AllTaken
  <2> QED
    BY <2>1, <2>2
<1>7. new \in AccEntry /\ new.page = page /\ new.pc = f.pc /\ new.trigger = f.trigger
      /\ new.pattern = {f.trigger, offset} /\ new.age = 0
  BY <1>3 DEF AccEntry, FilterEntry
<1> HIDE DEF room, new, i
<1>8. /\ o \in Seq(AccEntry) /\ Len(o) = n /\ n \in Nat
      /\ \A j \in 1..n : SameRegion(o[j], room[j]) /\ o[j].age = room[j].age + 1
  BY <1>6, OlderAcc
<1> HIDE DEF o
<1>9. /\ acc_table' \in Seq(AccEntry) /\ Len(acc_table') = n + 1
      /\ \A j \in 1..n : acc_table'[j] = o[j]
      /\ acc_table'[n + 1] = new
  BY <1>1, <1>7, <1>8, OneMore
<1>10. PICK g \in [1..n -> 1..Len(acc_table)] :
         /\ \A j, k \in 1..n : g[j] = g[k] => j = k
         /\ \A j \in 1..n : room[j] = acc_table[g[j]]
  BY <1>6 DEF TakenFrom
<1>11. \A j \in 1..n : /\ g[j] \in 1..Len(acc_table)
                       /\ SameRegion(acc_table'[j], acc_table[g[j]])
                       /\ acc_table'[j].age = acc_table[g[j]].age + 1
  BY <1>8, <1>9, <1>10
<1>12. \A j \in 1..(n + 1) : j \in 1..n \/ j = n + 1
  BY <1>8
<1> HIDE DEF n, f
<1>13. Young(acc_table', clock')
  <2> SUFFICES ASSUME NEW j \in 1..(n + 1) PROVE acc_table'[j].age <= clock + 1
    BY <1>1, <1>9 DEF Young
  <2>1. CASE j = n + 1
    BY <1>0, <1>7, <1>9, <2>1
  <2>2. CASE j \in 1..n
    BY <1>0, <1>4, <1>11, <2>2
  <2> QED
    BY <1>12, <2>1, <2>2
<1>14. /\ used'[page] = clock + 1 /\ clock' \in Nat /\ used' \in [Region -> Nat]
       /\ \A p \in Region : used'[p] <= clock'
       /\ \A p \in Region : p # page => used'[p] = used[p] /\ used'[p] < clock + 1
  BY <1>0, <1>1, UsedNow
<1>15. /\ generation' \in [Region -> [pc : Nat, trigger : Nat, offsets : SUBSET Offset]]
       /\ generation'[page].pc = generation[page].pc /\ generation'[page].trigger = generation[page].trigger
       /\ generation'[page].offsets = generation[page].offsets \cup {offset}
       /\ \A p \in Region : p # page => generation'[p] = generation[p]
  <2>1. generation \in [Region -> [pc : Nat, trigger : Nat, offsets : SUBSET Offset]]
    BY <1>0 DEF SmsTyped
  <2> DEFINE y == [generation[page] EXCEPT !.offsets = @ \cup {offset}]
  <2>2. /\ y \in [pc : Nat, trigger : Nat, offsets : SUBSET Offset]
        /\ y.pc = generation[page].pc /\ y.trigger = generation[page].trigger
        /\ y.offsets = generation[page].offsets \cup {offset}
    BY <2>1
  <2>3. generation' = [generation EXCEPT ![page] = y]
    BY <1>1
  <2> HIDE DEF y
  <2> QED
    BY <2>1, <2>2, <2>3
<1>16. filter_table' \in Seq(FilterEntry) /\ TakenFrom(filter_table', filter_table, i)
  BY <1>1, <1>2, <1>3, AllTaken
<1>17. PICK q \in [1..Len(filter_table') -> (1..Len(filter_table)) \ {i}] :
         /\ \A j, k \in 1..Len(filter_table') : q[j] = q[k] => j = k
         /\ \A j \in 1..Len(filter_table') : filter_table'[j] = filter_table[q[j]]
  BY <1>16 DEF TakenFrom
<1>18. \A j \in 1..Len(filter_table') : /\ q[j] \in 1..Len(filter_table)
                                        /\ filter_table[q[j]].page # page /\ filter_table[q[j]].page \in Region
  <2> TAKE j \in 1..Len(filter_table')
  <2>1. q[j] \in 1..Len(filter_table) /\ q[j] # i
    BY <1>17
  <2>2. filter_table[q[j]] \in FilterEntry
    BY <1>2, <2>1
  <2>3. filter_table[q[j]].page # filter_table[i].page
    BY <1>0, <1>3, <2>1 DEF GenerationsKept, OnePage
  <2>4. filter_table[i].page = page
    BY <1>3 DEF f
  <2>5. filter_table[q[j]].page \in Region
    BY <2>2 DEF FilterEntry
  <2> QED
    BY <2>1, <2>3, <2>4, <2>5
<1>19. SmsTyped'
  BY <1>0, <1>1, <1>9, <1>13, <1>14, <1>15, <1>16, EvictStep DEF SmsTyped
<1>20. GenerationsKept'
  <2>1. OnePage(filter_table')
    <3> SUFFICES ASSUME NEW j \in 1..Len(filter_table'), NEW k \in 1..Len(filter_table'),
                        filter_table'[j].page = filter_table'[k].page
                 PROVE  j = k
      BY DEF OnePage
    <3>1. /\ q[j] \in 1..Len(filter_table) /\ q[k] \in 1..Len(filter_table)
          /\ filter_table[q[j]].page = filter_table[q[k]].page
      BY <1>17, <1>18
    <3>2. q[j] = q[k]
      BY <1>0, <3>1 DEF OnePage, GenerationsKept
    <3> QED
      BY <1>17, <3>2
  <2>2. OnePage(acc_table')
    <3> SUFFICES ASSUME NEW j \in 1..(n + 1), NEW k \in 1..(n + 1), acc_table'[j].page = acc_table'[k].page
                 PROVE  j = k
      BY <1>9 DEF OnePage
    <3>1. CASE j \in 1..n /\ k \in 1..n
      <4>0. /\ g[j] \in 1..Len(acc_table) /\ g[k] \in 1..Len(acc_table)
            /\ acc_table'[j].page = acc_table[g[j]].page /\ acc_table'[k].page = acc_table[g[k]].page
        BY <1>11, <3>1 DEF SameRegion
      <4>1. g[j] = g[k]
        BY <1>0, <4>0 DEF GenerationsKept, OnePage
      <4> QED
        BY <1>10, <3>1, <4>1
    <3>2. \A m \in 1..n : acc_table'[m].page # page
      BY <1>5, <1>11 DEF SameRegion
    <3>3. acc_table'[n + 1].page = page
      BY <1>7, <1>9
    <3> QED
      BY <1>12, <3>1, <3>2, <3>3
  <2>3. ASSUME NEW k \in 1..Len(filter_table'), NEW j \in 1..(n + 1)
        PROVE  filter_table'[k].page # acc_table'[j].page
    <3>1. CASE j \in 1..n
      <4>1. /\ g[j] \in 1..Len(acc_table) /\ acc_table'[j].page = acc_table[g[j]].page
            /\ q[k] \in 1..Len(filter_table) /\ filter_table'[k] = filter_table[q[k]]
        BY <1>11, <1>17, <1>18, <3>1 DEF SameRegion
      <4>2. filter_table[q[k]].page # acc_table[g[j]].page
        BY <1>0, <4>1 DEF GenerationsKept
      <4> QED
        BY <4>1, <4>2
    <3>2. CASE j = n + 1
      BY <1>7, <1>9, <1>17, <1>18, <3>2
    <3> QED
      BY <1>12, <3>1, <3>2
  <2>4. ASSUME NEW k \in 1..Len(filter_table')
        PROVE  BeganAs(filter_table'[k], generation'[filter_table'[k].page])
    <3>1. /\ filter_table'[k] = filter_table[q[k]] /\ q[k] \in 1..Len(filter_table)
          /\ generation'[filter_table[q[k]].page] = generation[filter_table[q[k]].page]
      BY <1>15, <1>17, <1>18
    <3>2. BeganAs(filter_table[q[k]], generation[filter_table[q[k]].page])
      BY <1>0, <3>1 DEF GenerationsKept
    <3> QED
      BY <3>1, <3>2
  <2>5. ASSUME NEW j \in 1..(n + 1) PROVE GrewAs(acc_table'[j], generation'[acc_table'[j].page])
    <3>1. CASE j \in 1..n
      <4>1. GrewAs(acc_table[g[j]], generation[acc_table[g[j]].page]) /\ acc_table'[j].page = acc_table[g[j]].page
        BY <1>0, <1>11, <3>1 DEF GenerationsKept, SameRegion
      <4>2. generation'[acc_table[g[j]].page] = generation[acc_table[g[j]].page]
        BY <1>4, <1>5, <1>11, <1>15, <3>1
      <4> QED
        BY <1>11, <3>1, <4>1, <4>2 DEF GrewAs, SameRegion
    <3>2. CASE j = n + 1
      <4>1. BeganAs(f, generation[page])
        BY <1>0, <1>3 DEF GenerationsKept, f
      <4>2. {f.trigger} \cup {offset} = {f.trigger, offset}
        OBVIOUS
      <4> QED
        BY <1>7, <1>9, <1>15, <3>2, <4>1, <4>2 DEF GrewAs, BeganAs
    <3> QED
      BY <1>12, <3>1, <3>2
  <2> QED
    BY <1>9, <2>1, <2>2, <2>3, <2>4, <2>5 DEF GenerationsKept
<1>21. OldestIdle'
  <2>0. DOMAIN acc_table' = 1..(n + 1) /\ DOMAIN acc_table = 1..Len(acc_table)
    BY <1>4, <1>9
  <2> SUFFICES ASSUME NEW j \in 1..(n + 1), NEW k \in 1..(n + 1)
               PROVE  used'[acc_table'[j].page] < used'[acc_table'[k].page] <=> acc_table'[j].age > acc_table'[k].age
    BY <2>0 DEF OldestIdle
  <2>1. \A m \in 1..n : /\ used'[acc_table'[m].page] = used[acc_table[g[m]].page]
                        /\ used[acc_table[g[m]].page] < clock + 1 /\ used[acc_table[g[m]].page] \in Nat
                        /\ acc_table'[m].age = acc_table[g[m]].age + 1 /\ acc_table[g[m]].age \in Nat
    <3> TAKE m \in 1..n
    <3>1. acc_table[g[m]].page \in Region /\ acc_table[g[m]].page # page /\ acc_table'[m].page = acc_table[g[m]].page
      BY <1>4, <1>5, <1>11 DEF SameRegion
    <3> QED
      BY <1>4, <1>11, <1>14, <3>1
  <2>2. used'[acc_table'[n + 1].page] = clock + 1 /\ acc_table'[n + 1].age = 0
    BY <1>7, <1>9, <1>14
  <2>3. CASE j \in 1..n /\ k \in 1..n
    <3>1. used[acc_table[g[j]].page] < used[acc_table[g[k]].page] <=> acc_table[g[j]].age > acc_table[g[k]].age
      BY <1>0, <1>11, <2>0, <2>3 DEF OldestIdle
    <3>2. /\ used'[acc_table'[j].page] = used[acc_table[g[j]].page]
          /\ used'[acc_table'[k].page] = used[acc_table[g[k]].page]
          /\ acc_table'[j].age = acc_table[g[j]].age + 1 /\ acc_table[g[j]].age \in Nat
          /\ acc_table'[k].age = acc_table[g[k]].age + 1 /\ acc_table[g[k]].age \in Nat
      BY <2>1, <2>3
    <3> QED
      BY <3>1, <3>2, SMTT(30)
  <2>4. CASE j = n + 1 /\ k \in 1..n
    <3>0. /\ used'[acc_table'[k].page] < clock + 1 /\ used'[acc_table'[k].page] \in Nat
          /\ acc_table'[k].age = acc_table[g[k]].age + 1 /\ acc_table[g[k]].age \in Nat
      BY <2>1, <2>4
    <3>1. used'[acc_table'[k].page] < clock + 1 /\ used'[acc_table'[k].page] \in Nat /\ acc_table'[k].age \in Nat /\ acc_table'[k].age > 0
      BY <3>0
    <3> QED
      BY <1>0, <2>2, <2>4, <3>1
  <2>5. CASE j \in 1..n /\ k = n + 1
    <3>0. /\ used'[acc_table'[j].page] < clock + 1
          /\ acc_table'[j].age = acc_table[g[j]].age + 1 /\ acc_table[g[j]].age \in Nat
      BY <2>1, <2>5
    <3>1. used'[acc_table'[j].page] < clock + 1 /\ acc_table'[j].age \in Nat /\ acc_table'[j].age > 0
      BY <3>0
    <3> QED
      BY <1>0, <2>2, <2>5, <3>1
  <2>6. CASE j = n + 1 /\ k = n + 1
    BY <1>0, <2>2, <2>6
  <2> QED
    BY <1>12, <2>3, <2>4, <2>5, <2>6
<1> QED
  BY <1>0, <1>1, <1>19, <1>20, <1>21, EvictStep, DrainTrue DEF SmsInv
\* What generate_prefetch finds is the rest of the pattern last learned.
LEMMA PredictedTrue ==
  ASSUME SmsTyped, HistoryKept, NEW pc \in Pc, NEW page \in Region, NEW offset \in Offset,
         PredictedLines(pc, page, offset) # <<>>
  PROVE  /\ PredictedLines(pc, page, offset)[1][1] = page
         /\ {PredictedLines(pc, page, offset)[k] : k \in DOMAIN PredictedLines(pc, page, offset)}
              = {page} \X (generation_learned[<<pc, offset>>] \ {offset})
<1> DEFINE sig == <<pc, offset>>
           s == SetOf(sig)
           t == pht[s]
           i == Find(t, LAMBDA e : e.signature = sig)
           lines == IF i = 0 THEN {} ELSE t[i].pattern \ {offset}
           m == Cardinality(lines)
           P == [k \in 1..m |-> <<page, NthLine(lines, k)>>]
<1>1. PredictedLines(pc, page, offset) = P
  BY DEF PredictedLines
<1>2. sig \in Signature
  BY DEF Signature
<1>3. s \in PhtSet
  BY <1>2, SetThere
<1>4. t \in Seq(PhtEntry) /\ Remembers(t, s, generation_learned)
  BY <1>3 DEF SmsTyped, HistoryKept
<1>5. i # 0 => i \in 1..Len(t) /\ t[i].signature = sig
  BY <1>4, FoundAt
<1>6. i # 0
  <2> SUFFICES ASSUME i = 0 PROVE FALSE
    OBVIOUS
  <2>1. m = 0
    BY FS_EmptySet
  <2>2. 1..m = {}
    BY <2>1
  <2> HIDE DEF m, lines
  <2>3. P = <<>>
    BY <2>2
  <2> QED
    BY <1>1, <2>3
<1>7. t[i].pattern = generation_learned[sig] /\ t[i] \in PhtEntry
  <2>1. i \in 1..Len(t) /\ t[i].signature = sig
    BY <1>5, <1>6
  <2> HIDE DEF i, t, sig
  <2>2. t[i] \in PhtEntry
    BY <1>4, <2>1
  <2>3. t[i].pattern = generation_learned[t[i].signature]
    BY <1>4, <2>1 DEF Remembers
  <2> QED
    BY <2>1, <2>2, <2>3
<1>8. lines = generation_learned[sig] \ {offset} /\ t[i].pattern \in SUBSET Offset
  BY <1>6, <1>7 DEF PhtEntry
<1> HIDE DEF t, i
<1>9. lines \in SUBSET Nat /\ IsFiniteSet(lines)
  <2>1. lines \in SUBSET Offset
    BY <1>7, <1>8
  <2> HIDE DEF lines
  <2> QED
    BY <2>1, SmsAssumption, FS_Subset
<1> HIDE DEF lines
<1>10. m \in Nat /\ {NthLine(lines, k) : k \in 1..m} = lines
  BY <1>9, LinesInOrder
<1> HIDE DEF m
<1>11. DOMAIN P = 1..m /\ \A k \in 1..m : P[k] = <<page, NthLine(lines, k)>>
  OBVIOUS
<1>12. 1 \in 1..m
  <2>1. m # 0
    <3> SUFFICES ASSUME m = 0 PROVE FALSE
      OBVIOUS
    <3>1. 1..m = {}
      OBVIOUS
    <3> QED
      BY <1>1, <3>1
  <2> QED
    BY <1>10, <2>1
<1> HIDE DEF P
<1>13. {P[k] : k \in DOMAIN P} = {page} \X lines
  <2>1. \A k \in 1..m : NthLine(lines, k) \in lines
    BY <1>10
  <2>2. \A x \in lines : \E k \in 1..m : x = NthLine(lines, k)
    BY <1>10
  <2>3. ASSUME NEW k \in 1..m PROVE P[k] \in {page} \X lines
    <3>1. P[k] = <<page, NthLine(lines, k)>> /\ NthLine(lines, k) \in lines
      BY <1>11, <2>1
    <3> QED
      BY <3>1
  <2>4. ASSUME NEW y \in {page} \X lines PROVE \E k \in 1..m : P[k] = y
    <3>1. PICK x \in lines : y = <<page, x>>
      OBVIOUS
    <3> QED
      BY <1>11, <2>2, <3>1
  <2> QED
    BY <1>11, <2>3, <2>4
<1>14. P[1][1] = page
  BY <1>11, <1>12
<1> QED
  BY <1>1, <1>8, <1>13, <1>14

\* generate_prefetch: the pattern found becomes the youngest of its set.
LEMMA GenerateStep ==
  ASSUME SmsTyped, HistoryKept, NEW pc \in Pc, NEW offset \in Offset,
         generate_prefetch(pc, offset), clock' = clock + 1, UNCHANGED generation_learned
  PROVE  pht' \in [PhtSet -> Seq(PhtEntry)] /\ (\A s \in PhtSet : Young(pht'[s], clock')) /\ HistoryKept'
<1> DEFINE sig == <<pc, offset>>
           s0 == SetOf(sig)
           i == Find(pht[s0], LAMBDA e : e.signature = sig)
           t == Touch(pht[s0], i)
<1>0. /\ pht \in [PhtSet -> Seq(PhtEntry)] /\ clock \in Nat /\ \A s \in PhtSet : Young(pht[s], clock)
  BY DEF SmsTyped
<1>1. CASE i = 0
  <2>1. pht' = pht
    BY <1>1 DEF generate_prefetch
  <2> QED
    BY <1>0, <2>1, HistoryLater
<1>2. CASE i # 0
  <2>1. pht' = [pht EXCEPT ![s0] = t]
    BY <1>2 DEF generate_prefetch
  <2>2. sig \in Signature
    BY DEF Signature
  <2>3. s0 \in PhtSet
    BY <2>2, SetThere
  <2>4. pht[s0] \in Seq(PhtEntry) /\ Young(pht[s0], clock) /\ Remembers(pht[s0], s0, generation_learned)
    BY <1>0, <2>3 DEF HistoryKept
  <2>5. i \in 1..Len(pht[s0])
    <3>1. i # 0 => i \in 1..Len(pht[s0]) /\ pht[s0][i].signature = sig
      BY <2>4, FoundAt
    <3> QED
      BY <1>2, <3>1
  <2> HIDE DEF i, s0
  <2>6. /\ t \in Seq(PhtEntry) /\ Len(t) = Len(pht[s0]) /\ Young(t, clock + 1)
        /\ \A j \in 1..Len(pht[s0]) : SamePattern(t[j], pht[s0][j])
    BY <1>0, <2>4, <2>5, TouchPht
  <2> HIDE DEF t
  <2>7. Remembers(t, s0, generation_learned)
    BY <2>4, <2>6, SameRemembers
  <2>8. pht'[s0] = t /\ (\A s \in PhtSet : s # s0 => pht'[s] = pht[s]) /\ pht' \in [PhtSet -> Seq(PhtEntry)]
    BY <1>0, <2>1, <2>3, <2>6
  <2>9. ASSUME NEW s \in PhtSet PROVE Young(pht'[s], clock + 1) /\ Remembers(pht'[s], s, generation_learned)
    <3>1. CASE s = s0
      BY <2>6, <2>7, <2>8, <3>1
    <3>2. CASE s # s0
      <4>1. pht[s] \in Seq(PhtEntry) /\ Young(pht[s], clock) /\ Remembers(pht[s], s, generation_learned)
        BY <1>0 DEF HistoryKept
      <4>2. \A j \in 1..Len(pht[s]) : pht[s][j] \in PhtEntry
        BY <4>1
      <4>3. \A j \in 1..Len(pht[s]) : pht[s][j].age \in Nat
        BY <4>2 DEF PhtEntry
      <4>4. Young(pht[s], clock + 1)
        BY <1>0, <4>1, <4>3, YoungLater
      <4> QED
        BY <2>8, <3>2, <4>1, <4>4
    <3> QED
      BY <3>1, <3>2
  <2>10. HistoryKept'
    BY <2>9 DEF HistoryKept, Remembers, OneSignature
  <2> QED
    BY <2>8, <2>9, <2>10
<1> QED
  BY <1>1, <1>2

\* A region in no table is accessed: a generation begins.
LEMMA BeginStep ==
  ASSUME SmsInv, UNCHANGED enable_pref_buffer,
         NEW pc \in Pc, NEW page \in Region, NEW offset \in Offset, Begin(pc, page, offset)
  PROVE  SmsInv'
<1> DEFINE room == IF Len(filter_table) >= sms_ft_size THEN Tail(filter_table) ELSE filter_table
           n == Len(room)
           new == [page |-> page, pc |-> pc, trigger |-> offset]
           g == [pc |-> pc, trigger |-> offset, offsets |-> {offset}]
<1>1. /\ Held(acc_table, page) = 0 /\ Held(filter_table, page) = 0
      /\ filter_table' = Append(room, new) /\ generate_prefetch(pc, offset)
      /\ ~enable_pref_buffer => issued' = PredictedLines(pc, page, offset)
      /\ clock' = clock + 1 /\ used' = [used EXCEPT ![page] = clock']
      /\ generation' = [generation EXCEPT ![page] = g]
      /\ UNCHANGED <<acc_table, generation_learned>>
  BY DEF Begin, insert_filter_table
<1>0. SmsTyped /\ GenerationsKept /\ HistoryKept /\ OldestIdle /\ clock \in Nat
  BY DEF SmsInv, SmsTyped
<1>2. filter_table \in Seq(FilterEntry) /\ Len(filter_table) \in Nat
      /\ \A k \in 1..Len(filter_table) : filter_table[k] \in FilterEntry
  BY <1>0 DEF SmsTyped
<1>3. \A k \in 1..Len(filter_table) : filter_table[k].page # page /\ filter_table[k].page \in Region
  BY <1>1, <1>2, HeldAt DEF FilterEntry
<1>4. /\ acc_table \in Seq(AccEntry) /\ Len(acc_table) \in Nat
      /\ \A j \in 1..Len(acc_table) :
              /\ acc_table[j] \in AccEntry /\ acc_table[j].age \in Nat /\ acc_table[j].age <= clock
              /\ acc_table[j].page \in Region
  BY <1>0, AccRoom
<1>5. \A j \in 1..Len(acc_table) : acc_table[j].page # page
  BY <1>1, <1>4, HeldAt
<1>6. room \in Seq(FilterEntry) /\ \E x : TakenFrom(room, filter_table, x)
  <2>1. CASE Len(filter_table) >= sms_ft_size
    <3>1. filter_table # <<>>
      BY <1>2, <2>1, SmsAssumption
    <3> QED
      BY <1>2, <2>1, <3>1, AllTaken
  <2>2. CASE ~(Len(filter_table) >= sms_ft_size)
    BY <1>2, <2>2, AllTaken
  <2> QED
    BY <2>1, <2>2
<1>7. new \in FilterEntry /\ new.page = page /\ new.pc = pc /\ new.trigger = offset
  BY DEF FilterEntry
<1> HIDE DEF room, new
<1>8. /\ filter_table' \in Seq(FilterEntry) /\ Len(filter_table') = n + 1 /\ n \in Nat
      /\ \A j \in 1..n : filter_table'[j] = room[j]
      /\ filter_table'[n + 1] = new
  BY <1>1, <1>6, <1>7, OneMore
<1>9. PICK q \in [1..n -> 1..Len(filter_table)] :
         /\ \A j, k \in 1..n : q[j] = q[k] => j = k
         /\ \A j \in 1..n : room[j] = filter_table[q[j]]
  BY <1>6 DEF TakenFrom
<1>10. \A j \in 1..n : q[j] \in 1..Len(filter_table) /\ filter_table'[j] = filter_table[q[j]]
  BY <1>8, <1>9
<1>11. \A j \in 1..(n + 1) : j \in 1..n \/ j = n + 1
  BY <1>8
<1> HIDE DEF n
<1>12. /\ used'[page] = clock + 1 /\ clock' \in Nat /\ used' \in [Region -> Nat]
       /\ \A p \in Region : used'[p] <= clock'
       /\ \A p \in Region : p # page => used'[p] = used[p] /\ used'[p] < clock + 1
  BY <1>0, <1>1, UsedNow
<1>13. /\ generation' \in [Region -> [pc : Nat, trigger : Nat, offsets : SUBSET Offset]]
       /\ generation'[page].pc = pc /\ generation'[page].trigger = offset
       /\ generation'[page].offsets = {offset}
       /\ \A p \in Region : p # page => generation'[p] = generation[p]
  <2>1. generation \in [Region -> [pc : Nat, trigger : Nat, offsets : SUBSET Offset]]
    BY <1>0 DEF SmsTyped
  <2>2. /\ g \in [pc : Nat, trigger : Nat, offsets : SUBSET Offset]
        /\ g.pc = pc /\ g.trigger = offset /\ g.offsets = {offset}
    BY SmsAssumption
  <2> HIDE DEF g
  <2> QED
    BY <1>1, <2>1, <2>2
<1>14. /\ pht' \in [PhtSet -> Seq(PhtEntry)] /\ \A s \in PhtSet : Young(pht'[s], clock')
       /\ HistoryKept'
  BY <1>0, <1>1, GenerateStep
<1>15. Young(acc_table', clock')
  BY <1>0, <1>1, <1>4, YoungLater DEF SmsTyped
<1>16. SmsTyped'
  BY <1>0, <1>1, <1>8, <1>12, <1>13, <1>14, <1>15 DEF SmsTyped
<1>17. GenerationsKept'
  <2>1. OnePage(filter_table')
    <3> SUFFICES ASSUME NEW j \in 1..(n + 1), NEW k \in 1..(n + 1), filter_table'[j].page = filter_table'[k].page
                 PROVE  j = k
      BY <1>8 DEF OnePage
    <3>1. CASE j \in 1..n /\ k \in 1..n
      <4>1. /\ q[j] \in 1..Len(filter_table) /\ q[k] \in 1..Len(filter_table)
            /\ filter_table[q[j]].page = filter_table[q[k]].page
        BY <1>10, <3>1
      <4>2. q[j] = q[k]
        BY <1>0, <4>1 DEF GenerationsKept, OnePage
      <4> QED
        BY <1>9, <3>1, <4>2
    <3>2. \A m \in 1..n : filter_table'[m].page # page
      BY <1>3, <1>10
    <3>3. filter_table'[n + 1].page = page
      BY <1>7, <1>8
    <3> QED
      BY <1>11, <3>1, <3>2, <3>3
  <2>2. ASSUME NEW k \in 1..(n + 1), NEW j \in 1..Len(acc_table)
        PROVE  filter_table'[k].page # acc_table[j].page
    <3>1. CASE k \in 1..n
      <4>1. q[k] \in 1..Len(filter_table) /\ filter_table'[k] = filter_table[q[k]]
        BY <1>10, <3>1
      <4>2. filter_table[q[k]].page # acc_table[j].page
        BY <1>0, <4>1 DEF GenerationsKept
      <4> QED
        BY <4>1, <4>2
    <3>2. CASE k = n + 1
      BY <1>5, <1>7, <1>8, <3>2
    <3> QED
      BY <1>11, <3>1, <3>2
  <2>3. ASSUME NEW k \in 1..(n + 1)
        PROVE  BeganAs(filter_table'[k], generation'[filter_table'[k].page])
    <3>1. CASE k \in 1..n
      <4>1. /\ filter_table'[k] = filter_table[q[k]] /\ q[k] \in 1..Len(filter_table)
            /\ generation'[filter_table[q[k]].page] = generation[filter_table[q[k]].page]
        BY <1>3, <1>10, <1>13, <3>1
      <4>2. BeganAs(filter_table[q[k]], generation[filter_table[q[k]].page])
        BY <1>0, <4>1 DEF GenerationsKept
      <4> QED
        BY <4>1, <4>2
    <3>2. CASE k = n + 1
      BY <1>7, <1>8, <1>13, <3>2 DEF BeganAs
    <3> QED
      BY <1>11, <3>1, <3>2
  <2>4. ASSUME NEW j \in 1..Len(acc_table) PROVE GrewAs(acc_table[j], generation'[acc_table[j].page])
    <3>1. GrewAs(acc_table[j], generation[acc_table[j].page])
      BY <1>0 DEF GenerationsKept
    <3>2. generation'[acc_table[j].page] = generation[acc_table[j].page]
      BY <1>4, <1>5, <1>13
    <3> QED
      BY <3>1, <3>2
  <2>5. OnePage(acc_table)
    BY <1>0 DEF GenerationsKept
  <2>6. acc_table' = acc_table
    BY <1>1
  <2> QED
    BY <1>8, <2>1, <2>2, <2>3, <2>4, <2>5, <2>6 DEF GenerationsKept, OnePage
<1>18. OldestIdle'
  <2>0. DOMAIN acc_table = 1..Len(acc_table) /\ acc_table' = acc_table
    BY <1>1, <1>4
  <2> SUFFICES ASSUME NEW j \in 1..Len(acc_table), NEW k \in 1..Len(acc_table)
               PROVE  used'[acc_table[j].page] < used'[acc_table[k].page] <=> acc_table[j].age > acc_table[k].age
    BY <2>0 DEF OldestIdle
  <2>1. used[acc_table[j].page] < used[acc_table[k].page] <=> acc_table[j].age > acc_table[k].age
    BY <1>0, <2>0 DEF OldestIdle
  <2>2. used'[acc_table[j].page] = used[acc_table[j].page] /\ used'[acc_table[k].page] = used[acc_table[k].page]
    BY <1>4, <1>5, <1>12
  <2> QED
    BY <2>1, <2>2
<1>19. PrefetchTrue'
  <2>1. CASE enable_pref_buffer
    BY <2>1 DEF PrefetchTrue
  <2>2. CASE ~enable_pref_buffer
    <3>1. issued' = PredictedLines(pc, page, offset)
      BY <1>1, <2>2
    <3> SUFFICES ASSUME issued' # <<>> PROVE PrefetchTrue'
      BY DEF PrefetchTrue
    <3>2. /\ issued'[1][1] = page
          /\ {issued'[k] : k \in DOMAIN issued'} = {page} \X (generation_learned[<<pc, offset>>] \ {offset})
      BY <1>0, <3>1, PredictedTrue
    <3>3. generation'[issued'[1][1]].pc = pc /\ generation'[issued'[1][1]].trigger = offset
      BY <1>13, <3>2
    <3> QED
      BY <1>1, <3>2, <3>3 DEF PrefetchTrue
  <2> QED
    BY <2>1, <2>2
<1> QED
  BY <1>14, <1>16, <1>17, <1>18, <1>19 DEF SmsInv

\* The empty tables satisfy the invariant.
LEMMA SmsFirst == SmsInit => SmsInv
<1> SUFFICES ASSUME SmsInit PROVE SmsInv
  OBVIOUS
<1>1. /\ filter_table = <<>> /\ acc_table = <<>> /\ issued = <<>> /\ clock = 0
      /\ Len(filter_table) = 0 /\ Len(acc_table) = 0 /\ 1..0 = {} /\ DOMAIN acc_table = {}
  BY DEF SmsInit
<1>2. pht \in [PhtSet -> Seq(PhtEntry)] /\ \A s \in PhtSet : Len(pht[s]) = 0
  BY DEF SmsInit, PhtSet
<1>3. used \in [Region -> Nat] /\ \A p \in Region : used[p] <= clock
  BY <1>1 DEF SmsInit
<1>4. generation \in [Region -> [pc : Nat, trigger : Nat, offsets : SUBSET Offset]]
  <2>1. [pc |-> 0, trigger |-> 0, offsets |-> {}] \in [pc : Nat, trigger : Nat, offsets : SUBSET Offset]
    OBVIOUS
  <2> QED
    BY <2>1 DEF SmsInit
<1>5. generation_learned \in [Signature -> SUBSET Offset]
  BY DEF SmsInit
<1>6. SmsTyped
  BY <1>1, <1>2, <1>3, <1>4, <1>5 DEF SmsTyped, Young
<1>7. GenerationsKept
  BY <1>1 DEF GenerationsKept, OnePage
<1>8. HistoryKept
  BY <1>1, <1>2 DEF HistoryKept, Remembers, OneSignature
<1> QED
  BY <1>1, <1>6, <1>7, <1>8 DEF SmsInv, OldestIdle, PrefetchTrue

\* What the invariant says, as HistoryTrue says it.
LEMMA HistoryFollows == SmsInv => HistoryTrue
<1> SUFFICES ASSUME SmsInv PROVE HistoryTrue
  OBVIOUS
<1>0. SmsTyped /\ GenerationsKept /\ HistoryKept /\ OldestIdle /\ PrefetchTrue
  BY DEF SmsInv
<1>1. /\ filter_table \in Seq(FilterEntry) /\ acc_table \in Seq(AccEntry)
      /\ DOMAIN filter_table = 1..Len(filter_table) /\ DOMAIN acc_table = 1..Len(acc_table)
      /\ generation \in [Region -> [pc : Nat, trigger : Nat, offsets : SUBSET Offset]]
      /\ pht \in [PhtSet -> Seq(PhtEntry)]
  BY <1>0 DEF SmsTyped
<1>2. ASSUME NEW i \in 1..Len(filter_table)
      PROVE  LET f == filter_table[i] IN
             /\ Held(acc_table, f.page) = 0 /\ Held(filter_table, f.page) = i
             /\ generation[f.page] = [pc |-> f.pc, trigger |-> f.trigger, offsets |-> {f.trigger}]
  <2> DEFINE f == filter_table[i]
             p == f.page
             a == Held(acc_table, p)
             b == Held(filter_table, p)
  <2>0. f \in FilterEntry
    BY <1>1
  <2>1. p \in Region
    BY <2>0 DEF FilterEntry
  <2>2. a # 0 => a \in 1..Len(acc_table) /\ acc_table[a].page = p
    BY <1>1, HeldAt
  <2>3. a = 0
    BY <1>0, <2>2 DEF GenerationsKept
  <2>4. /\ b = 0 => \A j \in 1..Len(filter_table) : filter_table[j].page # p
        /\ b # 0 => b \in 1..Len(filter_table) /\ filter_table[b].page = p
    BY <1>1, HeldAt
  <2>5. b = i
    <3> HIDE DEF b
    <3>1. b # 0
      BY <2>4
    <3>2. b \in 1..Len(filter_table) /\ filter_table[b].page = filter_table[i].page
      BY <2>4, <3>1
    <3> QED
      BY <1>0, <3>2 DEF GenerationsKept, OnePage
  <2>6. generation[p] \in [pc : Nat, trigger : Nat, offsets : SUBSET Offset]
    BY <1>1, <2>1
  <2>7. BeganAs(f, generation[p])
    BY <1>0 DEF GenerationsKept
  <2> HIDE DEF f, p
  <2>8. generation[p] = [pc |-> f.pc, trigger |-> f.trigger, offsets |-> {f.trigger}]
    BY <2>6, <2>7 DEF BeganAs
  <2> QED
    BY <2>3, <2>5, <2>8 DEF f, p
<1>3. ASSUME NEW i \in 1..Len(acc_table)
      PROVE  LET e == acc_table[i] IN
             /\ Held(acc_table, e.page) = i
             /\ generation[e.page] = [pc |-> e.pc, trigger |-> e.trigger, offsets |-> e.pattern]
  <2> DEFINE e == acc_table[i]
             p == e.page
             a == Held(acc_table, p)
  <2>0. e \in AccEntry
    BY <1>1
  <2>1. p \in Region
    BY <2>0 DEF AccEntry
  <2>2. /\ a = 0 => \A j \in 1..Len(acc_table) : acc_table[j].page # p
        /\ a # 0 => a \in 1..Len(acc_table) /\ acc_table[a].page = p
    BY <1>1, HeldAt
  <2>3. a = i
    <3> HIDE DEF a
    <3>1. a # 0
      BY <2>2
    <3>2. a \in 1..Len(acc_table) /\ acc_table[a].page = acc_table[i].page
      BY <2>2, <3>1
    <3> QED
      BY <1>0, <3>2 DEF GenerationsKept, OnePage
  <2>4. generation[p] \in [pc : Nat, trigger : Nat, offsets : SUBSET Offset]
    BY <1>1, <2>1
  <2>5. GrewAs(e, generation[p])
    BY <1>0 DEF GenerationsKept
  <2> HIDE DEF e, p
  <2>6. generation[p] = [pc |-> e.pc, trigger |-> e.trigger, offsets |-> e.pattern]
    BY <2>4, <2>5 DEF GrewAs
  <2> QED
    BY <2>3, <2>6 DEF e, p
<1>4. GenerationsExact
  BY <1>1, <1>2, <1>3, Zenon DEF GenerationsExact
<1>5. ASSUME NEW s \in DOMAIN pht, NEW i \in DOMAIN pht[s]
      PROVE  /\ pht[s][i].pattern = generation_learned[pht[s][i].signature]
             /\ \A j \in DOMAIN pht[s] : pht[s][i].signature = pht[s][j].signature => i = j
  <2>1. s \in PhtSet
    BY <1>1
  <2>2. pht[s] \in Seq(PhtEntry) /\ Remembers(pht[s], s, generation_learned)
    BY <1>0, <1>1, <2>1 DEF HistoryKept
  <2>3. DOMAIN pht[s] = 1..Len(pht[s])
    BY <2>2
  <2> QED
    BY <2>2, <2>3 DEF Remembers, OneSignature
<1>6. HistoryCurrent
  BY <1>0, <1>5 DEF HistoryCurrent, PrefetchTrue
<1> QED
  BY <1>0, <1>4, <1>6 DEF HistoryTrue

(***************************************************************************)
(* However the tables of sms.cc move, evict, overwrite and re-use their    *)
(* entries, a region is in one table at most and its entry holds exactly   *)
(* what its generation accessed, the generation ended for room is the one  *)
(* idle for longest, and what is prefetched, without the buffer, is the    *)
(* pattern of the last generation that began alike.                        *)
(***************************************************************************)
THEOREM HistoryStaysTrue == SmsSpec => []HistoryTrue
<1>1. SmsInit => SmsInv
  BY SmsFirst
<1>2. SmsInv /\ [SmsNext]_smsVars => SmsInv'
  <2> SUFFICES ASSUME SmsInv, [SmsNext]_smsVars PROVE SmsInv'
    OBVIOUS
  <2>1. CASE SmsNext
    <3>1. UNCHANGED enable_pref_buffer
      BY <2>1 DEF SmsNext
    <3>2. PICK pc \in Pc, page \in Region, offset \in Offset :
            Accumulate(pc, page, offset) \/ Promote(pc, page, offset) \/ Begin(pc, page, offset)
      BY <2>1 DEF SmsNext
    <3> QED
      BY <3>1, <3>2, AccumulateStep, PromoteStep, BeginStep
  <2>2. CASE UNCHANGED smsVars
    <3>1. UNCHANGED <<filter_table, acc_table, pht, issued, enable_pref_buffer, clock, generation, used,
                      generation_learned>>
      BY <2>2 DEF smsVars, smsTables
    <3>2. SmsTyped'
      BY <3>1 DEF SmsInv, SmsTyped, Young
    <3>3. GenerationsKept'
      BY <3>1 DEF SmsInv, GenerationsKept, OnePage
    <3>4. HistoryKept'
      BY <3>1 DEF SmsInv, HistoryKept, Remembers, OneSignature
    <3>5. OldestIdle' /\ PrefetchTrue'
      BY <3>1 DEF SmsInv, OldestIdle, PrefetchTrue
    <3> QED
      BY <3>2, <3>3, <3>4, <3>5 DEF SmsInv
  <2> QED
    BY <2>1, <2>2
<1>3. SmsInv => HistoryTrue
  BY HistoryFollows
<1> QED
  BY <1>1, <1>2, <1>3, PTL DEF SmsSpec

=============================================================================
