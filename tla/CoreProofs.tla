----------------------------- MODULE CoreProofs -----------------------------
(***************************************************************************)
(* The out-of-order core, for every trace, every size of its buffers and   *)
(* every order in which caches and functional units answer.  An entry of   *)
(* the ROB is known by its instruction number: the numbers rise from the   *)
(* head to the tail, and all that is said here of older and younger        *)
(* entries is said of their numbers.                                       *)
(***************************************************************************)
EXTENDS OooCore, SequenceTheorems, FunctionTheorems, FiniteSetTheorems, WellFoundedInduction, TLAPS

-----------------------------------------------------------------------------
(***************************************************************************)
(* The reorder buffer.                                                     *)
(***************************************************************************)

Fields ==
  {"id", "mis", "translated", "fetched", "scheduled", "executed", "ready", "waits",
   "regDeps", "memDeps", "ops", "lqi", "sqi", "got"}

RobShape ==
  /\ rob = [i \in Rob |-> rob[i]]
  /\ \A i \in Rob : rob[i] = [f \in Fields |-> rob[i][f]]

CoreTypes ==
  /\ trace \in Traces
  /\ head \in Rob /\ occupancy \in 0..ROB_SIZE /\ retired \in Nat
  /\ rte0 \in Seq(Rob) /\ rte1 \in Seq(Rob)

Live(i) == rob[i].id # 0

\* A slot that holds no instruction has none of its marks.
Blank(i) ==
  /\ rob[i].translated = "NO" /\ rob[i].fetched = "NO" /\ rob[i].scheduled = "NO"
  /\ rob[i].executed = "NO" /\ ~rob[i].ready /\ rob[i].regDeps = {}

\* The entries are the instructions read and not retired, in order from the head.
RobRing ==
  /\ read = retired + occupancy
  /\ tail = (head + occupancy) % ROB_SIZE
  /\ \A i \in Rob : /\ rob[i].id = IF Pos(i) < occupancy THEN retired + Pos(i) + 1 ELSE 0
                    /\ ~Live(i) => Blank(i)

RobInv == RobShape /\ CoreTypes /\ RobRing

\* The sizes.
LEMMA Sizes ==
  /\ ROB_SIZE \in Nat \ {0} /\ LQ_SIZE \in Nat \ {0} /\ SQ_SIZE \in Nat \ {0}
  /\ Rob = 0..(ROB_SIZE - 1) /\ ROB_SIZE \notin Rob
BY SizesAssumption DEF Rob

\* Indices wrap around once.
LEMMA Wrapped ==
  ASSUME NEW n \in Nat \ {0}, NEW x \in 0..(2 * n - 1)
  PROVE  x % n = IF x < n THEN x ELSE x - n
OBVIOUS

\* The distance from the head.
LEMMA PosPlain ==
  ASSUME head \in Rob, NEW i \in Rob
  PROVE  /\ Pos(i) = IF i >= head THEN i - head ELSE i + ROB_SIZE - head
         /\ Pos(i) \in 0..(ROB_SIZE - 1)
<1> DEFINE x == i + ROB_SIZE - head
<1>1. ROB_SIZE \in Nat \ {0} /\ x \in 0..(2 * ROB_SIZE - 1) /\ i \in Nat /\ head \in Nat
      /\ i < ROB_SIZE /\ head < ROB_SIZE
  BY Sizes
<1>2. x % ROB_SIZE = IF x < ROB_SIZE THEN x ELSE x - ROB_SIZE
  BY <1>1, Wrapped
<1> QED
  BY <1>1, <1>2 DEF Pos

\* Entries are told apart, and older is a smaller number.
LEMMA Numbered ==
  ASSUME RobInv
  PROVE  /\ \A i \in Rob : rob[i].id \in Nat /\ (Live(i) => rob[i].id \in (retired + 1)..read)
         /\ \A i, k \in Rob : Live(i) /\ rob[i].id = rob[k].id => i = k
         /\ \A i \in Rob : Live(i) =>
              Older(i) = {k \in Rob : Live(k) /\ rob[k].id < rob[i].id}
         /\ \A i, k \in Rob : Live(i) /\ Live(k) => (Pos(i) <= Pos(k) <=> rob[i].id <= rob[k].id)
         /\ occupancy > 0 => rob[head].id = retired + 1
         /\ read \in Nat /\ retired \in Nat
<1>1. /\ head \in Rob /\ occupancy \in Nat /\ retired \in Nat /\ read = retired + occupancy
      /\ \A i \in Rob : rob[i].id = IF Pos(i) < occupancy THEN retired + Pos(i) + 1 ELSE 0
  BY DEF RobInv, CoreTypes, RobRing
<1>2. \A i \in Rob : Pos(i) \in Nat
  BY <1>1, PosPlain, Sizes
<1>3. \A i, k \in Rob : Pos(i) = Pos(k) => i = k
  <2>1. \A i \in Rob : /\ Pos(i) = IF i >= head THEN i - head ELSE i + ROB_SIZE - head
                       /\ i \in 0..(ROB_SIZE - 1)
    BY <1>1, PosPlain, Sizes
  <2> QED
    BY <1>1, <2>1, Sizes
<1>4. \A i \in Rob : Live(i) <=> Pos(i) < occupancy
  BY <1>1, <1>2 DEF Live
<1>5. \A i \in Rob : Live(i) => rob[i].id = retired + Pos(i) + 1 /\ Pos(i) < occupancy
  BY <1>1, <1>4
<1>6. \A i \in Rob : rob[i].id \in Nat /\ (Live(i) => rob[i].id \in (retired + 1)..read)
  BY <1>1, <1>2, <1>5
<1>7. \A i, k \in Rob : Live(i) /\ Live(k) => (Pos(i) <= Pos(k) <=> rob[i].id <= rob[k].id)
  BY <1>1, <1>2, <1>5
<1>8. \A i, k \in Rob : Live(i) /\ rob[i].id = rob[k].id => i = k
  BY <1>1, <1>2, <1>3, <1>5 DEF Live
<1>9. ASSUME NEW i \in Rob, Live(i)
      PROVE  Older(i) = {k \in Rob : Live(k) /\ rob[k].id < rob[i].id}
  <2>1. \A k \in Rob : Live(k) => (Pos(k) < Pos(i) <=> rob[k].id < rob[i].id)
    BY <1>1, <1>2, <1>5, <1>9
  <2> QED
    BY <2>1 DEF Older, Live
<1>10. occupancy > 0 => rob[head].id = retired + 1
  <2>1. Pos(head) = 0
    BY <1>1, PosPlain, Sizes
  <2> QED
    BY <1>1, <2>1
<1> QED
  BY <1>1, <1>6, <1>7, <1>8, <1>9, <1>10

\* The last entry of a set in program order.
LastOf(S, w) == w \in S /\ \A m \in S : rob[m].id <= rob[w].id

\* Youngest names the last live entry in program order of a set, or none.
LEMMA YoungestIsLast ==
  ASSUME RobInv, NEW S \in SUBSET {k \in Rob : Live(k)}
  PROVE  /\ S # {} => LastOf(S, Youngest(S)) /\ Youngest(S) # ROB_SIZE
         /\ S = {} => Youngest(S) = ROB_SIZE
         /\ \A w : LastOf(S, w) => Youngest(S) = w
<1>1. /\ \A i \in Rob : rob[i].id \in Nat
      /\ \A i, k \in Rob : Live(i) /\ Live(k) => (Pos(i) <= Pos(k) <=> rob[i].id <= rob[k].id)
      /\ \A i, k \in Rob : Live(i) /\ rob[i].id = rob[k].id => i = k
  BY Numbered
<1>2. ASSUME S # {} PROVE \E w \in S : \A m \in S : Pos(m) <= Pos(w)
  <2> DEFINE D == {ROB_SIZE - Pos(m) : m \in S}
             R == OpToRel(<, Nat)
  <2>1. \A m \in S : Pos(m) \in 0..(ROB_SIZE - 1)
    BY PosPlain DEF RobInv, CoreTypes
  <2>2. D \subseteq Nat /\ D # {}
    <3>1. \A m \in S : ROB_SIZE - Pos(m) \in Nat
      BY <2>1, Sizes
    <3> QED
      BY <1>2, <3>1
  <2>3. IsWellFoundedOn(R, Nat)
    BY NatLessThanWellFounded
  <2>4. \A x, y \in Nat : x < y => <<x, y>> \in R
    BY DEF OpToRel
  <2> HIDE DEF D, R
  <2>5. PICK x \in D : \A y \in D : ~ (<<y, x>> \in R)
    BY <2>2, <2>3, WFMin
  <2>6. PICK w \in S : x = ROB_SIZE - Pos(w)
    BY <2>5 DEF D
  <2>7. ASSUME NEW m \in S PROVE Pos(m) <= Pos(w)
    <3>1. ROB_SIZE - Pos(m) \in D
      BY DEF D
    <3>2. ~(ROB_SIZE - Pos(m) < x)
      BY <2>2, <2>4, <2>5, <3>1
    <3> QED
      BY <2>1, <2>6, <3>2, Sizes
  <2> QED
    BY <2>7
<1>3. ASSUME S # {} PROVE Youngest(S) \in S /\ \A m \in S : Pos(m) <= Pos(Youngest(S))
  BY <1>2, <1>3 DEF Youngest
<1>4. S # {} => LastOf(S, Youngest(S))
  BY <1>1, <1>3 DEF LastOf
<1>5. S = {} => Youngest(S) = ROB_SIZE
  BY DEF Youngest
<1>6. S # {} => Youngest(S) # ROB_SIZE
  BY <1>3, Sizes
<1>7. ASSUME NEW w, LastOf(S, w) PROVE Youngest(S) = w
  <2>1. w \in S /\ Youngest(S) \in S
    BY <1>3, <1>7 DEF LastOf
  <2>2. rob[w].id = rob[Youngest(S)].id
    <3>1. rob[Youngest(S)].id <= rob[w].id /\ rob[w].id <= rob[Youngest(S)].id
      BY <1>4, <1>7, <2>1 DEF LastOf
    <3> QED
      BY <1>1, <2>1, <3>1
  <2> QED
    BY <1>1, <2>1, <2>2
<1> QED
  BY <1>4, <1>5, <1>6, <1>7

-----------------------------------------------------------------------------
(***************************************************************************)
(* Rings of indices, in which nothing is twice.                            *)
(***************************************************************************)

\* The elements of a sequence.
LEMMA SeqRange ==
  ASSUME NEW S, NEW s \in Seq(S)
  PROVE  /\ DOMAIN s = 1..Len(s) /\ Len(s) \in Nat /\ Range(s) \subseteq S
         /\ Range(s) = {s[n] : n \in 1..Len(s)}
<1>1. DOMAIN s = 1..Len(s) /\ Len(s) \in Nat
  BY LenProperties
<1>2. \A n \in 1..Len(s) : s[n] \in S
  BY ElementOfSeq
<1>3. Range(s) = {s[n] : n \in 1..Len(s)}
  BY <1>1, Zenon DEF Range
<1>4. Range(s) \subseteq S
  BY <1>2, <1>3
<1> QED
  BY <1>1, <1>3, <1>4

\* A ready-to-execute ring with one more entry.
LEMMA RingAppend ==
  ASSUME NEW S, NEW s \in Seq(S), NEW x \in S
  PROVE  /\ Append(s, x) \in Seq(S) /\ Range(Append(s, x)) = Range(s) \cup {x}
         /\ IsInjective(s) /\ x \notin Range(s) => IsInjective(Append(s, x))
<1> DEFINE t == Append(s, x)
           l == Len(s)
<1>1. /\ t \in Seq(S) /\ Len(t) = l + 1 /\ \A n \in 1..l : t[n] = s[n]
      /\ t[l + 1] = x
  BY AppendProperties
<1>2. l \in Nat /\ DOMAIN s = 1..l /\ DOMAIN t = 1..(l + 1)
  BY <1>1, SeqRange
<1> HIDE DEF t, l
<1>3. \A n \in 1..(l + 1) : n \in 1..l \/ n = l + 1
  BY <1>2
<1>4. (\A n \in 1..l : n \in 1..(l + 1)) /\ l + 1 \in 1..(l + 1)
  BY <1>2
<1>5. Range(t) = Range(s) \cup {x}
  BY <1>1, <1>2, <1>3, <1>4 DEF Range
<1>6. ASSUME IsInjective(s), x \notin Range(s) PROVE IsInjective(t)
  BY <1>1, <1>2, <1>3, <1>6 DEF Range, IsInjective
<1> QED
  BY <1>1, <1>5, <1>6 DEF t

\* A ready-to-execute ring without its head.
LEMMA RingTail ==
  ASSUME NEW S, NEW s \in Seq(S), s # <<>>
  PROVE  /\ Head(s) \in Range(s) /\ Head(s) \in S /\ Tail(s) \in Seq(S)
         /\ IsInjective(s) => /\ IsInjective(Tail(s))
                              /\ Range(Tail(s)) = Range(s) \ {Head(s)}
<1> DEFINE t == Tail(s)
           l == Len(s)
<1>1. /\ t \in Seq(S) /\ Len(t) = l - 1 /\ \A n \in 1..(l - 1) : t[n] = s[n + 1]
      /\ Head(s) = s[1] /\ Head(s) \in S
  BY HeadTailProperties
<1>2. l \in Nat /\ l > 0 /\ DOMAIN s = 1..l /\ DOMAIN t = 1..(l - 1)
  <2>1. l # 0
    BY EmptySeq
  <2> QED
    BY <1>1, <2>1, SeqRange
<1> HIDE DEF t, l
<1>3. \A n \in 1..(l - 1) : n + 1 \in 1..l /\ n + 1 # 1
  BY <1>2
<1>4. 1 \in 1..l /\ \A n \in 1..l : n = 1 \/ (n - 1 \in 1..(l - 1) /\ n = (n - 1) + 1)
  BY <1>2
<1>5. Head(s) \in Range(s)
  BY <1>1, <1>2, <1>4 DEF Range
<1>6. ASSUME IsInjective(s) PROVE IsInjective(t) /\ Range(t) = Range(s) \ {Head(s)}
  <2>1. IsInjective(t)
    <3> SUFFICES ASSUME NEW m \in 1..(l - 1), NEW n \in 1..(l - 1), t[m] = t[n] PROVE m = n
      BY <1>2 DEF IsInjective
    <3>1. s[m + 1] = s[n + 1] /\ m + 1 \in 1..l /\ n + 1 \in 1..l
      BY <1>1, <1>3
    <3>2. m + 1 = n + 1
      BY <1>2, <1>6, <3>1, Zenon DEF IsInjective
    <3> QED
      BY <3>2
  <2>2. ASSUME NEW x \in Range(t) PROVE x \in Range(s) /\ x # Head(s)
    <3>1. PICK n \in 1..(l - 1) : x = t[n]
      BY <1>2 DEF Range
    <3>2. x = s[n + 1] /\ n + 1 \in 1..l /\ n + 1 # 1
      BY <1>1, <1>3, <3>1
    <3>3. x \in Range(s)
      BY <1>2, <3>2 DEF Range
    <3>4. s[n + 1] # s[1]
      BY <1>2, <1>4, <1>6, <3>2 DEF IsInjective
    <3> QED
      BY <1>1, <3>2, <3>3, <3>4
  <2>3. ASSUME NEW x \in Range(s), x # Head(s) PROVE x \in Range(t)
    <3>1. PICK n \in 1..l : x = s[n]
      BY <1>2 DEF Range
    <3>2. n - 1 \in 1..(l - 1) /\ t[n - 1] = s[n]
      BY <1>1, <1>4, <2>3, <3>1
    <3> QED
      BY <1>2, <3>1, <3>2 DEF Range
  <2> QED
    BY <2>1, <2>2, <2>3
<1> QED
  BY <1>1, <1>5, <1>6 DEF t

\* Two ready-to-execute rings, one after the other.
LEMMA RingConcat ==
  ASSUME NEW S, NEW s \in Seq(S), NEW t \in Seq(S)
  PROVE  /\ s \o t \in Seq(S) /\ Range(s \o t) = Range(s) \cup Range(t)
         /\ IsInjective(s) /\ IsInjective(t) /\ Range(s) \cap Range(t) = {}
              => IsInjective(s \o t)
<1> DEFINE u == s \o t
           l == Len(s)
           r == Len(t)
<1>1. /\ u \in Seq(S) /\ Len(u) = l + r
      /\ \A n \in 1..(l + r) : u[n] = IF n <= l THEN s[n] ELSE t[n - l]
  BY ConcatProperties
<1>2. /\ l \in Nat /\ r \in Nat /\ DOMAIN s = 1..l /\ DOMAIN t = 1..r
      /\ DOMAIN u = 1..(l + r)
  BY <1>1, SeqRange
<1> HIDE DEF u, l, r
<1>3. /\ \A n \in 1..l : n \in 1..(l + r) /\ u[n] = s[n]
      /\ \A n \in 1..r : n + l \in 1..(l + r) /\ u[n + l] = t[n]
      /\ \A n \in 1..(l + r) : n \in 1..l \/ (n - l \in 1..r /\ u[n] = t[n - l])
  <2>1. \A n \in 1..l : n \in 1..(l + r) /\ n <= l
    BY <1>2
  <2>2. \A n \in 1..r : n + l \in 1..(l + r) /\ ~(n + l <= l) /\ (n + l) - l = n
    BY <1>2
  <2>3. \A n \in 1..(l + r) : n \in 1..l \/ (n - l \in 1..r /\ ~(n <= l))
    BY <1>2
  <2>4. \A n \in 1..l : u[n] = s[n]
    BY <1>1, <2>1
  <2>5. \A n \in 1..r : u[n + l] = t[n]
    BY <1>1, <2>2
  <2> QED
    BY <1>1, <2>1, <2>2, <2>3, <2>4, <2>5
<1>4. Range(u) = Range(s) \cup Range(t)
  BY <1>2, <1>3 DEF Range
<1>5. ASSUME IsInjective(s), IsInjective(t), Range(s) \cap Range(t) = {} PROVE IsInjective(u)
  <2> SUFFICES ASSUME NEW m \in 1..(l + r), NEW n \in 1..(l + r), u[m] = u[n] PROVE m = n
    BY <1>2 DEF IsInjective
  <2>1. CASE m \in 1..l /\ n \in 1..l
    BY <1>2, <1>3, <1>5, <2>1 DEF IsInjective
  <2>2. CASE m - l \in 1..r /\ n - l \in 1..r /\ u[m] = t[m - l] /\ u[n] = t[n - l]
    <3>1. m - l = n - l
      BY <1>2, <1>5, <2>2 DEF IsInjective
    <3> QED
      BY <1>2, <3>1
  <2>3. CASE m \in 1..l /\ n - l \in 1..r /\ u[n] = t[n - l]
    BY <1>2, <1>3, <1>5, <2>3, ZenonT(40) DEF Range
  <2>4. CASE n \in 1..l /\ m - l \in 1..r /\ u[m] = t[m - l]
    BY <1>2, <1>3, <1>5, <2>4 DEF Range
  <2> QED
    BY <1>3, <2>1, <2>2, <2>3, <2>4
<1> QED
  BY <1>1, <1>4, <1>5 DEF u

-----------------------------------------------------------------------------
(***************************************************************************)
(* Register dependencies.                                                  *)
(***************************************************************************)

Slots(i) == 1..Len(Ins(i).src)

\* The older entries that write the register of slot j.
Writers(i, j) ==
  {k \in Rob : Live(k) /\ rob[k].id < rob[i].id /\ Ins(i).src[j] \in Ins(k).dst}

\* The slots entry i waits for: those some entry that has not executed knows of.
Pending(i) ==
  {d \in {i} \X Slots(i) :
     \E k \in Rob : rob[k].executed # "COMPLETED" /\ d \in rob[k].regDeps}

\* An entry is known to at most one older entry for each slot, once scheduled.
DepsExact ==
  /\ \A k \in Rob : \A d \in rob[k].regDeps :
       /\ d \in Rob \X Nat /\ d[2] \in Slots(d[1])
       /\ rob[d[1]].scheduled # "NO" /\ rob[k].id < rob[d[1]].id
  /\ \A k, m \in Rob : rob[k].regDeps \cap rob[m].regDeps # {} => k = m

\* The last writer of a slot has executed, or will tell.
Awaited ==
  \A i \in Rob : rob[i].scheduled # "NO" =>
    \A j \in Slots(i) : \A w \in Rob : LastOf(Writers(i, j), w) =>
      rob[w].executed = "COMPLETED" \/ <<i, j>> \in rob[w].regDeps

\* num_reg_dependent counts what is pending, and a ready entry has nothing pending.
Counted ==
  \A i \in Rob :
    /\ rob[i].scheduled # "NO" => rob[i].waits = Cardinality(Pending(i))
    /\ rob[i].ready => rob[i].scheduled # "NO" /\ Pending(i) = {}
    /\ Live(i) /\ Started(i) => rob[i].ready

\* The ready-to-execute rings hold what is ready, needs no memory and has not
\* started, each once.
Waiting == {i \in Rob : Live(i) /\ rob[i].ready /\ ~IsMemory(i) /\ rob[i].executed = "NO"}
RteExact ==
  /\ IsInjective(rte0) /\ IsInjective(rte1)
  /\ Range(rte0) \cap Range(rte1) = {}
  /\ Range(rte0) \cup Range(rte1) = Waiting

FlowInv == RobInv /\ DepsExact /\ Awaited /\ Counted /\ RteExact

\* A step that leaves the dependencies and the numbers as they are.
Calm ==
  /\ UNCHANGED <<trace, retired, read, head, tail, occupancy>>
  /\ RobShape' /\ CoreTypes'
  /\ \A k \in Rob :
       /\ rob'[k].id = rob[k].id /\ rob'[k].ready = rob[k].ready
       /\ rob'[k].waits = rob[k].waits /\ rob'[k].regDeps = rob[k].regDeps
       /\ rob'[k].executed = "COMPLETED" <=> rob[k].executed = "COMPLETED"
       /\ rob'[k].scheduled = "NO" <=> rob[k].scheduled = "NO"
       /\ ~Live(k) /\ Blank(k) => Blank(k)'
       /\ Started(k)' => Started(k) \/ rob[k].ready

\* A step that moves no entry and resolves no operand keeps the dependencies exact.
LEMMA CalmStep ==
  ASSUME FlowInv, Calm
  PROVE  /\ RobInv' /\ DepsExact' /\ Awaited' /\ Counted'
         /\ \A k \in Rob : Live(k)' = Live(k) /\ IsMemory(k)' = IsMemory(k)
<1>1. \A k \in Rob :
       /\ rob'[k].id = rob[k].id /\ rob'[k].ready = rob[k].ready
       /\ rob'[k].waits = rob[k].waits /\ rob'[k].regDeps = rob[k].regDeps
       /\ rob'[k].executed = "COMPLETED" <=> rob[k].executed = "COMPLETED"
       /\ rob'[k].scheduled = "NO" <=> rob[k].scheduled = "NO"
  BY DEF Calm
<1>2. \A k \in Rob : /\ Ins(k)' = Ins(k) /\ Slots(k)' = Slots(k) /\ Live(k)' = Live(k)
                     /\ IsMemory(k)' = IsMemory(k) /\ Pos(k)' = Pos(k)
  BY <1>1 DEF Calm, Ins, InstrAt, Slots, Live, IsMemory, Pos
<1>3. RobInv'
  <2>1. RobShape' /\ CoreTypes'
    BY DEF FlowInv, Calm
  <2>2. RobRing'
    BY <1>1, <1>2 DEF FlowInv, RobInv, Calm, RobRing
  <2> QED
    BY <2>1, <2>2 DEF RobInv
<1>4. DepsExact'
  <2>1. \A k \in Rob : \A d \in rob[k].regDeps : d \in Rob \X Nat
    BY DEF FlowInv, DepsExact
  <2>2. \A k \in Rob : \A d \in rob[k].regDeps : d[1] \in Rob
    BY <2>1
  <2> QED
    BY <1>1, <1>2, <2>2 DEF FlowInv, DepsExact
<1>5. \A i \in Rob : \A j : Writers(i, j)' = Writers(i, j)
  BY <1>1, <1>2 DEF Writers
<1>6. Awaited'
  <2> SUFFICES ASSUME NEW i \in Rob, rob'[i].scheduled # "NO", NEW j \in Slots(i)', NEW w \in Rob,
                      LastOf(Writers(i, j), w)'
               PROVE  rob'[w].executed = "COMPLETED" \/ <<i, j>> \in rob'[w].regDeps
    BY DEF Awaited
  <2>1. j \in Slots(i) /\ rob[i].scheduled # "NO"
    BY <1>1, <1>2
  <2>2. LastOf(Writers(i, j), w)
    <3>1. Writers(i, j) \subseteq Rob
      BY DEF Writers
    <3> QED
      BY <1>1, <1>5, <3>1 DEF LastOf
  <2> QED
    BY <1>1, <2>1, <2>2 DEF FlowInv, Awaited
<1>7. \A i \in Rob : Pending(i)' = Pending(i)
  BY <1>1, <1>2 DEF Pending
<1>8. Counted'
  BY <1>1, <1>2, <1>7 DEF FlowInv, Counted, Calm
<1> QED
  BY <1>2, <1>3, <1>4, <1>6, <1>8

\* And the rings.
Quiet ==
  /\ UNCHANGED <<trace, retired, read, head, tail, occupancy, rte0, rte1>>
  /\ RobShape'
  /\ \A k \in Rob :
       /\ rob'[k].id = rob[k].id /\ rob'[k].ready = rob[k].ready
       /\ rob'[k].waits = rob[k].waits /\ rob'[k].regDeps = rob[k].regDeps
       /\ rob'[k].executed = "COMPLETED" <=> rob[k].executed = "COMPLETED"
       /\ rob'[k].scheduled = "NO" <=> rob[k].scheduled = "NO"
       /\ ~Live(k) /\ Blank(k) => Blank(k)'
       /\ Started(k)' => Started(k) \/ rob[k].ready
       /\ Live(k) /\ ~IsMemory(k) => rob'[k].executed = rob[k].executed

\* A step that touches neither operands nor rings keeps the invariant.
LEMMA QuietStep ==
  ASSUME FlowInv, Quiet
  PROVE  FlowInv'
<1>1. Calm
  <2>1. CoreTypes'
    BY DEF FlowInv, RobInv, Quiet, CoreTypes
  <2> QED
    BY <2>1 DEF Quiet, Calm
<1>2. /\ RobInv' /\ DepsExact' /\ Awaited' /\ Counted'
      /\ \A k \in Rob : Live(k)' = Live(k) /\ IsMemory(k)' = IsMemory(k)
  BY <1>1, CalmStep
<1>3. Waiting' = Waiting
  <2>1. \A k \in Rob : Live(k) /\ ~IsMemory(k) => rob'[k].executed = rob[k].executed
    BY DEF Quiet
  <2>2. \A k \in Rob : rob'[k].ready = rob[k].ready
    BY DEF Quiet
  <2> QED
    BY <1>2, <2>1, <2>2 DEF Waiting
<1>4. RteExact'
  <2>1. rte0' = rte0 /\ rte1' = rte1
    BY DEF Quiet
  <2> QED
    BY <1>3, <2>1 DEF FlowInv, RteExact
<1> QED
  BY <1>2, <1>4 DEF FlowInv

\* The fields Quiet is about, and the fetch of an empty slot.
KeptFields == {"id", "ready", "waits", "regDeps", "executed", "scheduled", "lqi", "sqi"}

\* A step that leaves the named fields of every entry alone is such a step.
LEMMA QuietFields ==
  ASSUME UNCHANGED <<trace, retired, read, head, tail, occupancy, rte0, rte1>>, RobShape',
         \A k \in Rob : \A f \in KeptFields : rob'[k][f] = rob[k][f],
         \A k \in Rob : ~Live(k) => rob'[k].translated = rob[k].translated
                                    /\ rob'[k].fetched = rob[k].fetched
  PROVE  Quiet
<1>1. \A k \in Rob : /\ rob'[k].id = rob[k].id /\ rob'[k].ready = rob[k].ready
                     /\ rob'[k].waits = rob[k].waits /\ rob'[k].regDeps = rob[k].regDeps
                     /\ rob'[k].executed = rob[k].executed
                     /\ rob'[k].scheduled = rob[k].scheduled
                     /\ rob'[k].lqi = rob[k].lqi /\ rob'[k].sqi = rob[k].sqi
  BY DEF KeptFields
<1>2. \A k \in Rob : Started(k)' => Started(k)
  BY <1>1 DEF Started
<1>3. \A k \in Rob : ~Live(k) /\ Blank(k) => Blank(k)'
  BY <1>1 DEF Blank
<1> QED
  BY <1>1, <1>2, <1>3 DEF Quiet

\* A step that leaves the buffer alone is one.
LEMMA QuietSame ==
  ASSUME FlowInv, UNCHANGED <<trace, retired, read, head, tail, occupancy, rte0, rte1, rob>>
  PROVE  Quiet
<1>1. RobShape' /\ \A k \in Rob : rob'[k] = rob[k]
  BY DEF FlowInv, RobInv, RobShape
<1> QED
  BY <1>1 DEF Quiet, Blank, Started

\* The steps of instruction fetch are such steps.
LEMMA QuietFetch ==
  ASSUME FlowInv,
         \/ ItlbRead \/ L1iFetch \/ \E i \in Rob : CompleteInstrFetch(i)
  PROVE  Quiet
<1>1. RobShape /\ \A k \in Rob : ~Live(k) => Blank(k)
  BY DEF FlowInv, RobInv, RobRing
<1>2. CASE ItlbRead
  <2> DEFINE i == Next1(last_read, ROB_SIZE)
  <2>1. rob' = [rob EXCEPT ![i].translated = "INFLIGHT"] /\ rob[i].id # 0
    BY <1>2 DEF ItlbRead
  <2>2. UNCHANGED <<trace, retired, read, head, tail, occupancy, rte0, rte1>>
    BY <1>2 DEF ItlbRead, arch, rings
  <2> HIDE DEF i
  <2>3. RobShape'
    BY <1>1, <2>1 DEF RobShape, Fields
  <2>4. \A k \in Rob : k # i => rob'[k] = rob[k]
    BY <1>1, <2>1 DEF RobShape
  <2>5. i \in Rob => Live(i)
    BY <1>1, <2>1 DEF Live, Blank
  <2>6. i \in Rob => \A f \in KeptFields : rob'[i][f] = rob[i][f]
    BY <1>1, <2>1 DEF RobShape, Fields, KeptFields
  <2> QED
    BY <2>2, <2>3, <2>4, <2>5, <2>6, QuietFields
<1>3. CASE L1iFetch
  <2> DEFINE i == Next1(last_fetch, ROB_SIZE)
  <2>1. rob' = [rob EXCEPT ![i].fetched = "INFLIGHT"] /\ rob[i].translated = "COMPLETED"
    BY <1>3 DEF L1iFetch
  <2>2. UNCHANGED <<trace, retired, read, head, tail, occupancy, rte0, rte1>>
    BY <1>3 DEF L1iFetch, arch, rings
  <2> HIDE DEF i
  <2>3. RobShape'
    BY <1>1, <2>1, ZenonT(40) DEF RobShape, Fields
  <2>4. \A k \in Rob : k # i => rob'[k] = rob[k]
    BY <1>1, <2>1 DEF RobShape
  <2>5. i \in Rob => Live(i)
    BY <1>1, <2>1 DEF Live, Blank
  <2>6. i \in Rob => \A f \in KeptFields : rob'[i][f] = rob[i][f]
    BY <1>1, <2>1 DEF RobShape, Fields, KeptFields
  <2> QED
    BY <2>2, <2>3, <2>4, <2>5, <2>6, QuietFields
<1>4. ASSUME NEW i \in Rob, CompleteInstrFetch(i) PROVE Quiet
  <2>1. UNCHANGED <<trace, retired, read, head, tail, occupancy, rte0, rte1>>
    BY <1>4 DEF CompleteInstrFetch, arch, rings
  <2>2. CASE rob[i].translated = "INFLIGHT" /\ rob' = [rob EXCEPT ![i].translated = "COMPLETED"]
    <3>1. RobShape'
      BY <1>1, <2>2 DEF RobShape, Fields
    <3>2. \A k \in Rob : k # i => rob'[k] = rob[k]
      BY <1>1, <2>2 DEF RobShape
    <3>3. Live(i)
      BY <1>1, <2>2 DEF Live, Blank
    <3>4. \A f \in KeptFields : rob'[i][f] = rob[i][f]
      BY <1>1, <2>2 DEF RobShape, Fields, KeptFields
    <3> QED
      BY <2>1, <3>1, <3>2, <3>3, <3>4, QuietFields
  <2>3. CASE rob[i].fetched = "INFLIGHT" /\ rob' = [rob EXCEPT ![i].fetched = "COMPLETED"]
    <3>1. RobShape'
      BY <1>1, <2>3 DEF RobShape, Fields
    <3>2. \A k \in Rob : k # i => rob'[k] = rob[k]
      BY <1>1, <2>3 DEF RobShape
    <3>3. Live(i)
      BY <1>1, <2>3 DEF Live, Blank
    <3>4. \A f \in KeptFields : rob'[i][f] = rob[i][f]
      BY <1>1, <2>3 DEF RobShape, Fields, KeptFields
    <3> QED
      BY <2>1, <3>1, <3>2, <3>3, <3>4, QuietFields
  <2> QED
    BY <1>4, <2>2, <2>3 DEF CompleteInstrFetch
<1> QED
  BY <1>2, <1>3, <1>4

\* The memory operations: the scan reaches only ready entries.
LEMMA QuietAdd ==
  ASSUME FlowInv, NEW i \in Rob, CheckAndAddLsq(i)
  PROVE  Quiet
<1>1. RobShape /\ \A k \in Rob : ~Live(k) => Blank(k)
  BY DEF FlowInv, RobInv, RobRing
<1>2. rob[i].ready /\ rob[i].scheduled = "INFLIGHT" /\ IsMemory(i)
  BY DEF CheckAndAddLsq, AddLoad, AddStore, Turn, MemReady
<1>3. Live(i)
  BY <1>1, <1>2 DEF Blank
<1>4. UNCHANGED <<trace, retired, read, head, tail, occupancy, rte0, rte1>>
  BY DEF CheckAndAddLsq, AddLoad, AddStore, arch
<1>5. ASSUME NEW e, e = [f \in Fields |-> e[f]],
             \A f \in {"id", "translated", "fetched", "ready", "waits", "regDeps", "executed", "scheduled"} :
               e[f] = rob[i][f],
             rob'[i] = Added(e), DOMAIN rob' = Rob, rob' = [k \in Rob |-> rob'[k]],
             \A k \in Rob \ {i} : /\ rob'[k] = [f \in Fields |-> rob'[k][f]]
                                  /\ \A f \in Fields \ {"memDeps"} : rob'[k][f] = rob[k][f]
      PROVE  Quiet
  <2>1. /\ Added(e) = [f \in Fields |-> Added(e)[f]]
        /\ \A f \in {"id", "translated", "fetched", "ready", "waits", "regDeps"} : Added(e)[f] = e[f]
        /\ Added(e).executed = e.executed \/ (e.executed = "NO" /\ Added(e).executed = "INFLIGHT")
        /\ Added(e).scheduled = e.scheduled \/ Added(e).scheduled = "COMPLETED"
    <3>1. CASE Added(e) = e
      BY <1>5, <3>1
    <3>2. CASE Added(e) = [e EXCEPT !.scheduled = "COMPLETED",
                                    !.executed = IF @ = "NO" THEN "INFLIGHT" ELSE @]
      <4> DEFINE x == IF e.executed = "NO" THEN "INFLIGHT" ELSE e.executed
      <4>1. Added(e) = [e EXCEPT !.scheduled = "COMPLETED", !.executed = x]
        BY <3>2
      <4>2. x = e.executed \/ (e.executed = "NO" /\ x = "INFLIGHT")
        OBVIOUS
      <4> HIDE DEF x
      <4>3. /\ Added(e).executed = x /\ Added(e).scheduled = "COMPLETED"
            /\ \A f \in {"id", "translated", "fetched", "ready", "waits", "regDeps"} : Added(e)[f] = e[f]
        <5>1. DOMAIN e = Fields
          BY <1>5, Zenon
        <5>2. \A f \in Fields : f # "scheduled" /\ f # "executed" => Added(e)[f] = e[f]
          BY <4>1, <5>1
        <5>3. Added(e).executed = x /\ Added(e).scheduled = "COMPLETED"
          BY <4>1, <5>1 DEF Fields
        <5> QED
          BY <5>2, <5>3 DEF Fields
      <4>4. Added(e) = [f \in Fields |-> Added(e)[f]]
        BY <1>5, <4>1 DEF Fields
      <4> QED
        BY <4>2, <4>3, <4>4
    <3> QED
      BY <3>1, <3>2 DEF Added
  <2>2. RobShape'
    BY <1>5, <2>1 DEF RobShape
  <2>3. \A k \in Rob \ {i} : \A f \in {"id", "translated", "fetched", "ready", "waits", "regDeps",
                                       "executed", "scheduled", "lqi", "sqi"} : rob'[k][f] = rob[k][f]
    BY <1>5 DEF Fields
  <2>4. ASSUME NEW k \in Rob \ {i}
        PROVE  /\ rob'[k].id = rob[k].id /\ rob'[k].ready = rob[k].ready
               /\ rob'[k].waits = rob[k].waits /\ rob'[k].regDeps = rob[k].regDeps
               /\ rob'[k].executed = rob[k].executed /\ rob'[k].scheduled = rob[k].scheduled
               /\ Blank(k) => Blank(k)'
               /\ Started(k)' => Started(k)
    BY <2>3 DEF Blank, Started
  <2>5. /\ rob'[i].id = rob[i].id /\ rob'[i].ready = rob[i].ready
        /\ rob'[i].waits = rob[i].waits /\ rob'[i].regDeps = rob[i].regDeps
        /\ rob'[i].executed = "COMPLETED" <=> rob[i].executed = "COMPLETED"
        /\ rob'[i].scheduled # "NO"
    BY <1>2, <1>5, <2>1
  <2> QED
    BY <1>2, <1>3, <1>4, <2>2, <2>4, <2>5 DEF Quiet
<1>6. ASSUME NEW j \in 1..Len(rob[i].lqi), AddLoad(i, j) PROVE Quiet
  <2> DEFINE a == Ins(i).ld[j]
             q == Min({x \in Lq : lq[x].id = 0})
             p == StoreBefore(i, a)
             f0 == Forwarders(p, a)
             now == f0 # {} /\ sq[Min(f0)].fetched = "COMPLETED"
             e == [rob[i] EXCEPT !.lqi[j] = q, !.ops = IF now THEN @ - 1 ELSE @,
                                 !.got[j] = IF now THEN sq[Min(f0)].id ELSE @]
             l == [rob[i].lqi EXCEPT ![j] = q]
             o == IF now THEN rob[i].ops - 1 ELSE rob[i].ops
             g == [rob[i].got EXCEPT ![j] = IF now THEN sq[Min(f0)].id ELSE @]
  <2>1. rob' = [k \in Rob |->
           IF k = i THEN Added(e)
           ELSE IF k = p THEN [rob[k] EXCEPT !.memDeps = @ \cup {i}] ELSE rob[k]]
    BY <1>6, Zenon DEF AddLoad
  <2>2. e = [rob[i] EXCEPT !.lqi = l, !.ops = o, !.got = g]
    OBVIOUS
  <2> HIDE DEF q, p, f0, now, e, l, o, g
  <2>3. /\ e = [f \in Fields |-> e[f]]
        /\ \A f \in {"id", "translated", "fetched", "ready", "waits", "regDeps", "executed", "scheduled"} :
             e[f] = rob[i][f]
    BY <1>1, <2>2, ZenonT(40) DEF RobShape, Fields
  <2>4. rob'[i] = Added(e) /\ DOMAIN rob' = Rob /\ rob' = [k \in Rob |-> rob'[k]]
    BY <2>1, Zenon
  <2>5. ASSUME NEW k \in Rob \ {i}
        PROVE  /\ rob'[k] = [f \in Fields |-> rob'[k][f]]
               /\ \A f \in Fields \ {"memDeps"} : rob'[k][f] = rob[k][f]
    <3> DEFINE m == rob[k].memDeps \cup {i}
    <3>1. rob'[k] = rob[k] \/ rob'[k] = [rob[k] EXCEPT !.memDeps = m]
      BY <2>1
    <3> HIDE DEF m
    <3> QED
      BY <1>1, <3>1 DEF RobShape, Fields
  <2> QED
    BY <1>5, <2>3, <2>4, <2>5
<1>7. ASSUME NEW j \in 1..Len(rob[i].sqi), AddStore(i, j) PROVE Quiet
  <2> DEFINE l == [rob[i].sqi EXCEPT ![j] = sqTail]
             e == [rob[i] EXCEPT !.sqi = l]
  <2>1. rob' = [rob EXCEPT ![i] = Added(e)]
    BY <1>7 DEF AddStore
  <2> HIDE DEF l
  <2>2. /\ e = [f \in Fields |-> e[f]]
        /\ \A f \in {"id", "translated", "fetched", "ready", "waits", "regDeps", "executed", "scheduled"} :
             e[f] = rob[i][f]
    BY <1>1 DEF RobShape, Fields
  <2> HIDE DEF e
  <2>3. /\ rob'[i] = Added(e) /\ DOMAIN rob' = Rob /\ rob' = [k \in Rob |-> rob'[k]]
        /\ \A k \in Rob \ {i} : rob'[k] = rob[k]
    BY <1>1, <2>1 DEF RobShape
  <2>4. \A k \in Rob \ {i} : /\ rob'[k] = [f \in Fields |-> rob'[k][f]]
                             /\ \A f \in Fields \ {"memDeps"} : rob'[k][f] = rob[k][f]
    BY <1>1, <2>3 DEF RobShape
  <2> QED
    BY <1>5, <2>2, <2>3, <2>4
<1> QED
  BY <1>6, <1>7 DEF CheckAndAddLsq

\* The answers for loads and stores.
LEMMA QuietMemory ==
  ASSUME FlowInv, OperateLsq \/ CompleteDataFetch \/ ResumeFetch \/ \E a \in Addr : L1dWrite(a)
  PROVE  Quiet
<1>1. RobShape
  BY DEF FlowInv, RobInv
<1>2. CASE DtlbStore \/ DtlbLoad \/ ExecuteLoad
  BY <1>2, QuietSame DEF DtlbStore, DtlbLoad, ExecuteLoad, arch, buffer
<1>3. CASE ExecuteStore
  <2> DEFINE s == Head(rts1)
             F == Forwards(s)
             left(k) == rob[k].ops - (IF k = sq[s].rob THEN 1 ELSE 0)
                                   - Cardinality({d \in F : d[1] = k})
             g(k) == [j \in DOMAIN rob[k].got |-> IF <<k, j>> \in F THEN sq[s].id ELSE rob[k].got[j]]
  <2>1. rob' = [k \in Rob |-> [rob[k] EXCEPT !.ops = left(k), !.got = g(k)]]
    BY <1>3 DEF ExecuteStore
  <2>2. UNCHANGED <<trace, retired, read, head, tail, occupancy, rte0, rte1>>
    BY <1>3 DEF ExecuteStore, arch
  <2> HIDE DEF s, F, left, g
  <2>3. ASSUME NEW k \in Rob
        PROVE  /\ rob'[k] = [f \in Fields |-> rob'[k][f]]
               /\ \A f \in KeptFields : rob'[k][f] = rob[k][f]
               /\ rob'[k].translated = rob[k].translated /\ rob'[k].fetched = rob[k].fetched
    <3> DEFINE o == left(k)
               h == g(k)
    <3>1. rob'[k] = [rob[k] EXCEPT !.ops = o, !.got = h]
      BY <2>1
    <3> HIDE DEF o, h
    <3> QED
      BY <1>1, <3>1 DEF RobShape, Fields, KeptFields
  <2>4. RobShape'
    BY <2>1, <2>3 DEF RobShape
  <2> QED
    BY <2>2, <2>3, <2>4, QuietFields
<1>4. ASSUME NEW n \in Sq, StoreTranslated(n) PROVE Quiet
  BY <1>4, QuietSame DEF StoreTranslated, arch, buffer
<1>5. ASSUME NEW q \in Lq, LoadTranslated(q) PROVE Quiet
  BY <1>5, QuietSame DEF LoadTranslated, arch, buffer
<1>6. ASSUME NEW q \in Lq, LoadReturned(q) PROVE Quiet
  <2> DEFINE i == lq[q].rob
             o == rob[i].ops - 1
             g == [rob[i].got EXCEPT ![lq[q].slot] = mem[LdAddr(q)]]
  <2>1. rob' = [rob EXCEPT ![i] = [rob[i] EXCEPT !.ops = o, !.got = g]]
    BY <1>6 DEF LoadReturned
  <2>2. UNCHANGED <<trace, retired, read, head, tail, occupancy, rte0, rte1>>
    BY <1>6 DEF LoadReturned, arch, rings
  <2> HIDE DEF i, o, g
  <2>3. ASSUME NEW k \in Rob
        PROVE  /\ rob'[k] = [f \in Fields |-> rob'[k][f]]
               /\ \A f \in KeptFields : rob'[k][f] = rob[k][f]
               /\ rob'[k].translated = rob[k].translated /\ rob'[k].fetched = rob[k].fetched
    <3>1. rob'[k] = rob[k] \/ rob'[k] = [rob[k] EXCEPT !.ops = o, !.got = g]
      BY <1>1, <2>1 DEF RobShape
    <3> QED
      BY <1>1, <3>1 DEF RobShape, Fields, KeptFields
  <2>4. RobShape'
    BY <1>1, <2>1, <2>3 DEF RobShape
  <2> QED
    BY <2>2, <2>3, <2>4, QuietFields
<1>7. CASE ResumeFetch
  BY <1>7, QuietSame DEF ResumeFetch, arch, rings
<1>8. ASSUME NEW a \in Addr, L1dWrite(a) PROVE Quiet
  BY <1>8, QuietSame DEF L1dWrite, arch, buffer, rings
<1> QED
  BY <1>2, <1>3, <1>4, <1>5, <1>6, <1>7, <1>8 DEF OperateLsq, CompleteDataFetch

-----------------------------------------------------------------------------
(***************************************************************************)
(* The steps that change them.                                             *)
(***************************************************************************)

Instrs == [branch : BOOLEAN, src : Seq(Nat), dst : SUBSET Nat, ld : Seq(Addr), st : Seq(Addr)]

\* What the trace reader returns is an instruction, however often it starts over.
LEMMA InstrTyped ==
  ASSUME trace \in Traces, NEW n \in Nat \ {0}
  PROVE  InstrAt(n) \in Instrs
<1>1. trace \in Seq(Instrs) /\ Len(trace) > 0 /\ Len(trace) \in Nat
  <2>1. trace \in Seq(Instrs) /\ Len(trace) > 0
    BY SizesAssumption DEF Instrs
  <2> QED
    BY <2>1, LenProperties
<1>2. ((n - 1) % Len(trace)) + 1 \in 1..Len(trace)
  <2> DEFINE l == Len(trace)
  <2>1. n - 1 \in Nat /\ l \in Nat \ {0}
    BY <1>1
  <2> HIDE DEF l
  <2>2. (n - 1) % l \in 0..(l - 1)
    BY <2>1
  <2> QED
    BY <2>1, <2>2 DEF l
<1> QED
  BY <1>1, <1>2, ElementOfSeq DEF InstrAt

\* A sequence that is the same everywhere.
LEMMA ConstSeq ==
  ASSUME NEW n \in Nat, NEW c
  PROVE  /\ Len([j \in 1..n |-> c]) = n
         /\ \A j \in 1..Len([k \in 1..n |-> c]) : [k \in 1..n |-> c][j] = c
OBVIOUS

\* An entry built by add_to_rob is a function on the fields of an entry.
LEMMA EntryShape ==
  ASSUME NEW a, NEW b, NEW c, NEW d, NEW e, NEW f, NEW g, NEW h,
         NEW k, NEW l, NEW m, NEW n, NEW o, NEW p
  PROVE  LET x == [id |-> a, mis |-> b, translated |-> c, fetched |-> d, scheduled |-> e,
                   executed |-> f, ready |-> g, waits |-> h, regDeps |-> k, memDeps |-> l,
                   ops |-> m, lqi |-> n, sqi |-> o, got |-> p]
         IN  x = [y \in Fields |-> x[y]]
BY DEF Fields

\* handle_branch and add_to_rob: an entry enters at the tail, with no operand known.
LEMMA FlowEnter ==
  ASSUME FlowInv, HandleBranch
  PROVE  FlowInv'
<1>1. /\ occupancy < ROB_SIZE /\ head' = head /\ trace' = trace /\ retired' = retired
      /\ read' = read + 1 /\ occupancy' = occupancy + 1 /\ rte0' = rte0 /\ rte1' = rte1
      /\ tail' = (tail + 1) % ROB_SIZE
  BY DEF HandleBranch, MayRead, arch, rings, Next1
<1>2. /\ RobShape /\ CoreTypes /\ RobRing
  BY DEF FlowInv, RobInv
<1>3. PICK mis : rob' = [rob EXCEPT ![tail] = NewEntry(read + 1, mis)]
  BY DEF HandleBranch
<1>4. /\ ROB_SIZE \in Nat \ {0} /\ head \in 0..(ROB_SIZE - 1) /\ occupancy \in Nat
      /\ retired \in Nat /\ read = retired + occupancy /\ Rob = 0..(ROB_SIZE - 1)
      /\ tail = (head + occupancy) % ROB_SIZE
  BY <1>2, Sizes DEF CoreTypes, RobRing
<1>5. tail = IF head + occupancy < ROB_SIZE THEN head + occupancy ELSE head + occupancy - ROB_SIZE
  <2> DEFINE x == head + occupancy
  <2>1. x \in 0..(2 * ROB_SIZE - 1)
    BY <1>1, <1>4
  <2> HIDE DEF x
  <2>2. x % ROB_SIZE = IF x < ROB_SIZE THEN x ELSE x - ROB_SIZE
    BY <1>4, <2>1, Wrapped
  <2> QED
    BY <1>4, <2>2 DEF x
<1>6. tail \in Rob
  BY <1>1, <1>4, <1>5
<1>7. Pos(tail) = occupancy
  <2>1. Pos(tail) = IF tail >= head THEN tail - head ELSE tail + ROB_SIZE - head
    BY <1>4, <1>6, PosPlain
  <2> QED
    BY <1>1, <1>4, <1>5, <2>1
<1>8. \A k \in Rob : Pos(k) = occupancy => k = tail
  <2>1. \A k \in Rob : Pos(k) = IF k >= head THEN k - head ELSE k + ROB_SIZE - head
    BY <1>4, PosPlain
  <2> QED
    BY <1>1, <1>4, <1>5, <2>1
<1>9. ~Live(tail) /\ Blank(tail)
  BY <1>2, <1>4, <1>6, <1>7 DEF RobRing, Live
<1>10. \A k \in Rob : k # tail => rob'[k] = rob[k]
  BY <1>2, <1>3 DEF RobShape
<1>11. /\ rob'[tail] = NewEntry(read + 1, mis)
       /\ rob' = [k \in Rob |-> rob'[k]]
  BY <1>2, <1>3, <1>6 DEF RobShape
<1>12. /\ NewEntry(read + 1, mis) = [f \in Fields |-> NewEntry(read + 1, mis)[f]]
       /\ rob'[tail].id = read + 1 /\ rob'[tail].scheduled = "NO"
       /\ rob'[tail].executed = "NO" /\ rob'[tail].ready = FALSE /\ rob'[tail].regDeps = {}
  <2>1. NewEntry(read + 1, mis) = [f \in Fields |-> NewEntry(read + 1, mis)[f]]
    BY EntryShape DEF NewEntry
  <2>2. /\ NewEntry(read + 1, mis).id = read + 1 /\ NewEntry(read + 1, mis).scheduled = "NO"
        /\ NewEntry(read + 1, mis).executed = "NO" /\ NewEntry(read + 1, mis).ready = FALSE
        /\ NewEntry(read + 1, mis).regDeps = {}
    BY DEF NewEntry
  <2> QED
    BY <1>11, <2>1, <2>2
<1>13. ASSUME NEW t \in Rob, t = tail PROVE ~Started(t)'
  <2> DEFINE ins == InstrAt(read + 1)
  <2>1. Len(ins.ld) \in Nat /\ Len(ins.st) \in Nat
    <3>1. ins \in Instrs
      BY <1>2, <1>4, InstrTyped DEF CoreTypes
    <3>2. ins.ld \in Seq(Addr) /\ ins.st \in Seq(Addr)
      BY <3>1 DEF Instrs
    <3> QED
      BY <3>2, LenProperties
  <2>2. /\ rob'[tail].lqi = [j \in 1..Len(ins.ld) |-> LQ_SIZE]
        /\ rob'[tail].sqi = [j \in 1..Len(ins.st) |-> SQ_SIZE]
    BY <1>11 DEF NewEntry
  <2> HIDE DEF ins
  <2>3. /\ \A j \in 1..Len(rob'[tail].lqi) : rob'[tail].lqi[j] = LQ_SIZE
        /\ \A j \in 1..Len(rob'[tail].sqi) : rob'[tail].sqi[j] = SQ_SIZE
    BY <2>1, <2>2, ConstSeq
  <2>4. rob'[tail].executed = "NO"
    BY <1>12
  <2> QED
    BY <1>13, <2>3, <2>4 DEF Started
<1>14. RobInv'
  <2>1. RobShape'
    BY <1>2, <1>10, <1>11, <1>12 DEF RobShape
  <2>2. CoreTypes'
    BY <1>1, <1>2, <1>4 DEF CoreTypes
  <2>3. \A k \in Rob : Pos(k)' = Pos(k) /\ Pos(k) \in Nat
    BY <1>1, <1>4, PosPlain DEF Pos
  <2>4. tail' = (head' + occupancy') % ROB_SIZE
    <3>1. CASE head + occupancy + 1 < ROB_SIZE
      BY <1>1, <1>4, <1>5, <3>1
    <3>2. CASE head + occupancy + 1 = ROB_SIZE
      BY <1>1, <1>4, <1>5, <3>2
    <3>3. CASE head + occupancy + 1 > ROB_SIZE
      <4>1. tail + 1 = head + occupancy + 1 - ROB_SIZE /\ tail + 1 \in 0..(2 * ROB_SIZE - 1)
            /\ tail + 1 < ROB_SIZE /\ head + occupancy + 1 \in 0..(2 * ROB_SIZE - 1)
        BY <1>1, <1>4, <1>5, <3>3
      <4>2. (tail + 1) % ROB_SIZE = tail + 1
        BY <1>4, <4>1, Wrapped
      <4>3. (head + occupancy + 1) % ROB_SIZE = head + occupancy + 1 - ROB_SIZE
        <5> DEFINE x == head + occupancy + 1
        <5>1. x \in 0..(2 * ROB_SIZE - 1) /\ ~(x < ROB_SIZE)
          BY <1>4, <3>3, <4>1
        <5> HIDE DEF x
        <5>2. x % ROB_SIZE = x - ROB_SIZE
          BY <1>4, <5>1, Wrapped
        <5> QED
          BY <1>4, <5>2 DEF x
      <4>4. head' + occupancy' = head + occupancy + 1
        BY <1>1, <1>4
      <4> QED
        BY <1>1, <4>1, <4>2, <4>3, <4>4
    <3> QED
      BY <1>4, <3>1, <3>2, <3>3
  <2>5. read' = retired' + occupancy'
    BY <1>1, <1>4
  <2>6. ASSUME NEW k \in Rob
        PROVE  /\ rob'[k].id = IF Pos(k)' < occupancy' THEN retired' + Pos(k)' + 1 ELSE 0
               /\ ~Live(k)' => Blank(k)'
    <3>1. CASE k = tail
      BY <1>1, <1>4, <1>7, <1>12, <2>3, <3>1, SMTT(30) DEF Live
    <3>2. CASE k # tail
      <4>1. rob'[k] = rob[k] /\ Pos(k) # occupancy
        BY <1>8, <1>10, <3>2
      <4>2. Pos(k) < occupancy + 1 <=> Pos(k) < occupancy
        BY <1>4, <2>3, <4>1
      <4>3. rob[k].id = (IF Pos(k) < occupancy THEN retired + Pos(k) + 1 ELSE 0)
            /\ (~Live(k) => Blank(k))
        BY <1>2 DEF RobRing
      <4>4. rob'[k].id = IF Pos(k)' < occupancy' THEN retired' + Pos(k)' + 1 ELSE 0
        BY <1>1, <2>3, <4>1, <4>2, <4>3
      <4> QED
        BY <4>1, <4>3, <4>4 DEF Live, Blank
    <3> QED
      BY <3>1, <3>2
  <2> QED
    BY <2>1, <2>2, <2>4, <2>5, <2>6 DEF RobInv, RobRing
<1>15. /\ \A k \in Rob : k # tail => Ins(k)' = Ins(k) /\ Slots(k)' = Slots(k) /\ Live(k)' = Live(k)
                          /\ IsMemory(k)' = IsMemory(k)
  BY <1>1, <1>10 DEF Ins, InstrAt, Slots, Live, IsMemory
<1>16. \A k \in Rob : Live(k) => rob[k].id <= read
  <2>1. \A k \in Rob : Live(k) => rob[k].id \in (retired + 1)..read
    BY Numbered DEF FlowInv
  <2> QED
    BY <2>1, <1>4
<1>17. DepsExact'
  <2>1. ASSUME NEW k \in Rob, NEW d \in rob'[k].regDeps
        PROVE  k # tail /\ d \in rob[k].regDeps /\ d \in Rob \X Nat /\ d[1] # tail /\ d[1] \in Rob
    <3>1. k # tail /\ d \in rob[k].regDeps
      BY <1>10, <1>12, <2>1
    <3>2. d \in Rob \X Nat /\ rob[d[1]].scheduled # "NO"
      BY <3>1 DEF FlowInv, DepsExact
    <3> QED
      BY <1>9, <3>1, <3>2 DEF Blank
  <2>2. ASSUME NEW k \in Rob, NEW d \in rob'[k].regDeps
        PROVE  /\ d \in Rob \X Nat /\ d[2] \in Slots(d[1])'
               /\ rob'[d[1]].scheduled # "NO" /\ rob'[k].id < rob'[d[1]].id
    <3>1. k # tail /\ d \in rob[k].regDeps /\ d \in Rob \X Nat /\ d[1] # tail /\ d[1] \in Rob
      BY <2>1
    <3>2. d[2] \in Slots(d[1]) /\ rob[d[1]].scheduled # "NO" /\ rob[k].id < rob[d[1]].id
      BY <3>1 DEF FlowInv, DepsExact
    <3> QED
      BY <1>10, <1>15, <3>1, <3>2
  <2>3. ASSUME NEW k \in Rob, NEW m \in Rob, rob'[k].regDeps \cap rob'[m].regDeps # {}
        PROVE  k = m
    <3>1. rob[k].regDeps \cap rob[m].regDeps # {}
      BY <2>1, <2>3
    <3> QED
      BY <3>1 DEF FlowInv, DepsExact
  <2> QED
    BY <2>2, <2>3 DEF DepsExact
<1>18. ASSUME NEW i \in Rob, i # tail, NEW j PROVE Writers(i, j)' = Writers(i, j) /\ tail \notin Writers(i, j)
  <2>1. tail \notin Writers(i, j)
    BY <1>9 DEF Writers
  <2>2. tail \notin Writers(i, j)'
    <3>1. CASE Live(i)
      <4>1. rob'[i] = rob[i] /\ rob[i].id \in Nat /\ rob[i].id <= read
        <5>1. rob[i].id \in (retired + 1)..read
          BY <3>1, Numbered DEF FlowInv
        <5> QED
          BY <1>4, <1>10, <1>16, <1>18, <3>1, <5>1
      <4>2. ~(rob'[tail].id < rob'[i].id)
        BY <1>4, <1>12, <4>1
      <4> QED
        BY <4>2 DEF Writers
    <3>2. CASE ~Live(i)
      BY <1>4, <1>10, <1>12, <1>18, <3>2 DEF Writers, Live
    <3> QED
      BY <3>1, <3>2
  <2>3. ASSUME NEW k \in Rob, k # tail PROVE k \in Writers(i, j)' <=> k \in Writers(i, j)
    BY <1>10, <1>15, <1>18, <2>3 DEF Writers
  <2>4. Writers(i, j) \subseteq Rob /\ Writers(i, j)' \subseteq Rob
    BY DEF Writers
  <2> QED
    BY <2>1, <2>2, <2>3, <2>4
<1>19. Awaited'
  <2> SUFFICES ASSUME NEW i \in Rob, rob'[i].scheduled # "NO", NEW j \in Slots(i)', NEW w \in Rob,
                      LastOf(Writers(i, j), w)'
               PROVE  rob'[w].executed = "COMPLETED" \/ <<i, j>> \in rob'[w].regDeps
    BY DEF Awaited
  <2>1. i # tail
    BY <1>12
  <2>2. j \in Slots(i) /\ rob[i].scheduled # "NO"
    BY <1>10, <1>15, <2>1
  <2>3. LastOf(Writers(i, j), w) /\ w # tail
    <3>1. Writers(i, j) \subseteq Rob
      BY DEF Writers
    <3> QED
      BY <1>10, <1>18, <2>1, <3>1 DEF LastOf
  <2> QED
    BY <1>10, <2>2, <2>3 DEF FlowInv, Awaited
<1>20. \A i \in Rob : i # tail => Pending(i)' = Pending(i)
  <2> SUFFICES ASSUME NEW i \in Rob, i # tail PROVE Pending(i)' = Pending(i)
    OBVIOUS
  <2>1. \A k \in Rob : \A d : (rob'[k].executed # "COMPLETED" /\ d \in rob'[k].regDeps)
                            <=> (rob[k].executed # "COMPLETED" /\ d \in rob[k].regDeps)
    BY <1>9, <1>10, <1>12 DEF Blank
  <2> QED
    BY <1>15, <2>1 DEF Pending
<1>21. Counted'
  <2> SUFFICES ASSUME NEW i \in Rob
               PROVE  /\ rob'[i].scheduled # "NO" => rob'[i].waits = Cardinality(Pending(i)')
                      /\ rob'[i].ready => rob'[i].scheduled # "NO" /\ Pending(i)' = {}
                      /\ Live(i)' /\ Started(i)' => rob'[i].ready
    BY DEF Counted
  <2>1. CASE i = tail
    BY <1>12, <1>13, <2>1
  <2>2. CASE i # tail
    <3>1. Started(i)' = Started(i) /\ rob'[i] = rob[i] /\ Pending(i)' = Pending(i) /\ Live(i)' = Live(i)
      BY <1>10, <1>15, <1>20, <2>2 DEF Started
    <3> QED
      BY <3>1 DEF FlowInv, Counted
  <2> QED
    BY <2>1, <2>2
<1>22. Waiting' = Waiting
  BY <1>9, <1>10, <1>12, <1>15 DEF Waiting, Blank
<1>23. RteExact'
  BY <1>1, <1>22 DEF FlowInv, RteExact
<1> QED
  BY <1>14, <1>17, <1>19, <1>21, <1>23 DEF FlowInv

\* The place of a slot in program order, counted from the head around the ring.
LEMMA Distance ==
  ASSUME NEW n \in Nat \ {0}, NEW h \in 0..(n - 1), NEW i \in 0..(n - 1)
  PROVE  (i + n - h) % n = IF i >= h THEN i - h ELSE i + n - h
<1> DEFINE x == i + n - h
<1>1. x \in 0..(2 * n - 1)
  OBVIOUS
<1> HIDE DEF x
<1>2. x % n = IF x < n THEN x ELSE x - n
  BY <1>1, Wrapped
<1> QED
  BY <1>2 DEF x

\* retire_rob: the head leaves, and nobody waits for it.
LEMMA FlowRetire ==
  ASSUME FlowInv, Retire, NEW h, h = head
  PROVE  FlowInv'
<1>1. /\ rob[h].id # 0 /\ rob[h].executed = "COMPLETED"
      /\ rob' = [rob EXCEPT ![h] = FreeSlot] /\ head' = (head + 1) % ROB_SIZE
      /\ occupancy' = occupancy - 1 /\ retired' = retired + 1
      /\ read' = read /\ tail' = tail /\ trace' = trace /\ rte0' = rte0 /\ rte1' = rte1
  BY DEF Retire, rings, Next1
<1>2. /\ RobShape /\ CoreTypes /\ RobRing
  BY DEF FlowInv, RobInv
<1>3. /\ ROB_SIZE \in Nat \ {0} /\ h \in 0..(ROB_SIZE - 1) /\ occupancy \in 0..ROB_SIZE
      /\ retired \in Nat /\ read = retired + occupancy /\ Rob = 0..(ROB_SIZE - 1)
      /\ tail = (h + occupancy) % ROB_SIZE /\ h \in Rob
  BY <1>2, Sizes DEF CoreTypes, RobRing
<1>4. \A k \in Rob : Pos(k) = IF k >= h THEN k - h ELSE k + ROB_SIZE - h
  BY <1>3, PosPlain
<1>5. occupancy > 0 /\ rob[h].id = retired + 1
  <2>1. Pos(h) = 0
    BY <1>3, <1>4
  <2> QED
    BY <1>1, <1>2, <1>3, <2>1 DEF RobRing
<1>6. head' = (IF h + 1 = ROB_SIZE THEN 0 ELSE h + 1) /\ head' \in Rob
  <2> DEFINE x == h + 1
  <2>1. x \in 0..(2 * ROB_SIZE - 1) /\ x <= ROB_SIZE /\ head' = x % ROB_SIZE
    BY <1>1, <1>3
  <2> HIDE DEF x
  <2>2. x % ROB_SIZE = IF x < ROB_SIZE THEN x ELSE x - ROB_SIZE
    BY <1>3, <2>1, Wrapped
  <2>3. head' = (IF x = ROB_SIZE THEN 0 ELSE x) /\ head' \in Rob
    BY <1>3, <2>1, <2>2
  <2> QED
    BY <2>3 DEF x
<1>7. ASSUME NEW k \in Rob
      PROVE  Pos(k)' = IF k >= head' THEN k - head' ELSE k + ROB_SIZE - head'
  <2> DEFINE g == head'
  <2>1. g \in 0..(ROB_SIZE - 1) /\ k \in 0..(ROB_SIZE - 1)
    BY <1>3, <1>6
  <2>2. Pos(k)' = (k + ROB_SIZE - g) % ROB_SIZE
    BY DEF Pos
  <2> HIDE DEF g
  <2>3. Pos(k)' = IF k >= g THEN k - g ELSE k + ROB_SIZE - g
    BY <1>3, <2>1, <2>2, Distance
  <2> QED
    BY <2>3 DEF g
<1>8. ASSUME NEW k \in Rob
      PROVE  Pos(k)' = IF k = h THEN ROB_SIZE - 1 ELSE Pos(k) - 1
  <2>1. /\ Pos(k)' = IF k >= head' THEN k - head' ELSE k + ROB_SIZE - head'
        /\ Pos(k) = IF k >= h THEN k - h ELSE k + ROB_SIZE - h
        /\ k \in 0..(ROB_SIZE - 1)
    BY <1>3, <1>4, <1>7
  <2>2. CASE h + 1 = ROB_SIZE
    BY <1>3, <1>6, <2>1, <2>2
  <2>3. CASE h + 1 < ROB_SIZE
    BY <1>3, <1>6, <2>1, <2>3
  <2> QED
    BY <1>3, <2>2, <2>3
<1>9. /\ \A k \in Rob : k # h => rob'[k] = rob[k]
      /\ rob'[h] = FreeSlot /\ rob' = [k \in Rob |-> rob'[k]]
  BY <1>1, <1>2, <1>3 DEF RobShape
<1>10. /\ FreeSlot = [f \in Fields |-> FreeSlot[f]]
       /\ rob'[h].id = 0 /\ rob'[h].scheduled = "NO" /\ rob'[h].executed = "NO"
       /\ rob'[h].ready = FALSE /\ rob'[h].regDeps = {}
       /\ rob'[h].translated = "NO" /\ rob'[h].fetched = "NO"
  <2>1. FreeSlot = [f \in Fields |-> FreeSlot[f]]
    BY EntryShape DEF FreeSlot
  <2> QED
    BY <1>9, <2>1 DEF FreeSlot
<1>11. \A k \in Rob : Live(k) => rob[k].id > retired /\ rob[k].id \in Nat
  BY <1>3, Numbered DEF FlowInv
<1>12. RobInv'
  <2>1. RobShape'
    BY <1>2, <1>9, <1>10 DEF RobShape
  <2>2. CoreTypes'
    BY <1>1, <1>2, <1>3, <1>5, <1>6 DEF CoreTypes
  <2>3. read' = retired' + occupancy'
    BY <1>1, <1>3, <1>5
  <2>4. tail' = (head' + occupancy') % ROB_SIZE
    <3>1. CASE h + 1 < ROB_SIZE
      BY <1>1, <1>3, <1>5, <1>6, <3>1
    <3>2. CASE h + 1 = ROB_SIZE
      <4> DEFINE x == h + occupancy
                 y == head' + occupancy'
      <4>1. x \in 0..(2 * ROB_SIZE - 1) /\ y \in 0..(2 * ROB_SIZE - 1)
            /\ y = x - ROB_SIZE /\ y < ROB_SIZE /\ ~(x < ROB_SIZE)
        BY <1>1, <1>3, <1>5, <1>6, <3>2
      <4>2. tail = x % ROB_SIZE
        BY <1>3
      <4> HIDE DEF x, y
      <4>3. x % ROB_SIZE = x - ROB_SIZE /\ y % ROB_SIZE = y
        BY <1>3, <4>1, Wrapped
      <4>4. tail' = y % ROB_SIZE
        BY <1>1, <4>1, <4>2, <4>3
      <4> QED
        BY <4>4 DEF y
    <3> QED
      BY <1>3, <3>1, <3>2
  <2>5. ASSUME NEW k \in Rob
        PROVE  /\ rob'[k].id = IF Pos(k)' < occupancy' THEN retired' + Pos(k)' + 1 ELSE 0
               /\ ~Live(k)' => Blank(k)'
    <3>1. CASE k = h
      <4>1. ~(Pos(k)' < occupancy')
        BY <1>1, <1>3, <1>8, <3>1
      <4>2. Blank(k)'
        BY <1>10, <3>1 DEF Blank
      <4> QED
        BY <1>10, <3>1, <4>1, <4>2
    <3>2. CASE k # h
      <4>1. rob'[k] = rob[k] /\ Pos(k)' = Pos(k) - 1 /\ Pos(k) \in Int
        BY <1>3, <1>4, <1>8, <1>9, <3>2
      <4>2. rob[k].id = (IF Pos(k) < occupancy THEN retired + Pos(k) + 1 ELSE 0)
            /\ (~Live(k) => Blank(k))
        BY <1>2 DEF RobRing
      <4>3. rob'[k].id = IF Pos(k)' < occupancy' THEN retired' + Pos(k)' + 1 ELSE 0
        BY <1>1, <1>3, <4>1, <4>2
      <4> QED
        BY <4>1, <4>2, <4>3 DEF Live, Blank
    <3> QED
      BY <3>1, <3>2
  <2> QED
    BY <2>1, <2>2, <2>3, <2>4, <2>5 DEF RobInv, RobRing
<1>13. /\ \A k \in Rob : k # h => Ins(k)' = Ins(k) /\ Slots(k)' = Slots(k) /\ Live(k)' = Live(k)
                          /\ IsMemory(k)' = IsMemory(k)
  BY <1>1, <1>9 DEF Ins, InstrAt, Slots, Live, IsMemory
<1>14. DepsExact'
  <2>1. ASSUME NEW k \in Rob, NEW d \in rob'[k].regDeps
        PROVE  k # h /\ d \in rob[k].regDeps /\ d \in Rob \X Nat /\ d[1] # h /\ d[1] \in Rob
    <3>1. k # h /\ d \in rob[k].regDeps
      BY <1>9, <1>10, <2>1
    <3>2. d \in Rob \X Nat /\ rob[k].id < rob[d[1]].id
      BY <3>1 DEF FlowInv, DepsExact
    <3>3. Live(k)
      BY <1>2, <3>1 DEF RobRing, Blank
    <3>4. rob[k].id > retired /\ rob[k].id \in Nat
      BY <1>11, <3>3
    <3> QED
      BY <1>3, <1>5, <3>1, <3>2, <3>4
  <2>2. ASSUME NEW k \in Rob, NEW d \in rob'[k].regDeps
        PROVE  /\ d \in Rob \X Nat /\ d[2] \in Slots(d[1])'
               /\ rob'[d[1]].scheduled # "NO" /\ rob'[k].id < rob'[d[1]].id
    <3>1. k # h /\ d \in rob[k].regDeps /\ d \in Rob \X Nat /\ d[1] # h /\ d[1] \in Rob
      BY <2>1
    <3>2. d[2] \in Slots(d[1]) /\ rob[d[1]].scheduled # "NO" /\ rob[k].id < rob[d[1]].id
      BY <3>1 DEF FlowInv, DepsExact
    <3> QED
      BY <1>9, <1>13, <3>1, <3>2
  <2>3. ASSUME NEW k \in Rob, NEW m \in Rob, rob'[k].regDeps \cap rob'[m].regDeps # {}
        PROVE  k = m
    <3>1. rob[k].regDeps \cap rob[m].regDeps # {}
      BY <2>1, <2>3
    <3> QED
      BY <3>1 DEF FlowInv, DepsExact
  <2> QED
    BY <2>2, <2>3 DEF DepsExact
<1>15. ASSUME NEW i \in Rob, i # h, NEW j PROVE Writers(i, j)' = Writers(i, j) \ {h}
  <2>1. h \notin Writers(i, j)'
    BY <1>10 DEF Writers, Live
  <2>2. ASSUME NEW k \in Rob, k # h PROVE k \in Writers(i, j)' <=> k \in Writers(i, j)
    BY <1>9, <1>13, <1>15, <2>2 DEF Writers
  <2>3. Writers(i, j) \subseteq Rob /\ Writers(i, j)' \subseteq Rob
    BY DEF Writers
  <2> QED
    BY <2>1, <2>2, <2>3
<1>16. Awaited'
  <2> SUFFICES ASSUME NEW i \in Rob, rob'[i].scheduled # "NO", NEW j \in Slots(i)', NEW w \in Rob,
                      LastOf(Writers(i, j), w)'
               PROVE  rob'[w].executed = "COMPLETED" \/ <<i, j>> \in rob'[w].regDeps
    BY DEF Awaited
  <2>1. i # h
    BY <1>10
  <2>2. j \in Slots(i) /\ rob[i].scheduled # "NO"
    BY <1>9, <1>13, <2>1
  <2>3. w \in Writers(i, j) /\ w # h /\ \A m \in Writers(i, j) \ {h} : rob'[m].id <= rob'[w].id
    BY <1>15, <2>1 DEF LastOf
  <2>4. Writers(i, j) \subseteq Rob /\ Live(w)
    BY <2>3 DEF Writers
  <2>5. rob[h].id <= rob[w].id
    BY <1>3, <1>5, <1>11, <2>4
  <2>6. LastOf(Writers(i, j), w)
    BY <1>9, <2>3, <2>4, <2>5 DEF LastOf
  <2> QED
    BY <1>9, <2>2, <2>3, <2>6 DEF FlowInv, Awaited
<1>17. ASSUME NEW i \in Rob, i # h PROVE Pending(i)' = Pending(i)
  <2>1. \A k \in Rob : \A d : (rob'[k].executed # "COMPLETED" /\ d \in rob'[k].regDeps)
                            <=> (rob[k].executed # "COMPLETED" /\ d \in rob[k].regDeps)
    BY <1>1, <1>9, <1>10
  <2> QED
    BY <1>13, <1>17, <2>1 DEF Pending
<1>18. Counted'
  <2> SUFFICES ASSUME NEW i \in Rob
               PROVE  /\ rob'[i].scheduled # "NO" => rob'[i].waits = Cardinality(Pending(i)')
                      /\ rob'[i].ready => rob'[i].scheduled # "NO" /\ Pending(i)' = {}
                      /\ Live(i)' /\ Started(i)' => rob'[i].ready
    BY DEF Counted
  <2>1. CASE i = h
    BY <1>10, <2>1 DEF Live
  <2>2. CASE i # h
    <3>1. Started(i)' = Started(i) /\ rob'[i] = rob[i] /\ Pending(i)' = Pending(i) /\ Live(i)' = Live(i)
      BY <1>9, <1>13, <1>17, <2>2 DEF Started
    <3> QED
      BY <3>1 DEF FlowInv, Counted
  <2> QED
    BY <2>1, <2>2
<1>19. Waiting' = Waiting
  BY <1>1, <1>9, <1>10, <1>13 DEF Waiting, Live
<1>20. RteExact'
  BY <1>1, <1>19 DEF FlowInv, RteExact
<1> QED
  BY <1>12, <1>14, <1>16, <1>18, <1>20 DEF FlowInv

\* As many pairs as second components.
LEMMA PairCount ==
  ASSUME NEW i, NEW S, IsFiniteSet(S)
  PROVE  Cardinality({<<i, j>> : j \in S}) = Cardinality(S)
<1> DEFINE P == {<<i, j>> : j \in S}
           f == [j \in S |-> <<i, j>>]
<1>1. f \in Bijection(S, P)
  <2>1. f \in [S -> P] /\ \A j \in S : f[j] = <<i, j>>
    OBVIOUS
  <2>2. \A j, k \in S : f[j] = f[k] => j = k
    BY <2>1
  <2>3. \A p \in P : \E j \in S : f[j] = p
    BY <2>1
  <2> HIDE DEF f, P
  <2> QED
    BY <2>1, <2>2, <2>3, Fun_IsBij
<1> HIDE DEF f, P
<1>2. ExistsBijection(S, P)
  BY <1>1 DEF ExistsBijection
<1> QED
  BY <1>2, FS_Bijection DEF P

\* schedule_instruction: every operand finds its youngest older producer.
LEMMA FlowSchedule ==
  ASSUME FlowInv, NEW i \in Rob, Schedule(i)
  PROVE  FlowInv'
<1> DEFINE slots == {j \in 1..Len(Ins(i).src) : ProducerOf(i, j) # ROB_SIZE}
           D(k) == {<<i, j>> : j \in {x \in slots : ProducerOf(i, x) = k}}
           e == [rob[i] EXCEPT !.ready = slots = {}, !.waits = Cardinality(slots),
                   !.scheduled = IF IsMemory(i) THEN "INFLIGHT" ELSE "COMPLETED"]
<1>1. /\ RobShape /\ CoreTypes /\ RobRing
  BY DEF FlowInv, RobInv
<1>2. /\ MaySchedule(i)
      /\ rob' = [k \in Rob |-> IF k = i THEN e ELSE [rob[k] EXCEPT !.regDeps = @ \cup D(k)]]
      /\ rte1' = IF slots = {} /\ ~IsMemory(i) THEN Append(rte1, i) ELSE rte1
      /\ UNCHANGED <<trace, retired, read, head, tail, occupancy, rte0>>
  BY Zenon DEF Schedule, arch
<1>3. rob[i].scheduled = "NO" /\ Live(i)
  <2>1. i \in head..i
    <3>1. MaySchedule(i) /\ head \in Rob
      BY <1>1, <1>2 DEF CoreTypes
    <3>2. i >= head /\ head \in Nat /\ i \in Nat
      BY <3>1, Sizes DEF MaySchedule
    <3> QED
      BY <3>2
  <2>2. rob[i].fetched = "COMPLETED" /\ rob[i].scheduled = "NO"
    BY <1>2, <2>1 DEF MaySchedule
  <2> QED
    BY <1>1, <2>2 DEF RobRing, Blank
<1>4. Slots(i) = 1..Len(Ins(i).src) /\ slots \subseteq Slots(i) /\ Slots(i) \subseteq Nat
      /\ IsFiniteSet(slots)
  <2>1. rob[i].id \in Nat \ {0}
    BY <1>3, Numbered DEF FlowInv, Live
  <2>2. Ins(i) \in Instrs
    BY <1>1, <2>1, InstrTyped DEF Ins, CoreTypes
  <2>3. Len(Ins(i).src) \in Nat
    <3>1. Ins(i).src \in Seq(Nat)
      BY <2>2 DEF Instrs
    <3> QED
      BY <3>1, LenProperties
  <2>4. IsFiniteSet(1..Len(Ins(i).src))
    BY <2>3, FS_Interval
  <2> QED
    BY <2>3, <2>4, FS_Subset DEF Slots
<1>5. ASSUME NEW j \in Slots(i)
      PROVE  /\ ProducerOf(i, j) # ROB_SIZE =>
                  LET p == ProducerOf(i, j) IN
                  p \in Rob /\ Live(p) /\ rob[p].id < rob[i].id /\ rob[p].executed # "COMPLETED"
             /\ \A w \in Rob : LastOf(Writers(i, j), w) /\ rob[w].executed # "COMPLETED" =>
                  ProducerOf(i, j) = w
  <2> DEFINE U == {k \in Older(i) : /\ rob[k].executed # "COMPLETED"
                                    /\ Ins(i).src[j] \in Ins(k).dst}
  <2>1. ProducerOf(i, j) = Youngest(U)
    BY DEF ProducerOf
  <2>2. Older(i) = {k \in Rob : Live(k) /\ rob[k].id < rob[i].id}
    BY <1>3, Numbered DEF FlowInv
  <2>3. /\ U = {k \in Writers(i, j) : rob[k].executed # "COMPLETED"}
        /\ U \subseteq {k \in Rob : Live(k)}
    BY <2>2 DEF Writers
  <2> HIDE DEF U
  <2>4. /\ U # {} => LastOf(U, Youngest(U))
        /\ U = {} => Youngest(U) = ROB_SIZE
        /\ \A w : LastOf(U, w) => Youngest(U) = w
    BY <2>3, YoungestIsLast DEF FlowInv
  <2>5. ASSUME ProducerOf(i, j) # ROB_SIZE
        PROVE  ProducerOf(i, j) \in U
    BY <2>1, <2>4, <2>5 DEF LastOf
  <2>6. ASSUME NEW w \in Rob, LastOf(Writers(i, j), w), rob[w].executed # "COMPLETED"
        PROVE  ProducerOf(i, j) = w
    <3>1. LastOf(U, w)
      BY <2>3, <2>6 DEF LastOf
    <3> QED
      BY <2>1, <2>4, <3>1
  <2> QED
    BY <2>3, <2>5, <2>6 DEF Writers
<1>6. \A j \in slots : /\ ProducerOf(i, j) \in Rob /\ Live(ProducerOf(i, j)) /\ ProducerOf(i, j) # i
                       /\ rob[ProducerOf(i, j)].id < rob[i].id
                       /\ rob[ProducerOf(i, j)].executed # "COMPLETED"
  <2>1. rob[i].id \in Nat
    BY Numbered DEF FlowInv
  <2> QED
    BY <1>4, <1>5, <2>1
<1>7. \A k : \A d : d \in D(k) <=> \E j \in slots : d = <<i, j>> /\ ProducerOf(i, j) = k
  OBVIOUS
<1> HIDE DEF e
<1>8. /\ rob'[i] = e /\ rob' = [k \in Rob |-> rob'[k]]
      /\ \A k \in Rob : k # i => rob'[k] = [rob[k] EXCEPT !.regDeps = @ \cup D(k)]
  BY <1>2, Zenon
<1>a. slots = {j \in Slots(i) : ProducerOf(i, j) # ROB_SIZE}
  BY <1>4
<1> HIDE DEF D, slots
<1>9. /\ rob'[i] = [f \in Fields |-> rob'[i][f]]
      /\ rob'[i].ready = (slots = {}) /\ rob'[i].waits = Cardinality(slots)
      /\ rob'[i].scheduled # "NO"
      /\ \A f \in Fields \ {"ready", "waits", "scheduled"} : rob'[i][f] = rob[i][f]
  <2> DEFINE b == slots = {}
             c == Cardinality(slots)
             g == IF IsMemory(i) THEN "INFLIGHT" ELSE "COMPLETED"
  <2>1. rob'[i] = [rob[i] EXCEPT !.ready = b, !.waits = c, !.scheduled = g] /\ g # "NO"
    BY <1>8 DEF e
  <2> HIDE DEF b, c, g
  <2>2. /\ rob'[i].ready = b /\ rob'[i].waits = c /\ rob'[i].scheduled = g
    BY <1>1, <2>1 DEF RobShape, Fields
  <2>3. /\ rob'[i] = [f \in Fields |-> rob'[i][f]]
        /\ \A f \in Fields \ {"ready", "waits", "scheduled"} : rob'[i][f] = rob[i][f]
    BY <1>1, <2>1 DEF RobShape, Fields
  <2> QED
    BY <2>1, <2>2, <2>3 DEF b, c
<1>10. ASSUME NEW k \in Rob, k # i
       PROVE  /\ rob'[k] = [f \in Fields |-> rob'[k][f]]
              /\ rob'[k].regDeps = rob[k].regDeps \cup D(k)
              /\ \A f \in Fields \ {"regDeps"} : rob'[k][f] = rob[k][f]
  <2> DEFINE r == rob[k].regDeps \cup D(k)
  <2>1. rob'[k] = [rob[k] EXCEPT !.regDeps = r]
    BY <1>8, <1>10
  <2> HIDE DEF r
  <2>2. rob'[k].regDeps = r
    BY <1>1, <2>1 DEF RobShape, Fields
  <2>3. /\ rob'[k] = [f \in Fields |-> rob'[k][f]]
        /\ \A f \in Fields \ {"regDeps"} : rob'[k][f] = rob[k][f]
    BY <1>1, <2>1 DEF RobShape, Fields
  <2> QED
    BY <2>2, <2>3 DEF r
<1>11. /\ \A k \in Rob : /\ rob'[k].id = rob[k].id /\ rob'[k].executed = rob[k].executed
                         /\ rob'[k].lqi = rob[k].lqi /\ rob'[k].sqi = rob[k].sqi
                         /\ rob'[k].translated = rob[k].translated
                         /\ rob'[k].fetched = rob[k].fetched
       /\ \A k \in Rob : k # i => /\ rob'[k].ready = rob[k].ready /\ rob'[k].waits = rob[k].waits
                                  /\ rob'[k].scheduled = rob[k].scheduled
       /\ rob'[i].regDeps = rob[i].regDeps
  <2>1. \A f \in {"id", "executed", "lqi", "sqi", "translated", "fetched"} :
          f \in Fields \ {"ready", "waits", "scheduled"} /\ f \in Fields \ {"regDeps"}
    BY DEF Fields
  <2>2. \A f \in {"id", "executed", "lqi", "sqi", "translated", "fetched"} : \A k \in Rob :
          rob'[k][f] = rob[k][f]
    BY <1>9, <1>10, <2>1
  <2>3. \A f \in {"ready", "waits", "scheduled"} : \A k \in Rob : k # i => rob'[k][f] = rob[k][f]
    BY <1>10 DEF Fields
  <2>4. rob'[i].regDeps = rob[i].regDeps
    BY <1>9 DEF Fields
  <2> QED
    BY <2>2, <2>3, <2>4
<1>12. \A k \in Rob : /\ Ins(k)' = Ins(k) /\ Slots(k)' = Slots(k) /\ Live(k)' = Live(k)
                      /\ IsMemory(k)' = IsMemory(k) /\ Pos(k)' = Pos(k) /\ Started(k)' = Started(k)
  <2>1. trace' = trace /\ head' = head
    BY <1>2
  <2>2. \A k \in Rob : Started(k)' = Started(k)
    BY <1>11 DEF Started
  <2> QED
    BY <1>11, <2>1, <2>2 DEF Ins, InstrAt, Slots, Live, IsMemory, Pos
<1>13. ASSUME NEW k \in Rob, NEW d
       PROVE  d \in rob'[k].regDeps <=> d \in rob[k].regDeps \/ d \in D(k)
  <2>1. D(i) = {}
    BY <1>6, <1>7
  <2> QED
    BY <1>10, <1>11, <2>1
<1>14. ASSUME NEW k \in Rob, NEW d \in rob[k].regDeps
       PROVE  /\ d \in Rob \X Nat /\ d[1] \in Rob /\ d[2] \in Slots(d[1]) /\ d[1] # i
              /\ rob[d[1]].scheduled # "NO" /\ rob[k].id < rob[d[1]].id
  <2>1. d \in Rob \X Nat /\ d[2] \in Slots(d[1]) /\ rob[d[1]].scheduled # "NO" /\ rob[k].id < rob[d[1]].id
    BY DEF FlowInv, DepsExact
  <2> QED
    BY <1>3, <2>1
<1>15. RobInv'
  <2>1. RobShape'
    BY <1>8, <1>9, <1>10 DEF RobShape
  <2>2. CoreTypes'
    <3>1. rte1' \in Seq(Rob)
      BY <1>1, <1>2, RingAppend DEF CoreTypes
    <3> QED
      BY <1>1, <1>2, <3>1 DEF CoreTypes
  <2>3. ASSUME NEW k \in Rob, ~Live(k)' PROVE Blank(k)'
    <3>1. k # i /\ Blank(k) /\ ~Live(k)
      BY <1>1, <1>3, <1>12, <2>3 DEF RobRing
    <3>2. D(k) = {}
      BY <1>6, <1>7, <3>1
    <3> QED
      BY <1>10, <1>11, <3>1, <3>2 DEF Blank
  <2>4. RobRing'
    BY <1>1, <1>2, <1>11, <1>12, <2>3 DEF RobRing
  <2> QED
    BY <2>1, <2>2, <2>4 DEF RobInv
<1>16. DepsExact'
  <2>1. ASSUME NEW k \in Rob, NEW d \in rob'[k].regDeps
        PROVE  /\ d \in Rob \X Nat /\ d[2] \in Slots(d[1])'
               /\ rob'[d[1]].scheduled # "NO" /\ rob'[k].id < rob'[d[1]].id
    <3>1. CASE d \in rob[k].regDeps
      BY <1>11, <1>12, <1>14, <3>1
    <3>2. CASE d \in D(k)
      <4>1. PICK j \in slots : d = <<i, j>> /\ ProducerOf(i, j) = k
        BY <1>7, <3>2
      <4>2. j \in Slots(i) /\ j \in Nat
        BY <1>4
      <4>3. d \in Rob \X Nat /\ d[1] = i /\ d[2] = j
        BY <4>1, <4>2
      <4> QED
        BY <1>6, <1>9, <1>11, <1>12, <4>1, <4>2, <4>3
    <3> QED
      BY <1>13, <3>1, <3>2
  <2>2. ASSUME NEW k \in Rob, NEW m \in Rob, NEW d, d \in rob'[k].regDeps, d \in rob'[m].regDeps
        PROVE  k = m
    <3>1. CASE d \in D(k)
      <4>1. PICK j \in slots : d = <<i, j>> /\ ProducerOf(i, j) = k
        BY <1>7, <3>1
      <4>2. d \notin rob[m].regDeps
        BY <1>14, <4>1
      <4>3. d \in D(m)
        BY <1>13, <2>2, <4>2
      <4>4. PICK x \in slots : d = <<i, x>> /\ ProducerOf(i, x) = m
        BY <1>7, <4>3
      <4> QED
        BY <4>1, <4>4
    <3>2. CASE d \in rob[k].regDeps
      <4>1. d \notin D(m)
        BY <1>7, <1>14, <3>2
      <4>2. d \in rob[m].regDeps
        BY <1>13, <2>2, <4>1
      <4> QED
        BY <3>2, <4>2 DEF FlowInv, DepsExact
    <3> QED
      BY <1>13, <2>2, <3>1, <3>2
  <2> QED
    BY <2>1, <2>2 DEF DepsExact
<1>17. \A x \in Rob : \A j : Writers(x, j)' = Writers(x, j)
  BY <1>11, <1>12 DEF Writers
<1>18. Awaited'
  <2> SUFFICES ASSUME NEW x \in Rob, rob'[x].scheduled # "NO", NEW j \in Slots(x)', NEW w \in Rob,
                      LastOf(Writers(x, j), w)'
               PROVE  rob'[w].executed = "COMPLETED" \/ <<x, j>> \in rob'[w].regDeps
    BY DEF Awaited
  <2>1. LastOf(Writers(x, j), w) /\ j \in Slots(x)
    <3>1. Writers(x, j) \subseteq Rob
      BY DEF Writers
    <3> QED
      BY <1>11, <1>12, <1>17, <3>1 DEF LastOf
  <2>2. CASE x # i
    BY <1>11, <1>13, <2>1, <2>2 DEF FlowInv, Awaited
  <2>3. CASE x = i /\ rob[w].executed # "COMPLETED"
    <3>1. ProducerOf(i, j) = w
      BY <1>5, <2>1, <2>3
    <3>2. j \in slots
      BY <1>a, <2>1, <2>3, <3>1, Sizes
    <3> QED
      BY <1>7, <1>13, <2>3, <3>1, <3>2
  <2> QED
    BY <1>11, <2>2, <2>3
<1>19. ASSUME NEW x \in Rob, x # i PROVE Pending(x)' = Pending(x)
  <2>1. \A k \in Rob : \A j : <<x, j>> \notin D(k)
    BY <1>7, <1>19
  <2>2. \A d \in {x} \X Slots(x) : \A k \in Rob : d \notin D(k)
    BY <2>1
  <2> QED
    BY <1>11, <1>12, <1>13, <2>2 DEF Pending
<1>20. Pending(i)' = {<<i, j>> : j \in slots}
  <2>1. ASSUME NEW d \in Pending(i)' PROVE \E j \in slots : d = <<i, j>>
    <3>1. d \in {i} \X Slots(i)' /\ \E k \in Rob : d \in rob'[k].regDeps
      BY <2>1 DEF Pending
    <3>2. PICK k \in Rob : d \in rob'[k].regDeps
      BY <3>1
    <3>3. d \notin rob[k].regDeps
      BY <1>14, <3>1
    <3> QED
      BY <1>7, <1>13, <3>2, <3>3
  <2>2. ASSUME NEW j \in slots PROVE <<i, j>> \in Pending(i)'
    <3> DEFINE k == ProducerOf(i, j)
    <3>1. k \in Rob /\ rob'[k].executed # "COMPLETED"
      BY <1>6, <1>11
    <3>2. <<i, j>> \in D(k)
      BY <1>7
    <3>3. <<i, j>> \in rob'[k].regDeps
      BY <1>13, <3>1, <3>2
    <3>4. <<i, j>> \in {i} \X Slots(i)'
      BY <1>4, <1>12
    <3> QED
      BY <3>1, <3>3, <3>4 DEF Pending
  <2> QED
    BY <2>1, <2>2
<1>21. ~Started(i) /\ ~rob[i].ready
  BY <1>3 DEF FlowInv, Counted
<1>22. Counted'
  <2> SUFFICES ASSUME NEW x \in Rob
               PROVE  /\ rob'[x].scheduled # "NO" => rob'[x].waits = Cardinality(Pending(x)')
                      /\ rob'[x].ready => rob'[x].scheduled # "NO" /\ Pending(x)' = {}
                      /\ Live(x)' /\ Started(x)' => rob'[x].ready
    BY DEF Counted
  <2>1. CASE x = i
    <3>1. Cardinality(Pending(i)') = Cardinality(slots)
      <4>1. IsFiniteSet(slots)
        BY <1>4
      <4>2. Cardinality({<<i, j>> : j \in slots}) = Cardinality(slots)
        BY <4>1, PairCount
      <4> QED
        BY <1>20, <4>2
    <3>2. slots = {} => Pending(i)' = {}
      BY <1>20
    <3> QED
      BY <1>9, <1>12, <1>21, <2>1, <3>1, <3>2
  <2>2. CASE x # i
    BY <1>11, <1>12, <1>19, <2>2 DEF FlowInv, Counted
  <2> QED
    BY <2>1, <2>2
<1>23. Waiting' = Waiting \cup (IF slots = {} /\ ~IsMemory(i) THEN {i} ELSE {}) /\ i \notin Waiting
  <2>1. i \notin Waiting
    BY <1>21 DEF Waiting
  <2>2. \A k \in Rob : k # i => (k \in Waiting' <=> k \in Waiting)
    BY <1>11, <1>12 DEF Waiting
  <2>3. rob'[i].executed = "NO"
    BY <1>11, <1>21 DEF Started
  <2>4. i \in Waiting' <=> slots = {} /\ ~IsMemory(i)
    BY <1>3, <1>9, <1>12, <2>3 DEF Waiting
  <2>5. Waiting \subseteq Rob /\ Waiting' \subseteq Rob
    BY DEF Waiting
  <2> QED
    BY <2>1, <2>2, <2>4, <2>5
<1>24. RteExact'
  <2>1. /\ IsInjective(rte0) /\ IsInjective(rte1) /\ Range(rte0) \cap Range(rte1) = {}
        /\ Range(rte0) \cup Range(rte1) = Waiting /\ rte1 \in Seq(Rob) /\ rte0' = rte0
    BY <1>1, <1>2 DEF FlowInv, RteExact, CoreTypes
  <2>2. CASE slots = {} /\ ~IsMemory(i)
    <3>1. rte1' = Append(rte1, i) /\ i \notin Range(rte0) /\ i \notin Range(rte1)
      BY <1>2, <1>23, <2>1, <2>2
    <3>2. Range(rte1') = Range(rte1) \cup {i} /\ IsInjective(rte1')
      BY <2>1, <3>1, RingAppend
    <3> QED
      BY <1>23, <2>1, <2>2, <3>1, <3>2 DEF RteExact
  <2>3. CASE ~(slots = {} /\ ~IsMemory(i))
    <3>1. rte1' = rte1 /\ Waiting' = Waiting
      BY <1>2, <1>23, <2>3
    <3> QED
      BY <2>1, <3>1 DEF RteExact
  <2> QED
    BY <2>2, <2>3
<1> QED
  BY <1>15, <1>16, <1>18, <1>22, <1>24 DEF FlowInv

\* An entry of a ready-to-execute ring starts.
LEMMA FlowStart ==
  ASSUME FlowInv, NEW x \in Waiting, rob' = [rob EXCEPT ![x].executed = "INFLIGHT"],
         CoreTypes', UNCHANGED <<trace, retired, read, head, tail, occupancy>>
  PROVE  /\ RobInv' /\ DepsExact' /\ Awaited' /\ Counted'
         /\ Waiting' = Waiting \ {x}
<1>1. RobShape
  BY DEF FlowInv, RobInv
<1>2. x \in Rob /\ Live(x) /\ rob[x].ready /\ rob[x].executed = "NO"
  BY DEF Waiting
<1>3. RobShape'
  BY <1>1 DEF RobShape, Fields
<1>4. /\ \A k \in Rob : k # x => rob'[k] = rob[k]
      /\ \A f \in Fields : f # "executed" => rob'[x][f] = rob[x][f]
      /\ rob'[x].executed = "INFLIGHT"
  BY <1>1, <1>2 DEF RobShape, Fields
<1>5. /\ rob'[x].id = rob[x].id /\ rob'[x].ready = rob[x].ready
      /\ rob'[x].waits = rob[x].waits /\ rob'[x].regDeps = rob[x].regDeps
      /\ rob'[x].scheduled = rob[x].scheduled
  BY <1>4 DEF Fields
<1>6. \A k \in Rob : k # x => (Blank(k) => Blank(k)') /\ (Started(k)' => Started(k))
  BY <1>4 DEF Blank, Started
<1>7. Calm
  BY <1>2, <1>3, <1>4, <1>5, <1>6 DEF Calm
<1>8. /\ RobInv' /\ DepsExact' /\ Awaited' /\ Counted'
      /\ \A k \in Rob : Live(k)' = Live(k) /\ IsMemory(k)' = IsMemory(k)
  BY <1>7, CalmStep
<1>9. Waiting' = Waiting \ {x}
  BY <1>2, <1>4, <1>8 DEF Waiting
<1> QED
  BY <1>8, <1>9

\* execute_instruction moves entries between the two rings.
LEMMA FlowExecute ==
  ASSUME FlowInv, Execute
  PROVE  FlowInv'
<1>1. /\ rte0 \in Seq(Rob) /\ rte1 \in Seq(Rob) /\ CoreTypes
      /\ IsInjective(rte0) /\ IsInjective(rte1) /\ Range(rte0) \cap Range(rte1) = {}
      /\ Range(rte0) \cup Range(rte1) = Waiting
  BY DEF FlowInv, RobInv, RteExact, CoreTypes
<1>2. UNCHANGED <<trace, retired, read, head, tail, occupancy>>
  BY DEF Execute, arch
<1>3. CASE /\ rte0 # <<>>
           /\ rob' = [rob EXCEPT ![Head(rte0)].executed = "INFLIGHT"]
           /\ rte0' = Tail(rte0) /\ UNCHANGED rte1
  <2> DEFINE x == Head(rte0)
  <2>1. /\ x \in Range(rte0) /\ Tail(rte0) \in Seq(Rob) /\ IsInjective(Tail(rte0))
        /\ Range(Tail(rte0)) = Range(rte0) \ {x}
    BY <1>1, <1>3, RingTail
  <2>2. CoreTypes'
    BY <1>1, <1>2, <1>3, <2>1 DEF CoreTypes
  <2>3. x \in Waiting /\ rob' = [rob EXCEPT ![x].executed = "INFLIGHT"]
    BY <1>1, <1>3, <2>1
  <2> HIDE DEF x
  <2>4. RobInv' /\ DepsExact' /\ Awaited' /\ Counted' /\ Waiting' = Waiting \ {x}
    BY <1>2, <2>2, <2>3, FlowStart
  <2>5. RteExact'
    BY <1>1, <1>3, <2>1, <2>4 DEF RteExact
  <2> QED
    BY <2>4, <2>5 DEF FlowInv
<1>4. CASE /\ rte1 # <<>>
           /\ rob' = [rob EXCEPT ![Head(rte1)].executed = "INFLIGHT"]
           /\ rte1' = Tail(rte1) /\ UNCHANGED rte0
  <2> DEFINE x == Head(rte1)
  <2>1. /\ x \in Range(rte1) /\ Tail(rte1) \in Seq(Rob) /\ IsInjective(Tail(rte1))
        /\ Range(Tail(rte1)) = Range(rte1) \ {x}
    BY <1>1, <1>4, RingTail
  <2>2. CoreTypes'
    BY <1>1, <1>2, <1>4, <2>1 DEF CoreTypes
  <2>3. x \in Waiting /\ rob' = [rob EXCEPT ![x].executed = "INFLIGHT"]
    BY <1>1, <1>4, <2>1
  <2> HIDE DEF x
  <2>4. RobInv' /\ DepsExact' /\ Awaited' /\ Counted' /\ Waiting' = Waiting \ {x}
    BY <1>2, <2>2, <2>3, FlowStart
  <2>5. RteExact'
    BY <1>1, <1>4, <2>1, <2>4 DEF RteExact
  <2> QED
    BY <2>4, <2>5 DEF FlowInv
<1> QED
  BY <1>3, <1>4 DEF Execute

\* A set in rising order is a ring of its members.
LEMMA AscendingRing ==
  ASSUME NEW S \in SUBSET Nat, IsFiniteSet(S), NEW q \in Ascending(S)
  PROVE  q \in Seq(S) /\ IsInjective(q) /\ Range(q) = S
<1> DEFINE c == Cardinality(S)
<1>1. /\ c \in Nat /\ q \in [1..c -> S] /\ \A x \in S : \E n \in 1..c : q[n] = x
      /\ \A m, n \in DOMAIN q : m < n => q[m] < q[n]
  BY FS_CardinalityType DEF Ascending, Surjection
<1> HIDE DEF c
<1>2. q \in Seq(S) /\ DOMAIN q = 1..c
  BY <1>1
<1>3. Range(q) = S
  BY <1>1, <1>2 DEF Range
<1>4. ASSUME NEW m \in 1..c, NEW n \in 1..c, q[m] = q[n] PROVE m = n
  <2>1. q[m] \in Nat /\ q[n] \in Nat
    BY <1>1
  <2>2. ~(m < n) /\ ~(n < m)
    BY <1>1, <1>2, <1>4, <2>1
  <2> QED
    BY <1>1, <2>2
<1> QED
  BY <1>2, <1>3, <1>4 DEF IsInjective

\* complete_execution: the entries that waited are counted down once for each operand.
LEMMA FlowComplete ==
  ASSUME FlowInv, NEW i \in Rob, rob[i].id # 0, CompleteExecution(i)
  PROVE  FlowInv'
<1> DEFINE sub(k) == {d \in rob[i].regDeps : d[1] = k}
           W == {k \in Woken(i) : ~IsMemory(k)}
<1>1. /\ RobShape /\ CoreTypes /\ RobRing
  BY DEF FlowInv, RobInv
<1>2. /\ rob[i].executed = "INFLIGHT"
      /\ rob' = [k \in Rob |->
           IF k = i THEN [rob[i] EXCEPT !.executed = "COMPLETED"]
           ELSE [rob[k] EXCEPT !.waits = @ - Cardinality(sub(k)), !.ready = @ \/ k \in Woken(i)]]
      /\ \E woken \in Ascending(W) : rte0' = rte0 \o woken
      /\ UNCHANGED <<trace, retired, read, head, tail, occupancy, rte1>>
  BY Zenon DEF CompleteExecution, arch
<1>3. Live(i) /\ rob[i].ready
  BY <1>2 DEF Live, FlowInv, Counted, Started
<1>4. /\ rob' = [k \in Rob |-> rob'[k]]
      /\ rob'[i] = [rob[i] EXCEPT !.executed = "COMPLETED"]
      /\ \A k \in Rob : k # i =>
           rob'[k] = [rob[k] EXCEPT !.waits = @ - Cardinality(sub(k)), !.ready = @ \/ k \in Woken(i)]
  BY <1>2, Zenon
<1>5. \A k : k \in Woken(i) <=> /\ k \in Rob /\ Cardinality(sub(k)) > 0
                                /\ rob[k].waits = Cardinality(sub(k))
  BY DEF Woken
<1>6. \A k : sub(k) \subseteq rob[i].regDeps /\ \A d \in sub(k) : d[1] = k
  OBVIOUS
<1>7. \A d \in rob[i].regDeps : d \in sub(d[1])
  OBVIOUS
<1>8. W = {k \in Woken(i) : ~IsMemory(k)}
  OBVIOUS
<1> HIDE DEF sub, W
<1>9. /\ rob'[i] = [f \in Fields |-> rob'[i][f]] /\ rob'[i].executed = "COMPLETED"
      /\ \A f \in Fields \ {"executed"} : rob'[i][f] = rob[i][f]
  <2>1. rob'[i] = [rob[i] EXCEPT !.executed = "COMPLETED"]
    BY <1>4
  <2> QED
    BY <1>1, <2>1 DEF RobShape, Fields
<1>10. ASSUME NEW k \in Rob, k # i
       PROVE  /\ rob'[k] = [f \in Fields |-> rob'[k][f]]
              /\ rob'[k].waits = rob[k].waits - Cardinality(sub(k))
              /\ rob'[k].ready <=> rob[k].ready \/ k \in Woken(i)
              /\ \A f \in Fields \ {"waits", "ready"} : rob'[k][f] = rob[k][f]
  <2> DEFINE n == rob[k].waits - Cardinality(sub(k))
             b == rob[k].ready \/ k \in Woken(i)
  <2>1. rob'[k] = [rob[k] EXCEPT !.waits = n, !.ready = b]
    BY <1>4, <1>10
  <2> HIDE DEF n, b
  <2>2. rob'[k].waits = n /\ rob'[k].ready = b
    BY <1>1, <2>1 DEF RobShape, Fields
  <2>3. /\ rob'[k] = [f \in Fields |-> rob'[k][f]]
        /\ \A f \in Fields \ {"waits", "ready"} : rob'[k][f] = rob[k][f]
    BY <1>1, <2>1 DEF RobShape, Fields
  <2> QED
    BY <2>2, <2>3 DEF n, b
<1>11. \A k \in Rob : /\ rob'[k].id = rob[k].id /\ rob'[k].regDeps = rob[k].regDeps
                      /\ rob'[k].lqi = rob[k].lqi /\ rob'[k].sqi = rob[k].sqi
                      /\ rob'[k].translated = rob[k].translated
                      /\ rob'[k].fetched = rob[k].fetched
                      /\ rob'[k].scheduled = rob[k].scheduled
                      /\ k # i => rob'[k].executed = rob[k].executed
  <2>1. \A f \in {"id", "regDeps", "lqi", "sqi", "translated", "fetched", "scheduled"} :
          f \in Fields \ {"executed"} /\ f \in Fields \ {"waits", "ready"}
    BY DEF Fields
  <2>2. \A f \in {"id", "regDeps", "lqi", "sqi", "translated", "fetched", "scheduled"} :
          \A k \in Rob : rob'[k][f] = rob[k][f]
    BY <1>9, <1>10, <2>1
  <2>3. \A k \in Rob : k # i => rob'[k].executed = rob[k].executed
    BY <1>10 DEF Fields
  <2> QED
    BY <2>2, <2>3
<1>12. rob'[i].waits = rob[i].waits /\ rob'[i].ready = rob[i].ready
  BY <1>9 DEF Fields
<1>13. \A k \in Rob : /\ Ins(k)' = Ins(k) /\ Slots(k)' = Slots(k) /\ Live(k)' = Live(k)
                      /\ IsMemory(k)' = IsMemory(k) /\ Pos(k)' = Pos(k)
  BY <1>2, <1>11 DEF Ins, InstrAt, Slots, Live, IsMemory, Pos
<1>14. ASSUME NEW k \in Rob, NEW d \in rob[k].regDeps
       PROVE  /\ d \in Rob \X Nat /\ d[1] \in Rob /\ d[2] \in Slots(d[1])
              /\ rob[d[1]].scheduled # "NO" /\ rob[k].id < rob[d[1]].id
              /\ d \in {d[1]} \X Slots(d[1])
  <2>1. d \in Rob \X Nat /\ d[2] \in Slots(d[1]) /\ rob[d[1]].scheduled # "NO" /\ rob[k].id < rob[d[1]].id
    BY DEF FlowInv, DepsExact
  <2> QED
    BY <2>1
<1>15. sub(i) = {}
  <2>1. rob[i].id \in Nat
    BY Numbered DEF FlowInv
  <2> QED
    BY <1>6, <1>14, <2>1
<1>16. ASSUME NEW k \in Rob PROVE sub(k) \subseteq Pending(k) /\ Pending(k)' = Pending(k) \ sub(k)
  <2>1. ASSUME NEW d \in sub(k) PROVE d \in Pending(k) /\ d \notin Pending(k)'
    <3>1. d \in rob[i].regDeps /\ d[1] = k /\ d \in {k} \X Slots(k)
      BY <1>6, <1>14
    <3>2. d \in Pending(k)
      BY <1>2, <3>1 DEF Pending
    <3>3. ASSUME NEW m \in Rob, d \in rob'[m].regDeps PROVE rob'[m].executed = "COMPLETED"
      <4>1. d \in rob[m].regDeps
        BY <1>11, <3>3
      <4>2. m = i
        BY <3>1, <4>1 DEF FlowInv, DepsExact
      <4> QED
        BY <1>9, <4>2
    <3>4. d \notin Pending(k)'
      BY <3>3 DEF Pending
    <3> QED
      BY <3>2, <3>4
  <2>2. ASSUME NEW d \in Pending(k)' PROVE d \in Pending(k)
    <3>1. PICK m \in Rob : rob'[m].executed # "COMPLETED" /\ d \in rob'[m].regDeps
      BY <2>2 DEF Pending
    <3>2. d \in {k} \X Slots(k)
      BY <1>13, <2>2 DEF Pending
    <3>3. rob[m].executed # "COMPLETED" /\ d \in rob[m].regDeps
      BY <1>9, <1>11, <3>1
    <3> QED
      BY <3>2, <3>3 DEF Pending
  <2>3. ASSUME NEW d \in Pending(k), d \notin sub(k) PROVE d \in Pending(k)'
    <3>1. PICK m \in Rob : rob[m].executed # "COMPLETED" /\ d \in rob[m].regDeps
      BY DEF Pending
    <3>2. d \in {k} \X Slots(k) /\ d[1] = k
      BY DEF Pending
    <3>3. m # i
      BY <1>7, <2>3, <3>1, <3>2
    <3>4. rob'[m].executed # "COMPLETED" /\ d \in rob'[m].regDeps
      BY <1>11, <3>1, <3>3
    <3>5. d \in {k} \X Slots(k)'
      BY <1>13, <3>2
    <3> QED
      BY <3>4, <3>5 DEF Pending
  <2> QED
    BY <2>1, <2>2, <2>3
<1>17. ASSUME NEW k \in Rob, Live(k)
       PROVE  /\ IsFiniteSet(Pending(k)) /\ IsFiniteSet(sub(k))
              /\ Cardinality(Pending(k)) \in Nat /\ Cardinality(sub(k)) \in Nat
              /\ Cardinality(Pending(k)') = Cardinality(Pending(k)) - Cardinality(sub(k))
              /\ Cardinality(sub(k)) > 0 => Pending(k) # {}
              /\ Cardinality(Pending(k)) = Cardinality(sub(k)) => Pending(k)' = {}
  <2>1. rob[k].id \in Nat \ {0}
    BY <1>17, Numbered DEF FlowInv, Live
  <2>2. Ins(k) \in Instrs
    BY <1>1, <2>1, InstrTyped DEF Ins, CoreTypes
  <2>3. Len(Ins(k).src) \in Nat
    <3>1. Ins(k).src \in Seq(Nat)
      BY <2>2 DEF Instrs
    <3> QED
      BY <3>1, LenProperties
  <2>4. IsFiniteSet({k} \X Slots(k))
    <3>1. IsFiniteSet(1..Len(Ins(k).src)) /\ IsFiniteSet({k})
      <4>1. IsFiniteSet({k})
        BY FS_Singleton
      <4>2. IsFiniteSet(1..Len(Ins(k).src))
        BY <2>3, FS_Interval
      <4> QED
        BY <4>1, <4>2
    <3> QED
      BY <3>1, FS_Product DEF Slots
  <2>5. IsFiniteSet(Pending(k))
    BY <2>4, FS_Subset DEF Pending
  <2>6. /\ IsFiniteSet(sub(k)) /\ sub(k) \subseteq Pending(k)
        /\ Cardinality(Pending(k)) = Cardinality(sub(k)) => Pending(k) = sub(k)
    BY <1>16, <2>5, FS_Subset
  <2>7. Cardinality(Pending(k)) \in Nat /\ Cardinality(sub(k)) \in Nat
    BY <2>5, <2>6, FS_CardinalityType
  <2>8. Cardinality(Pending(k)') = Cardinality(Pending(k)) - Cardinality(sub(k))
    <3>1. Pending(k) \cap sub(k) = sub(k)
      BY <2>6
    <3> QED
      BY <1>16, <2>5, <3>1, FS_Difference, ZenonT(40)
  <2>9. Cardinality(sub(k)) > 0 => Pending(k) # {}
    BY <2>6, FS_EmptySet
  <2> QED
    BY <1>16, <2>5, <2>6, <2>7, <2>8, <2>9
<1>18. ASSUME NEW k \in Woken(i)
       PROVE  /\ k \in Rob /\ k # i /\ Live(k) /\ rob[k].scheduled # "NO" /\ Pending(k)' = {}
              /\ ~rob[k].ready /\ rob[k].executed = "NO"
  <2>1. k \in Rob /\ sub(k) # {} /\ k # i
    BY <1>5, <1>15, FS_EmptySet, SMTT(30)
  <2>2. rob[k].scheduled # "NO"
    BY <1>6, <1>14, <2>1
  <2>3. Live(k)
    BY <1>1, <2>1, <2>2 DEF RobRing, Blank
  <2>4. rob[k].waits = Cardinality(Pending(k))
    BY <2>1, <2>2 DEF FlowInv, Counted
  <2>5. Pending(k) # {} /\ Pending(k)' = {}
    BY <1>5, <1>17, <2>1, <2>3, <2>4
  <2>6. ~rob[k].ready
    BY <2>1, <2>5 DEF FlowInv, Counted
  <2>7. rob[k].executed = "NO"
    BY <2>1, <2>3, <2>6 DEF FlowInv, Counted, Started
  <2> QED
    BY <2>1, <2>2, <2>3, <2>5, <2>6, <2>7
<1>19. PICK woken \in Ascending(W) : rte0' = rte0 \o woken
  BY <1>2
<1>20. woken \in Seq(W) /\ IsInjective(woken) /\ Range(woken) = W /\ W \subseteq Rob
  <2>1. W \subseteq Rob
    BY <1>5, <1>8
  <2>2. IsFiniteSet(Rob) /\ Rob \subseteq Nat
    BY Sizes, FS_Interval
  <2>3. IsFiniteSet(W) /\ W \subseteq Nat
    BY <2>1, <2>2, FS_Subset
  <2> QED
    BY <1>19, <2>1, <2>3, AscendingRing
<1>21. /\ rte0' \in Seq(Rob) /\ Range(rte0') = Range(rte0) \cup W
       /\ IsInjective(rte0) /\ Range(rte0) \cap W = {} => IsInjective(rte0')
  <2>1. woken \in Seq(Rob) /\ rte0 \in Seq(Rob)
    BY <1>1, <1>20 DEF CoreTypes
  <2>2. /\ rte0 \o woken \in Seq(Rob) /\ Range(rte0 \o woken) = Range(rte0) \cup Range(woken)
        /\ IsInjective(rte0) /\ IsInjective(woken) /\ Range(rte0) \cap Range(woken) = {}
             => IsInjective(rte0 \o woken)
    BY <2>1, RingConcat
  <2> QED
    BY <1>19, <1>20, <2>2
<1>22. RobInv'
  <2>1. RobShape'
    <3>1. rob' = [k \in Rob |-> rob'[k]]
      BY <1>4
    <3> QED
      BY <1>9, <1>10, <3>1 DEF RobShape
  <2>2. CoreTypes'
    BY <1>1, <1>2, <1>21 DEF CoreTypes
  <2>3. ASSUME NEW k \in Rob, ~Live(k)' PROVE Blank(k)'
    <3>1. k # i /\ Blank(k) /\ ~Live(k) /\ k \notin Woken(i)
      BY <1>1, <1>3, <1>13, <1>18, <2>3 DEF RobRing
    <3> QED
      BY <1>10, <1>11, <3>1 DEF Blank
  <2>4. RobRing'
    <3>1. UNCHANGED <<trace, retired, read, head, tail, occupancy>>
      BY <1>2
    <3> QED
      BY <1>1, <1>11, <1>13, <2>3, <3>1 DEF RobRing
  <2> QED
    BY <2>1, <2>2, <2>4 DEF RobInv
<1>23. DepsExact'
  <2>1. ASSUME NEW k \in Rob, NEW d \in rob'[k].regDeps
        PROVE  /\ d \in Rob \X Nat /\ d[2] \in Slots(d[1])'
               /\ rob'[d[1]].scheduled # "NO" /\ rob'[k].id < rob'[d[1]].id
    BY <1>11, <1>13, <1>14
  <2>2. \A k, m \in Rob : rob'[k].regDeps \cap rob'[m].regDeps # {} => k = m
    BY <1>11 DEF FlowInv, DepsExact
  <2> QED
    BY <2>1, <2>2 DEF DepsExact
<1>24. \A x \in Rob : \A j : Writers(x, j)' = Writers(x, j)
  BY <1>11, <1>13 DEF Writers
<1>25. Awaited'
  <2> SUFFICES ASSUME NEW x \in Rob, rob'[x].scheduled # "NO", NEW j \in Slots(x)', NEW w \in Rob,
                      LastOf(Writers(x, j), w)'
               PROVE  rob'[w].executed = "COMPLETED" \/ <<x, j>> \in rob'[w].regDeps
    BY DEF Awaited
  <2>1. LastOf(Writers(x, j), w) /\ j \in Slots(x) /\ rob[x].scheduled # "NO"
    <3>1. Writers(x, j) \subseteq Rob
      BY DEF Writers
    <3> QED
      BY <1>11, <1>13, <1>24, <3>1 DEF LastOf
  <2>2. rob[w].executed = "COMPLETED" \/ <<x, j>> \in rob[w].regDeps
    BY <2>1 DEF FlowInv, Awaited
  <2> QED
    BY <1>9, <1>11, <2>2
<1>26. Counted'
  <2> SUFFICES ASSUME NEW k \in Rob
               PROVE  /\ rob'[k].scheduled # "NO" => rob'[k].waits = Cardinality(Pending(k)')
                      /\ rob'[k].ready => rob'[k].scheduled # "NO" /\ Pending(k)' = {}
                      /\ Live(k)' /\ Started(k)' => rob'[k].ready
    BY DEF Counted
  <2>1. /\ rob[k].scheduled # "NO" => rob[k].waits = Cardinality(Pending(k))
        /\ rob[k].ready => rob[k].scheduled # "NO" /\ Pending(k) = {}
        /\ Live(k) /\ Started(k) => rob[k].ready
    BY DEF FlowInv, Counted
  <2>2. CASE k = i
    <3>1. Pending(k)' = Pending(k)
      BY <1>15, <1>16, <2>2
    <3> QED
      BY <1>3, <1>11, <1>12, <2>1, <2>2, <3>1
  <2>3. CASE k # i
    <3>1. Started(k)' => Started(k)
      BY <1>11, <2>3 DEF Started
    <3>2. rob[k].scheduled # "NO" => Live(k)
      BY <1>1 DEF RobRing, Blank
    <3>3. rob'[k].scheduled # "NO" => rob'[k].waits = Cardinality(Pending(k)')
      <4> SUFFICES ASSUME rob[k].scheduled # "NO"
                   PROVE  rob'[k].waits = Cardinality(Pending(k)')
        BY <1>11
      <4>1. rob'[k].waits = rob[k].waits - Cardinality(sub(k))
        BY <1>10, <2>3
      <4>2. Cardinality(Pending(k)') = Cardinality(Pending(k)) - Cardinality(sub(k))
        BY <1>17, <3>2
      <4> QED
        BY <2>1, <4>1, <4>2
    <3>4. Pending(k) = {} => Pending(k)' = {}
      BY <1>16
    <3>5. rob'[k].ready => rob'[k].scheduled # "NO" /\ Pending(k)' = {}
      BY <1>10, <1>11, <1>18, <2>1, <2>3, <3>4
    <3>6. Live(k)' /\ Started(k)' => rob'[k].ready
      BY <1>10, <1>13, <2>1, <2>3, <3>1
    <3> QED
      BY <3>3, <3>5, <3>6
  <2> QED
    BY <2>2, <2>3
<1>27. Waiting' = Waiting \cup W /\ Waiting \cap W = {}
  <2>1. i \notin Waiting /\ i \notin Waiting' /\ i \notin W
    <3>1. i \notin W
      BY <1>8, <1>18
    <3> QED
      BY <1>2, <1>9, <3>1 DEF Waiting
  <2>2. ASSUME NEW k \in Rob, k # i
        PROVE  (k \in Waiting' <=> k \in Waiting \/ k \in W) /\ (k \in W => k \notin Waiting)
    <3>1. k \in W <=> k \in Woken(i) /\ ~IsMemory(k)
      BY <1>8
    <3>2. rob'[k].ready <=> rob[k].ready \/ k \in Woken(i)
      BY <1>10, <2>2
    <3>3. k \in Woken(i) => Live(k) /\ ~rob[k].ready /\ rob[k].executed = "NO"
      BY <1>18
    <3>4. rob'[k].executed = rob[k].executed /\ Live(k)' = Live(k) /\ IsMemory(k)' = IsMemory(k)
      BY <1>11, <1>13, <2>2
    <3> QED
      BY <3>1, <3>2, <3>3, <3>4 DEF Waiting
  <2>3. Waiting \subseteq Rob /\ Waiting' \subseteq Rob
    BY DEF Waiting
  <2> QED
    BY <1>20, <2>1, <2>2, <2>3
<1>28. RteExact'
  <2>1. /\ IsInjective(rte0) /\ IsInjective(rte1) /\ Range(rte0) \cap Range(rte1) = {}
        /\ Range(rte0) \cup Range(rte1) = Waiting /\ rte1' = rte1
    BY <1>2 DEF FlowInv, RteExact
  <2> QED
    BY <1>21, <1>27, <2>1 DEF RteExact
<1> QED
  BY <1>22, <1>23, <1>25, <1>26, <1>28 DEF FlowInv

\* The empty core satisfies the invariant.
LEMMA FlowInit ==
  ASSUME Init
  PROVE  FlowInv
<1>1. /\ trace \in Traces /\ retired = 0 /\ read = 0 /\ rob = [i \in Rob |-> FreeSlot]
      /\ head = 0 /\ tail = 0 /\ occupancy = 0 /\ rte0 = <<>> /\ rte1 = <<>>
  BY DEF Init
<1>2. /\ ROB_SIZE \in Nat \ {0} /\ Rob = 0..(ROB_SIZE - 1) /\ 0 \in Rob
  BY Sizes
<1>3. /\ FreeSlot = [f \in Fields |-> FreeSlot[f]]
      /\ FreeSlot.id = 0 /\ FreeSlot.scheduled = "NO" /\ FreeSlot.executed = "NO"
      /\ FreeSlot.ready = FALSE /\ FreeSlot.regDeps = {}
      /\ FreeSlot.translated = "NO" /\ FreeSlot.fetched = "NO"
  <2>1. FreeSlot = [f \in Fields |-> FreeSlot[f]]
    BY EntryShape DEF FreeSlot
  <2> QED
    BY <2>1 DEF FreeSlot
<1>4. \A i \in Rob : rob[i] = FreeSlot
  BY <1>1
<1>5. RobInv
  <2>1. RobShape
    BY <1>1, <1>3, <1>4 DEF RobShape
  <2>2. CoreTypes
    BY <1>1, <1>2 DEF CoreTypes
  <2>3. \A i \in Rob : Pos(i) \in Nat
    BY <1>1, <1>2, PosPlain
  <2>4. RobRing
    <3>1. tail = (head + occupancy) % ROB_SIZE /\ read = retired + occupancy
      BY <1>1, <1>2
    <3>2. \A i \in Rob : Blank(i) /\ rob[i].id = 0
      BY <1>3, <1>4 DEF Blank
    <3>3. \A i \in Rob : ~(Pos(i) < occupancy)
      BY <1>1, <2>3
    <3> QED
      BY <3>1, <3>2, <3>3 DEF RobRing
  <2> QED
    BY <2>1, <2>2, <2>4 DEF RobInv
<1>6. DepsExact /\ Awaited /\ Counted
  BY <1>3, <1>4 DEF DepsExact, Awaited, Counted, Live
<1>7. RteExact
  <2>1. Waiting = {}
    BY <1>3, <1>4 DEF Waiting
  <2>2. Range(<<>>) = {} /\ IsInjective(<<>>)
    BY DEF Range, IsInjective
  <2> QED
    BY <1>1, <2>1, <2>2 DEF RteExact
<1> QED
  BY <1>5, <1>6, <1>7 DEF FlowInv

\* Every step keeps the invariant.
LEMMA FlowStep ==
  ASSUME FlowInv, [Next]_vars
  PROVE  FlowInv'
<1>1. CASE HandleBranch
  BY <1>1, FlowEnter
<1>2. CASE ItlbRead \/ L1iFetch
  BY <1>2, QuietFetch, QuietStep
<1>3. CASE ResumeFetch \/ OperateLsq \/ CompleteDataFetch \/ \E a \in Addr : L1dWrite(a)
  BY <1>3, QuietMemory, QuietStep
<1>4. ASSUME NEW i \in Rob, Schedule(i) PROVE FlowInv'
  BY <1>4, FlowSchedule
<1>5. CASE Execute
  BY <1>5, FlowExecute
<1>6. ASSUME NEW i \in Rob, CheckAndAddLsq(i) PROVE FlowInv'
  BY <1>6, QuietAdd, QuietStep
<1>7. ASSUME NEW i \in Rob, CompleteInstrFetch(i) PROVE FlowInv'
  BY <1>7, QuietFetch, QuietStep
<1>8. ASSUME NEW i \in Rob, rob[i].id # 0, CompleteExecution(i) PROVE FlowInv'
  BY <1>8, FlowComplete
<1>9. CASE Retire
  BY <1>9, FlowRetire
<1>10. CASE UNCHANGED vars
  <2>1. Quiet
    BY <1>10, QuietSame DEF vars, arch, buffer, rings
  <2> QED
    BY <2>1, QuietStep
<1> QED
  BY <1>1, <1>2, <1>3, <1>4, <1>5, <1>6, <1>7, <1>8, <1>9, <1>10 DEF Next, UpdateRob

(***************************************************************************)
(* No instruction starts before its operands exist: for every trace and    *)
(* every size of the buffers, an entry that executes or has an operation   *)
(* in LQ or SQ has the last older writer of each source register executed. *)
(***************************************************************************)
THEOREM OperandsExist == Spec => []Dataflow
<1>1. FlowInv => Dataflow
  <2> SUFFICES ASSUME FlowInv, NEW i \in Rob, rob[i].id # 0, Started(i),
                      NEW j \in 1..Len(Ins(i).src)
               PROVE  LET w == Youngest({k \in Older(i) : Ins(i).src[j] \in Ins(k).dst})
                      IN w = ROB_SIZE \/ rob[w].executed = "COMPLETED"
    BY DEF Dataflow
  <2> DEFINE S == {k \in Older(i) : Ins(i).src[j] \in Ins(k).dst}
             w == Youngest(S)
  <2>1. Live(i) /\ j \in Slots(i)
    BY DEF Live, Slots
  <2>2. rob[i].scheduled # "NO" /\ Pending(i) = {}
    BY <2>1 DEF FlowInv, Counted
  <2>3. S = Writers(i, j) /\ S \subseteq {k \in Rob : Live(k)}
    <3>1. Older(i) = {k \in Rob : Live(k) /\ rob[k].id < rob[i].id}
      BY <2>1, Numbered DEF FlowInv
    <3> QED
      BY <3>1 DEF Writers
  <2> HIDE DEF S
  <2>4. (S # {} => LastOf(S, w)) /\ (S = {} => w = ROB_SIZE)
    BY <2>3, YoungestIsLast DEF FlowInv
  <2>5. CASE S # {}
    <3>1. LastOf(Writers(i, j), w) /\ w \in Rob
      BY <2>3, <2>4, <2>5 DEF LastOf
    <3>2. rob[w].executed = "COMPLETED" \/ <<i, j>> \in rob[w].regDeps
      BY <2>1, <2>2, <3>1 DEF FlowInv, Awaited
    <3>3. <<i, j>> \in {i} \X Slots(i)
      BY <2>1
    <3>4. rob[w].executed = "COMPLETED"
      BY <2>2, <3>1, <3>2, <3>3 DEF Pending
    <3> QED
      BY <3>4 DEF S
  <2> QED
    BY <2>4, <2>5 DEF S
<1> QED
  BY <1>1, FlowInit, FlowStep, PTL DEF Spec

-----------------------------------------------------------------------------
(***************************************************************************)
(* Stores.  Each store of the instructions read and not retired has its    *)
(* place in the order of SQ followed by STA: at[n] stores come before      *)
(* those of instruction n, counted from the beginning of the trace.        *)
(***************************************************************************)

StoreCount(n) == Len(InstrAt(n).st)
Place(at, n, j) == at[n] + j - at[retired + 1]
SqIndex(p) == (sqHead + p - 1) % SQ_SIZE

\* at adds up the stores of the instructions read and not retired.
Adds(at) ==
  /\ at \in [Nat -> Nat]
  /\ \A n \in (retired + 1)..read : at[n + 1] = at[n] + StoreCount(n)
  /\ at[read + 1] = at[retired + 1] + sqOcc + Len(sta)

\* SQ and STA hold the stores at their places.
Placed(at) ==
  \A n \in (retired + 1)..read : \A j \in 1..StoreCount(n) :
    LET p == Place(at, n, j) IN
    IF p <= sqOcc THEN sq[SqIndex(p)].id = n ELSE sta[p - sqOcc] = n

\* An instruction knows the SQ entries of its stores.
Known(at) ==
  \A i \in Rob : Live(i) =>
    /\ rob[i].sqi \in [1..StoreCount(rob[i].id) -> Nat]
    /\ \A j \in 1..StoreCount(rob[i].id) :
         LET p == Place(at, rob[i].id, j) IN
         rob[i].sqi[j] = IF p <= sqOcc THEN SqIndex(p) ELSE SQ_SIZE

LsqFields == {"id", "rob", "slot", "producer", "translated", "fetched"}

SqShape ==
  /\ sq = [s \in Sq |-> sq[s]]
  /\ \A s \in Sq : sq[s] = [f \in LsqFields |-> sq[s][f]]

SqRing ==
  /\ sqHead \in Sq /\ sqOcc \in 0..SQ_SIZE /\ sta \in Seq(Nat)
  /\ sqTail = (sqHead + sqOcc) % SQ_SIZE
  /\ \A s \in Sq : sq[s].id # 0 => \E n \in 1..sqOcc : s = SqIndex(n)

\* An instruction that executes has its stores in SQ.
AllAdded ==
  \A i \in Rob : Live(i) /\ rob[i].executed # "NO" =>
    \A j \in 1..StoreCount(rob[i].id) : rob[i].sqi[j] # SQ_SIZE

StoreInv ==
  /\ FlowInv /\ SqShape /\ SqRing /\ AllAdded
  /\ \E at : Adds(at) /\ Placed(at) /\ Known(at)

\* The least element of a set of natural numbers that is not empty.
LEMMA LeastNumber ==
  ASSUME NEW S \in SUBSET Nat, S # {}
  PROVE  \E x \in S : \A y \in S : x <= y
<1> DEFINE L == OpToRel(<, Nat)
<1>1. \A x, y \in Nat : x < y => <<x, y>> \in L
  BY DEF OpToRel
<1>2. IsWellFoundedOn(L, Nat)
  BY NatLessThanWellFounded
<1> HIDE DEF L
<1>3. PICK x \in S : \A y \in S : ~(<<y, x>> \in L)
  BY <1>2, WFMin
<1>4. ASSUME NEW y \in S PROVE x <= y
  <2>1. x \in Nat /\ y \in Nat /\ ~(y < x)
    BY <1>1, <1>3
  <2> QED
    BY <2>1
<1> QED
  BY <1>4

\* An instruction has at most four stores.
LEMMA StoreCounts ==
  ASSUME trace \in Traces, NEW n \in Nat \ {0}
  PROVE  StoreCount(n) \in 0..4 /\ InstrAt(n).st \in Seq(Addr)
<1>1. InstrAt(n).st \in Seq(Addr)
  BY InstrTyped DEF Instrs
<1>2. Len(trace) \in Nat \ {0} /\ \A k \in 1..Len(trace) : Len(trace[k].st) <= 4
  <2>1. trace \in Seq(Instrs) /\ Len(trace) > 0
    BY SizesAssumption DEF Instrs
  <2>2. \A k \in 1..Len(trace) : Len(trace[k].st) <= 4
    BY SizesAssumption
  <2> QED
    BY <2>1, <2>2, LenProperties
<1>3. ((n - 1) % Len(trace)) + 1 \in 1..Len(trace)
  <2> DEFINE l == Len(trace)
  <2>1. n - 1 \in Nat /\ l \in Nat \ {0}
    BY <1>2
  <2> HIDE DEF l
  <2>2. (n - 1) % l \in 0..(l - 1)
    BY <2>1
  <2> QED
    BY <2>1, <2>2 DEF l
<1>4. Len(InstrAt(n).st) <= 4
  BY <1>2, <1>3 DEF InstrAt
<1>5. Len(InstrAt(n).st) \in Nat
  BY <1>1, LenProperties
<1> DEFINE c == Len(InstrAt(n).st)
<1>6. c \in Nat /\ c <= 4
  BY <1>4, <1>5
<1> HIDE DEF c
<1>7. c \in 0..4
  BY <1>6
<1> QED
  BY <1>1, <1>7, Zenon DEF StoreCount, c

\* Numbers that rise by at most four each.
LEMMA Rising ==
  ASSUME NEW at \in [Nat -> Nat], NEW lo \in Nat, NEW hi \in Nat, lo <= hi,
         \A n \in lo..(hi - 1) : at[n + 1] - at[n] \in 0..4
  PROVE  /\ \A m, n \in lo..hi : m <= n => at[m] <= at[n]
         /\ \A n \in lo..hi : at[n] <= at[lo] + 4 * (n - lo)
         /\ \A p \in Nat : at[lo] < p /\ p <= at[hi] =>
              \E n \in lo..(hi - 1) : at[n] < p /\ p <= at[n + 1]
<1>1. ASSUME NEW m \in lo..hi, NEW n \in lo..hi, m <= n, ~(at[m] <= at[n]) PROVE FALSE
  <2> DEFINE S == {x \in m..hi : ~(at[m] <= at[x])}
  <2>1. S \in SUBSET Nat /\ S # {}
    BY <1>1
  <2>2. PICK x \in S : \A y \in S : x <= y
    BY <2>1, LeastNumber
  <2>3. x # m /\ x - 1 \in m..hi /\ x - 1 \in lo..(hi - 1) /\ x \in Nat
    BY <1>1, <2>2
  <2>4. at[m] <= at[x - 1]
    BY <2>2, <2>3
  <2>5. at[(x - 1) + 1] - at[x - 1] \in 0..4 /\ (x - 1) + 1 = x
    BY <2>3
  <2>6. at[x] \in Nat /\ at[x - 1] \in Nat /\ at[m] \in Nat
    BY <2>3, <1>1
  <2> QED
    BY <2>2, <2>4, <2>5, <2>6
<1>2. ASSUME NEW n \in lo..hi, ~(at[n] <= at[lo] + 4 * (n - lo)) PROVE FALSE
  <2> DEFINE S == {x \in lo..hi : ~(at[x] <= at[lo] + 4 * (x - lo))}
  <2>1. S \in SUBSET Nat /\ S # {}
    BY <1>2
  <2>2. PICK x \in S : \A y \in S : x <= y
    BY <2>1, LeastNumber
  <2>3. x # lo /\ x - 1 \in lo..(hi - 1) /\ x - 1 \in lo..hi /\ x \in Nat
    BY <2>2
  <2>4. at[x - 1] <= at[lo] + 4 * ((x - 1) - lo)
    BY <2>2, <2>3
  <2>5. at[(x - 1) + 1] - at[x - 1] \in 0..4 /\ (x - 1) + 1 = x
    BY <2>3
  <2>6. at[x] \in Nat /\ at[x - 1] \in Nat /\ at[lo] \in Nat
    BY <2>3
  <2> QED
    BY <2>2, <2>3, <2>4, <2>5, <2>6
<1>3. ASSUME NEW p \in Nat, at[lo] < p, p <= at[hi]
      PROVE  \E n \in lo..(hi - 1) : at[n] < p /\ p <= at[n + 1]
  <2> DEFINE S == {x \in lo..hi : p <= at[x]}
  <2>1. S \in SUBSET Nat /\ S # {}
    BY <1>3
  <2>2. PICK x \in S : \A y \in S : x <= y
    BY <2>1, LeastNumber
  <2>3. x # lo /\ x - 1 \in lo..(hi - 1) /\ x - 1 \in lo..hi /\ x \in Nat
    BY <1>3, <2>2
  <2>4. ~(p <= at[x - 1]) /\ at[x - 1] \in Nat /\ (x - 1) + 1 = x
    BY <2>2, <2>3
  <2> QED
    BY <2>2, <2>3, <2>4
<1> QED
  BY <1>1, <1>2, <1>3

\* Places along a ring, and after its head has moved.
LEMMA RingPlaces ==
  ASSUME NEW n \in Nat \ {0}, NEW h \in 0..(n - 1)
  PROVE  /\ \A p \in 1..n : (h + p - 1) % n \in 0..(n - 1)
         /\ \A p, r \in 1..n : (h + p - 1) % n = (h + r - 1) % n => p = r
         /\ \A l \in 0..n : \A p \in 1..(n - l) :
              (((h + l) % n) + p - 1) % n = (h + (p + l) - 1) % n
<1>1. \A p \in 1..n : (h + p - 1) % n = IF h + p - 1 < n THEN h + p - 1 ELSE h + p - 1 - n
  <2> SUFFICES ASSUME NEW p \in 1..n
               PROVE  (h + p - 1) % n = IF h + p - 1 < n THEN h + p - 1 ELSE h + p - 1 - n
    OBVIOUS
  <2> DEFINE x == h + p - 1
  <2>1. x \in 0..(2 * n - 1)
    OBVIOUS
  <2> HIDE DEF x
  <2>2. x % n = IF x < n THEN x ELSE x - n
    BY <2>1, Wrapped
  <2> QED
    BY <2>2 DEF x
<1>2. ASSUME NEW p \in 1..n, NEW r \in 1..n, (h + p - 1) % n = (h + r - 1) % n PROVE p = r
  BY <1>1, <1>2
<1>3. ASSUME NEW l \in 0..n, NEW p \in 1..(n - l)
      PROVE  (((h + l) % n) + p - 1) % n = (h + (p + l) - 1) % n
  <2> DEFINE x == h + l
             g == x % n
  <2>1. x \in 0..(2 * n - 1)
    OBVIOUS
  <2> HIDE DEF x
  <2>2. g = IF x < n THEN x ELSE x - n
    BY <2>1, Wrapped
  <2> HIDE DEF g
  <2>3. g \in 0..(n - 1)
    BY <2>1, <2>2
  <2> DEFINE y == g + p - 1
             z == h + (p + l) - 1
  <2>4. y \in 0..(2 * n - 1) /\ z \in 0..(2 * n - 1) /\ p + l \in 1..n
    BY <2>3
  <2>5. z = x + p - 1
    BY DEF x
  <2>6. y = g + p - 1
    OBVIOUS
  <2> HIDE DEF y, z
  <2>7. /\ y % n = IF y < n THEN y ELSE y - n
        /\ z % n = IF z < n THEN z ELSE z - n
    BY <2>4, Wrapped
  <2>8. y % n = z % n
    <3>1. x \in Nat /\ p \in Nat /\ g \in Nat
      BY <2>1, <2>3
    <3>2. x >= n => z >= n
      BY <2>1, <2>5
    <3> QED
      BY <2>1, <2>2, <2>3, <2>4, <2>5, <2>6, <2>7, <3>1, <3>2
  <2> QED
    BY <2>8 DEF x, y, z, g
<1>4. \A p \in 1..n : (h + p - 1) % n \in 0..(n - 1)
  BY <1>1
<1> QED
  BY <1>2, <1>3, <1>4

\* A number between two sums.
LEMMA Between ==
  ASSUME NEW a \in Nat, NEW c \in Nat, NEW h \in Nat, NEW l \in Nat, NEW x \in Nat, NEW y \in Nat
  PROVE  a >= l /\ a + c <= h /\ h = l + x + y => \A j \in 1..c : a + j - l \in 1..(x + y)
OBVIOUS

\* The place of a store, and the SQ entry of that place.
LEMMA PlaceTyped ==
  ASSUME FlowInv, SqRing, NEW at, Adds(at)
  PROVE  /\ \A n \in (retired + 1)..(read + 1) : at[n] \in Nat /\ at[n] >= at[retired + 1]
         /\ \A m, n \in (retired + 1)..(read + 1) : m <= n => at[m] <= at[n]
         /\ at[read + 1] <= at[retired + 1] + 4 * (read - retired)
         /\ \A n \in (retired + 1)..read :
              /\ StoreCount(n) \in 0..4 /\ at[n + 1] = at[n] + StoreCount(n)
              /\ \A j \in 1..StoreCount(n) :
                   Place(at, n, j) \in 1..(sqOcc + Len(sta)) /\ SqIndex(Place(at, n, j)) \in Sq
         /\ \A p \in 1..(sqOcc + Len(sta)) :
              \E n \in (retired + 1)..read : \E j \in 1..StoreCount(n) : Place(at, n, j) = p
         /\ retired \in Nat /\ read \in Nat /\ retired <= read /\ read - retired <= ROB_SIZE
<1>1. /\ retired \in Nat /\ read \in Nat /\ retired <= read /\ read - retired <= ROB_SIZE
      /\ trace \in Traces
  <2>1. retired \in Nat /\ occupancy \in 0..ROB_SIZE /\ read = retired + occupancy /\ trace \in Traces
    BY DEF FlowInv, RobInv, CoreTypes, RobRing
  <2> QED
    BY <2>1, Sizes
<1>2. \A n \in (retired + 1)..read : StoreCount(n) \in 0..4
  <2> SUFFICES ASSUME NEW n \in (retired + 1)..read PROVE StoreCount(n) \in 0..4
    OBVIOUS
  <2>1. n \in Nat \ {0}
    BY <1>1
  <2> QED
    BY <1>1, <2>1, StoreCounts
<1>3. /\ at \in [Nat -> Nat]
      /\ \A n \in (retired + 1)..read : at[n + 1] = at[n] + StoreCount(n)
      /\ at[read + 1] = at[retired + 1] + sqOcc + Len(sta)
  BY DEF Adds
<1>4. sqOcc \in Nat /\ Len(sta) \in Nat
  <2>1. sta \in Seq(Nat) /\ sqOcc \in 0..SQ_SIZE
    BY DEF SqRing
  <2> QED
    BY <2>1, Sizes, LenProperties
<1> DEFINE lo == retired + 1
           hi == read + 1
<1>5. lo \in Nat /\ hi \in Nat /\ lo <= hi /\ hi - 1 = read /\ hi - lo = read - retired
  BY <1>1
<1>6. \A n \in lo..(hi - 1) : at[n + 1] - at[n] \in 0..4
  <2> SUFFICES ASSUME NEW n \in lo..(hi - 1) PROVE at[n + 1] - at[n] \in 0..4
    OBVIOUS
  <2>1. n \in (retired + 1)..read /\ n \in Nat
    BY <1>1, <1>5
  <2>2. at[n] \in Nat /\ at[n + 1] = at[n] + StoreCount(n) /\ StoreCount(n) \in 0..4
    BY <1>2, <1>3, <2>1
  <2> QED
    BY <2>2
<1> HIDE DEF lo, hi
<1>7. /\ \A m, n \in lo..hi : m <= n => at[m] <= at[n]
      /\ \A n \in lo..hi : at[n] <= at[lo] + 4 * (n - lo)
      /\ \A p \in Nat : at[lo] < p /\ p <= at[hi] =>
           \E n \in lo..(hi - 1) : at[n] < p /\ p <= at[n + 1]
  BY <1>3, <1>5, <1>6, Rising
<1>8. lo \in lo..hi /\ hi \in lo..hi
  BY <1>5
<1>9. at[hi] <= at[lo] + 4 * (read - retired)
  BY <1>5, <1>7, <1>8
<1>10. \A n \in lo..hi : at[n] \in Nat /\ at[n] >= at[lo]
  <2>1. \A n \in lo..hi : n \in Nat /\ lo <= n
    BY <1>5
  <2>2. \A n \in lo..hi : at[lo] <= at[n]
    BY <1>7, <1>8, <2>1
  <2>3. at[lo] \in Nat
    BY <1>3, <1>5
  <2> QED
    BY <1>3, <2>1, <2>2, <2>3
<1>11. ASSUME NEW n \in (retired + 1)..read, NEW j \in 1..StoreCount(n)
       PROVE  Place(at, n, j) \in 1..(sqOcc + Len(sta)) /\ SqIndex(Place(at, n, j)) \in Sq
  <2>1. n \in lo..hi /\ n + 1 \in lo..hi /\ n + 1 <= hi
    BY <1>1 DEF lo, hi
  <2>2. at[n + 1] <= at[hi] /\ at[n] >= at[lo] /\ at[n + 1] = at[n] + StoreCount(n)
    BY <1>3, <1>7, <1>8, <1>10, <2>1
  <2>3. at[hi] = at[lo] + sqOcc + Len(sta)
    BY <1>3 DEF lo, hi
  <2>4. /\ at[n] \in Nat /\ at[n + 1] \in Nat /\ at[hi] \in Nat /\ at[lo] \in Nat
        /\ StoreCount(n) \in Nat /\ j \in 1..StoreCount(n)
    BY <1>2, <1>8, <1>10, <2>1
  <2>5. at[n] + j - at[lo] \in 1..(sqOcc + Len(sta))
    <3>1. at[n] + StoreCount(n) <= at[hi]
      BY <2>2
    <3> QED
      BY <1>4, <2>2, <2>3, <2>4, <3>1, Between
  <2>6. Place(at, n, j) \in 1..(sqOcc + Len(sta))
    BY <2>5 DEF Place, lo
  <2>7. \A x \in Int : x % SQ_SIZE \in Sq
    BY Sizes DEF Sq
  <2>8. sqHead + Place(at, n, j) - 1 \in Int
    <3>1. sqHead \in Nat
      BY Sizes DEF SqRing, Sq
    <3> QED
      BY <1>4, <2>6, <3>1
  <2>9. SqIndex(Place(at, n, j)) \in Sq
    BY <2>7, <2>8 DEF SqIndex
  <2> QED
    BY <2>6, <2>9
<1>12. ASSUME NEW p \in 1..(sqOcc + Len(sta))
       PROVE  \E n \in (retired + 1)..read : \E j \in 1..StoreCount(n) : Place(at, n, j) = p
  <2>1. at[lo] \in Nat /\ at[hi] = at[lo] + sqOcc + Len(sta)
    BY <1>3, <1>8, <1>10 DEF lo, hi
  <2>2. at[lo] + p \in Nat /\ at[lo] < at[lo] + p /\ at[lo] + p <= at[hi]
    BY <1>4, <2>1
  <2>3. PICK n \in lo..(hi - 1) : at[n] < at[lo] + p /\ at[lo] + p <= at[n + 1]
    BY <1>7, <2>2
  <2>4. n \in (retired + 1)..read /\ n \in lo..hi
    BY <1>1, <2>3 DEF lo, hi
  <2>5. at[n] \in Nat /\ at[n + 1] = at[n] + StoreCount(n) /\ StoreCount(n) \in Nat
    <3>1. \A c \in 0..4 : c \in Nat
      OBVIOUS
    <3>2. StoreCount(n) \in Nat
      BY <1>2, <2>4, <3>1, Zenon
    <3> QED
      BY <1>3, <1>10, <2>4, <3>2, Zenon
  <2>6. /\ at[lo] + p - at[n] \in 1..StoreCount(n)
        /\ at[n] + (at[lo] + p - at[n]) - at[lo] = p
    <3> DEFINE l == Len(sta)
    <3>1. l \in Nat /\ p \in 1..(sqOcc + l)
      BY <1>4
    <3> HIDE DEF l
    <3>2. p \in Nat
      BY <1>4, <3>1
    <3>3. at[lo] + p <= at[n] + StoreCount(n)
      BY <2>3, <2>5, Zenon
    <3> DEFINE a == at[n]
               b == at[lo]
               c == StoreCount(n)
    <3>4. a \in Nat /\ b \in Nat /\ c \in Nat /\ a < b + p /\ b + p <= a + c
      BY <2>1, <2>3, <2>5, <3>3, Zenon
    <3> HIDE DEF a, b, c
    <3>5. b + p - a \in 1..c /\ a + (b + p - a) - b = p
      BY <3>2, <3>4
    <3> QED
      BY <3>5, Zenon DEF a, b, c
  <2>7. Place(at, n, at[lo] + p - at[n]) = p
    BY <2>6 DEF Place, lo
  <2> QED
    BY <2>4, <2>6, <2>7
<1>13. /\ \A n \in (retired + 1)..(read + 1) : at[n] \in Nat /\ at[n] >= at[retired + 1]
       /\ \A m, n \in (retired + 1)..(read + 1) : m <= n => at[m] <= at[n]
       /\ at[read + 1] <= at[retired + 1] + 4 * (read - retired)
  BY <1>7, <1>9, <1>10 DEF lo, hi
<1> QED
  BY <1>1, <1>2, <1>3, <1>11, <1>12, <1>13

\* A step that moves no store and changes no index of one.
StoreCalm ==
  /\ UNCHANGED <<trace, retired, read, sqHead, sqTail, sqOcc, sta>>
  /\ \A k \in Rob :
       /\ rob'[k].id = rob[k].id /\ rob'[k].sqi = rob[k].sqi
       /\ Live(k) /\ rob'[k].executed # "NO" /\ rob[k].executed = "NO" =>
            \A j \in 1..StoreCount(rob[k].id) : rob[k].sqi[j] # SQ_SIZE
  /\ SqShape' /\ \A s \in Sq : sq'[s].id = sq[s].id

\* The order of the stores does not change in such a step.
LEMMA StoreCalmStep ==
  ASSUME StoreInv, StoreCalm, FlowInv'
  PROVE  StoreInv'
<1>1. PICK at : Adds(at) /\ Placed(at) /\ Known(at)
  BY DEF StoreInv
<1>2. /\ trace' = trace /\ retired' = retired /\ read' = read /\ sqHead' = sqHead
      /\ sqTail' = sqTail /\ sqOcc' = sqOcc /\ sta' = sta
      /\ \A k \in Rob : rob'[k].id = rob[k].id /\ rob'[k].sqi = rob[k].sqi
      /\ \A s \in Sq : sq'[s].id = sq[s].id
  BY DEF StoreCalm
<1>3. /\ \A n : StoreCount(n)' = StoreCount(n)
      /\ \A n, j : Place(at, n, j)' = Place(at, n, j)
      /\ \A p : SqIndex(p)' = SqIndex(p)
      /\ \A k \in Rob : Live(k)' = Live(k)
  BY <1>2 DEF StoreCount, InstrAt, Place, SqIndex, Live
<1>4. Adds(at)'
  BY <1>1, <1>2, <1>3 DEF Adds
<1>5. SqShape' /\ SqRing'
  BY <1>2, <1>3 DEF StoreInv, SqRing, StoreCalm
<1>6. Placed(at)'
  <2> SUFFICES ASSUME NEW n \in (retired + 1)..read, NEW j \in 1..StoreCount(n)
               PROVE  IF Place(at, n, j) <= sqOcc THEN sq'[SqIndex(Place(at, n, j))].id = n
                      ELSE sta[Place(at, n, j) - sqOcc] = n
    BY <1>2, <1>3 DEF Placed
  <2> DEFINE p == Place(at, n, j)
  <2>1. IF p <= sqOcc THEN sq[SqIndex(p)].id = n ELSE sta[p - sqOcc] = n
    BY <1>1 DEF Placed
  <2>2. SqIndex(p) \in Sq
    BY <1>1, PlaceTyped DEF StoreInv
  <2> QED
    BY <1>2, <2>1, <2>2
<1>7. Known(at)'
  <2> SUFFICES ASSUME NEW i \in Rob, Live(i)
               PROVE  /\ rob[i].sqi \in [1..StoreCount(rob[i].id) -> Nat]
                      /\ \A j \in 1..StoreCount(rob[i].id) :
                           rob[i].sqi[j] = IF Place(at, rob[i].id, j) <= sqOcc
                                           THEN SqIndex(Place(at, rob[i].id, j)) ELSE SQ_SIZE
    BY <1>2, <1>3 DEF Known
  <2> QED
    BY <1>1 DEF Known
<1>8. AllAdded'
  <2> SUFFICES ASSUME NEW i \in Rob, Live(i), rob'[i].executed # "NO", NEW j \in 1..StoreCount(rob[i].id)
               PROVE  rob[i].sqi[j] # SQ_SIZE
    BY <1>2, <1>3 DEF AllAdded
  <2> QED
    BY DEF StoreInv, AllAdded, StoreCalm
<1> QED
  BY <1>4, <1>5, <1>6, <1>7, <1>8 DEF StoreInv

\* A mark on an SQ entry leaves its number alone.
LEMMA SqMarked ==
  ASSUME SqShape, NEW s, NEW v,
         \/ sq' = sq
         \/ sq' = [sq EXCEPT ![s].translated = v]
         \/ sq' = [sq EXCEPT ![s].fetched = v]
  PROVE  SqShape' /\ \A x \in Sq : sq'[x].id = sq[x].id
<1>1. CASE sq' = sq
  BY <1>1 DEF SqShape
<1>2. CASE sq' = [sq EXCEPT ![s].translated = v]
  <2>1. \A x \in Sq : sq'[x] = sq[x] \/ sq'[x] = [sq[x] EXCEPT !.translated = v]
    BY <1>2 DEF SqShape
  <2>2. \A x \in Sq : sq'[x] = [f \in LsqFields |-> sq'[x][f]] /\ sq'[x].id = sq[x].id
    BY <2>1 DEF SqShape, LsqFields
  <2>3. sq' = [x \in Sq |-> sq'[x]]
    BY <1>2 DEF SqShape
  <2> QED
    BY <2>2, <2>3 DEF SqShape
<1>3. CASE sq' = [sq EXCEPT ![s].fetched = v]
  <2>1. \A x \in Sq : sq'[x] = sq[x] \/ sq'[x] = [sq[x] EXCEPT !.fetched = v]
    BY <1>3 DEF SqShape
  <2>2. \A x \in Sq : sq'[x] = [f \in LsqFields |-> sq'[x][f]] /\ sq'[x].id = sq[x].id
    BY <2>1 DEF SqShape, LsqFields
  <2>3. sq' = [x \in Sq |-> sq'[x]]
    BY <1>3 DEF SqShape
  <2> QED
    BY <2>2, <2>3 DEF SqShape
<1> QED
  BY <1>1, <1>2, <1>3

\* A step that leaves the stores of every entry and what it executes alone.
LEMMA StoreFieldsKept ==
  ASSUME StoreInv, UNCHANGED <<trace, retired, read, sqHead, sqTail, sqOcc, sta>>,
         SqShape' /\ \A x \in Sq : sq'[x].id = sq[x].id,
         \A k \in Rob : /\ rob'[k].id = rob[k].id /\ rob'[k].sqi = rob[k].sqi
                        /\ rob'[k].executed = rob[k].executed
  PROVE  StoreCalm
BY DEF StoreCalm

\* The steps of fetch, of the translations and of the data caches are such steps.
LEMMA CalmMemory ==
  ASSUME StoreInv,
         \/ ItlbRead \/ L1iFetch \/ ResumeFetch \/ OperateLsq \/ CompleteDataFetch
         \/ \E i \in Rob : CompleteInstrFetch(i)
         \/ \E a \in Addr : L1dWrite(a)
         \/ UNCHANGED vars
  PROVE  StoreCalm
<1>1. RobShape /\ SqShape
  BY DEF StoreInv, FlowInv, RobInv
<1>2. CASE ItlbRead \/ L1iFetch \/ \E i \in Rob : CompleteInstrFetch(i)
  <2>1. UNCHANGED <<trace, retired, read, sqHead, sqTail, sqOcc, sta, sq>>
    BY <1>2 DEF ItlbRead, L1iFetch, CompleteInstrFetch, arch, lsq
  <2>2. \E i, v : rob' = [rob EXCEPT ![i].translated = v] \/ rob' = [rob EXCEPT ![i].fetched = v]
    BY <1>2 DEF ItlbRead, L1iFetch, CompleteInstrFetch
  <2>3. PICK i, v : rob' = [rob EXCEPT ![i].translated = v] \/ rob' = [rob EXCEPT ![i].fetched = v]
    BY <2>2
  <2>4. \A k \in Rob : \/ rob'[k] = rob[k] \/ rob'[k] = [rob[k] EXCEPT !.translated = v]
                       \/ rob'[k] = [rob[k] EXCEPT !.fetched = v]
    BY <1>1, <2>3 DEF RobShape
  <2>5. \A k \in Rob : /\ rob'[k].id = rob[k].id /\ rob'[k].sqi = rob[k].sqi
                       /\ rob'[k].executed = rob[k].executed
    BY <1>1, <2>4, ZenonT(40) DEF RobShape, Fields
  <2> QED
    BY <1>1, <2>1, <2>5, SqMarked, StoreFieldsKept
<1>3. CASE ResumeFetch \/ DtlbLoad \/ ExecuteLoad \/ (\E q \in Lq : LoadTranslated(q))
           \/ (\E a \in Addr : L1dWrite(a)) \/ UNCHANGED vars
  <2>1. UNCHANGED <<trace, retired, read, sqHead, sqTail, sqOcc, sta, sq, rob>>
    BY <1>3 DEF ResumeFetch, DtlbLoad, ExecuteLoad, LoadTranslated, L1dWrite, vars, arch, buffer, lsq
  <2>2. SqShape' /\ \A x \in Sq : sq'[x].id = sq[x].id
    BY <1>1, <2>1 DEF SqShape
  <2> QED
    BY <2>1, <2>2, StoreFieldsKept
<1>4. CASE DtlbStore \/ \E s \in Sq : StoreTranslated(s)
  <2>1. UNCHANGED <<trace, retired, read, sqHead, sqTail, sqOcc, sta, rob>>
    BY <1>4 DEF DtlbStore, StoreTranslated, arch, buffer
  <2>2. \E s, v : sq' = [sq EXCEPT ![s].translated = v]
    BY <1>4 DEF DtlbStore, StoreTranslated
  <2>3. SqShape' /\ \A x \in Sq : sq'[x].id = sq[x].id
    BY <1>1, <2>2, SqMarked
  <2> QED
    BY <2>1, <2>3, StoreFieldsKept
<1>5. CASE ExecuteStore
  <2> DEFINE s == Head(rts1)
             F == Forwards(s)
             left(k) == rob[k].ops - (IF k = sq[s].rob THEN 1 ELSE 0)
                                   - Cardinality({d \in F : d[1] = k})
             g(k) == [j \in DOMAIN rob[k].got |-> IF <<k, j>> \in F THEN sq[s].id ELSE rob[k].got[j]]
  <2>1. rob' = [k \in Rob |-> [rob[k] EXCEPT !.ops = left(k), !.got = g(k)]]
    BY <1>5 DEF ExecuteStore
  <2>2. /\ UNCHANGED <<trace, retired, read, sqHead, sqTail, sqOcc, sta>>
        /\ sq' = [sq EXCEPT ![s].fetched = "COMPLETED"]
    BY <1>5 DEF ExecuteStore, arch
  <2> HIDE DEF s, F, left, g
  <2>3. SqShape' /\ \A x \in Sq : sq'[x].id = sq[x].id
    BY <1>1, <2>2, SqMarked
  <2>4. ASSUME NEW k \in Rob
        PROVE  /\ rob'[k].id = rob[k].id /\ rob'[k].sqi = rob[k].sqi
               /\ rob'[k].executed = rob[k].executed
    <3> DEFINE o == left(k)
               h == g(k)
    <3>1. rob'[k] = [rob[k] EXCEPT !.ops = o, !.got = h]
      BY <2>1
    <3> HIDE DEF o, h
    <3> QED
      BY <1>1, <3>1 DEF RobShape, Fields
  <2> QED
    BY <2>2, <2>3, <2>4, StoreFieldsKept
<1>6. ASSUME NEW q \in Lq, LoadReturned(q) PROVE StoreCalm
  <2> DEFINE i == lq[q].rob
             o == rob[i].ops - 1
             g == [rob[i].got EXCEPT ![lq[q].slot] = mem[LdAddr(q)]]
  <2>1. rob' = [rob EXCEPT ![i] = [rob[i] EXCEPT !.ops = o, !.got = g]]
    BY <1>6 DEF LoadReturned
  <2>2. UNCHANGED <<trace, retired, read, sqHead, sqTail, sqOcc, sta, sq>>
    BY <1>6 DEF LoadReturned, arch
  <2> HIDE DEF i, o, g
  <2>3. SqShape' /\ \A x \in Sq : sq'[x].id = sq[x].id
    BY <1>1, <2>2 DEF SqShape
  <2>4. ASSUME NEW k \in Rob
        PROVE  /\ rob'[k].id = rob[k].id /\ rob'[k].sqi = rob[k].sqi
               /\ rob'[k].executed = rob[k].executed
    <3>1. rob'[k] = rob[k] \/ rob'[k] = [rob[k] EXCEPT !.ops = o, !.got = g]
      BY <1>1, <2>1 DEF RobShape
    <3> QED
      BY <1>1, <3>1 DEF RobShape, Fields
  <2> QED
    BY <2>2, <2>3, <2>4, StoreFieldsKept
<1> QED
  BY <1>2, <1>3, <1>4, <1>5, <1>6 DEF OperateLsq, CompleteDataFetch

\* An entry has an index for each of its stores.
LEMMA SqiLength ==
  ASSUME StoreInv, NEW i \in Rob, Live(i)
  PROVE  /\ rob[i].id \in (retired + 1)..read /\ rob[i].id \in Nat \ {0}
         /\ StoreCount(rob[i].id) \in 0..4
         /\ rob[i].sqi \in [1..StoreCount(rob[i].id) -> Nat]
         /\ rob[i].sqi \in Seq(Nat) /\ Len(rob[i].sqi) = StoreCount(rob[i].id)
<1>1. PICK at : Known(at)
  BY DEF StoreInv
<1>2. rob[i].id \in (retired + 1)..read /\ rob[i].id \in Nat \ {0} /\ trace \in Traces
  BY Numbered DEF StoreInv, FlowInv, RobInv, CoreTypes, Live
<1>3. StoreCount(rob[i].id) \in 0..4
  BY <1>2, StoreCounts
<1>4. rob[i].sqi \in [1..StoreCount(rob[i].id) -> Nat]
  BY <1>1 DEF Known
<1> DEFINE c == StoreCount(rob[i].id)
<1>5. c \in Nat /\ rob[i].sqi \in [1..c -> Nat]
  BY <1>3, <1>4
<1> HIDE DEF c
<1>6. rob[i].sqi \in Seq(Nat)
  BY <1>5, IsASeq
<1>7. Len(rob[i].sqi) = c
  BY <1>5, <1>6, LenProperties
<1> QED
  BY <1>2, <1>3, <1>4, <1>6, <1>7 DEF c

\* do_execution: what executes from a ring has no store.
LEMMA CalmExecute ==
  ASSUME StoreInv, Execute
  PROVE  StoreCalm
<1>1. RobShape /\ SqShape /\ CoreTypes /\ RteExact /\ FlowInv
  BY DEF StoreInv, FlowInv, RobInv
<1>2. UNCHANGED <<trace, retired, read, sqHead, sqTail, sqOcc, sta, sq>>
  BY DEF Execute, arch, lsq
<1>3. \E i \in Waiting : rob' = [rob EXCEPT ![i].executed = "INFLIGHT"]
  <2>1. CASE rte0 # <<>> /\ rob' = [rob EXCEPT ![Head(rte0)].executed = "INFLIGHT"]
    <3>1. Head(rte0) \in Range(rte0)
      BY <1>1, <2>1, RingTail DEF CoreTypes
    <3> QED
      BY <1>1, <2>1, <3>1 DEF RteExact
  <2>2. CASE rte1 # <<>> /\ rob' = [rob EXCEPT ![Head(rte1)].executed = "INFLIGHT"]
    <3>1. Head(rte1) \in Range(rte1)
      BY <1>1, <2>2, RingTail DEF CoreTypes
    <3> QED
      BY <1>1, <2>2, <3>1 DEF RteExact
  <2> QED
    BY <2>1, <2>2 DEF Execute
<1>4. PICK i \in Waiting : rob' = [rob EXCEPT ![i].executed = "INFLIGHT"]
  BY <1>3
<1>5. i \in Rob /\ Live(i) /\ ~IsMemory(i)
  BY <1>4 DEF Waiting
<1>6. StoreCount(rob[i].id) = 0
  <2>1. rob[i].id \in Nat \ {0} /\ trace \in Traces
    BY <1>1, <1>5, Numbered DEF FlowInv, Live, CoreTypes
  <2>2. InstrAt(rob[i].id).ld \in Seq(Addr) /\ InstrAt(rob[i].id).st \in Seq(Addr)
    BY <2>1, InstrTyped DEF Instrs
  <2> DEFINE l == Len(InstrAt(rob[i].id).ld)
             m == Len(InstrAt(rob[i].id).st)
  <2>3. l \in Nat /\ m \in Nat
    BY <2>2, LenProperties
  <2>4. ~(l + m > 0)
    BY <1>5, Zenon DEF IsMemory, Ins
  <2> HIDE DEF l, m
  <2>5. m = 0
    BY <2>3, <2>4
  <2> QED
    BY <2>5 DEF StoreCount, m
<1>7. \A k \in Rob : rob'[k] = rob[k] \/ (k = i /\ rob'[k] = [rob[k] EXCEPT !.executed = "INFLIGHT"])
  BY <1>1, <1>4 DEF RobShape
<1>8. \A k \in Rob : rob'[k].id = rob[k].id /\ rob'[k].sqi = rob[k].sqi
                     /\ (k # i => rob'[k] = rob[k])
  BY <1>1, <1>7 DEF RobShape, Fields
<1>9. SqShape' /\ \A x \in Sq : sq'[x].id = sq[x].id
  BY <1>1, <1>2 DEF SqShape
<1>10. \A j \in 1..StoreCount(rob[i].id) : FALSE
  BY <1>6
<1>11. ASSUME NEW k \in Rob, Live(k), rob'[k].executed # "NO", rob[k].executed = "NO"
       PROVE  \A j \in 1..StoreCount(rob[k].id) : rob[k].sqi[j] # SQ_SIZE
  BY <1>8, <1>10, <1>11
<1> QED
  BY <1>2, <1>8, <1>9, <1>11 DEF StoreCalm

\* do_scheduling and complete_execution.
LEMMA CalmSchedule ==
  ASSUME StoreInv, NEW i \in Rob, Schedule(i) \/ CompleteExecution(i)
  PROVE  StoreCalm
<1>1. RobShape /\ SqShape
  BY DEF StoreInv, FlowInv, RobInv
<1>2. UNCHANGED <<trace, retired, read, sqHead, sqTail, sqOcc, sta, sq>>
  BY DEF Schedule, CompleteExecution, arch, lsq
<1>3. SqShape' /\ \A x \in Sq : sq'[x].id = sq[x].id
  BY <1>1, <1>2 DEF SqShape
<1>4. CASE Schedule(i)
  <2>1. \A k \in Rob : \E a, b, c : \/ rob'[k] = [rob[k] EXCEPT !.ready = a, !.waits = b, !.scheduled = c]
                                    \/ rob'[k] = [rob[k] EXCEPT !.regDeps = a]
    BY <1>4, Zenon DEF Schedule
  <2>2. \A k \in Rob : /\ rob'[k].id = rob[k].id /\ rob'[k].sqi = rob[k].sqi
                       /\ rob'[k].executed = rob[k].executed
    BY <1>1, <2>1, ZenonT(40) DEF RobShape, Fields
  <2> QED
    BY <1>2, <1>3, <2>2, StoreFieldsKept
<1>5. CASE CompleteExecution(i)
  <2>1. rob[i].executed = "INFLIGHT" /\ rob'[i] = [rob[i] EXCEPT !.executed = "COMPLETED"]
    BY <1>5 DEF CompleteExecution
  <2>2. \A k \in Rob \ {i} : \E a, b : rob'[k] = [rob[k] EXCEPT !.waits = a, !.ready = b]
    BY <1>5, Zenon DEF CompleteExecution
  <2>3. ASSUME NEW k \in Rob
        PROVE  /\ rob'[k].id = rob[k].id /\ rob'[k].sqi = rob[k].sqi
               /\ (k # i => rob'[k].executed = rob[k].executed)
    <3>1. CASE k = i
      BY <1>1, <2>1, <3>1 DEF RobShape, Fields
    <3>2. CASE k # i
      <4>1. PICK a, b : rob'[k] = [rob[k] EXCEPT !.waits = a, !.ready = b]
        BY <2>2, <3>2
      <4> QED
        BY <1>1, <4>1 DEF RobShape, Fields
    <3> QED
      BY <3>1, <3>2
  <2> QED
    BY <1>2, <1>3, <2>1, <2>3 DEF StoreCalm
<1> QED
  BY <1>4, <1>5

\* An entry whose operations are all added.
LEMMA AddedEntry ==
  ASSUME NEW e, e = [f \in Fields |-> e[f]]
  PROVE  /\ Added(e) = [f \in Fields |-> Added(e)[f]]
         /\ Added(e).id = e.id /\ Added(e).sqi = e.sqi
         /\ Added(e).executed # e.executed => \A j \in 1..Len(e.sqi) : e.sqi[j] # SQ_SIZE
<1>1. CASE Added(e) = e
  BY <1>1
<1>2. CASE Added(e) # e
  <2> DEFINE x == IF e.executed = "NO" THEN "INFLIGHT" ELSE e.executed
  <2>1. /\ Added(e) = [e EXCEPT !.scheduled = "COMPLETED", !.executed = x]
        /\ \A j \in 1..Len(e.sqi) : e.sqi[j] # SQ_SIZE
    BY <1>2 DEF Added
  <2> HIDE DEF x
  <2>2. Added(e) = [f \in Fields |-> Added(e)[f]] /\ Added(e).id = e.id /\ Added(e).sqi = e.sqi
    BY <2>1 DEF Fields
  <2> QED
    BY <2>1, <2>2
<1> QED
  BY <1>1, <1>2

\* add_load_queue moves no store.
LEMMA CalmAddLoad ==
  ASSUME StoreInv, NEW i \in Rob, NEW j, AddLoad(i, j)
  PROVE  StoreCalm
<1>1. RobShape /\ SqShape
  BY DEF StoreInv, FlowInv, RobInv
<1>2. UNCHANGED <<trace, retired, read, sqHead, sqTail, sqOcc, sta, sq>>
  BY DEF AddLoad, arch
<1>3. SqShape' /\ \A x \in Sq : sq'[x].id = sq[x].id
  BY <1>1, <1>2 DEF SqShape
<1> DEFINE a == Ins(i).ld[j]
           q == Min({x \in Lq : lq[x].id = 0})
           p == StoreBefore(i, a)
           f0 == Forwarders(p, a)
           now == f0 # {} /\ sq[Min(f0)].fetched = "COMPLETED"
           e == [rob[i] EXCEPT !.lqi[j] = q, !.ops = IF now THEN @ - 1 ELSE @,
                               !.got[j] = IF now THEN sq[Min(f0)].id ELSE @]
           l == [rob[i].lqi EXCEPT ![j] = q]
           o == IF now THEN rob[i].ops - 1 ELSE rob[i].ops
           g == [rob[i].got EXCEPT ![j] = IF now THEN sq[Min(f0)].id ELSE @]
<1>4. rob' = [k \in Rob |->
         IF k = i THEN Added(e)
         ELSE IF k = p THEN [rob[k] EXCEPT !.memDeps = @ \cup {i}] ELSE rob[k]]
  BY Zenon DEF AddLoad
<1>5. e = [rob[i] EXCEPT !.lqi = l, !.ops = o, !.got = g]
  OBVIOUS
<1> HIDE DEF q, p, f0, now, e, l, o, g
<1>6. /\ e = [f \in Fields |-> e[f]] /\ e.id = rob[i].id /\ e.sqi = rob[i].sqi
      /\ e.executed = rob[i].executed
  BY <1>1, <1>5 DEF RobShape, Fields
<1>7. /\ rob'[i].id = rob[i].id /\ rob'[i].sqi = rob[i].sqi
      /\ rob'[i].executed # rob[i].executed => \A x \in 1..Len(rob[i].sqi) : rob[i].sqi[x] # SQ_SIZE
  BY <1>4, <1>6, AddedEntry
<1>8. ASSUME NEW k \in Rob \ {i}
      PROVE  /\ rob'[k].id = rob[k].id /\ rob'[k].sqi = rob[k].sqi
             /\ rob'[k].executed = rob[k].executed
  <2> DEFINE m == rob[k].memDeps \cup {i}
  <2>1. rob'[k] = rob[k] \/ rob'[k] = [rob[k] EXCEPT !.memDeps = m]
    BY <1>4
  <2> HIDE DEF m
  <2> QED
    BY <1>1, <2>1 DEF RobShape, Fields
<1>9. Live(i) => Len(rob[i].sqi) = StoreCount(rob[i].id)
  BY SqiLength DEF StoreInv
<1>10. ASSUME NEW k \in Rob
       PROVE  /\ rob'[k].id = rob[k].id /\ rob'[k].sqi = rob[k].sqi
              /\ Live(k) /\ rob'[k].executed # "NO" /\ rob[k].executed = "NO" =>
                   \A x \in 1..StoreCount(rob[k].id) : rob[k].sqi[x] # SQ_SIZE
  <2>1. CASE k = i
    BY <1>7, <1>9, <2>1
  <2>2. CASE k # i
    BY <1>8, <2>2
  <2> QED
    BY <2>1, <2>2
<1> QED
  BY <1>2, <1>3, <1>10 DEF StoreCalm

\* One sequence after another.
Joined(s, t) ==
  /\ s \o t \in Seq(Nat) /\ Len(s \o t) = Len(s) + Len(t)
  /\ \A p \in 1..Len(s) : (s \o t)[p] = s[p]
  /\ \A j \in 1..Len(t) : (s \o t)[Len(s) + j] = t[j]

\* What concatenation does to the places of the elements.
LEMMA Joins ==
  ASSUME NEW s \in Seq(Nat), NEW t \in Seq(Nat)
  PROVE  Joined(s, t)
<1> DEFINE u == s \o t
           l == Len(s)
           r == Len(t)
<1>1. /\ u \in Seq(Nat) /\ Len(u) = l + r
      /\ \A n \in 1..(l + r) : u[n] = IF n <= l THEN s[n] ELSE t[n - l]
  BY ConcatProperties
<1>2. l \in Nat /\ r \in Nat
  BY LenProperties
<1> HIDE DEF u, l, r
<1>3. \A n \in 1..l : n \in 1..(l + r) /\ n <= l
  BY <1>2
<1>4. \A n \in 1..r : l + n \in 1..(l + r) /\ ~(l + n <= l) /\ (l + n) - l = n
  BY <1>2
<1>5. \A n \in 1..l : u[n] = s[n]
  BY <1>1, <1>3
<1>6. \A n \in 1..r : u[l + n] = t[n]
  BY <1>1, <1>4
<1> QED
  BY <1>1, <1>5, <1>6, Zenon DEF Joined, u, l, r

\* add_to_rob finds its slot free.
LEMMA TailFree ==
  ASSUME RobRing, head \in Rob, occupancy \in 0..ROB_SIZE, occupancy < ROB_SIZE
  PROVE  tail \in Rob /\ ~Live(tail)
<1>1. /\ ROB_SIZE \in Nat \ {0} /\ head \in 0..(ROB_SIZE - 1) /\ Rob = 0..(ROB_SIZE - 1)
      /\ occupancy \in Nat /\ tail = (head + occupancy) % ROB_SIZE
  BY Sizes DEF RobRing
<1> DEFINE x == head + occupancy
<1>2. x \in 0..(2 * ROB_SIZE - 1)
  BY <1>1
<1> HIDE DEF x
<1>3. x % ROB_SIZE = IF x < ROB_SIZE THEN x ELSE x - ROB_SIZE
  BY <1>1, <1>2, Wrapped
<1>4. tail = IF head + occupancy < ROB_SIZE THEN head + occupancy ELSE head + occupancy - ROB_SIZE
  BY <1>1, <1>3 DEF x
<1>5. tail \in Rob
  BY <1>1, <1>4
<1>6. Pos(tail) = IF tail >= head THEN tail - head ELSE tail + ROB_SIZE - head
  BY <1>1, <1>5, PosPlain
<1>7. ~(Pos(tail) < occupancy)
  BY <1>1, <1>4, <1>6
<1> QED
  BY <1>5, <1>7 DEF RobRing, Live

\* handle_branch: the stores of the instruction read enter the STA behind all others.
LEMMA StoresEnter ==
  ASSUME StoreInv, HandleBranch, FlowInv'
  PROVE  StoreInv'
<1>1. PICK at : Adds(at) /\ Placed(at) /\ Known(at)
  BY DEF StoreInv
<1>2. /\ FlowInv /\ SqShape /\ SqRing /\ AllAdded /\ RobShape /\ trace \in Traces /\ RobRing
      /\ head \in Rob /\ occupancy \in 0..ROB_SIZE
  BY DEF StoreInv, FlowInv, RobInv, CoreTypes
<1>3. /\ trace' = trace /\ retired' = retired /\ read' = read + 1 /\ sqHead' = sqHead
      /\ sqTail' = sqTail /\ sqOcc' = sqOcc /\ sq' = sq /\ occupancy < ROB_SIZE
  BY DEF HandleBranch, MayRead, arch
<1>4. PICK mis : rob' = [rob EXCEPT ![tail] = NewEntry(read + 1, mis)]
  BY DEF HandleBranch
<1>5. /\ retired \in Nat /\ read \in Nat /\ retired <= read /\ read + 1 \in Nat \ {0}
      /\ read + 2 \in Nat /\ read + 2 # retired + 1
  BY <1>1, <1>2, PlaceTyped
<1> DEFINE c == StoreCount(read + 1)
           l == Len(sta)
<1>6. c \in 0..4 /\ c \in Nat
  <2>1. c \in 0..4
    BY <1>2, <1>5, StoreCounts
  <2>2. \A x \in 0..4 : x \in Nat
    OBVIOUS
  <2> QED
    BY <2>1, <2>2, Zenon
<1>7. l \in Nat /\ sta \in Seq(Nat) /\ sqOcc \in Nat
  BY <1>2, LenProperties, Sizes DEF SqRing
<1>8. /\ sta' \in Seq(Nat) /\ Len(sta') = l + c
      /\ \A p \in 1..l : sta'[p] = sta[p]
      /\ \A j \in 1..c : sta'[l + j] = read + 1
  <2> DEFINE t == [j \in 1..c |-> read + 1]
  <2>1. sta' = sta \o t
    BY DEF HandleBranch, StaAfter, StoreCount
  <2> HIDE DEF c
  <2>2. t \in Seq(Nat) /\ Len(t) = c /\ \A j \in 1..c : t[j] = read + 1
    BY <1>5, <1>6
  <2> HIDE DEF t
  <2>3. Joined(sta, t)
    BY <1>7, <2>2, Joins
  <2> QED
    BY <2>1, <2>2, <2>3, Zenon DEF Joined, l
<1>9. \A n \in Nat : StoreCount(n)' = StoreCount(n)
  BY <1>3 DEF StoreCount, InstrAt
<1>10. PICK bt : /\ bt \in [Nat -> Nat] /\ bt[read + 2] = at[read + 1] + c
                 /\ \A n \in (retired + 1)..(read + 1) : bt[n] = at[n] /\ at[n] \in Nat
  <2> DEFINE b == [at EXCEPT ![read + 2] = at[read + 1] + c]
  <2>1. at \in [Nat -> Nat] /\ at[read + 1] \in Nat
    BY <1>1, <1>5 DEF Adds
  <2> HIDE DEF c
  <2>2. at[read + 1] + c \in Nat
    BY <1>6, <2>1
  <2>3. \A n \in (retired + 1)..(read + 1) : n \in Nat /\ n # read + 2
    BY <1>5
  <2>4. /\ b \in [Nat -> Nat] /\ b[read + 2] = at[read + 1] + c
        /\ \A n \in (retired + 1)..(read + 1) : b[n] = at[n] /\ at[n] \in Nat
    BY <1>5, <2>1, <2>2, <2>3
  <2> HIDE DEF b
  <2> QED
    BY <2>4
<1>11. /\ retired + 1 \in (retired + 1)..(read + 1) /\ read + 1 \in (retired + 1)..(read + 1)
       /\ \A n \in (retired + 1)..read : n \in (retired + 1)..(read + 1) /\ n + 1 \in (retired + 1)..(read + 1)
       /\ \A n \in (retired + 1)..(read + 1) : n \in (retired + 1)..read \/ n = read + 1
       /\ (read + 1) + 1 = read + 2
  BY <1>5
<1>12. Adds(bt)'
  <2>1. \A n \in (retired + 1)..(read + 1) : bt[n + 1] = bt[n] + StoreCount(n)
    BY <1>1, <1>10, <1>11, Zenon DEF Adds
  <2>2. bt[read + 2] = bt[retired + 1] + sqOcc + (l + c)
    <3>1. at[read + 1] = at[retired + 1] + sqOcc + l /\ at[retired + 1] \in Nat
      BY <1>1, <1>10, <1>11 DEF Adds
    <3> HIDE DEF l, c
    <3>2. at[read + 1] + c = at[retired + 1] + sqOcc + (l + c)
      BY <1>6, <1>7, <3>1
    <3> QED
      BY <1>10, <1>11, <3>2
  <2>3. \A n \in (retired + 1)..(read + 1) : StoreCount(n)' = StoreCount(n)
    BY <1>5, <1>9
  <2>4. (read + 1) + 1 = read + 2
    BY <1>5
  <2> QED
    BY <1>3, <1>8, <1>10, <2>1, <2>2, <2>3, <2>4 DEF Adds
<1>13. ASSUME NEW n \in (retired + 1)..(read + 1), NEW j PROVE Place(bt, n, j)' = Place(at, n, j)
  BY <1>3, <1>10, <1>11 DEF Place
<1>14. ASSUME NEW j \in 1..c PROVE Place(at, read + 1, j) = sqOcc + l + j
  <2>1. at[read + 1] = at[retired + 1] + sqOcc + l /\ at[retired + 1] \in Nat
    BY <1>1, <1>10, <1>11 DEF Adds
  <2> HIDE DEF l, c
  <2>2. j \in Nat
    BY <1>6
  <2>3. at[read + 1] + j - at[retired + 1] = sqOcc + l + j
    BY <1>7, <2>1, <2>2
  <2> QED
    BY <2>3 DEF Place
<1>15. \A p : SqIndex(p)' = SqIndex(p)
  BY <1>3 DEF SqIndex
<1>16. Placed(bt)'
  <2> SUFFICES ASSUME NEW n \in (retired + 1)..(read + 1), NEW j \in 1..StoreCount(n)
               PROVE  IF Place(at, n, j) <= sqOcc THEN sq[SqIndex(Place(at, n, j))].id = n
                      ELSE sta'[Place(at, n, j) - sqOcc] = n
    <3>1. \A n \in (retired + 1)..(read + 1) : StoreCount(n)' = StoreCount(n)
      BY <1>5, <1>9
    <3>2. \A n \in (retired + 1)..(read + 1) : \A j : Place(bt, n, j)' = Place(at, n, j)
      BY <1>13
    <3> SUFFICES ASSUME NEW n \in (retired' + 1)..read', NEW j \in 1..StoreCount(n)'
                 PROVE  IF Place(bt, n, j)' <= sqOcc' THEN sq'[SqIndex(Place(bt, n, j))'].id = n
                        ELSE sta'[Place(bt, n, j)' - sqOcc'] = n
      BY DEF Placed
    <3>3. n \in (retired + 1)..(read + 1) /\ j \in 1..StoreCount(n)
      BY <1>3, <3>1
    <3>4. Place(bt, n, j)' = Place(at, n, j)
      BY <3>2, <3>3
    <3>5. SqIndex(Place(bt, n, j))' = SqIndex(Place(at, n, j))
      BY <1>3, <3>4 DEF SqIndex
    <3> QED
      BY <1>3, <3>3, <3>4, <3>5
  <2>1. CASE n = read + 1
    <3>1. j \in 1..c
      BY <2>1
    <3>2. Place(at, n, j) = sqOcc + l + j
      BY <1>14, <2>1, <3>1
    <3>3. sta'[l + j] = n
      BY <1>8, <2>1, <3>1
    <3> HIDE DEF l, c
    <3>4. ~(sqOcc + l + j <= sqOcc) /\ (sqOcc + l + j) - sqOcc = l + j
      BY <1>6, <1>7, <3>1
    <3> QED
      BY <3>2, <3>3, <3>4
  <2>2. CASE n \in (retired + 1)..read
    <3>1. IF Place(at, n, j) <= sqOcc THEN sq[SqIndex(Place(at, n, j))].id = n
          ELSE sta[Place(at, n, j) - sqOcc] = n
      BY <1>1, <2>2 DEF Placed
    <3>2. Place(at, n, j) \in 1..(sqOcc + l)
      BY <1>1, <1>2, <2>2, PlaceTyped
    <3> HIDE DEF l
    <3>3. ~(Place(at, n, j) <= sqOcc) => Place(at, n, j) - sqOcc \in 1..l
      BY <1>7, <3>2
    <3> QED
      BY <1>8, <3>1, <3>3
  <2> QED
    BY <1>11, <2>1, <2>2
<1>17. tail \in Rob /\ ~Live(tail)
  BY <1>2, <1>3, TailFree
<1>18. /\ \A k \in Rob : k # tail => rob'[k] = rob[k]
       /\ rob'[tail] = NewEntry(read + 1, mis)
  BY <1>2, <1>4, <1>17 DEF RobShape
<1>19. /\ rob'[tail].id = read + 1 /\ rob'[tail].executed = "NO"
       /\ rob'[tail].sqi = [j \in 1..c |-> SQ_SIZE]
  BY <1>18 DEF NewEntry, StoreCount
<1>20. ASSUME NEW k \in Rob, k # tail
       PROVE  Live(k)' = Live(k) /\ (Live(k) => rob[k].id \in (retired + 1)..read)
  <2>1. Live(k) => rob[k].id \in (retired + 1)..read
    BY <1>2, Numbered DEF FlowInv
  <2> QED
    BY <1>18, <1>20, <2>1 DEF Live
<1>21. Known(bt)'
  <2> SUFFICES ASSUME NEW k \in Rob, Live(k)'
               PROVE  /\ rob'[k].sqi \in [1..StoreCount(rob[k].id)' -> Nat]
                      /\ \A j \in 1..StoreCount(rob[k].id)' :
                           rob'[k].sqi[j] = IF Place(bt, rob[k].id, j)' <= sqOcc
                                            THEN SqIndex(Place(bt, rob[k].id, j)') ELSE SQ_SIZE
    BY <1>3, <1>15 DEF Known
  <2>1. CASE k = tail
    <3>1. rob'[k].id = read + 1 /\ rob'[k].sqi = [j \in 1..c |-> SQ_SIZE]
      BY <1>19, <2>1
    <3>2. StoreCount(rob[k].id)' = c
      BY <1>3, <3>1 DEF StoreCount, InstrAt
    <3>3. \A j \in 1..c : Place(bt, rob[k].id, j)' = sqOcc + l + j
      <4>1. \A j : Place(bt, rob[k].id, j)' = Place(at, read + 1, j)
        BY <1>3, <1>10, <1>11, <3>1 DEF Place
      <4> QED
        BY <1>14, <4>1
    <3> HIDE DEF l, c
    <3>4. \A j \in 1..c : ~(sqOcc + l + j <= sqOcc)
      BY <1>6, <1>7
    <3>5. SQ_SIZE \in Nat
      BY Sizes
    <3> QED
      BY <3>1, <3>2, <3>3, <3>4, <3>5
  <2>2. CASE k # tail
    <3>1. rob'[k] = rob[k] /\ Live(k) /\ rob[k].id \in (retired + 1)..read
      BY <1>18, <1>20, <2>2
    <3>2. rob[k].id \in (retired + 1)..(read + 1) /\ rob[k].id \in Nat
      BY <1>5, <3>1
    <3>3. StoreCount(rob[k].id)' = StoreCount(rob[k].id)
      BY <1>3, <3>1 DEF StoreCount, InstrAt
    <3>4. \A j : Place(bt, rob[k].id, j)' = Place(at, rob[k].id, j)
      BY <1>3, <1>10, <1>11, <3>1, <3>2 DEF Place
    <3>5. /\ rob[k].sqi \in [1..StoreCount(rob[k].id) -> Nat]
          /\ \A j \in 1..StoreCount(rob[k].id) :
               rob[k].sqi[j] = IF Place(at, rob[k].id, j) <= sqOcc
                               THEN SqIndex(Place(at, rob[k].id, j)) ELSE SQ_SIZE
      BY <1>1, <3>1 DEF Known
    <3> QED
      BY <3>1, <3>3, <3>4, <3>5
  <2> QED
    BY <2>1, <2>2
<1>22. AllAdded'
  <2> SUFFICES ASSUME NEW k \in Rob, Live(k)', rob'[k].executed # "NO",
                      NEW j \in 1..StoreCount(rob[k].id)'
               PROVE  rob'[k].sqi[j] # SQ_SIZE
    BY DEF AllAdded
  <2>1. k # tail /\ Live(k) /\ rob'[k] = rob[k]
    BY <1>18, <1>19, <1>20
  <2>2. StoreCount(rob[k].id)' = StoreCount(rob[k].id)
    BY <1>3, <2>1 DEF StoreCount, InstrAt
  <2> QED
    BY <1>2, <2>1, <2>2 DEF AllAdded
<1>23. SqShape' /\ SqRing'
  BY <1>2, <1>3, <1>8, <1>15 DEF SqShape, SqRing
<1> QED
  BY <1>12, <1>16, <1>21, <1>22, <1>23 DEF StoreInv

\* The tail of a ring moves on, and its head.
LEMMA RingMoves ==
  ASSUME NEW n \in Nat \ {0}, NEW h \in 0..(n - 1)
  PROVE  /\ \A o \in 0..(n - 1) : (((h + o) % n) + 1) % n = (h + (o + 1)) % n
         /\ \A l \in 0..n : \A x \in 0..(n - l) : (((h + l) % n) + x) % n = (h + (l + x)) % n
<1>1. ASSUME NEW l \in 0..n, NEW x \in 0..(n - l)
      PROVE  (((h + l) % n) + x) % n = (h + (l + x)) % n
  <2> DEFINE y == h + l
             g == y % n
  <2>1. y \in 0..(2 * n - 1)
    OBVIOUS
  <2> HIDE DEF y
  <2>2. g = IF y < n THEN y ELSE y - n
    BY <2>1, Wrapped
  <2> HIDE DEF g
  <2>3. g \in 0..(n - 1)
    BY <2>1, <2>2
  <2> DEFINE u == g + x
             z == h + (l + x)
  <2>4. u \in 0..(2 * n - 1) /\ z \in 0..(2 * n - 1) /\ z = y + x
    BY <2>3 DEF y
  <2>5. u = g + x
    OBVIOUS
  <2> HIDE DEF u, z
  <2>6. /\ u % n = IF u < n THEN u ELSE u - n
        /\ z % n = IF z < n THEN z ELSE z - n
    BY <2>4, Wrapped
  <2>7. u % n = z % n
    BY <2>1, <2>2, <2>3, <2>4, <2>5, <2>6
  <2> QED
    BY <2>7 DEF y, g, u, z
<1>2. ASSUME NEW o \in 0..(n - 1) PROVE (((h + o) % n) + 1) % n = (h + (o + 1)) % n
  <2>1. o \in 0..n /\ 1 \in 0..(n - o)
    OBVIOUS
  <2> QED
    BY <1>1, <2>1
<1> QED
  BY <1>1, <1>2

\* The first element of a sequence, and the others.
LEMMA Parts ==
  ASSUME NEW s \in Seq(Nat), s # <<>>
  PROVE  /\ Len(s) \in Nat /\ Len(s) >= 1 /\ Head(s) = s[1]
         /\ Tail(s) \in Seq(Nat) /\ Len(Tail(s)) = Len(s) - 1
         /\ \A p \in 1..(Len(s) - 1) : Tail(s)[p] = s[p + 1]
<1>1. Len(s) \in Nat /\ Len(s) # 0
  BY LenProperties, EmptySeq
<1> QED
  BY <1>1, HeadTailProperties

\* The store that add_store_queue takes is the first one that is not in SQ.
LEMMA StoreTurn ==
  ASSUME StoreInv, NEW at, Adds(at), Placed(at), Known(at), NEW i \in Rob,
         NEW j \in 1..StoreCount(rob[i].id),
         Live(i), StoreFits(i, j), \A x \in 1..(j - 1) : rob[i].sqi[x] # SQ_SIZE
  PROVE  /\ Place(at, rob[i].id, j) = sqOcc + 1
         /\ \A n \in (retired + 1)..read : \A x \in 1..StoreCount(n) :
              Place(at, n, x) = sqOcc + 1 => n = rob[i].id /\ x = j
<1> DEFINE m == rob[i].id
<1>1. FlowInv /\ SqRing /\ m \in (retired + 1)..read /\ StoreCount(m) \in 0..4
  BY SqiLength DEF StoreInv
<1>2. sta \in Seq(Nat) /\ sta # <<>> /\ Head(sta) = m /\ sqOcc \in Nat /\ rob[i].sqi[j] = SQ_SIZE
  BY <1>1, Sizes DEF SqRing, StoreFits
<1> DEFINE l == Len(sta)
<1>3. l \in Nat /\ l >= 1 /\ sta[1] = m
  BY <1>2, Parts
<1>4. /\ \A n \in (retired + 1)..read : \A x \in 1..StoreCount(n) :
           Place(at, n, x) \in 1..(sqOcc + l) /\ SqIndex(Place(at, n, x)) \in Sq
      /\ \A p \in 1..(sqOcc + l) :
           \E n \in (retired + 1)..read : \E x \in 1..StoreCount(n) : Place(at, n, x) = p
      /\ \A n \in (retired + 1)..(read + 1) : at[n] \in Nat
      /\ retired \in Nat /\ read \in Nat /\ retired <= read
  BY <1>1, PlaceTyped
<1> HIDE DEF l
<1>5. sqOcc + 1 \in 1..(sqOcc + l) /\ ~(sqOcc + 1 <= sqOcc) /\ (sqOcc + 1) - sqOcc = 1
  BY <1>2, <1>3
<1>6. ASSUME NEW n \in (retired + 1)..read, NEW x \in 1..StoreCount(n), Place(at, n, x) = sqOcc + 1
      PROVE  n = m
  <2>1. IF Place(at, n, x) <= sqOcc THEN sq[SqIndex(Place(at, n, x))].id = n
        ELSE sta[Place(at, n, x) - sqOcc] = n
    BY DEF Placed
  <2> QED
    BY <1>3, <1>5, <1>6, <2>1
<1>7. \E n \in (retired + 1)..read : \E y \in 1..StoreCount(n) : Place(at, n, y) = sqOcc + 1
  BY <1>4, <1>5
<1>8. PICK y \in 1..StoreCount(m) : Place(at, m, y) = sqOcc + 1
  BY <1>6, <1>7
<1>9. at[m] \in Nat /\ at[retired + 1] \in Nat
  <2>1. m \in (retired + 1)..(read + 1) /\ retired + 1 \in (retired + 1)..(read + 1)
    BY <1>1, <1>4
  <2> QED
    BY <1>4, <2>1
<1>10. \A x, z \in Nat : /\ x < z => Place(at, m, x) < Place(at, m, z)
                         /\ Place(at, m, x) = Place(at, m, z) => x = z
                         /\ Place(at, m, x) \in Int
  BY <1>9 DEF Place
<1>11. \A x \in 1..StoreCount(m) : x \in Nat
  BY <1>1
<1>12. y = j
  <2>1. ASSUME j < y PROVE FALSE
    <3>1. Place(at, m, j) < sqOcc + 1 /\ Place(at, m, j) \in Int
      BY <1>8, <1>10, <1>11, <2>1
    <3>2. Place(at, m, j) <= sqOcc
      BY <1>2, <3>1
    <3>3. rob[i].sqi[j] = SqIndex(Place(at, m, j))
      BY <3>2 DEF Known
    <3>4. SqIndex(Place(at, m, j)) \in Sq
      BY <1>1, <1>4
    <3>5. SQ_SIZE \notin Sq
      BY Sizes DEF Sq
    <3> QED
      BY <1>2, <3>3, <3>4, <3>5
  <2>2. ASSUME y < j PROVE FALSE
    <3>1. y \in 1..(j - 1)
      BY <1>8, <1>11, <2>2
    <3>2. rob[i].sqi[y] = SQ_SIZE
      <4>1. rob[i].sqi[y] = IF Place(at, m, y) <= sqOcc THEN SqIndex(Place(at, m, y)) ELSE SQ_SIZE
        BY <1>8 DEF Known
      <4> QED
        BY <1>5, <1>8, <4>1
    <3> QED
      BY <3>1, <3>2
  <2> QED
    BY <1>8, <1>11, <2>1, <2>2
<1>13. ASSUME NEW k \in (retired + 1)..read, NEW x \in 1..StoreCount(k), Place(at, k, x) = sqOcc + 1
       PROVE  k = m /\ x = j
  <2>1. k = m
    BY <1>6, <1>13
  <2> QED
    BY <1>8, <1>10, <1>11, <1>12, <1>13, <2>1
<1> QED
  BY <1>8, <1>12, <1>13

\* add_store_queue: the first store of the STA becomes the last one of SQ.
LEMMA StoresAdded ==
  ASSUME StoreInv, NEW i \in Rob, NEW j \in 1..Len(rob[i].sqi), AddStore(i, j), FlowInv'
  PROVE  StoreInv'
<1>1. PICK at : Adds(at) /\ Placed(at) /\ Known(at)
  BY DEF StoreInv
<1>2. FlowInv /\ SqShape /\ SqRing /\ AllAdded /\ RobShape /\ RobRing
  BY DEF StoreInv, FlowInv, RobInv
<1> DEFINE m == rob[i].id
           c == StoreCount(m)
           l == Len(sta)
           sqi == [rob[i].sqi EXCEPT ![j] = sqTail]
           e == [rob[i] EXCEPT !.sqi = sqi]
<1>3. /\ trace' = trace /\ retired' = retired /\ read' = read /\ sqHead' = sqHead
      /\ sqOcc' = sqOcc + 1 /\ sqTail' = (sqTail + 1) % SQ_SIZE /\ sta' = Tail(sta)
      /\ sq' = [sq EXCEPT ![sqTail] = [FreeLsq EXCEPT !.id = rob[i].id, !.rob = i, !.slot = j]]
      /\ rob' = [rob EXCEPT ![i] = Added(e)]
  BY DEF AddStore, arch, Next1
<1>4. StoreFits(i, j) /\ \A x \in 1..(j - 1) : rob[i].sqi[x] # SQ_SIZE
  BY DEF AddStore
<1>5. Live(i)
  <2>1. rob[i].scheduled = "INFLIGHT"
    BY DEF AddStore, Turn, MemReady
  <2> QED
    BY <1>2, <2>1 DEF RobRing, Blank
<1>6. /\ m \in (retired + 1)..read /\ m \in Nat \ {0} /\ c \in 0..4
      /\ rob[i].sqi \in [1..c -> Nat] /\ Len(rob[i].sqi) = c /\ j \in 1..c
  BY <1>5, SqiLength
<1>7. /\ sta \in Seq(Nat) /\ sta # <<>> /\ sqOcc \in Nat /\ sqOcc < SQ_SIZE /\ sqHead \in 0..(SQ_SIZE - 1)
      /\ SQ_SIZE \in Nat \ {0} /\ Sq = 0..(SQ_SIZE - 1) /\ sqTail = (sqHead + sqOcc) % SQ_SIZE
      /\ rob[i].sqi[j] = SQ_SIZE
  BY <1>2, <1>4, Sizes DEF SqRing, StoreFits, Sq
<1>8. /\ l \in Nat /\ l >= 1 /\ sta' \in Seq(Nat) /\ Len(sta') = l - 1
      /\ \A p \in 1..(l - 1) : sta'[p] = sta[p + 1]
  BY <1>3, <1>7, Parts
<1>9. /\ Place(at, m, j) = sqOcc + 1
      /\ \A n \in (retired + 1)..read : \A x \in 1..StoreCount(n) :
           Place(at, n, x) = sqOcc + 1 => n = m /\ x = j
  BY <1>1, <1>4, <1>5, <1>6, StoreTurn
<1>10. /\ \A n \in (retired + 1)..read : \A x \in 1..StoreCount(n) :
            Place(at, n, x) \in 1..(sqOcc + l) /\ SqIndex(Place(at, n, x)) \in Sq
       /\ \A n \in (retired + 1)..(read + 1) : at[n] \in Nat
       /\ retired \in Nat /\ read \in Nat /\ retired <= read
  BY <1>1, <1>2, PlaceTyped
<1>11. sqTail = SqIndex(sqOcc + 1)
  <2>1. sqHead + (sqOcc + 1) - 1 = sqHead + sqOcc
    BY <1>7
  <2> QED
    BY <1>7, <2>1 DEF SqIndex
<1>12. sqTail \in Sq /\ \A p \in 1..sqOcc : SqIndex(p) # sqTail /\ SqIndex(p) \in Sq
  <2>1. /\ \A p \in 1..SQ_SIZE : (sqHead + p - 1) % SQ_SIZE \in 0..(SQ_SIZE - 1)
        /\ \A p, r \in 1..SQ_SIZE : (sqHead + p - 1) % SQ_SIZE = (sqHead + r - 1) % SQ_SIZE => p = r
    BY <1>7, RingPlaces
  <2>2. /\ \A p \in 1..SQ_SIZE : SqIndex(p) \in Sq
        /\ \A p, r \in 1..SQ_SIZE : SqIndex(p) = SqIndex(r) => p = r
    BY <1>7, <2>1 DEF SqIndex
  <2>3. sqOcc + 1 \in 1..SQ_SIZE /\ \A p \in 1..sqOcc : p \in 1..SQ_SIZE /\ p # sqOcc + 1
    BY <1>7
  <2> QED
    BY <1>11, <2>2, <2>3
<1>13. /\ sq'[sqTail].id = m /\ SqShape'
       /\ \A s \in Sq : s # sqTail => sq'[s] = sq[s]
  <2> DEFINE w == [FreeLsq EXCEPT !.id = rob[i].id, !.rob = i, !.slot = j]
  <2>1. w = [f \in LsqFields |-> w[f]] /\ w.id = m
    BY DEF FreeLsq, LsqFields
  <2>2. sq' = [sq EXCEPT ![sqTail] = w]
    BY <1>3
  <2> HIDE DEF w
  <2>3. sq'[sqTail] = w /\ sq' = [s \in Sq |-> sq'[s]] /\ \A s \in Sq : s # sqTail => sq'[s] = sq[s]
    BY <1>2, <1>12, <2>2 DEF SqShape
  <2>4. \A s \in Sq : sq'[s] = [f \in LsqFields |-> sq'[s][f]]
    BY <1>2, <2>1, <2>3 DEF SqShape
  <2> QED
    BY <2>1, <2>3, <2>4 DEF SqShape
<1>14. /\ \A n : StoreCount(n)' = StoreCount(n)
       /\ \A n, x : Place(at, n, x)' = Place(at, n, x)
       /\ \A p : SqIndex(p)' = SqIndex(p)
  BY <1>3 DEF StoreCount, InstrAt, Place, SqIndex
<1>15. Adds(at)'
  <2>1. at[read + 1] = at[retired + 1] + sqOcc + l /\ at[retired + 1] \in Nat
    <3>1. retired + 1 \in (retired + 1)..(read + 1)
      BY <1>10
    <3> QED
      BY <1>1, <1>10, <3>1 DEF Adds
  <2>2. Len(sta)' = l - 1
    BY <1>8
  <2>3. l \in Nat /\ l >= 1 /\ sqOcc \in Nat
    BY <1>7, <1>8
  <2> HIDE DEF l
  <2>4. at[read + 1] = at[retired + 1] + (sqOcc + 1) + (l - 1)
    BY <2>1, <2>3
  <2> QED
    BY <1>1, <1>3, <1>14, <2>2, <2>4 DEF Adds
<1>16. Placed(at)'
  <2> SUFFICES ASSUME NEW n \in (retired + 1)..read, NEW x \in 1..StoreCount(n)
               PROVE  IF Place(at, n, x) <= sqOcc + 1 THEN sq'[SqIndex(Place(at, n, x))].id = n
                      ELSE sta'[Place(at, n, x) - (sqOcc + 1)] = n
    <3> SUFFICES ASSUME NEW n \in (retired' + 1)..read', NEW x \in 1..StoreCount(n)'
                 PROVE  IF Place(at, n, x)' <= sqOcc' THEN sq'[SqIndex(Place(at, n, x))'].id = n
                        ELSE sta'[Place(at, n, x)' - sqOcc'] = n
      BY DEF Placed
    <3>1. /\ n \in (retired + 1)..read /\ x \in 1..StoreCount(n)
          /\ Place(at, n, x)' = Place(at, n, x)
      BY <1>3, <1>14
    <3>2. SqIndex(Place(at, n, x))' = SqIndex(Place(at, n, x))
      BY <1>3, <3>1 DEF SqIndex
    <3>3. IF Place(at, n, x) <= sqOcc + 1 THEN sq'[SqIndex(Place(at, n, x))].id = n
          ELSE sta'[Place(at, n, x) - (sqOcc + 1)] = n
      BY <3>1
    <3> QED
      BY <1>3, <3>1, <3>2, <3>3, Zenon
  <2> DEFINE p == Place(at, n, x)
  <2>0. l \in Nat /\ l >= 1 /\ sqOcc \in Nat
    BY <1>7, <1>8
  <2>1. p \in 1..(sqOcc + l) /\ SqIndex(p) \in Sq
    BY <1>10
  <2>2. IF p <= sqOcc THEN sq[SqIndex(p)].id = n ELSE sta[p - sqOcc] = n
    BY <1>1 DEF Placed
  <2>3. p = sqOcc + 1 => n = m
    BY <1>9
  <2> HIDE DEF p, l
  <2>4. CASE p <= sqOcc
    <3>1. p \in 1..sqOcc /\ p <= sqOcc + 1
      BY <2>0, <2>1, <2>4
    <3>2. sq'[SqIndex(p)] = sq[SqIndex(p)]
      BY <1>12, <1>13, <3>1
    <3> QED
      BY <2>2, <2>4, <3>1, <3>2 DEF p
  <2>5. CASE p = sqOcc + 1
    <3>1. sq'[SqIndex(p)].id = n /\ p <= sqOcc + 1
      BY <1>7, <1>11, <1>13, <2>3, <2>5
    <3> QED
      BY <3>1 DEF p
  <2>6. CASE ~(p <= sqOcc + 1)
    <3>1. p - (sqOcc + 1) \in 1..(l - 1) /\ (p - (sqOcc + 1)) + 1 = p - sqOcc /\ ~(p <= sqOcc)
      BY <2>0, <2>1, <2>6
    <3>2. sta'[p - (sqOcc + 1)] = sta[p - sqOcc]
      <4>1. sta'[p - (sqOcc + 1)] = sta[(p - (sqOcc + 1)) + 1]
        BY <1>8, <3>1 DEF l
      <4> QED
        BY <3>1, <4>1
    <3> QED
      BY <2>2, <2>6, <3>1, <3>2 DEF p
  <2> QED
    BY <2>0, <2>1, <2>4, <2>5, <2>6
<1>17. /\ \A k \in Rob : k # i => rob'[k] = rob[k]
       /\ rob'[i].id = m /\ rob'[i].sqi = sqi
       /\ rob'[i].executed # rob[i].executed => \A x \in 1..Len(sqi) : sqi[x] # SQ_SIZE
  <2> HIDE DEF sqi
  <2>1. e = [f \in Fields |-> e[f]] /\ e.id = m /\ e.sqi = sqi /\ e.executed = rob[i].executed
    BY <1>2 DEF RobShape, Fields
  <2> HIDE DEF e
  <2>2. rob'[i] = Added(e) /\ \A k \in Rob : k # i => rob'[k] = rob[k]
    BY <1>2, <1>3 DEF RobShape
  <2> QED
    BY <2>1, <2>2, AddedEntry
<1>18. /\ sqi \in [1..c -> Nat] /\ sqi[j] = sqTail
       /\ \A x \in 1..c : x # j => sqi[x] = rob[i].sqi[x]
  <2>1. sqTail \in Nat
    BY <1>7, <1>12
  <2> HIDE DEF c
  <2> QED
    BY <1>6, <2>1
<1>19. Len(sqi) = c
  <2> HIDE DEF c, sqi
  <2>1. c \in Nat
    BY <1>6
  <2>2. sqi \in Seq(Nat)
    BY <1>18, <2>1
  <2> QED
    BY <1>18, <2>1, <2>2, LenProperties
<1> HIDE DEF sqi, e
<1>20. \A k \in Rob : rob'[k].id = rob[k].id /\ Live(k)' = Live(k)
  BY <1>17 DEF Live
<1>21. Known(at)'
  <2> SUFFICES ASSUME NEW k \in Rob, Live(k)
               PROVE  /\ rob'[k].sqi \in [1..StoreCount(rob[k].id) -> Nat]
                      /\ \A x \in 1..StoreCount(rob[k].id) :
                           rob'[k].sqi[x] = IF Place(at, rob[k].id, x) <= sqOcc + 1
                                            THEN SqIndex(Place(at, rob[k].id, x)) ELSE SQ_SIZE
    BY <1>3, <1>14, <1>20 DEF Known
  <2>1. /\ rob[k].sqi \in [1..StoreCount(rob[k].id) -> Nat]
        /\ \A x \in 1..StoreCount(rob[k].id) :
             rob[k].sqi[x] = IF Place(at, rob[k].id, x) <= sqOcc
                             THEN SqIndex(Place(at, rob[k].id, x)) ELSE SQ_SIZE
    BY <1>1 DEF Known
  <2>2. rob[k].id \in (retired + 1)..read
    BY SqiLength
  <2>3. ASSUME NEW x \in 1..StoreCount(rob[k].id)
        PROVE  rob'[k].sqi[x] = IF Place(at, rob[k].id, x) <= sqOcc + 1
                                THEN SqIndex(Place(at, rob[k].id, x)) ELSE SQ_SIZE
    <3> DEFINE p == Place(at, rob[k].id, x)
    <3>1. p \in 1..(sqOcc + l)
      BY <1>10, <2>2
    <3>2. p = sqOcc + 1 => rob[k].id = m /\ x = j
      BY <1>9, <2>2
    <3>3. k = i \/ rob[k].id # m
      BY <1>2, Numbered DEF FlowInv
    <3>4. rob[k].sqi[x] = IF p <= sqOcc THEN SqIndex(p) ELSE SQ_SIZE
      BY <2>1
    <3>5. CASE k = i /\ x = j
      <4>1. rob'[k].sqi[x] = sqTail /\ p = sqOcc + 1
        BY <1>9, <1>17, <1>18, <3>5
      <4> QED
        BY <1>7, <1>11, <4>1
    <3>6. CASE ~(k = i /\ x = j)
      <4>1. rob'[k].sqi[x] = rob[k].sqi[x]
        BY <1>17, <1>18, <3>6
      <4>2. p # sqOcc + 1
        BY <3>2, <3>3, <3>6
      <4>3. l \in Nat /\ sqOcc \in Nat
        BY <1>7, <1>8
      <4> HIDE DEF p, l
      <4>4. p <= sqOcc <=> p <= sqOcc + 1
        BY <3>1, <4>2, <4>3
      <4> QED
        BY <3>4, <4>1, <4>4 DEF p
    <3> QED
      BY <3>5, <3>6
  <2>4. rob'[k].sqi \in [1..StoreCount(rob[k].id) -> Nat]
    <3>1. CASE k = i
      BY <1>17, <1>18, <3>1
    <3>2. CASE k # i
      BY <1>17, <2>1, <3>2
    <3> QED
      BY <3>1, <3>2
  <2> QED
    BY <2>3, <2>4
<1>22. AllAdded'
  <2> SUFFICES ASSUME NEW k \in Rob, Live(k), rob'[k].executed # "NO",
                      NEW x \in 1..StoreCount(rob[k].id)
               PROVE  rob'[k].sqi[x] # SQ_SIZE
    BY <1>14, <1>20 DEF AllAdded
  <2>1. CASE k = i
    <3>1. rob[i].executed = "NO"
      BY <1>2, <1>5, <1>6, <1>7 DEF AllAdded
    <3> QED
      BY <1>17, <1>19, <2>1, <3>1
  <2>2. CASE k # i
    BY <1>2, <1>17, <2>2 DEF AllAdded
  <2> QED
    BY <2>1, <2>2
<1>23. SqRing'
  <2>1. sqTail' = (sqHead + (sqOcc + 1)) % SQ_SIZE
    <3>1. sqOcc \in 0..(SQ_SIZE - 1)
      BY <1>7
    <3>2. (((sqHead + sqOcc) % SQ_SIZE) + 1) % SQ_SIZE = (sqHead + (sqOcc + 1)) % SQ_SIZE
      BY <1>7, <3>1, RingMoves
    <3> QED
      BY <1>3, <1>7, <3>2
  <2>2. sqOcc + 1 \in 0..SQ_SIZE /\ sqOcc + 1 \in 1..(sqOcc + 1)
        /\ \A n \in 1..sqOcc : n \in 1..(sqOcc + 1)
    BY <1>7
  <2>3. ASSUME NEW s \in Sq, sq'[s].id # 0 PROVE \E n \in 1..(sqOcc + 1) : s = SqIndex(n)
    <3>1. CASE s = sqTail
      BY <1>11, <2>2, <3>1
    <3>2. CASE s # sqTail
      <4>1. \E n \in 1..sqOcc : s = SqIndex(n)
        BY <1>2, <1>13, <2>3, <3>2 DEF SqRing
      <4> QED
        BY <2>2, <4>1
    <3> QED
      BY <3>1, <3>2
  <2>4. sqHead \in Sq
    BY <1>2 DEF SqRing
  <2> QED
    BY <1>3, <1>8, <1>14, <2>1, <2>2, <2>3, <2>4 DEF SqRing
<1> QED
  BY <1>13, <1>15, <1>16, <1>21, <1>22, <1>23 DEF StoreInv

\* retire_rob: the first stores of SQ are those of the instruction that leaves.
LEMMA StoresRetired ==
  ASSUME StoreInv, Retire, FlowInv'
  PROVE  StoreInv'
<1>1. PICK at : Adds(at) /\ Placed(at) /\ Known(at)
  BY DEF StoreInv
<1>2. FlowInv /\ SqShape /\ SqRing /\ AllAdded /\ RobShape /\ RobInv /\ head \in Rob
  BY DEF StoreInv, FlowInv, RobInv, CoreTypes
<1> DEFINE e == rob[head]
           c == StoreCount(retired + 1)
           l == Len(sta)
<1>3. /\ trace' = trace /\ retired' = retired + 1 /\ read' = read /\ sta' = sta /\ sqTail' = sqTail
      /\ sqHead' = (sqHead + Len(e.sqi)) % SQ_SIZE /\ sqOcc' = sqOcc - Len(e.sqi)
      /\ sq' = [s \in Sq |-> IF s \in ToSet(e.sqi) THEN FreeLsq ELSE sq[s]]
      /\ rob' = [rob EXCEPT ![head] = FreeSlot]
      /\ e.id # 0 /\ e.executed = "COMPLETED"
  BY DEF Retire
<1>4. Live(head) /\ e.id = retired + 1 /\ retired + 1 \in (retired + 1)..read
  <2>1. Live(head) /\ e.id \in (retired + 1)..read
    BY <1>2, <1>3, Numbered DEF Live
  <2>2. occupancy > 0 /\ retired \in Nat /\ read \in Nat
    <3>1. read = retired + occupancy /\ retired \in Nat /\ occupancy \in Nat
      BY <1>2, Sizes DEF RobInv, CoreTypes, RobRing
    <3> QED
      BY <2>1, <3>1
  <2>3. e.id = retired + 1
    BY <1>2, <2>2, Numbered
  <2> QED
    BY <2>1, <2>3
<1>5. /\ c \in 0..4 /\ e.sqi \in [1..c -> Nat] /\ Len(e.sqi) = c
  <2>1. /\ StoreCount(e.id) \in 0..4 /\ e.sqi \in [1..StoreCount(e.id) -> Nat]
        /\ Len(e.sqi) = StoreCount(e.id)
    BY <1>2, <1>4, SqiLength
  <2> QED
    BY <1>4, <2>1
<1>6. /\ sqOcc \in 0..SQ_SIZE /\ sqHead \in 0..(SQ_SIZE - 1) /\ SQ_SIZE \in Nat \ {0}
      /\ Sq = 0..(SQ_SIZE - 1) /\ sqTail = (sqHead + sqOcc) % SQ_SIZE
  BY <1>2, Sizes DEF SqRing, Sq
<1>7. sta \in Seq(Nat) /\ l \in Nat
  BY <1>2, LenProperties DEF SqRing
<1>8. /\ \A n \in (retired + 1)..(read + 1) : at[n] \in Nat
      /\ \A m, n \in (retired + 1)..(read + 1) : m <= n => at[m] <= at[n]
      /\ \A n \in (retired + 1)..read :
           /\ at[n + 1] = at[n] + StoreCount(n)
           /\ \A j \in 1..StoreCount(n) :
                Place(at, n, j) \in 1..(sqOcc + l) /\ SqIndex(Place(at, n, j)) \in Sq
      /\ retired \in Nat /\ read \in Nat /\ retired <= read
  BY <1>1, <1>2, PlaceTyped
<1>9. /\ \A p \in 1..SQ_SIZE : SqIndex(p) \in Sq
      /\ \A p, r \in 1..SQ_SIZE : SqIndex(p) = SqIndex(r) => p = r
  <2>1. /\ \A p \in 1..SQ_SIZE : (sqHead + p - 1) % SQ_SIZE \in 0..(SQ_SIZE - 1)
        /\ \A p, r \in 1..SQ_SIZE : (sqHead + p - 1) % SQ_SIZE = (sqHead + r - 1) % SQ_SIZE => p = r
    BY <1>6, RingPlaces
  <2> QED
    BY <1>6, <2>1 DEF SqIndex
<1>10. /\ at[retired + 1] \in Nat /\ at[retired + 2] = at[retired + 1] + c
       /\ \A n \in (retired + 2)..read : n \in (retired + 1)..read /\ at[n] \in Nat /\ at[retired + 2] <= at[n]
  <2>1. (retired + 1) + 1 = retired + 2 /\ retired + 1 \in (retired + 1)..(read + 1)
        /\ retired + 2 \in (retired + 1)..(read + 1)
    BY <1>4, <1>8
  <2>2. \A n \in (retired + 2)..read : /\ n \in (retired + 1)..read /\ n \in (retired + 1)..(read + 1)
                                       /\ retired + 2 <= n
    BY <1>8
  <2> QED
    BY <1>4, <1>8, <2>1, <2>2
<1>11. \A j \in 1..c : Place(at, retired + 1, j) = j
  <2> HIDE DEF c
  <2>1. \A j \in 1..c : j \in Nat
    BY <1>5
  <2> QED
    BY <1>10, <2>1 DEF Place
<1>12. \A j \in 1..c : j <= sqOcc /\ e.sqi[j] = SqIndex(j)
  <2> SUFFICES ASSUME NEW j \in 1..c PROVE j <= sqOcc /\ e.sqi[j] = SqIndex(j)
    OBVIOUS
  <2>1. e.sqi[j] # SQ_SIZE
    BY <1>2, <1>3, <1>4 DEF AllAdded
  <2>2. e.sqi[j] = IF Place(at, e.id, j) <= sqOcc THEN SqIndex(Place(at, e.id, j)) ELSE SQ_SIZE
    BY <1>1, <1>2, <1>4 DEF Known
  <2> QED
    BY <1>4, <1>11, <2>1, <2>2
<1>13. c \in Nat /\ c <= sqOcc /\ sqOcc - c \in 0..SQ_SIZE /\ c \in 0..SQ_SIZE /\ sqOcc \in Nat
  <2> HIDE DEF c
  <2>1. c = 0 \/ c \in 1..c
    BY <1>5
  <2>2. c <= sqOcc
    BY <1>6, <1>12, <2>1
  <2> QED
    BY <1>5, <1>6, <2>2
<1>14. sqHead' = (sqHead + c) % SQ_SIZE /\ sqOcc' = sqOcc - c
  BY <1>3, <1>5
<1> HIDE DEF c
<1>15. sqHead' \in Sq /\ sqTail' = (sqHead' + sqOcc') % SQ_SIZE
  <2>1. \A x \in Nat : x % SQ_SIZE \in Sq
    BY <1>6
  <2>2. sqHead + c \in Nat /\ sqOcc - c \in 0..(SQ_SIZE - c) /\ c + (sqOcc - c) = sqOcc
    BY <1>6, <1>13
  <2>3. (((sqHead + c) % SQ_SIZE) + (sqOcc - c)) % SQ_SIZE = (sqHead + (c + (sqOcc - c))) % SQ_SIZE
    BY <1>6, <1>13, <2>2, RingMoves
  <2>4. (sqHead + c) % SQ_SIZE \in Sq
    BY <2>1, <2>2
  <2>5. sqTail' = (((sqHead + c) % SQ_SIZE) + (sqOcc - c)) % SQ_SIZE
    BY <1>3, <1>6, <2>2, <2>3
  <2> QED
    BY <1>14, <2>4, <2>5
<1>16. \A p \in 1..(SQ_SIZE - c) : SqIndex(p)' = SqIndex(p + c)
  <2>1. \A p \in 1..(SQ_SIZE - c) :
          (((sqHead + c) % SQ_SIZE) + p - 1) % SQ_SIZE = (sqHead + (p + c) - 1) % SQ_SIZE
    BY <1>6, <1>13, RingPlaces
  <2> QED
    BY <1>14, <2>1 DEF SqIndex
<1>17. \A s \in Sq : s \in ToSet(e.sqi) <=> \E j \in 1..c : s = SqIndex(j)
  <2>1. DOMAIN e.sqi = 1..c
    BY <1>5 DEF c
  <2>2. ToSet(e.sqi) = {e.sqi[j] : j \in 1..c}
    BY <2>1, Zenon DEF ToSet
  <2> QED
    BY <1>12, <2>2 DEF c
<1>18. ASSUME NEW p \in 1..sqOcc, p > c PROVE sq'[SqIndex(p)] = sq[SqIndex(p)]
  <2>1. p \in 1..SQ_SIZE /\ \A j \in 1..c : j \in 1..SQ_SIZE /\ j # p
    BY <1>6, <1>13, <1>18
  <2>2. SqIndex(p) \in Sq /\ SqIndex(p) \notin ToSet(e.sqi)
    BY <1>9, <1>17, <2>1
  <2> QED
    BY <1>3, <2>2
<1>19. \A n : StoreCount(n)' = StoreCount(n)
  BY <1>3 DEF StoreCount, InstrAt
<1>20. \A n \in (retired + 2)..read : \A j \in 1..StoreCount(n) :
         /\ Place(at, n, j)' = Place(at, n, j) - c
         /\ Place(at, n, j) \in 1..(sqOcc + l) /\ Place(at, n, j) > c
  <2> SUFFICES ASSUME NEW n \in (retired + 2)..read, NEW j \in 1..StoreCount(n)
               PROVE  /\ Place(at, n, j)' = Place(at, n, j) - c
                      /\ Place(at, n, j) \in 1..(sqOcc + l) /\ Place(at, n, j) > c
    OBVIOUS
  <2>1. n \in (retired + 1)..read /\ at[n] \in Nat /\ at[retired + 2] <= at[n]
    BY <1>10
  <2>2. StoreCount(n) \in 0..4
    BY <1>1, <1>2, <2>1, PlaceTyped
  <2> DEFINE a == at[n]
             b == at[retired + 1]
             d == at[retired + 2]
  <2>3. Place(at, n, j) = a + j - b
    BY DEF Place
  <2>4. Place(at, n, j)' = a + j - d
    <3>1. retired' + 1 = retired + 2
      BY <1>3, <1>8
    <3> QED
      BY <3>1 DEF Place
  <2>5. a \in Nat /\ b \in Nat /\ d = b + c /\ d <= a
    BY <1>10, <2>1
  <2>6. Place(at, n, j) \in 1..(sqOcc + l)
    BY <1>8, <2>1
  <2>7. j \in Nat /\ j >= 1
    BY <2>2
  <2> HIDE DEF a, b, d
  <2>8. a + j - d = (a + j - b) - c /\ a + j - b > c
    BY <1>13, <2>5, <2>7
  <2> QED
    BY <2>3, <2>4, <2>6, <2>8
<1>21. Adds(at)'
  <2>1. \A n \in (retired + 2)..read : at[n + 1] = at[n] + StoreCount(n)
    BY <1>8, <1>10
  <2>2. at[read + 1] = at[retired + 2] + (sqOcc - c) + l
    <3>1. at[read + 1] = at[retired + 1] + sqOcc + l
      BY <1>1 DEF Adds
    <3> HIDE DEF l
    <3> QED
      BY <1>7, <1>10, <1>13, <3>1
  <2>3. retired' + 1 = retired + 2 /\ Len(sta)' = l /\ sqOcc' = sqOcc - c /\ read' = read
    BY <1>3, <1>8, <1>14
  <2>4. at \in [Nat -> Nat]
    BY <1>1 DEF Adds
  <2> QED
    BY <1>19, <2>1, <2>2, <2>3, <2>4 DEF Adds
<1>22. ASSUME NEW n \in (retired + 2)..read, NEW j \in 1..StoreCount(n)
       PROVE  /\ Place(at, n, j)' <= sqOcc' <=> Place(at, n, j) <= sqOcc
              /\ Place(at, n, j) <= sqOcc => SqIndex(Place(at, n, j))' = SqIndex(Place(at, n, j))
              /\ Place(at, n, j)' - sqOcc' = Place(at, n, j) - sqOcc
  <2>1. PICK p : p = Place(at, n, j)
    OBVIOUS
  <2>2. PICK r : r = Place(at, n, j)'
    OBVIOUS
  <2>3. r = p - c /\ p \in 1..(sqOcc + l) /\ p > c
    BY <1>20, <2>1, <2>2
  <2>4. p \in Int
    BY <1>7, <1>13, <2>3
  <2>5. r <= sqOcc - c <=> p <= sqOcc
    BY <1>13, <2>3, <2>4
  <2>6. r - (sqOcc - c) = p - sqOcc
    BY <1>13, <2>3, <2>4
  <2>7. ASSUME p <= sqOcc PROVE SqIndex(Place(at, n, j))' = SqIndex(p)
    <3>1. r \in 1..(SQ_SIZE - c) /\ r + c = p
      BY <1>6, <1>13, <2>3, <2>4, <2>7
    <3>2. SqIndex(r)' = SqIndex(p)
      BY <1>16, <3>1
    <3> QED
      BY <2>2, <3>2 DEF SqIndex
  <2> QED
    BY <1>14, <2>1, <2>2, <2>5, <2>6, <2>7
<1>23. Placed(at)'
  <2> SUFFICES ASSUME NEW n \in (retired + 2)..read, NEW j \in 1..StoreCount(n)
               PROVE  IF Place(at, n, j)' <= sqOcc' THEN sq'[SqIndex(Place(at, n, j))'].id = n
                      ELSE sta'[Place(at, n, j)' - sqOcc'] = n
    <3>1. retired' + 1 = retired + 2 /\ read' = read
      BY <1>3, <1>8
    <3> QED
      BY <1>19, <3>1 DEF Placed
  <2> DEFINE p == Place(at, n, j)
  <2>1. IF p <= sqOcc THEN sq[SqIndex(p)].id = n ELSE sta[p - sqOcc] = n
    BY <1>1, <1>10 DEF Placed
  <2>2. p \in 1..(sqOcc + l) /\ p > c
    BY <1>20
  <2>3. CASE p <= sqOcc
    <3>1. p \in 1..sqOcc
      BY <1>7, <1>13, <2>2, <2>3
    <3>2. sq'[SqIndex(p)].id = n
      BY <1>18, <2>1, <2>2, <2>3, <3>1
    <3> QED
      BY <1>22, <2>3, <3>2
  <2>4. CASE ~(p <= sqOcc)
    BY <1>3, <1>22, <2>1, <2>4
  <2> QED
    BY <2>3, <2>4
<1>24. /\ \A k \in Rob : k # head => rob'[k] = rob[k]
       /\ rob'[head].id = 0
  <2>1. FreeSlot.id = 0
    BY DEF FreeSlot
  <2> QED
    BY <1>2, <1>3, <2>1 DEF RobShape
<1>25. ASSUME NEW k \in Rob, Live(k)'
       PROVE  k # head /\ rob'[k] = rob[k] /\ Live(k) /\ rob[k].id \in (retired + 2)..read
  <2>1. k # head /\ rob'[k] = rob[k] /\ Live(k)
    BY <1>24, <1>25 DEF Live
  <2>2. rob[k].id \in (retired + 1)..read /\ rob[k].id # retired + 1
    BY <1>2, <1>4, <2>1, Numbered
  <2> QED
    BY <1>8, <2>1, <2>2
<1>26. Known(at)'
  <2> SUFFICES ASSUME NEW k \in Rob, Live(k)'
               PROVE  /\ rob'[k].sqi \in [1..StoreCount(rob[k].id)' -> Nat]
                      /\ \A j \in 1..StoreCount(rob[k].id)' :
                           rob'[k].sqi[j] = IF Place(at, rob[k].id, j)' <= sqOcc'
                                            THEN SqIndex(Place(at, rob[k].id, j))' ELSE SQ_SIZE
    BY DEF Known
  <2> DEFINE n == rob[k].id
  <2>1. rob'[k] = rob[k] /\ Live(k) /\ n \in (retired + 2)..read
    BY <1>25
  <2>2. StoreCount(rob[k].id)' = StoreCount(n)
    BY <1>3, <2>1 DEF StoreCount, InstrAt
  <2>3. /\ rob[k].sqi \in [1..StoreCount(n) -> Nat]
        /\ \A j \in 1..StoreCount(n) :
             rob[k].sqi[j] = IF Place(at, n, j) <= sqOcc THEN SqIndex(Place(at, n, j)) ELSE SQ_SIZE
    BY <1>1, <2>1 DEF Known
  <2>4. ASSUME NEW j \in 1..StoreCount(n), NEW m, m = n
        PROVE  rob[k].sqi[j] = IF Place(at, m, j)' <= sqOcc' THEN SqIndex(Place(at, m, j))' ELSE SQ_SIZE
    BY <1>22, <2>1, <2>3, <2>4
  <2> QED
    BY <2>1, <2>2, <2>3, <2>4
<1>27. AllAdded'
  <2> SUFFICES ASSUME NEW k \in Rob, Live(k)', rob'[k].executed # "NO",
                      NEW j \in 1..StoreCount(rob[k].id)'
               PROVE  rob'[k].sqi[j] # SQ_SIZE
    BY DEF AllAdded
  <2>1. rob'[k] = rob[k] /\ Live(k)
    BY <1>25
  <2>2. StoreCount(rob[k].id)' = StoreCount(rob[k].id)
    BY <1>3, <2>1 DEF StoreCount, InstrAt
  <2> QED
    BY <1>2, <2>1, <2>2 DEF AllAdded
<1>28. SqShape' /\ \A s \in Sq : sq'[s].id # 0 => s \notin ToSet(e.sqi) /\ sq[s].id # 0
  <2>1. FreeLsq = [f \in LsqFields |-> FreeLsq[f]] /\ FreeLsq.id = 0
    BY DEF FreeLsq, LsqFields
  <2>2. \A s \in Sq : sq'[s] = IF s \in ToSet(e.sqi) THEN FreeLsq ELSE sq[s]
    BY <1>3
  <2>3. sq' = [s \in Sq |-> sq'[s]]
    BY <1>3
  <2> QED
    BY <1>2, <2>1, <2>2, <2>3 DEF SqShape
<1>29. SqRing'
  <2>1. ASSUME NEW s \in Sq, sq'[s].id # 0 PROVE \E n \in 1..(sqOcc - c) : s = SqIndex(n)'
    <3>1. PICK n \in 1..sqOcc : s = SqIndex(n)
      BY <1>2, <1>28, <2>1 DEF SqRing
    <3>2. ~(n \in 1..c)
      BY <1>17, <1>28, <2>1, <3>1
    <3>3. n - c \in 1..(sqOcc - c) /\ n - c \in 1..(SQ_SIZE - c) /\ (n - c) + c = n
      BY <1>6, <1>13, <3>2
    <3>4. PICK p \in 1..(sqOcc - c) : p = n - c
      BY <3>3
    <3>5. SqIndex(p)' = SqIndex(p + c)
      BY <1>16, <3>3, <3>4
    <3> QED
      BY <3>1, <3>3, <3>4, <3>5
  <2> QED
    BY <1>3, <1>7, <1>13, <1>14, <1>15, <2>1 DEF SqRing
<1> QED
  BY <1>21, <1>23, <1>26, <1>27, <1>28, <1>29 DEF StoreInv

LEMMA StoreInit ==
  ASSUME Init
  PROVE  StoreInv
<1>1. FlowInv
  BY FlowInit
<1>2. /\ retired = 0 /\ read = 0 /\ rob = [i \in Rob |-> FreeSlot] /\ sq = [s \in Sq |-> FreeLsq]
      /\ sqHead = 0 /\ sqTail = 0 /\ sqOcc = 0 /\ sta = <<>>
  BY DEF Init
<1>3. \A i \in Rob : ~Live(i)
  <2>1. FreeSlot.id = 0
    BY DEF FreeSlot
  <2> QED
    BY <1>2, <2>1 DEF Live
<1>4. FreeLsq.id = 0 /\ FreeLsq = [f \in LsqFields |-> FreeLsq[f]]
  BY DEF FreeLsq, LsqFields
<1>5. SqShape
  BY <1>2, <1>4 DEF SqShape
<1>6. SqRing
  <2>1. SQ_SIZE \in Nat \ {0} /\ Sq = 0..(SQ_SIZE - 1)
    BY Sizes DEF Sq
  <2>2. 0 % SQ_SIZE = 0 /\ 0 \in 0..(SQ_SIZE - 1) /\ 0 \in 0..SQ_SIZE
    BY <2>1
  <2>3. sqHead + sqOcc = 0
    BY <1>2
  <2>4. \A s \in Sq : sq[s].id = 0
    BY <1>2, <1>4
  <2>5. sta \in Seq(Nat)
    BY <1>2
  <2> QED
    BY <1>2, <2>1, <2>2, <2>3, <2>4, <2>5 DEF SqRing
<1>7. AllAdded
  BY <1>3 DEF AllAdded
<1> DEFINE at == [n \in Nat |-> 0]
<1>8. Adds(at)
  <2>1. (retired + 1)..read = {} /\ retired + 1 = 1 /\ read + 1 = 1
    BY <1>2
  <2>2. at \in [Nat -> Nat] /\ at[1] = 0
    OBVIOUS
  <2>3. Len(sta) = 0 /\ sqOcc = 0
    BY <1>2
  <2> HIDE DEF at
  <2> QED
    BY <2>1, <2>2, <2>3 DEF Adds
<1>9. Placed(at)
  BY <1>2 DEF Placed
<1>10. Known(at)
  BY <1>3 DEF Known
<1> QED
  BY <1>1, <1>5, <1>6, <1>7, <1>8, <1>9, <1>10 DEF StoreInv

LEMMA StoreStep ==
  ASSUME StoreInv, [Next]_vars
  PROVE  StoreInv'
<1>1. FlowInv'
  BY FlowStep DEF StoreInv
<1>2. CASE HandleBranch
  BY <1>1, <1>2, StoresEnter
<1>3. CASE ItlbRead \/ L1iFetch \/ ResumeFetch \/ OperateLsq \/ CompleteDataFetch
           \/ \E a \in Addr : L1dWrite(a)
  BY <1>1, <1>3, CalmMemory, StoreCalmStep
<1>4. ASSUME NEW i \in Rob, Schedule(i) \/ CompleteExecution(i) PROVE StoreInv'
  BY <1>1, <1>4, CalmSchedule, StoreCalmStep
<1>5. CASE Execute
  BY <1>1, <1>5, CalmExecute, StoreCalmStep
<1>6. ASSUME NEW i \in Rob, CheckAndAddLsq(i) PROVE StoreInv'
  BY <1>1, <1>6, CalmAddLoad, StoreCalmStep, StoresAdded DEF CheckAndAddLsq
<1>7. ASSUME NEW i \in Rob, CompleteInstrFetch(i) PROVE StoreInv'
  <2>1. StoreCalm
    BY <1>7, CalmMemory
  <2> QED
    BY <1>1, <2>1, StoreCalmStep
<1>8. CASE Retire
  BY <1>1, <1>8, StoresRetired
<1>9. CASE UNCHANGED vars
  BY <1>1, <1>9, CalmMemory, StoreCalmStep
<1> QED
  BY <1>2, <1>3, <1>4, <1>5, <1>6, <1>7, <1>8, <1>9 DEF Next, UpdateRob

\* What the place of a store holds, and where the stores of an instruction are.
LEMMA Filled ==
  ASSUME FlowInv, SqRing, NEW at, Adds(at), Placed(at)
  PROVE  /\ Unretired \in Seq(Nat) /\ Len(Unretired) = sqOcc + Len(sta)
         /\ \A n \in (retired + 1)..read : \A j \in 1..StoreCount(n) :
              Unretired[Place(at, n, j)] = n
<1> DEFINE l == Len(sta)
<1>1. sqOcc \in Nat /\ sqOcc <= SQ_SIZE /\ sta \in Seq(Nat) /\ l \in Nat
  BY LenProperties, Sizes DEF SqRing
<1>2. /\ \A n \in (retired + 1)..read : \A j \in 1..StoreCount(n) : Place(at, n, j) \in 1..(sqOcc + l)
      /\ \A p \in 1..(sqOcc + l) :
           \E n \in (retired + 1)..read : \E j \in 1..StoreCount(n) : Place(at, n, j) = p
      /\ retired \in Nat /\ read \in Nat
  BY PlaceTyped
<1>3. ASSUME NEW p \in 1..sqOcc PROVE sq[SqIndex(p)].id \in Nat
  <2>1. p \in 1..(sqOcc + l) /\ p <= sqOcc
    BY <1>1
  <2>2. PICK n, j : n \in (retired + 1)..read /\ j \in 1..StoreCount(n) /\ Place(at, n, j) = p
    BY <1>2, <2>1
  <2>3. sq[SqIndex(p)].id = n
    BY <2>1, <2>2 DEF Placed
  <2> QED
    BY <1>2, <2>2, <2>3
<1>4. InSq = [p \in 1..sqOcc |-> sq[SqIndex(p)].id]
  BY DEF InSq, SqIndex
<1>5. InSq \in Seq(Nat) /\ Len(InSq) = sqOcc
  BY <1>1, <1>3, <1>4
<1>6. Joined(InSq, sta)
  BY <1>1, <1>5, Joins
<1>7. Unretired \in Seq(Nat) /\ Len(Unretired) = sqOcc + l
  BY <1>5, <1>6 DEF Joined, Unretired
<1>8. /\ \A p \in 1..sqOcc : Unretired[p] = sq[SqIndex(p)].id
      /\ \A j \in 1..l : Unretired[sqOcc + j] = sta[j]
  BY <1>4, <1>5, <1>6 DEF Joined, Unretired
<1>9. ASSUME NEW n \in (retired + 1)..read, NEW j \in 1..StoreCount(n)
      PROVE  Unretired[Place(at, n, j)] = n
  <2> DEFINE p == Place(at, n, j)
  <2>1. p \in 1..(sqOcc + l)
    BY <1>2
  <2>2. IF p <= sqOcc THEN sq[SqIndex(p)].id = n ELSE sta[p - sqOcc] = n
    BY DEF Placed
  <2> HIDE DEF p, l
  <2>3. CASE p <= sqOcc
    <3>1. p \in 1..sqOcc
      BY <1>1, <2>1, <2>3
    <3> QED
      BY <1>8, <2>2, <2>3, <3>1 DEF p
  <2>4. CASE ~(p <= sqOcc)
    <3>1. p - sqOcc \in 1..l /\ sqOcc + (p - sqOcc) = p
      BY <1>1, <2>1, <2>4
    <3>2. Unretired[sqOcc + (p - sqOcc)] = sta[p - sqOcc]
      BY <1>8, <3>1
    <3> QED
      BY <2>2, <2>4, <3>1, <3>2 DEF p
  <2> QED
    BY <2>3, <2>4
<1> QED
  BY <1>7, <1>9

\* Of two places, the one that comes first belongs to the older instruction.
LEMMA PlacesRise ==
  ASSUME FlowInv, SqRing, NEW at, Adds(at),
         NEW m \in (retired + 1)..read, NEW i \in 1..StoreCount(m),
         NEW n \in (retired + 1)..read, NEW j \in 1..StoreCount(n),
         Place(at, m, i) < Place(at, n, j)
  PROVE  m <= n
<1>1. /\ \A x \in (retired + 1)..(read + 1) : at[x] \in Nat
      /\ \A x, y \in (retired + 1)..(read + 1) : x <= y => at[x] <= at[y]
      /\ \A x \in (retired + 1)..read : StoreCount(x) \in 0..4 /\ at[x + 1] = at[x] + StoreCount(x)
      /\ retired \in Nat /\ read \in Nat /\ retired <= read
  BY PlaceTyped
<1>2. SUFFICES ASSUME n < m PROVE FALSE
  BY <1>1
<1> DEFINE a == at[n]
           b == at[m]
           c == StoreCount(n)
           z == at[retired + 1]
<1>3. n + 1 \in (retired + 1)..(read + 1) /\ m \in (retired + 1)..(read + 1) /\ n + 1 <= m
      /\ n \in (retired + 1)..(read + 1) /\ retired + 1 \in (retired + 1)..(read + 1)
  BY <1>1, <1>2
<1>4. a \in Nat /\ b \in Nat /\ c \in Nat /\ z \in Nat /\ a + c <= b
  <2>1. at[n + 1] <= at[m]
    BY <1>1, <1>3
  <2>2. at[n + 1] = at[n] + StoreCount(n) /\ StoreCount(n) \in Nat
    BY <1>1
  <2> QED
    BY <1>1, <1>3, <2>1, <2>2
<1>5. i \in Nat /\ i >= 1 /\ j \in Nat /\ j <= c
  BY <1>1
<1>6. b + i - z < a + j - z
  BY DEF Place
<1> HIDE DEF a, b, c, z
<1> QED
  BY <1>4, <1>5, <1>6

LEMMA StoresOrdered ==
  ASSUME StoreInv
  PROVE  StoresInOrder
<1>1. PICK at : Adds(at) /\ Placed(at) /\ Known(at)
  BY DEF StoreInv
<1>2. FlowInv /\ SqRing
  BY DEF StoreInv
<1> DEFINE l == Len(sta)
<1>3. sqOcc \in Nat /\ sta \in Seq(Nat) /\ l \in Nat
  BY <1>2, LenProperties, Sizes DEF SqRing
<1>4. /\ Unretired \in Seq(Nat) /\ Len(Unretired) = sqOcc + l
      /\ \A n \in (retired + 1)..read : \A j \in 1..StoreCount(n) : Unretired[Place(at, n, j)] = n
  BY <1>1, <1>2, Filled
<1>5. /\ \A n \in (retired + 1)..(read + 1) : at[n] \in Nat
      /\ at[read + 1] <= at[retired + 1] + 4 * (read - retired)
      /\ \A n \in (retired + 1)..read :
           /\ StoreCount(n) \in 0..4
           /\ \A j \in 1..StoreCount(n) : Place(at, n, j) \in 1..(sqOcc + l)
      /\ \A p \in 1..(sqOcc + l) :
           \E n \in (retired + 1)..read : \E j \in 1..StoreCount(n) : Place(at, n, j) = p
      /\ retired \in Nat /\ read \in Nat /\ retired <= read /\ read - retired <= ROB_SIZE
  BY <1>1, <1>2, PlaceTyped
<1>6. \A p \in 1..Len(Unretired) : Unretired[p] \in (retired + 1)..read
  BY <1>4, <1>5, SMTT(30)
<1>7. ASSUME NEW p \in 1..Len(Unretired), NEW r \in 1..Len(Unretired), p < r
      PROVE  Unretired[p] <= Unretired[r]
  <2>1. PICK m, i : m \in (retired + 1)..read /\ i \in 1..StoreCount(m) /\ Place(at, m, i) = p
    BY <1>4, <1>5
  <2>2. PICK n, j : n \in (retired + 1)..read /\ j \in 1..StoreCount(n) /\ Place(at, n, j) = r
    BY <1>4, <1>5
  <2>3. m <= n
    BY <1>1, <1>2, <1>7, <2>1, <2>2, PlacesRise
  <2> QED
    BY <1>4, <2>1, <2>2, <2>3
<1>8. ASSUME NEW n \in (retired + 1)..read PROVE Times(Unretired, n) = StoreCount(n)
  <2> DEFINE x == at[n] - at[retired + 1]
             c == StoreCount(n)
             S == {p \in 1..Len(Unretired) : Unretired[p] = n}
  <2>1. x \in Int /\ c \in Nat
    <3>1. n \in (retired + 1)..(read + 1) /\ retired + 1 \in (retired + 1)..(read + 1)
      BY <1>5
    <3>2. at[n] \in Nat /\ at[retired + 1] \in Nat
      BY <1>5, <3>1
    <3>3. StoreCount(n) \in 0..4
      BY <1>5
    <3> QED
      BY <3>2, <3>3
  <2>2. \A j \in 1..c : Place(at, n, j) = x + j
    <3>1. n \in (retired + 1)..(read + 1) /\ retired + 1 \in (retired + 1)..(read + 1)
      BY <1>5
    <3>2. at[n] \in Nat /\ at[retired + 1] \in Nat /\ \A j \in 1..c : j \in Nat
      BY <1>5, <2>1, <3>1
    <3> HIDE DEF c
    <3> QED
      BY <3>2 DEF Place
  <2>3. \A p \in S : \E j \in 1..c : p = x + j
    <3> SUFFICES ASSUME NEW p \in S PROVE \E j \in 1..c : p = x + j
      OBVIOUS
    <3>1. PICK m, j : m \in (retired + 1)..read /\ j \in 1..StoreCount(m) /\ Place(at, m, j) = p
      BY <1>4, <1>5
    <3>2. m = n
      BY <1>4, <3>1
    <3> QED
      BY <2>2, <3>1, <3>2
  <2>4. \A j \in 1..c : x + j \in S
    BY <1>4, <1>5, <2>2
  <2> HIDE DEF x, c, S
  <2>5. S = (x + 1)..(x + c)
    <3>1. \A p \in S : p \in (x + 1)..(x + c)
      BY <2>1, <2>3
    <3>2. ASSUME NEW p \in (x + 1)..(x + c) PROVE p \in S
      <4>1. p - x \in 1..c /\ x + (p - x) = p
        BY <2>1
      <4> QED
        BY <2>4, <4>1
    <3> QED
      BY <3>1, <3>2
  <2>6. Cardinality((x + 1)..(x + c)) = c
    <3>1. x + 1 \in Int /\ x + c \in Int
      BY <2>1
    <3>2. Cardinality((x + 1)..(x + c)) = IF x + 1 > x + c THEN 0 ELSE (x + c) - (x + 1) + 1
      BY <3>1, FS_Interval
    <3> QED
      BY <2>1, <3>2
  <2> QED
    BY <2>5, <2>6 DEF Times, S, c
<1>9. Len(sta) <= STA_SIZE
  <2> DEFINE a == at[retired + 1]
             b == at[read + 1]
  <2>1. retired + 1 \in (retired + 1)..(read + 1) /\ read + 1 \in (retired + 1)..(read + 1)
    BY <1>5
  <2>2. a \in Nat /\ b \in Nat /\ b <= a + 4 * (read - retired)
    BY <1>5, <2>1
  <2>3. b = a + sqOcc + l
    BY <1>1 DEF Adds
  <2>4. STA_SIZE = ROB_SIZE * 4 /\ ROB_SIZE \in Nat
    BY SizesAssumption
  <2> HIDE DEF a, b, l
  <2>5. l <= STA_SIZE
    BY <1>3, <1>5, <2>2, <2>3, <2>4
  <2> QED
    BY <2>5 DEF l
<1>10. /\ sqTail = (sqHead + sqOcc) % SQ_SIZE
       /\ \A s \in Sq : sq[s].id # 0 => \E n \in 1..sqOcc : s = (sqHead + n - 1) % SQ_SIZE
  BY <1>2 DEF SqRing, SqIndex
<1> QED
  BY <1>6, <1>7, <1>8, <1>9, <1>10 DEF StoresInOrder, StoreCount

(***************************************************************************)
(* Stores keep program order, for every trace and every size of the        *)
(* queues: SQ from its head and then the STA hold the stores of the        *)
(* instructions not retired, each once and oldest first, so that           *)
(* add_store_queue finds the tail of SQ free, retire_rob releases the      *)
(* stores at its head, and the STA never wraps onto itself.                *)
(***************************************************************************)
THEOREM StoresStayInOrder == Spec => []StoresInOrder
<1>1. Init => StoreInv
  BY StoreInit
<1>2. StoreInv /\ [Next]_vars => StoreInv'
  BY StoreStep
<1>3. StoreInv => StoresInOrder
  BY StoresOrdered
<1> QED
  BY <1>1, <1>2, <1>3, PTL DEF Spec

-----------------------------------------------------------------------------
(***************************************************************************)
(* Loads.  A load that was added waits for a store that will execute, is   *)
(* on its way to memory past no store of its address, or has been given    *)
(* the last store before it.                                               *)
(***************************************************************************)

LoadCount(n) == Len(InstrAt(n).ld)
LoadAddr(i, j) == InstrAt(rob[i].id).ld[j]

\* Instruction n stores to a; m is the last before n that does, 0 if there is none.
Stores(n, a) == \E j \in 1..StoreCount(n) : InstrAt(n).st[j] = a
LastStore(m, n, a) ==
  /\ m \in 0..(n - 1) /\ (m # 0 => Stores(m, a))
  /\ \A x \in (m + 1)..(n - 1) : ~Stores(x, a)

\* The store of instruction p to a is in SQ and has executed.
Done(p, a) ==
  \E s \in Sq : sq[s].id = p /\ sq[s].fetched = "COMPLETED" /\ InstrAt(p).st[sq[s].slot] = a

LqShape ==
  /\ lq = [q \in Lq |-> lq[q]]
  /\ \A q \in Lq : lq[q] = [f \in LsqFields |-> lq[q][f]]

EntriesTyped ==
  \A i \in Rob : Live(i) =>
    /\ rob[i].lqi \in [1..LoadCount(rob[i].id) -> Lq \cup {LQ_SIZE}]
    /\ rob[i].got \in [1..LoadCount(rob[i].id) -> Nat]

\* The entries of LQ and SQ and those of the ROB name each other.
LoadsNamed ==
  \A q \in Lq : lq[q].id # 0 =>
    /\ lq[q].rob \in Rob /\ rob[lq[q].rob].id = lq[q].id
    /\ lq[q].slot \in 1..LoadCount(lq[q].id)
    /\ rob[lq[q].rob].lqi[lq[q].slot] = q
StoresNamed ==
  \A i \in Rob : Live(i) => \A j \in 1..StoreCount(rob[i].id) :
    rob[i].sqi[j] # SQ_SIZE => sq[rob[i].sqi[j]].rob = i /\ sq[rob[i].sqi[j]].slot = j

Named == LqShape /\ EntriesTyped /\ LoadsNamed /\ StoresNamed

\* A set in four parts.
Parted(A, B, C, D, S) ==
  /\ A \cap B = {} /\ A \cap C = {} /\ A \cap D = {}
  /\ B \cap C = {} /\ B \cap D = {} /\ C \cap D = {}
  /\ A \cup B \cup C \cup D = S

\* Where the loads that go to memory are, and where the stores are.
LoadsAtDtlb == {q \in Lq : <<"load", q>> \in dtlb}
StoresAtDtlb == {s \in Sq : <<"store", s>> \in dtlb}
Performed == {s \in Sq : sq[s].fetched = "COMPLETED"}
ToMemory == {q \in Lq : lq[q].id # 0 /\ lq[q].producer = 0}

PlacesTyped ==
  /\ rtl0 \in Seq(Lq) /\ rtl1 \in Seq(Lq) /\ rts0 \in Seq(Sq) /\ rts1 \in Seq(Sq)
  /\ l1d \subseteq Lq /\ dtlb \subseteq ({"load"} \X Lq) \cup ({"store"} \X Sq)
LoadRings ==
  /\ IsInjective(rtl0) /\ IsInjective(rtl1)
  /\ Parted(Range(rtl0), LoadsAtDtlb, Range(rtl1), l1d, ToMemory)
StoreRings ==
  /\ IsInjective(rts0) /\ IsInjective(rts1)
  /\ Parted(Range(rts0), StoresAtDtlb, Range(rts1), Performed, {s \in Sq : sq[s].id # 0})
Places == PlacesTyped /\ LoadRings /\ StoreRings

\* Memory holds the last store that has retired.
MemExact ==
  /\ mem = [a \in Addr |-> mem[a]] /\ read <= MAX_READ
  /\ \A a \in Addr : LastStore(mem[a], retired + 1, a)

\* Slot j of entry i holds an entry of LQ.
Held(i, j) ==
  /\ rob[i].lqi[j] # LQ_SIZE
  /\ lq[rob[i].lqi[j]].id = rob[i].id /\ lq[rob[i].lqi[j]].slot = j
Producer(i, j) == lq[rob[i].lqi[j]].producer

Answered(i, j) ==
  /\ LastStore(rob[i].got[j], rob[i].id, LoadAddr(i, j))
  /\ rob[i].got[j] > retired => Done(rob[i].got[j], LoadAddr(i, j))
FromMemory(i, j) ==
  \A x \in (retired + 1)..(rob[i].id - 1) : ~Stores(x, LoadAddr(i, j))
Promised(i, j, p) ==
  /\ p > retired /\ LastStore(p, rob[i].id, LoadAddr(i, j)) /\ ~Done(p, LoadAddr(i, j))
  /\ \A k \in Rob : rob[k].id = p => i \in rob[k].memDeps
Right(i, j) ==
  IF ~Held(i, j) THEN Answered(i, j)
  ELSE IF Producer(i, j) = 0 THEN FromMemory(i, j)
  ELSE Promised(i, j, Producer(i, j))

LoadsRight ==
  \A i \in Rob : Live(i) => \A j \in 1..LoadCount(rob[i].id) :
    rob[i].lqi[j] # LQ_SIZE => Right(i, j)

\* A dependent of a store has a load that takes its data from it.
DepsTrue ==
  \A k \in Rob : \A i \in rob[k].memDeps :
    /\ i \in Rob /\ Live(k) /\ Live(i)
    /\ \E j \in 1..LoadCount(rob[i].id) : LastStore(rob[k].id, rob[i].id, LoadAddr(i, j))

\* num_mem_ops counts the operations that are to come.
LoadsDue(i) == {j \in 1..LoadCount(rob[i].id) : rob[i].lqi[j] = LQ_SIZE \/ Held(i, j)}
StoresDue(i) == {j \in 1..StoreCount(rob[i].id) :
                   rob[i].sqi[j] = SQ_SIZE \/ sq[rob[i].sqi[j]].fetched # "COMPLETED"}
OpsExact ==
  \A i \in Rob : Live(i) =>
    /\ rob[i].ops = Cardinality(LoadsDue(i)) + Cardinality(StoresDue(i))
    /\ rob[i].executed = "COMPLETED" => LoadsDue(i) = {} /\ StoresDue(i) = {}

Values == MemExact /\ LoadsRight /\ DepsTrue /\ OpsExact

LoadInv == Regular(trace) /\ StoreInv /\ Named /\ Places /\ Values

\* An instruction has at most four loads.
LEMMA LoadCounts ==
  ASSUME trace \in Traces, NEW n \in Nat \ {0}
  PROVE  LoadCount(n) \in 0..4 /\ InstrAt(n).ld \in Seq(Addr)
<1>1. InstrAt(n).ld \in Seq(Addr)
  BY InstrTyped DEF Instrs
<1>2. Len(trace) \in Nat \ {0} /\ \A k \in 1..Len(trace) : Len(trace[k].ld) <= 4
  <2>1. trace \in Seq(Instrs) /\ Len(trace) > 0
    BY SizesAssumption DEF Instrs
  <2>2. \A k \in 1..Len(trace) : Len(trace[k].ld) <= 4
    BY SizesAssumption
  <2> QED
    BY <2>1, <2>2, LenProperties
<1>3. ((n - 1) % Len(trace)) + 1 \in 1..Len(trace)
  <2> DEFINE l == Len(trace)
  <2>1. n - 1 \in Nat /\ l \in Nat \ {0}
    BY <1>2
  <2> HIDE DEF l
  <2>2. (n - 1) % l \in 0..(l - 1)
    BY <2>1
  <2> QED
    BY <2>1, <2>2 DEF l
<1>4. Len(InstrAt(n).ld) <= 4
  BY <1>2, <1>3 DEF InstrAt
<1>5. Len(InstrAt(n).ld) \in Nat
  BY <1>1, LenProperties
<1> DEFINE c == Len(InstrAt(n).ld)
<1>6. c \in Nat /\ c <= 4
  BY <1>4, <1>5
<1> HIDE DEF c
<1>7. c \in 0..4
  BY <1>6
<1> QED
  BY <1>1, <1>7, Zenon DEF LoadCount, c

\* Every instruction read and not retired has its entry.
LEMMA Entered ==
  ASSUME RobInv, NEW n \in (retired + 1)..read
  PROVE  \E k \in Rob : Live(k) /\ rob[k].id = n
<1>1. /\ head \in Rob /\ occupancy \in 0..ROB_SIZE /\ retired \in Nat /\ read = retired + occupancy
      /\ \A i \in Rob : rob[i].id = IF Pos(i) < occupancy THEN retired + Pos(i) + 1 ELSE 0
      /\ ROB_SIZE \in Nat \ {0} /\ Rob = 0..(ROB_SIZE - 1)
  BY Sizes DEF RobInv, CoreTypes, RobRing
<1> DEFINE x == n - retired - 1
           y == head + x
           k == y % ROB_SIZE
<1>2. x \in Nat /\ x < occupancy /\ x < ROB_SIZE /\ y \in 0..(2 * ROB_SIZE - 1) /\ head \in Nat
      /\ head < ROB_SIZE /\ n = retired + x + 1 /\ n \in Nat \ {0}
  BY <1>1
<1>3. k = IF y < ROB_SIZE THEN y ELSE y - ROB_SIZE
  BY <1>1, <1>2, Wrapped
<1>4. k \in Rob
  BY <1>1, <1>2, <1>3
<1> HIDE DEF k
<1>5. Pos(k) = IF k >= head THEN k - head ELSE k + ROB_SIZE - head
  BY <1>1, <1>4, PosPlain
<1>6. Pos(k) = x
  BY <1>1, <1>2, <1>3, <1>5
<1>7. rob[k].id = n
  BY <1>1, <1>2, <1>4, <1>6
<1> QED
  BY <1>2, <1>4, <1>7 DEF Live

\* There is one last store.
LEMMA OneLast ==
  ASSUME NEW n \in Nat, NEW a, NEW l, NEW m, LastStore(l, n, a), LastStore(m, n, a)
  PROVE  l = m
<1>1. l \in 0..(n - 1) /\ m \in 0..(n - 1) /\ l \in Nat /\ m \in Nat
  BY DEF LastStore
<1>2. ~(l < m)
  <2> SUFFICES ASSUME l < m PROVE FALSE
    OBVIOUS
  <2>1. m \in (l + 1)..(n - 1) /\ m # 0
    BY <1>1
  <2> QED
    BY <2>1 DEF LastStore
<1>3. ~(m < l)
  <2> SUFFICES ASSUME m < l PROVE FALSE
    OBVIOUS
  <2>1. l \in (m + 1)..(n - 1) /\ l # 0
    BY <1>1
  <2> QED
    BY <2>1 DEF LastStore
<1> QED
  BY <1>1, <1>2, <1>3

\* What a regular trace says.
LEMMA RegularTrace ==
  ASSUME Regular(trace), NEW n \in 1..MAX_READ
  PROVE  /\ \A i, j \in 1..StoreCount(n) : InstrAt(n).st[i] = InstrAt(n).st[j] => i = j
         /\ \A i, j \in 1..LoadCount(n) : \A m \in 1..(n - 1) :
              LastStore(m, n, InstrAt(n).ld[i]) /\ Stores(m, InstrAt(n).ld[j])
                => LastStore(m, n, InstrAt(n).ld[j])
<1>1. /\ \A i, j \in 1..Len(InstrAt(n).st) : InstrAt(n).st[i] = InstrAt(n).st[j] => i = j
      /\ \A i, j \in 1..Len(InstrAt(n).ld) : \A m \in 1..(n - 1) :
           /\ Stores(m, InstrAt(n).ld[i]) /\ \A x \in (m + 1)..(n - 1) : ~Stores(x, InstrAt(n).ld[i])
           /\ Stores(m, InstrAt(n).ld[j])
           => Stores(m, InstrAt(n).ld[j]) /\ \A x \in (m + 1)..(n - 1) : ~Stores(x, InstrAt(n).ld[j])
  BY DEF Regular, InstrAt, Stores, StoreCount
<1>2. \A m \in 1..(n - 1) : m \in 0..(n - 1) /\ m # 0
  BY SizesAssumption
<1> QED
  BY <1>1, <1>2 DEF LastStore, StoreCount, LoadCount

\* What the trace says of an instruction does not change.
LEMMA TraceKept ==
  ASSUME trace' = trace
  PROVE  /\ \A n : InstrAt(n)' = InstrAt(n) /\ LoadCount(n)' = LoadCount(n) /\ StoreCount(n)' = StoreCount(n)
         /\ \A n, a : Stores(n, a)' <=> Stores(n, a)
         /\ \A m, n, a : LastStore(m, n, a)' <=> LastStore(m, n, a)
         /\ Regular(trace) => Regular(trace)'
<1>1. \A n : InstrAt(n)' = InstrAt(n)
  BY DEF InstrAt
<1>2. \A n : LoadCount(n)' = LoadCount(n) /\ StoreCount(n)' = StoreCount(n)
  BY <1>1 DEF LoadCount, StoreCount
<1>3. \A n, a : Stores(n, a)' <=> Stores(n, a)
  BY <1>1, <1>2 DEF Stores
<1>4. \A m, n, a : LastStore(m, n, a)' <=> LastStore(m, n, a)
  BY <1>3 DEF LastStore
<1> QED
  BY <1>1, <1>2, <1>3, <1>4

\* Numbers of entries, for the loads.
LEMMA Entries ==
  ASSUME StoreInv
  PROVE  /\ trace \in Traces /\ retired \in Nat /\ read \in Nat /\ retired <= read /\ head \in Rob
         /\ ROB_SIZE \notin Rob /\ SQ_SIZE \notin Sq /\ LQ_SIZE \notin Lq
         /\ \A i \in Rob : Live(i) =>
              /\ rob[i].id \in (retired + 1)..read /\ rob[i].id \in Nat \ {0} /\ rob[i].id > retired
              /\ LoadCount(rob[i].id) \in 0..4 /\ StoreCount(rob[i].id) \in 0..4
         /\ \A i, k \in Rob : Live(i) /\ rob[i].id = rob[k].id => i = k
         /\ \A n \in (retired + 1)..read : \E k \in Rob : Live(k) /\ rob[k].id = n
<1>1. RobInv /\ trace \in Traces /\ head \in Rob
  BY DEF StoreInv, FlowInv, RobInv, CoreTypes
<1>2. retired \in Nat /\ read \in Nat /\ retired <= read
  BY <1>1 DEF RobInv, CoreTypes, RobRing
<1>3. ROB_SIZE \notin Rob /\ SQ_SIZE \notin Sq /\ LQ_SIZE \notin Lq
  BY Sizes DEF Sq, Lq
<1>4. \A i \in Rob : Live(i) =>
        rob[i].id \in (retired + 1)..read /\ rob[i].id \in Nat \ {0} /\ rob[i].id > retired
  BY <1>1, <1>2, Numbered DEF Live
<1>5. \A i \in Rob : Live(i) => LoadCount(rob[i].id) \in 0..4 /\ StoreCount(rob[i].id) \in 0..4
  BY <1>1, <1>4, LoadCounts, StoreCounts
<1> QED
  BY <1>1, <1>2, <1>3, <1>4, <1>5, Numbered, Entered

\* The loads of an entry and what they are given are sequences as long as its loads.
LEMMA LqiLength ==
  ASSUME StoreInv, EntriesTyped, NEW i \in Rob, Live(i)
  PROVE  /\ rob[i].lqi \in Seq(Lq \cup {LQ_SIZE}) /\ Len(rob[i].lqi) = LoadCount(rob[i].id)
         /\ rob[i].got \in Seq(Nat) /\ Len(rob[i].got) = LoadCount(rob[i].id)
<1> DEFINE c == LoadCount(rob[i].id)
<1>1. c \in Nat /\ rob[i].lqi \in [1..c -> Lq \cup {LQ_SIZE}] /\ rob[i].got \in [1..c -> Nat]
  BY Entries DEF EntriesTyped
<1> HIDE DEF c
<1>2. rob[i].lqi \in Seq(Lq \cup {LQ_SIZE}) /\ rob[i].got \in Seq(Nat)
  BY <1>1, IsASeq
<1>3. Len(rob[i].lqi) = c /\ Len(rob[i].got) = c
  BY <1>1, <1>2, LenProperties
<1> QED
  BY <1>2, <1>3 DEF c

\* The entries of SQ are those of the stores of the ROB that were added.
LEMMA StoreSlots ==
  ASSUME StoreInv
  PROVE  /\ \A s \in Sq : sq[s].id # 0 =>
              \E i \in Rob : \E j \in 1..StoreCount(rob[i].id) :
                Live(i) /\ rob[i].id = sq[s].id /\ rob[i].sqi[j] = s
         /\ \A i \in Rob : Live(i) => \A j \in 1..StoreCount(rob[i].id) :
              rob[i].sqi[j] # SQ_SIZE => rob[i].sqi[j] \in Sq /\ sq[rob[i].sqi[j]].id = rob[i].id
<1>1. PICK at : Adds(at) /\ Placed(at) /\ Known(at)
  BY DEF StoreInv
<1>2. FlowInv /\ SqRing
  BY DEF StoreInv
<1> DEFINE l == Len(sta)
<1>3. sqOcc \in Nat /\ l \in Nat
  BY <1>2, LenProperties, Sizes DEF SqRing
<1>4. /\ \A n \in (retired + 1)..read : \A j \in 1..StoreCount(n) :
           Place(at, n, j) \in 1..(sqOcc + l) /\ SqIndex(Place(at, n, j)) \in Sq
      /\ \A p \in 1..(sqOcc + l) :
           \E n \in (retired + 1)..read : \E j \in 1..StoreCount(n) : Place(at, n, j) = p
  BY <1>1, <1>2, PlaceTyped
<1>5. ASSUME NEW s \in Sq, sq[s].id # 0
      PROVE  \E i \in Rob : \E j \in 1..StoreCount(rob[i].id) :
               Live(i) /\ rob[i].id = sq[s].id /\ rob[i].sqi[j] = s
  <2>1. PICK p \in 1..sqOcc : s = SqIndex(p)
    BY <1>2, <1>5 DEF SqRing
  <2>2. p \in 1..(sqOcc + l) /\ p <= sqOcc
    BY <1>3
  <2>3. PICK n, j : n \in (retired + 1)..read /\ j \in 1..StoreCount(n) /\ Place(at, n, j) = p
    BY <1>4, <2>2
  <2>4. sq[s].id = n
    BY <1>1, <2>1, <2>2, <2>3 DEF Placed
  <2>5. PICK i \in Rob : Live(i) /\ rob[i].id = n
    BY <2>3, Entries
  <2>6. rob[i].sqi[j] = s
    BY <1>1, <2>1, <2>2, <2>3, <2>5 DEF Known
  <2> QED
    BY <2>3, <2>4, <2>5, <2>6
<1>6. ASSUME NEW i \in Rob, Live(i), NEW j \in 1..StoreCount(rob[i].id), rob[i].sqi[j] # SQ_SIZE
      PROVE  rob[i].sqi[j] \in Sq /\ sq[rob[i].sqi[j]].id = rob[i].id
  <2>1. rob[i].id \in (retired + 1)..read
    BY <1>6, Entries
  <2>2. Place(at, rob[i].id, j) <= sqOcc /\ rob[i].sqi[j] = SqIndex(Place(at, rob[i].id, j))
    BY <1>1, <1>6 DEF Known
  <2> QED
    BY <1>1, <1>4, <2>1, <2>2 DEF Placed
<1> QED
  BY <1>5, <1>6

\* How often a ring holds an index.
LEMMA TimesOnce ==
  ASSUME NEW S, NEW s \in Seq(S), IsInjective(s), NEW x
  PROVE  Times(s, x) = One(x \in Range(s))
<1> DEFINE T == {n \in 1..Len(s) : s[n] = x}
<1>1. DOMAIN s = 1..Len(s) /\ Range(s) = {s[n] : n \in 1..Len(s)}
  BY SeqRange
<1>2. CASE x \in Range(s)
  <2>1. PICK n \in 1..Len(s) : s[n] = x
    BY <1>1, <1>2
  <2>2. T = {n}
    BY <1>1, <2>1 DEF IsInjective
  <2> HIDE DEF T
  <2>3. Cardinality(T) = 1
    BY <2>2, FS_Singleton
  <2> QED
    BY <1>2, <2>3 DEF Times, One, T
<1>3. CASE x \notin Range(s)
  <2>1. T = {}
    BY <1>1, <1>3
  <2> HIDE DEF T
  <2>2. Cardinality(T) = 0
    BY <2>1, FS_EmptySet
  <2> QED
    BY <1>3, <2>2 DEF Times, One, T
<1> QED
  BY <1>2, <1>3

\* A step that leaves what the loads and stores are and have been given alone.
LoadKept ==
  /\ UNCHANGED <<trace, retired, read, mem>>
  /\ \A k \in Rob :
       /\ rob'[k].id = rob[k].id /\ rob'[k].lqi = rob[k].lqi /\ rob'[k].sqi = rob[k].sqi
       /\ rob'[k].memDeps = rob[k].memDeps /\ rob'[k].ops = rob[k].ops /\ rob'[k].got = rob[k].got
       /\ Live(k) /\ rob'[k].executed = "COMPLETED" =>
            rob[k].executed = "COMPLETED" \/ (LoadsDue(k) = {} /\ StoresDue(k) = {})
  /\ LqShape'
  /\ \A q \in Lq : /\ lq'[q].id = lq[q].id /\ lq'[q].rob = lq[q].rob
                   /\ lq'[q].slot = lq[q].slot /\ lq'[q].producer = lq[q].producer
  /\ \A s \in Sq : /\ sq'[s].id = sq[s].id /\ sq'[s].rob = sq[s].rob /\ sq'[s].slot = sq[s].slot
                   /\ sq'[s].fetched = "COMPLETED" <=> sq[s].fetched = "COMPLETED"

LEMMA LoadKeptStep ==
  ASSUME StoreInv, Regular(trace), Named, Values, LoadKept
  PROVE  Named' /\ Values' /\ Regular(trace)'
<1>1. /\ trace' = trace /\ retired' = retired /\ read' = read /\ mem' = mem
      /\ \A k \in Rob :
           /\ rob'[k].id = rob[k].id /\ rob'[k].lqi = rob[k].lqi /\ rob'[k].sqi = rob[k].sqi
           /\ rob'[k].memDeps = rob[k].memDeps /\ rob'[k].ops = rob[k].ops /\ rob'[k].got = rob[k].got
      /\ \A q \in Lq : /\ lq'[q].id = lq[q].id /\ lq'[q].rob = lq[q].rob
                       /\ lq'[q].slot = lq[q].slot /\ lq'[q].producer = lq[q].producer
      /\ \A s \in Sq : /\ sq'[s].id = sq[s].id /\ sq'[s].rob = sq[s].rob /\ sq'[s].slot = sq[s].slot
                       /\ sq'[s].fetched = "COMPLETED" <=> sq[s].fetched = "COMPLETED"
  BY DEF LoadKept
<1>2. /\ \A n : InstrAt(n)' = InstrAt(n) /\ LoadCount(n)' = LoadCount(n) /\ StoreCount(n)' = StoreCount(n)
      /\ \A n, a : Stores(n, a)' <=> Stores(n, a)
      /\ \A m, n, a : LastStore(m, n, a)' <=> LastStore(m, n, a)
      /\ Regular(trace)'
  BY <1>1, TraceKept
<1>3. /\ \A p, a : Done(p, a)' <=> Done(p, a)
      /\ \A k \in Rob : Live(k)' <=> Live(k)
  BY <1>1, <1>2 DEF Done, Live
<1>4. \A i \in Rob : Live(i) => \A j \in 1..LoadCount(rob[i].id) :
        /\ rob[i].lqi[j] \in Lq \cup {LQ_SIZE}
        /\ Held(i, j)' <=> Held(i, j)
        /\ LoadAddr(i, j)' = LoadAddr(i, j)
        /\ Held(i, j) => Producer(i, j)' = Producer(i, j)
  <2> SUFFICES ASSUME NEW i \in Rob, Live(i), NEW j \in 1..LoadCount(rob[i].id)
               PROVE  /\ rob[i].lqi[j] \in Lq \cup {LQ_SIZE}
                      /\ Held(i, j)' <=> Held(i, j)
                      /\ LoadAddr(i, j)' = LoadAddr(i, j)
                      /\ Held(i, j) => Producer(i, j)' = Producer(i, j)
    OBVIOUS
  <2>1. rob[i].lqi[j] \in Lq \cup {LQ_SIZE}
    BY DEF Named, EntriesTyped
  <2> QED
    BY <1>1, <1>2, <2>1 DEF Held, LoadAddr, Producer
<1>5. Named'
  <2>1. EntriesTyped'
    BY <1>1, <1>2, <1>3 DEF Named, EntriesTyped
  <2>2. LoadsNamed'
    BY <1>1, <1>2 DEF Named, LoadsNamed
  <2>3. StoresNamed'
    <3> SUFFICES ASSUME NEW i \in Rob, Live(i), NEW j \in 1..StoreCount(rob[i].id), rob[i].sqi[j] # SQ_SIZE
                 PROVE  sq'[rob[i].sqi[j]].rob = i /\ sq'[rob[i].sqi[j]].slot = j
      BY <1>1, <1>2, <1>3 DEF StoresNamed
    <3>1. rob[i].sqi[j] \in Sq
      BY StoreSlots
    <3> QED
      BY <1>1, <3>1 DEF Named, StoresNamed
  <2> QED
    BY <2>1, <2>2, <2>3 DEF Named, LoadKept
<1>6. MemExact'
  BY <1>1, <1>2 DEF Values, MemExact
<1>7. LoadsRight'
  <2> SUFFICES ASSUME NEW i \in Rob, Live(i), NEW j \in 1..LoadCount(rob[i].id), rob[i].lqi[j] # LQ_SIZE
               PROVE  Right(i, j)'
    BY <1>1, <1>2, <1>3 DEF LoadsRight
  <2>1. Right(i, j)
    BY DEF Values, LoadsRight
  <2>2. /\ Held(i, j)' <=> Held(i, j)
        /\ LoadAddr(i, j)' = LoadAddr(i, j)
        /\ Held(i, j) => Producer(i, j)' = Producer(i, j)
    BY <1>4
  <2>3. CASE ~Held(i, j)
    <3>1. Answered(i, j)
      BY <2>1, <2>3 DEF Right
    <3>2. Answered(i, j)'
      BY <1>1, <1>2, <1>3, <2>2, <3>1 DEF Answered
    <3> QED
      BY <2>2, <2>3, <3>2 DEF Right
  <2>4. CASE Held(i, j) /\ Producer(i, j) = 0
    <3>1. FromMemory(i, j)
      BY <2>1, <2>4 DEF Right
    <3>2. FromMemory(i, j)'
      BY <1>1, <1>2, <2>2, <3>1 DEF FromMemory
    <3> QED
      BY <2>2, <2>4, <3>2 DEF Right
  <2>5. CASE Held(i, j) /\ Producer(i, j) # 0
    <3> DEFINE p == Producer(i, j)
    <3>1. Promised(i, j, p)
      BY <2>1, <2>5 DEF Right
    <3>2. Promised(i, j, p)'
      <4>1. p' = p
        BY <2>2, <2>5
      <4> HIDE DEF p
      <4> QED
        BY <1>1, <1>2, <1>3, <2>2, <3>1, <4>1 DEF Promised
    <3> QED
      BY <2>2, <2>5, <3>2 DEF Right
  <2> QED
    BY <2>3, <2>4, <2>5
<1>8. DepsTrue'
  <2> SUFFICES ASSUME NEW k \in Rob, NEW i \in rob[k].memDeps
               PROVE  /\ i \in Rob /\ Live(k)' /\ Live(i)'
                      /\ \E j \in (1..LoadCount(rob[i].id))' : LastStore(rob[k].id, rob[i].id, LoadAddr(i, j))'
    BY <1>1 DEF DepsTrue
  <2>1. /\ i \in Rob /\ Live(k) /\ Live(i)
        /\ \E j \in 1..LoadCount(rob[i].id) : LastStore(rob[k].id, rob[i].id, LoadAddr(i, j))
    BY DEF Values, DepsTrue
  <2> QED
    BY <1>1, <1>2, <1>3, <1>4, <2>1
<1>9. OpsExact'
  <2> SUFFICES ASSUME NEW i \in Rob, Live(i)
               PROVE  /\ rob'[i].ops = Cardinality(LoadsDue(i)') + Cardinality(StoresDue(i)')
                      /\ rob'[i].executed = "COMPLETED" => LoadsDue(i)' = {} /\ StoresDue(i)' = {}
    BY <1>3 DEF OpsExact
  <2>1. LoadsDue(i)' = LoadsDue(i)
    BY <1>1, <1>2, <1>4 DEF LoadsDue
  <2>2. StoresDue(i)' = StoresDue(i)
    <3>1. \A j \in 1..StoreCount(rob[i].id) : rob[i].sqi[j] # SQ_SIZE => rob[i].sqi[j] \in Sq
      BY StoreSlots
    <3> QED
      BY <1>1, <1>2, <3>1 DEF StoresDue
  <2> QED
    BY <1>1, <2>1, <2>2 DEF Values, OpsExact, LoadKept
<1> QED
  BY <1>2, <1>5, <1>6, <1>7, <1>8, <1>9 DEF Values

\* A queue is a function to entries; its entries are those of another.
Shaped(g, S) == g = [x \in S |-> g[x]] /\ \A x \in S : g[x] = [f \in LsqFields |-> g[x][f]]
SameSlots(g, h, S) ==
  \A x \in S : /\ h[x].id = g[x].id /\ h[x].rob = g[x].rob
               /\ h[x].slot = g[x].slot /\ h[x].producer = g[x].producer

\* A mark on an entry of a queue.
LEMMA MarkTranslated ==
  ASSUME NEW S, NEW g, Shaped(g, S), NEW s, NEW v
  PROVE  LET h == [g EXCEPT ![s].translated = v] IN
         Shaped(h, S) /\ SameSlots(g, h, S) /\ \A x \in S : h[x].fetched = g[x].fetched
<1> DEFINE h == [g EXCEPT ![s].translated = v]
<1>1. \A x \in S : h[x] = g[x] \/ h[x] = [g[x] EXCEPT !.translated = v]
  BY DEF Shaped
<1>2. h = [x \in S |-> h[x]]
  BY DEF Shaped
<1> HIDE DEF h
<1>3. \A x \in S : /\ h[x] = [f \in LsqFields |-> h[x][f]]
                   /\ h[x].id = g[x].id /\ h[x].rob = g[x].rob /\ h[x].slot = g[x].slot
                   /\ h[x].producer = g[x].producer /\ h[x].fetched = g[x].fetched
  BY <1>1 DEF LsqFields, Shaped
<1> QED
  BY <1>2, <1>3 DEF h, Shaped, SameSlots

LEMMA MarkFetched ==
  ASSUME NEW S, NEW g, Shaped(g, S), NEW s, NEW v
  PROVE  LET h == [g EXCEPT ![s].fetched = v] IN
         /\ Shaped(h, S) /\ SameSlots(g, h, S)
         /\ \A x \in S : h[x].fetched = IF x = s THEN v ELSE g[x].fetched
<1> DEFINE h == [g EXCEPT ![s].fetched = v]
<1>1. \A x \in S : IF x = s THEN h[x] = [g[x] EXCEPT !.fetched = v] ELSE h[x] = g[x]
  BY DEF Shaped
<1>2. h = [x \in S |-> h[x]]
  BY DEF Shaped
<1> HIDE DEF h
<1>3. \A x \in S : /\ h[x] = [f \in LsqFields |-> h[x][f]]
                   /\ h[x].id = g[x].id /\ h[x].rob = g[x].rob /\ h[x].slot = g[x].slot
                   /\ h[x].producer = g[x].producer
                   /\ h[x].fetched = IF x = s THEN v ELSE g[x].fetched
  BY <1>1 DEF LsqFields, Shaped
<1> QED
  BY <1>2, <1>3 DEF h, Shaped, SameSlots

\* The places of the loads and stores depend on the rings and the requests.
LEMMA PlacesKept ==
  ASSUME Places, LoadKept, UNCHANGED <<rtl0, rtl1, rts0, rts1, dtlb, l1d>>
  PROVE  Places'
<1>1. ToMemory' = ToMemory /\ Performed' = Performed
      /\ {s \in Sq : sq[s].id # 0}' = {s \in Sq : sq[s].id # 0}
  BY DEF LoadKept, ToMemory, Performed
<1>2. LoadsAtDtlb' = LoadsAtDtlb /\ StoresAtDtlb' = StoresAtDtlb
  BY DEF LoadsAtDtlb, StoresAtDtlb
<1> QED
  BY <1>1, <1>2 DEF Places, PlacesTyped, LoadRings, StoreRings

\* The fields of an entry that the loads and stores depend on.
MemFields == {"id", "lqi", "sqi", "memDeps", "ops", "got"}

LEMMA MemFieldsKept ==
  ASSUME StoreInv, LqShape, UNCHANGED <<trace, retired, read, mem, lq, sq>>,
         \A k \in Rob : \A f \in MemFields : rob'[k][f] = rob[k][f],
         \A k \in Rob : Live(k) /\ rob'[k].executed = "COMPLETED" =>
           rob[k].executed = "COMPLETED" \/ (LoadsDue(k) = {} /\ StoresDue(k) = {})
  PROVE  LoadKept
<1>1. \A k \in Rob :
        /\ rob'[k].id = rob[k].id /\ rob'[k].lqi = rob[k].lqi /\ rob'[k].sqi = rob[k].sqi
        /\ rob'[k].memDeps = rob[k].memDeps /\ rob'[k].ops = rob[k].ops /\ rob'[k].got = rob[k].got
  BY DEF MemFields
<1>2. LqShape'
  BY DEF LqShape
<1> QED
  BY <1>1, <1>2 DEF LoadKept

\* What is due can be counted.
LEMMA DueFinite ==
  ASSUME StoreInv, NEW i \in Rob, Live(i)
  PROVE  /\ IsFiniteSet(LoadsDue(i)) /\ IsFiniteSet(StoresDue(i))
         /\ Cardinality(LoadsDue(i)) \in Nat /\ Cardinality(StoresDue(i)) \in Nat
<1> DEFINE c == LoadCount(rob[i].id)
           d == StoreCount(rob[i].id)
           X == LoadsDue(i)
           Y == StoresDue(i)
<1>1. c \in Nat /\ d \in Nat
  BY Entries
<1>2. X \subseteq 1..c /\ Y \subseteq 1..d
  BY DEF LoadsDue, StoresDue
<1> HIDE DEF c, d, X, Y
<1>3. IsFiniteSet(1..c) /\ IsFiniteSet(1..d)
  BY <1>1, FS_Interval
<1>4. IsFiniteSet(X) /\ IsFiniteSet(Y)
  BY <1>2, <1>3, FS_Subset
<1> QED
  BY <1>4, FS_CardinalityType DEF X, Y

\* Memory operations that are none, or all done.
LEMMA NoneDue ==
  ASSUME StoreInv, EntriesTyped, OpsExact, NEW i \in Rob, Live(i),
         IsMemory(i) => rob[i].ops = 0
  PROVE  LoadsDue(i) = {} /\ StoresDue(i) = {}
<1> DEFINE c == LoadCount(rob[i].id)
           d == StoreCount(rob[i].id)
           X == LoadsDue(i)
           Y == StoresDue(i)
<1>1. c \in Nat /\ d \in Nat
  BY Entries
<1>2. X \subseteq 1..c /\ Y \subseteq 1..d
  BY DEF LoadsDue, StoresDue
<1>3. IsFiniteSet(X) /\ IsFiniteSet(Y) /\ Cardinality(X) \in Nat /\ Cardinality(Y) \in Nat
  BY DueFinite
<1>4. IsMemory(i) <=> c + d > 0
  BY DEF IsMemory, Ins, LoadCount, StoreCount
<1>5. rob[i].ops = Cardinality(X) + Cardinality(Y)
  BY DEF OpsExact
<1> HIDE DEF c, d, X, Y
<1>6. CASE IsMemory(i)
  <2>1. Cardinality(X) = 0 /\ Cardinality(Y) = 0
    BY <1>3, <1>5, <1>6
  <2>2. X = {} /\ Y = {}
    BY <1>3, <2>1, FS_EmptySet
  <2> QED
    BY <2>2 DEF X, Y
<1>7. CASE ~IsMemory(i)
  <2>1. c = 0 /\ d = 0
    BY <1>1, <1>4, <1>7
  <2>2. X = {} /\ Y = {}
    BY <1>2, <2>1
  <2> QED
    BY <2>2 DEF X, Y
<1> QED
  BY <1>6, <1>7

\* Fetch, scheduling, execution and completion move no load and no store.
LEMMA LoadsRest ==
  ASSUME StoreInv, Named, Values,
         \/ ResumeFetch \/ ItlbRead \/ L1iFetch \/ Execute \/ UNCHANGED vars
         \/ \E i \in Rob : CompleteInstrFetch(i)
         \/ \E i \in Rob : Schedule(i)
         \/ \E i \in Rob : rob[i].id # 0 /\ CompleteExecution(i)
         \/ \E a \in Addr : L1dWrite(a)
  PROVE  LoadKept /\ UNCHANGED <<rtl0, rtl1, rts0, rts1, dtlb, l1d>>
<1>1. RobShape /\ LqShape
  BY DEF StoreInv, FlowInv, RobInv, Named
<1>2. CASE ResumeFetch \/ UNCHANGED vars \/ \E a \in Addr : L1dWrite(a)
  <2>1. UNCHANGED <<trace, retired, read, mem, lq, sq, rob, rtl0, rtl1, rts0, rts1, dtlb, l1d>>
    BY <1>2 DEF ResumeFetch, L1dWrite, vars, arch, buffer, lsq, rings, port
  <2>2. \A k \in Rob : /\ \A f \in MemFields : rob'[k][f] = rob[k][f]
                       /\ rob'[k].executed = rob[k].executed
    BY <2>1
  <2> QED
    BY <1>1, <2>1, <2>2, MemFieldsKept
<1>3. CASE ItlbRead \/ L1iFetch \/ \E i \in Rob : CompleteInstrFetch(i)
  <2>1. UNCHANGED <<trace, retired, read, mem, lq, sq, rtl0, rtl1, rts0, rts1, dtlb, l1d>>
    BY <1>3 DEF ItlbRead, L1iFetch, CompleteInstrFetch, arch, lsq, rings, port
  <2>2. \E i, v : rob' = [rob EXCEPT ![i].translated = v] \/ rob' = [rob EXCEPT ![i].fetched = v]
    BY <1>3 DEF ItlbRead, L1iFetch, CompleteInstrFetch
  <2>3. PICK i, v : rob' = [rob EXCEPT ![i].translated = v] \/ rob' = [rob EXCEPT ![i].fetched = v]
    BY <2>2
  <2>4. \A k \in Rob : \/ rob'[k] = rob[k] \/ rob'[k] = [rob[k] EXCEPT !.translated = v]
                       \/ rob'[k] = [rob[k] EXCEPT !.fetched = v]
    BY <1>1, <2>3 DEF RobShape
  <2>5. ASSUME NEW k \in Rob
        PROVE  /\ rob'[k].executed = rob[k].executed
               /\ \A f \in MemFields : rob'[k][f] = rob[k][f]
    <3>1. CASE rob'[k] = rob[k]
      BY <3>1
    <3>2. CASE rob'[k] = [rob[k] EXCEPT !.translated = v]
      BY <1>1, <3>2 DEF RobShape, Fields, MemFields
    <3>3. CASE rob'[k] = [rob[k] EXCEPT !.fetched = v]
      BY <1>1, <3>3 DEF RobShape, Fields, MemFields
    <3> QED
      BY <2>4, <3>1, <3>2, <3>3
  <2> QED
    BY <1>1, <2>1, <2>5, MemFieldsKept
<1>4. CASE Execute
  <2>1. UNCHANGED <<trace, retired, read, mem, lq, sq, rtl0, rtl1, rts0, rts1, dtlb, l1d>>
    BY <1>4 DEF Execute, arch, lsq, port
  <2>2. \E i : rob' = [rob EXCEPT ![i].executed = "INFLIGHT"]
    BY <1>4 DEF Execute
  <2>3. PICK i : rob' = [rob EXCEPT ![i].executed = "INFLIGHT"]
    BY <2>2
  <2>4. \A k \in Rob : rob'[k] = rob[k] \/ rob'[k] = [rob[k] EXCEPT !.executed = "INFLIGHT"]
    BY <1>1, <2>3 DEF RobShape
  <2>5. ASSUME NEW k \in Rob
        PROVE  /\ rob'[k].executed = rob[k].executed \/ rob'[k].executed = "INFLIGHT"
               /\ \A f \in MemFields : rob'[k][f] = rob[k][f]
    <3>1. CASE rob'[k] = rob[k]
      BY <3>1
    <3>2. CASE rob'[k] = [rob[k] EXCEPT !.executed = "INFLIGHT"]
      BY <1>1, <3>2 DEF RobShape, Fields, MemFields
    <3> QED
      BY <2>4, <3>1, <3>2
  <2> QED
    BY <1>1, <2>1, <2>5, MemFieldsKept
<1>5. ASSUME NEW i \in Rob, Schedule(i)
      PROVE  LoadKept /\ UNCHANGED <<rtl0, rtl1, rts0, rts1, dtlb, l1d>>
  <2>1. UNCHANGED <<trace, retired, read, mem, lq, sq, rtl0, rtl1, rts0, rts1, dtlb, l1d>>
    BY <1>5 DEF Schedule, arch, lsq, port
  <2>2. \A k \in Rob : \E a, b, c : \/ rob'[k] = [rob[k] EXCEPT !.ready = a, !.waits = b, !.scheduled = c]
                                    \/ rob'[k] = [rob[k] EXCEPT !.regDeps = a]
    BY <1>5, Zenon DEF Schedule
  <2>3. \A k \in Rob : /\ rob'[k].executed = rob[k].executed
                       /\ \A f \in MemFields : rob'[k][f] = rob[k][f]
    <3> SUFFICES ASSUME NEW k \in Rob
                 PROVE  /\ rob'[k].executed = rob[k].executed
                        /\ \A f \in MemFields : rob'[k][f] = rob[k][f]
      OBVIOUS
    <3>1. PICK a, b, c : \/ rob'[k] = [rob[k] EXCEPT !.ready = a, !.waits = b, !.scheduled = c]
                         \/ rob'[k] = [rob[k] EXCEPT !.regDeps = a]
      BY <2>2
    <3> QED
      BY <1>1, <3>1, ZenonT(40) DEF RobShape, Fields, MemFields
  <2> QED
    BY <1>1, <2>1, <2>3, MemFieldsKept
<1>6. ASSUME NEW i \in Rob, rob[i].id # 0, CompleteExecution(i)
      PROVE  LoadKept /\ UNCHANGED <<rtl0, rtl1, rts0, rts1, dtlb, l1d>>
  <2>1. UNCHANGED <<trace, retired, read, mem, lq, sq, rtl0, rtl1, rts0, rts1, dtlb, l1d>>
    BY <1>6 DEF CompleteExecution, arch, lsq, port
  <2>2. rob'[i] = [rob[i] EXCEPT !.executed = "COMPLETED"] /\ (IsMemory(i) => rob[i].ops = 0)
    BY <1>6 DEF CompleteExecution
  <2>3. \A k \in Rob \ {i} : \E a, b : rob'[k] = [rob[k] EXCEPT !.waits = a, !.ready = b]
    BY <1>6, Zenon DEF CompleteExecution
  <2>4. ASSUME NEW k \in Rob
        PROVE  /\ k # i => rob'[k].executed = rob[k].executed
               /\ \A f \in MemFields : rob'[k][f] = rob[k][f]
    <3>1. CASE k = i
      BY <1>1, <2>2, <3>1 DEF RobShape, Fields, MemFields
    <3>2. CASE k # i
      <4>1. PICK a, b : rob'[k] = [rob[k] EXCEPT !.waits = a, !.ready = b]
        BY <2>3, <3>2
      <4> QED
        BY <1>1, <4>1 DEF RobShape, Fields, MemFields
    <3> QED
      BY <3>1, <3>2
  <2>5. LoadsDue(i) = {} /\ StoresDue(i) = {}
    BY <1>6, <2>2, NoneDue DEF Named, Values, Live
  <2> QED
    BY <1>1, <2>1, <2>4, <2>5, MemFieldsKept
<1> QED
  BY <1>2, <1>3, <1>4, <1>5, <1>6

\* One element moves from part to part, enters or leaves.
LEMMA PartsMove ==
  ASSUME NEW A, NEW B, NEW C, NEW D, NEW S, Parted(A, B, C, D, S), NEW x
  PROVE  /\ x \in A => Parted(A \ {x}, B \cup {x}, C, D, S)
         /\ x \in B => Parted(A, B \ {x}, C \cup {x}, D, S)
         /\ x \in C => Parted(A, B, C \ {x}, D \cup {x}, S)
         /\ x \in D => Parted(A, B, C, D \ {x}, S \ {x})
         /\ x \notin S => Parted(A \cup {x}, B, C, D, S \cup {x})
BY DEF Parted

\* The requests and the addresses on their way: translation and execution of loads,
\* translation of stores.
LEMMA LoadsMove ==
  ASSUME StoreInv, Named, Places, DtlbLoad \/ ExecuteLoad \/ \E q \in Lq : LoadTranslated(q)
  PROVE  LoadKept /\ Places'
<1>1. LqShape /\ PlacesTyped /\ LoadRings /\ StoreRings
  BY DEF Named, Places
<1>2. /\ UNCHANGED <<trace, retired, read, mem, rob, sq, rts0, rts1>>
      /\ \E x, v : lq' = [lq EXCEPT ![x].translated = v] \/ lq' = [lq EXCEPT ![x].fetched = v]
  BY DEF DtlbLoad, ExecuteLoad, LoadTranslated, arch, buffer
<1>3. LoadKept
  <2>1. PICK x, v : lq' = [lq EXCEPT ![x].translated = v] \/ lq' = [lq EXCEPT ![x].fetched = v]
    BY <1>2
  <2>4. Shaped(lq, Lq)
    BY <1>1 DEF LqShape, Shaped
  <2>5. Shaped(lq', Lq) /\ SameSlots(lq, lq', Lq)
    BY <2>1, <2>4, MarkTranslated, MarkFetched
  <2>2. LqShape' /\ \A q \in Lq : /\ lq'[q].id = lq[q].id /\ lq'[q].rob = lq[q].rob
                                  /\ lq'[q].slot = lq[q].slot /\ lq'[q].producer = lq[q].producer
    BY <2>5 DEF LqShape, Shaped, SameSlots
  <2>3. \A k \in Rob : rob'[k] = rob[k]
    BY <1>2
  <2> QED
    BY <1>2, <2>2, <2>3 DEF LoadKept
<1>4. /\ ToMemory' = ToMemory /\ Performed' = Performed
      /\ {s \in Sq : sq[s].id # 0}' = {s \in Sq : sq[s].id # 0}
  BY <1>3 DEF LoadKept, ToMemory, Performed
<1>5. /\ rtl0 \in Seq(Lq) /\ rtl1 \in Seq(Lq) /\ IsInjective(rtl0) /\ IsInjective(rtl1)
      /\ l1d \subseteq Lq /\ dtlb \subseteq ({"load"} \X Lq) \cup ({"store"} \X Sq)
      /\ Parted(Range(rtl0), LoadsAtDtlb, Range(rtl1), l1d, ToMemory)
  BY <1>1 DEF PlacesTyped, LoadRings
<1>6. (PlacesTyped /\ LoadRings)' /\ StoresAtDtlb' = StoresAtDtlb
  <2>1. CASE DtlbLoad
    <3> DEFINE x == Head(rtl0)
    <3>1. /\ rtl0 # <<>> /\ rtl0' = Tail(rtl0) /\ dtlb' = dtlb \cup {<<"load", x>>}
          /\ rtl1' = rtl1 /\ l1d' = l1d
      BY <2>1 DEF DtlbLoad
    <3>2. /\ x \in Lq /\ x \in Range(rtl0) /\ rtl0' \in Seq(Lq) /\ IsInjective(rtl0')
          /\ Range(rtl0') = Range(rtl0) \ {x}
      BY <1>5, <3>1, RingTail
    <3> HIDE DEF x
    <3>3. LoadsAtDtlb' = LoadsAtDtlb \cup {x} /\ StoresAtDtlb' = StoresAtDtlb
          /\ dtlb' \subseteq ({"load"} \X Lq) \cup ({"store"} \X Sq)
      BY <1>5, <3>1, <3>2 DEF LoadsAtDtlb, StoresAtDtlb
    <3>4. Parted(Range(rtl0) \ {x}, LoadsAtDtlb \cup {x}, Range(rtl1), l1d, ToMemory)
      BY <1>5, <3>2, PartsMove
    <3> QED
      BY <1>1, <1>2, <1>4, <1>5, <3>1, <3>2, <3>3, <3>4 DEF PlacesTyped, LoadRings
  <2>2. CASE ExecuteLoad
    <3> DEFINE x == Head(rtl1)
    <3>1. /\ rtl1 # <<>> /\ rtl1' = Tail(rtl1) /\ l1d' = l1d \cup {x}
          /\ rtl0' = rtl0 /\ dtlb' = dtlb
      BY <2>2 DEF ExecuteLoad
    <3>2. /\ x \in Lq /\ x \in Range(rtl1) /\ rtl1' \in Seq(Lq) /\ IsInjective(rtl1')
          /\ Range(rtl1') = Range(rtl1) \ {x}
      BY <1>5, <3>1, RingTail
    <3> HIDE DEF x
    <3>3. LoadsAtDtlb' = LoadsAtDtlb /\ StoresAtDtlb' = StoresAtDtlb /\ l1d' \subseteq Lq
      BY <1>5, <3>1, <3>2 DEF LoadsAtDtlb, StoresAtDtlb
    <3>4. Parted(Range(rtl0), LoadsAtDtlb, Range(rtl1) \ {x}, l1d \cup {x}, ToMemory)
      BY <1>5, <3>2, PartsMove
    <3> QED
      BY <1>1, <1>2, <1>4, <1>5, <3>1, <3>2, <3>3, <3>4 DEF PlacesTyped, LoadRings
  <2>3. ASSUME NEW x \in Lq, LoadTranslated(x)
        PROVE  (PlacesTyped /\ LoadRings)' /\ StoresAtDtlb' = StoresAtDtlb
    <3>1. /\ <<"load", x>> \in dtlb /\ dtlb' = dtlb \ {<<"load", x>>} /\ rtl1' = Append(rtl1, x)
          /\ rtl0' = rtl0 /\ l1d' = l1d
      BY <2>3 DEF LoadTranslated
    <3>2. x \in LoadsAtDtlb /\ x \notin Range(rtl1)
      BY <1>5, <3>1 DEF LoadsAtDtlb, Parted
    <3>3. rtl1' \in Seq(Lq) /\ IsInjective(rtl1') /\ Range(rtl1') = Range(rtl1) \cup {x}
      BY <1>5, <3>1, <3>2, RingAppend
    <3>4. LoadsAtDtlb' = LoadsAtDtlb \ {x} /\ StoresAtDtlb' = StoresAtDtlb
          /\ dtlb' \subseteq ({"load"} \X Lq) \cup ({"store"} \X Sq)
      BY <1>5, <3>1 DEF LoadsAtDtlb, StoresAtDtlb
    <3>5. Parted(Range(rtl0), LoadsAtDtlb \ {x}, Range(rtl1) \cup {x}, l1d, ToMemory)
      BY <1>5, <3>2, PartsMove
    <3> QED
      BY <1>1, <1>2, <1>4, <1>5, <3>1, <3>3, <3>4, <3>5 DEF PlacesTyped, LoadRings
  <2> QED
    BY <2>1, <2>2, <2>3
<1>7. StoreRings'
  BY <1>1, <1>2, <1>4, <1>6 DEF StoreRings
<1> QED
  BY <1>3, <1>6, <1>7 DEF Places

LEMMA StoresMove ==
  ASSUME StoreInv, Named, Places, DtlbStore \/ \E s \in Sq : StoreTranslated(s)
  PROVE  LoadKept /\ Places'
<1>1. LqShape /\ SqShape /\ PlacesTyped /\ LoadRings /\ StoreRings
  BY DEF Named, Places, StoreInv
<1>2. /\ UNCHANGED <<trace, retired, read, mem, rob, lq, rtl0, rtl1, l1d>>
      /\ \E x, v : sq' = [sq EXCEPT ![x].translated = v]
  BY DEF DtlbStore, StoreTranslated, arch, buffer
<1>3. LoadKept
  <2>1. PICK x, v : sq' = [sq EXCEPT ![x].translated = v]
    BY <1>2
  <2>4. Shaped(sq, Sq)
    BY <1>1 DEF SqShape, Shaped
  <2>5. SameSlots(sq, sq', Sq) /\ \A s \in Sq : sq'[s].fetched = sq[s].fetched
    <3>1. LET h == [sq EXCEPT ![x].translated = v] IN
          Shaped(h, Sq) /\ SameSlots(sq, h, Sq) /\ \A s \in Sq : h[s].fetched = sq[s].fetched
      BY <2>4, MarkTranslated
    <3> QED
      BY <2>1, <3>1
  <2>2. \A s \in Sq : /\ sq'[s].id = sq[s].id /\ sq'[s].rob = sq[s].rob
                      /\ sq'[s].slot = sq[s].slot /\ sq'[s].fetched = sq[s].fetched
    BY <2>5 DEF SameSlots
  <2>3. (\A k \in Rob : rob'[k] = rob[k]) /\ (\A q \in Lq : lq'[q] = lq[q]) /\ LqShape'
    BY <1>1, <1>2 DEF LqShape
  <2> QED
    BY <1>2, <2>2, <2>3 DEF LoadKept
<1>4. /\ ToMemory' = ToMemory /\ Performed' = Performed
      /\ {s \in Sq : sq[s].id # 0}' = {s \in Sq : sq[s].id # 0}
  BY <1>3 DEF LoadKept, ToMemory, Performed
<1> DEFINE All == {s \in Sq : sq[s].id # 0}
<1>5. /\ rts0 \in Seq(Sq) /\ rts1 \in Seq(Sq) /\ IsInjective(rts0) /\ IsInjective(rts1)
      /\ dtlb \subseteq ({"load"} \X Lq) \cup ({"store"} \X Sq)
      /\ Parted(Range(rts0), StoresAtDtlb, Range(rts1), Performed, All)
  BY <1>1 DEF PlacesTyped, StoreRings
<1>6. All' = All
  BY <1>4
<1> HIDE DEF All
<1>7. (PlacesTyped /\ StoreRings)' /\ LoadsAtDtlb' = LoadsAtDtlb
  <2>1. CASE DtlbStore
    <3> DEFINE x == Head(rts0)
    <3>1. /\ rts0 # <<>> /\ rts0' = Tail(rts0) /\ dtlb' = dtlb \cup {<<"store", x>>} /\ rts1' = rts1
      BY <2>1 DEF DtlbStore
    <3>2. /\ x \in Sq /\ x \in Range(rts0) /\ rts0' \in Seq(Sq) /\ IsInjective(rts0')
          /\ Range(rts0') = Range(rts0) \ {x}
      BY <1>5, <3>1, RingTail
    <3> HIDE DEF x
    <3>3. StoresAtDtlb' = StoresAtDtlb \cup {x} /\ LoadsAtDtlb' = LoadsAtDtlb
          /\ dtlb' \subseteq ({"load"} \X Lq) \cup ({"store"} \X Sq)
      BY <1>5, <3>1, <3>2 DEF LoadsAtDtlb, StoresAtDtlb
    <3>4. Parted(Range(rts0) \ {x}, StoresAtDtlb \cup {x}, Range(rts1), Performed, All)
      BY <1>5, <3>2, PartsMove
    <3> QED
      BY <1>1, <1>2, <1>4, <1>5, <1>6, <3>1, <3>2, <3>3, <3>4 DEF PlacesTyped, StoreRings, All
  <2>2. ASSUME NEW x \in Sq, StoreTranslated(x)
        PROVE  (PlacesTyped /\ StoreRings)' /\ LoadsAtDtlb' = LoadsAtDtlb
    <3>1. /\ <<"store", x>> \in dtlb /\ dtlb' = dtlb \ {<<"store", x>>} /\ rts1' = Append(rts1, x)
          /\ rts0' = rts0
      BY <2>2 DEF StoreTranslated
    <3>2. x \in StoresAtDtlb /\ x \notin Range(rts1)
      BY <1>5, <3>1 DEF StoresAtDtlb, Parted
    <3>3. rts1' \in Seq(Sq) /\ IsInjective(rts1') /\ Range(rts1') = Range(rts1) \cup {x}
      BY <1>5, <3>1, <3>2, RingAppend
    <3>4. StoresAtDtlb' = StoresAtDtlb \ {x} /\ LoadsAtDtlb' = LoadsAtDtlb
          /\ dtlb' \subseteq ({"load"} \X Lq) \cup ({"store"} \X Sq)
      BY <1>5, <3>1 DEF LoadsAtDtlb, StoresAtDtlb
    <3>5. Parted(Range(rts0), StoresAtDtlb \ {x}, Range(rts1) \cup {x}, Performed, All)
      BY <1>5, <3>2, PartsMove
    <3> QED
      BY <1>1, <1>2, <1>4, <1>5, <1>6, <3>1, <3>3, <3>4, <3>5 DEF PlacesTyped, StoreRings, All
  <2> QED
    BY <2>1, <2>2
<1>8. LoadRings'
  BY <1>1, <1>2, <1>4, <1>7 DEF LoadRings
<1> QED
  BY <1>3, <1>7, <1>8 DEF Places

LEMMA MemKept ==
  ASSUME MemExact, UNCHANGED <<trace, retired, read, mem>>
  PROVE  MemExact'
<1>1. \A m, n, a : LastStore(m, n, a)' <=> LastStore(m, n, a)
  BY TraceKept
<1> QED
  BY <1>1 DEF MemExact

LEMMA Later ==
  ASSUME NEW l \in Nat, NEW m \in Nat, l <= m, NEW n \in Nat, NEW x \in (m + 1)..(n - 1)
  PROVE  x \in (l + 1)..(n - 1)
OBVIOUS

\* No store that has executed and not retired is forgotten.
DoneKept == \A x, b : x > retired' /\ Done(x, b) => Done(x, b)'

\* A load stays right when nothing that it waits for or was given is lost.
LEMMA RightKept ==
  ASSUME trace' = trace, retired \in Nat, retired' \in Nat, retired <= retired',
         NEW i \in Rob, NEW j, rob'[i].id = rob[i].id, rob[i].id \in Nat,
         Held(i, j)' <=> Held(i, j),
         ~Held(i, j) => rob'[i].got[j] = rob[i].got[j] /\ rob[i].got[j] \in Nat,
         NEW p, NEW a, p = Producer(i, j), a = LoadAddr(i, j),
         Held(i, j) => Producer(i, j)' = p,
         Held(i, j) /\ p # 0 =>
           /\ p > retired' /\ (Done(p, a)' => Done(p, a))
           /\ \A k \in Rob : rob'[k].id = p =>
                rob[k].id = p /\ (i \in rob[k].memDeps => i \in rob'[k].memDeps),
         DoneKept, Right(i, j)
  PROVE  Right(i, j)'
<1>1. /\ \A n : InstrAt(n)' = InstrAt(n)
      /\ \A n, b : Stores(n, b)' <=> Stores(n, b)
      /\ \A m, n, b : LastStore(m, n, b)' <=> LastStore(m, n, b)
  BY TraceKept
<1>2. LoadAddr(i, j)' = a
  BY <1>1 DEF LoadAddr
<1>3. CASE ~Held(i, j)
  <2>1. Answered(i, j)
    BY <1>3 DEF Right
  <2>2. Answered(i, j)'
    BY <1>1, <1>2, <1>3, <2>1 DEF Answered, DoneKept
  <2> QED
    BY <1>3, <2>2 DEF Right
<1>4. CASE Held(i, j) /\ p = 0
  <2>1. FromMemory(i, j)
    BY <1>4 DEF Right
  <2>2. FromMemory(i, j)'
    <3>1. ASSUME NEW x \in (retired' + 1)..(rob[i].id - 1) PROVE ~Stores(x, a)
      <4>1. x \in (retired + 1)..(rob[i].id - 1)
        BY Later, Zenon
      <4> QED
        BY <2>1, <4>1 DEF FromMemory
    <3> QED
      BY <1>1, <1>2, <3>1 DEF FromMemory
  <2> QED
    BY <1>4, <2>2 DEF Right
<1>5. CASE Held(i, j) /\ p # 0
  <2>1. /\ p > retired /\ LastStore(p, rob[i].id, a) /\ ~Done(p, a)
        /\ \A k \in Rob : rob[k].id = p => i \in rob[k].memDeps
    BY <1>5 DEF Right, Promised
  <2>2. LastStore(p, rob[i].id, a)'
    BY <1>1, <2>1
  <2>3. /\ p > retired' /\ (Done(p, a)' => Done(p, a))
        /\ \A k \in Rob : rob'[k].id = p =>
             rob[k].id = p /\ (i \in rob[k].memDeps => i \in rob'[k].memDeps)
    BY <1>5
  <2>4. Promised(i, j, p)'
    BY <1>1, <1>2, <2>1, <2>2, <2>3 DEF Promised
  <2> QED
    BY <1>5, <2>4 DEF Right
<1> QED
  BY <1>3, <1>4, <1>5

\* complete_data_fetch of a load.
LEMMA LoadServed ==
  ASSUME LoadInv, NEW q \in Lq, LoadReturned(q)
  PROVE  Named' /\ Places' /\ Values' /\ Regular(trace)'
<1> PICK i, j : i = lq[q].rob /\ j = lq[q].slot
  OBVIOUS
<1> PICK n, a : n = rob[i].id /\ a = LoadAddr(i, j)
  OBVIOUS
<1> PICK m, o : m = mem[a] /\ o = rob[i].ops - 1
  OBVIOUS
<1> DEFINE g == [rob[i].got EXCEPT ![j] = m]
<1>1. /\ RobShape /\ StoreInv /\ LqShape /\ EntriesTyped /\ LoadsNamed /\ StoresNamed /\ Regular(trace)
      /\ PlacesTyped /\ LoadRings /\ StoreRings /\ MemExact /\ LoadsRight /\ DepsTrue /\ OpsExact
  BY DEF LoadInv, StoreInv, FlowInv, RobInv, Named, Places, Values
<1>2. q \in ToMemory /\ lq[q].id # 0 /\ lq[q].producer = 0
  <2>1. q \in l1d
    BY DEF LoadReturned
  <2> QED
    BY <1>1, <2>1 DEF LoadRings, Parted, ToMemory
<1>3. /\ i \in Rob /\ Live(i) /\ n = lq[q].id /\ j \in 1..LoadCount(n) /\ rob[i].lqi[j] = q
      /\ n \in Nat \ {0} /\ LoadCount(n) \in 0..4 /\ n > retired /\ retired \in Nat
      /\ LQ_SIZE \notin Lq
  BY <1>1, <1>2, Entries DEF LoadsNamed, Live
<1>4. Held(i, j) /\ Producer(i, j) = 0 /\ FromMemory(i, j)
  <2>1. Held(i, j) /\ Producer(i, j) = 0 /\ rob[i].lqi[j] # LQ_SIZE
    BY <1>2, <1>3 DEF Held, Producer
  <2>2. Right(i, j)
    BY <1>1, <1>3, <2>1 DEF LoadsRight
  <2> QED
    BY <2>1, <2>2 DEF Right
<1>5. a \in Addr
  <2>1. InstrAt(n).ld \in Seq(Addr) /\ Len(InstrAt(n).ld) = LoadCount(n)
    BY <1>1, <1>3, LoadCounts, Entries DEF LoadCount
  <2> QED
    BY <1>3, <2>1, ElementOfSeq DEF LoadAddr
<1>6. m \in 0..retired /\ m \in Nat /\ LastStore(m, n, a)
  <2>1. LastStore(m, retired + 1, a)
    BY <1>1, <1>5 DEF MemExact
  <2>2. \A x \in (retired + 1)..(n - 1) : ~Stores(x, a)
    BY <1>4 DEF FromMemory
  <2>3. m \in 0..retired /\ m \in Nat /\ (m # 0 => Stores(m, a)) /\ \A x \in (m + 1)..retired : ~Stores(x, a)
    BY <1>3, <2>1 DEF LastStore
  <2>4. m \in 0..(n - 1)
    BY <1>3, <2>3
  <2>5. ASSUME NEW x \in (m + 1)..(n - 1) PROVE ~Stores(x, a)
    <3>1. x \in (m + 1)..retired \/ x \in (retired + 1)..(n - 1)
      BY <1>3, <2>3
    <3> QED
      BY <2>2, <2>3, <3>1
  <2> QED
    BY <2>3, <2>4, <2>5 DEF LastStore
<1>7. /\ UNCHANGED <<trace, retired, read, mem, sq, rtl0, rtl1, rts0, rts1, dtlb>>
      /\ l1d' = l1d \ {q} /\ q \in l1d
      /\ rob' = [rob EXCEPT ![i] = [rob[i] EXCEPT !.ops = o, !.got = g]]
      /\ lq' = [lq EXCEPT ![q] = FreeLsq]
  <2>1. LdAddr(q) = a
    BY DEF LdAddr, Ins, LoadAddr
  <2>2. rob' = [rob EXCEPT ![i].ops = @ - 1, ![i].got[j] = m]
    BY <2>1 DEF LoadReturned
  <2>3. rob' = [rob EXCEPT ![i] = [rob[i] EXCEPT !.ops = o, !.got = g]]
    BY <2>2
  <2> QED
    BY <2>3 DEF LoadReturned, arch, rings
<1> HIDE DEF g
<1>8. /\ rob'[i] = [rob[i] EXCEPT !.ops = o, !.got = g]
      /\ \A k \in Rob : k # i => rob'[k] = rob[k]
  BY <1>1, <1>3, <1>7 DEF RobShape
<1>9. rob'[i].ops = o /\ rob'[i].got = g
  BY <1>1, <1>3, <1>8 DEF RobShape, Fields
<1>10. \A k \in Rob :
         /\ rob'[k].id = rob[k].id /\ rob'[k].lqi = rob[k].lqi /\ rob'[k].sqi = rob[k].sqi
         /\ rob'[k].memDeps = rob[k].memDeps /\ rob'[k].executed = rob[k].executed
  <2>1. /\ rob'[i].id = rob[i].id /\ rob'[i].lqi = rob[i].lqi /\ rob'[i].sqi = rob[i].sqi
        /\ rob'[i].memDeps = rob[i].memDeps /\ rob'[i].executed = rob[i].executed
    BY <1>1, <1>3, <1>8 DEF RobShape, Fields
  <2> QED
    BY <1>8, <2>1
<1>11. FreeLsq.id = 0 /\ FreeLsq = [f \in LsqFields |-> FreeLsq[f]]
  BY DEF FreeLsq, LsqFields
<1>12. lq'[q].id = 0 /\ \A y \in Lq : y # q => lq'[y] = lq[y]
  BY <1>1, <1>7, <1>11 DEF LqShape
<1>13. /\ \A x : InstrAt(x)' = InstrAt(x) /\ LoadCount(x)' = LoadCount(x) /\ StoreCount(x)' = StoreCount(x)
       /\ \A l, x, b : LastStore(l, x, b)' <=> LastStore(l, x, b)
       /\ Regular(trace)'
  BY <1>1, <1>7, TraceKept
<1>14. /\ \A k \in Rob : Live(k)' <=> Live(k)
       /\ \A p, b : Done(p, b)' <=> Done(p, b)
  BY <1>7, <1>10, <1>13 DEF Live, Done
<1>15. ASSUME NEW k \in Rob, Live(k), NEW x \in 1..LoadCount(rob[k].id)
       PROVE  /\ rob[k].lqi[x] \in Lq \cup {LQ_SIZE}
              /\ LoadAddr(k, x)' = LoadAddr(k, x)
              /\ Held(k, x)' <=> Held(k, x) /\ ~(k = i /\ x = j)
              /\ Held(k, x)' => Producer(k, x)' = Producer(k, x)
  <2>1. rob[k].lqi[x] \in Lq \cup {LQ_SIZE}
    BY <1>1, <1>15 DEF EntriesTyped
  <2>2. LoadAddr(k, x)' = LoadAddr(k, x)
    BY <1>10, <1>13 DEF LoadAddr
  <2>3. CASE rob[k].lqi[x] = q
    <3>1. ~Held(k, x)'
      BY <1>10, <1>12, <1>15, <2>3 DEF Held, Live
    <3>2. Held(k, x) => k = i /\ x = j
      <4> SUFFICES ASSUME Held(k, x) PROVE k = i /\ x = j
        OBVIOUS
      <4>1. lq[q].id = rob[k].id /\ lq[q].slot = x
        BY <2>3 DEF Held
      <4>2. \A y, z \in Rob : Live(y) /\ rob[y].id = rob[z].id => y = z
        BY <1>1, Entries
      <4> QED
        BY <1>3, <1>15, <4>1, <4>2
    <3> QED
      BY <2>1, <2>2, <3>1, <3>2
  <2>4. CASE rob[k].lqi[x] # q
    <3>1. ~(k = i /\ x = j)
      BY <1>3, <2>4
    <3> QED
      BY <1>10, <1>12, <2>1, <2>2, <2>4, <3>1 DEF Held, Producer
  <2> QED
    BY <2>3, <2>4
<1>16. Named'
  <2>1. LqShape'
    <3>1. lq' = [y \in Lq |-> lq'[y]]
      BY <1>1, <1>7 DEF LqShape
    <3>2. \A y \in Lq : lq'[y] = FreeLsq \/ lq'[y] = lq[y]
      BY <1>1, <1>7 DEF LqShape
    <3>3. ASSUME NEW y \in Lq PROVE lq'[y] = [f \in LsqFields |-> lq'[y][f]]
      BY <1>1, <1>11, <3>2, Zenon DEF LqShape
    <3> QED
      BY <3>1, <3>3 DEF LqShape
  <2>2. EntriesTyped'
    <3>1. rob[i].got \in [1..LoadCount(n) -> Nat]
      BY <1>1, <1>3 DEF EntriesTyped
    <3>2. g \in [1..LoadCount(n) -> Nat]
      BY <1>3, <1>6, <3>1 DEF g
    <3>3. \A k \in Rob : k # i => rob'[k].got = rob[k].got
      BY <1>8
    <3> QED
      BY <1>1, <1>9, <1>10, <1>13, <1>14, <3>2, <3>3 DEF EntriesTyped
  <2>3. LoadsNamed'
    <3> SUFFICES ASSUME NEW y \in Lq, lq'[y].id # 0
                 PROVE  /\ lq'[y].rob \in Rob /\ rob'[lq'[y].rob].id = lq'[y].id
                        /\ lq'[y].slot \in 1..LoadCount(lq'[y].id)
                        /\ rob'[lq'[y].rob].lqi[lq'[y].slot] = y
      BY <1>13 DEF LoadsNamed
    <3>1. lq'[y] = lq[y]
      BY <1>12
    <3> QED
      BY <1>1, <1>10, <3>1 DEF LoadsNamed
  <2>4. StoresNamed'
    <3>1. StoresNamed /\ sq' = sq /\ \A k \in Rob : rob'[k].id = rob[k].id /\ rob'[k].sqi = rob[k].sqi
      BY <1>1, <1>7, <1>10
    <3> SUFFICES ASSUME NEW k \in Rob, Live(k), NEW x \in 1..StoreCount(rob[k].id),
                        rob[k].sqi[x] # SQ_SIZE
                 PROVE  sq[rob[k].sqi[x]].rob = k /\ sq[rob[k].sqi[x]].slot = x
      BY <1>13, <1>14, <3>1 DEF StoresNamed
    <3> QED
      BY <3>1 DEF StoresNamed
  <2> QED
    BY <2>1, <2>2, <2>3, <2>4 DEF Named
<1>17. Places'
  <2>1. ToMemory' = ToMemory \ {q}
    BY <1>12 DEF ToMemory
  <2>2. /\ LoadsAtDtlb' = LoadsAtDtlb /\ StoresAtDtlb' = StoresAtDtlb /\ Performed' = Performed
        /\ {s \in Sq : sq[s].id # 0}' = {s \in Sq : sq[s].id # 0}
    BY <1>7 DEF LoadsAtDtlb, StoresAtDtlb, Performed
  <2>3. Parted(Range(rtl0), LoadsAtDtlb, Range(rtl1), l1d \ {q}, ToMemory \ {q})
    BY <1>1, <1>7, PartsMove DEF LoadRings
  <2> QED
    BY <1>1, <1>7, <2>1, <2>2, <2>3 DEF Places, PlacesTyped, LoadRings, StoreRings
<1>18. MemExact'
  BY <1>1, <1>7, MemKept
<1>19. LoadsRight'
  <2> SUFFICES ASSUME NEW k \in Rob, Live(k), NEW x \in 1..LoadCount(rob[k].id), rob[k].lqi[x] # LQ_SIZE
               PROVE  Right(k, x)'
    BY <1>10, <1>13, <1>14 DEF LoadsRight
  <2>1. Right(k, x)
    BY <1>1 DEF LoadsRight
  <2>2. CASE k = i /\ x = j
    <3>1. ~Held(k, x)'
      BY <1>15, <2>2
    <3>2. rob'[i].got[j] = m
      <4>1. rob[i].got \in [1..LoadCount(n) -> Nat]
        BY <1>1, <1>3 DEF EntriesTyped
      <4> QED
        BY <1>3, <1>9, <4>1 DEF g
    <3>3. Answered(i, j)'
      <4>1. LoadAddr(i, j)' = a
        BY <1>15, <2>2
      <4>2. ~(m > retired')
        BY <1>3, <1>6, <1>7
      <4>3. LastStore(m, n, a)' /\ rob'[i].id = n
        BY <1>3, <1>6, <1>10, <1>13
      <4> QED
        BY <3>2, <4>1, <4>2, <4>3 DEF Answered
    <3> QED
      BY <2>2, <3>1, <3>3 DEF Right
  <2>3. CASE ~(k = i /\ x = j)
    <3>1. rob'[k].got[x] = rob[k].got[x] /\ rob[k].got[x] \in Nat
      <4>1. rob[k].got \in [1..LoadCount(rob[k].id) -> Nat]
        BY <1>1 DEF EntriesTyped
      <4>2. rob[k].got[x] \in Nat
        BY <4>1
      <4>3. CASE k = i
        <5>1. x # j
          BY <2>3, <4>3
        <5> QED
          BY <1>9, <4>1, <4>2, <4>3, <5>1 DEF g
      <4>4. CASE k # i
        BY <1>8, <4>2, <4>4
      <4> QED
        BY <4>3, <4>4
    <3>2. (Held(k, x)' <=> Held(k, x)) /\ (Held(k, x) => Producer(k, x)' = Producer(k, x))
      BY <1>15, <2>3
    <3>3. Held(k, x) /\ Producer(k, x) # 0 => Producer(k, x) > retired
      BY <2>1 DEF Right, Promised
    <3>4. rob[k].id \in Nat
      BY <1>1, Entries
    <3>5. trace' = trace /\ retired' = retired /\ retired <= retired' /\ rob'[k].id = rob[k].id
      BY <1>3, <1>7, <1>10
    <3>6. /\ \A y \in Rob : rob'[y].id = rob[y].id /\ rob'[y].memDeps = rob[y].memDeps
          /\ DoneKept /\ \A y, b : Done(y, b)' <=> Done(y, b)
      BY <1>10, <1>14 DEF DoneKept
    <3>7. PICK p, c : p = Producer(k, x) /\ c = LoadAddr(k, x)
      OBVIOUS
    <3> QED
      BY <1>3, <2>1, <3>1, <3>2, <3>3, <3>4, <3>5, <3>6, <3>7, RightKept
  <2> QED
    BY <2>2, <2>3
<1>20. DepsTrue'
  <2> SUFFICES ASSUME NEW k \in Rob, NEW x \in rob[k].memDeps
               PROVE  /\ x \in Rob /\ Live(k)' /\ Live(x)'
                      /\ \E y \in (1..LoadCount(rob[x].id))' : LastStore(rob[k].id, rob[x].id, LoadAddr(x, y))'
    BY <1>10 DEF DepsTrue
  <2>1. /\ x \in Rob /\ Live(k) /\ Live(x)
        /\ \E y \in 1..LoadCount(rob[x].id) : LastStore(rob[k].id, rob[x].id, LoadAddr(x, y))
    BY <1>1 DEF DepsTrue
  <2> QED
    BY <1>10, <1>13, <1>14, <1>15, <2>1
<1>21. OpsExact'
  <2> SUFFICES ASSUME NEW k \in Rob, Live(k)
               PROVE  /\ rob'[k].ops = Cardinality(LoadsDue(k)') + Cardinality(StoresDue(k)')
                      /\ rob'[k].executed = "COMPLETED" => LoadsDue(k)' = {} /\ StoresDue(k)' = {}
    BY <1>14 DEF OpsExact
  <2>1. /\ rob[k].ops = Cardinality(LoadsDue(k)) + Cardinality(StoresDue(k))
        /\ rob[k].executed = "COMPLETED" => LoadsDue(k) = {} /\ StoresDue(k) = {}
    BY <1>1 DEF OpsExact
  <2>2. StoresDue(k)' = StoresDue(k)
    BY <1>7, <1>10, <1>13 DEF StoresDue
  <2>3. LoadsDue(k)' = IF k = i THEN LoadsDue(k) \ {j} ELSE LoadsDue(k)
    <3>1. \A x \in 1..LoadCount(rob[k].id) :
            (rob'[k].lqi[x] = LQ_SIZE \/ Held(k, x)') <=>
              (rob[k].lqi[x] = LQ_SIZE \/ Held(k, x)) /\ ~(k = i /\ x = j)
      BY <1>3, <1>10, <1>15
    <3> QED
      BY <1>10, <1>13, <3>1 DEF LoadsDue
  <2>4. CASE k = i
    <3>1. j \in LoadsDue(i) /\ LoadsDue(i) \subseteq 1..LoadCount(n)
      BY <1>3, <1>4 DEF LoadsDue
    <3>2. IsFiniteSet(LoadsDue(i)) /\ Cardinality(LoadsDue(i)) \in Nat /\ Cardinality(StoresDue(i)) \in Nat
      BY <1>1, <1>3, DueFinite
    <3>3. Cardinality(LoadsDue(i) \ {j}) = Cardinality(LoadsDue(i)) - 1
      BY <3>1, <3>2, FS_RemoveElement
    <3>5. rob'[k].ops = Cardinality(LoadsDue(i) \ {j}) + Cardinality(StoresDue(i))
      BY <1>9, <2>1, <2>4, <3>2, <3>3
    <3> QED
      BY <1>10, <2>1, <2>2, <2>3, <2>4, <3>1, <3>5
  <2>5. CASE k # i
    BY <1>8, <2>1, <2>2, <2>3, <2>5
  <2> QED
    BY <2>4, <2>5
<1> QED
  BY <1>13, <1>16, <1>17, <1>18, <1>19, <1>20, <1>21 DEF Values

\* What an entry whose operations are added keeps.
LEMMA AddedKept ==
  ASSUME NEW e, e = [f \in Fields |-> e[f]]
  PROVE  /\ \A f \in MemFields : Added(e)[f] = e[f]
         /\ Added(e).executed = "COMPLETED" => e.executed = "COMPLETED"
<1>1. CASE Added(e) = e
  BY <1>1
<1>2. CASE Added(e) # e
  <2> DEFINE x == IF e.executed = "NO" THEN "INFLIGHT" ELSE e.executed
  <2>1. Added(e) = [e EXCEPT !.scheduled = "COMPLETED", !.executed = x]
    BY <1>2 DEF Added
  <2>2. x = "COMPLETED" => e.executed = "COMPLETED"
    OBVIOUS
  <2> HIDE DEF x
  <2>3. DOMAIN e = Fields
    BY Zenon
  <2>4. \A f \in Fields : f # "scheduled" /\ f # "executed" => Added(e)[f] = e[f]
    BY <2>1, <2>3
  <2>5. Added(e).executed = x
    BY <2>1, <2>3 DEF Fields
  <2> QED
    BY <2>2, <2>4, <2>5 DEF Fields, MemFields
<1> QED
  BY <1>1, <1>2

\* add_store_queue finds the tail of SQ free.
LEMMA SqTailFree ==
  ASSUME SqRing, sqOcc < SQ_SIZE
  PROVE  sqTail \in Sq /\ sq[sqTail].id = 0
<1>1. /\ sqOcc \in Nat /\ sqHead \in 0..(SQ_SIZE - 1) /\ SQ_SIZE \in Nat \ {0} /\ Sq = 0..(SQ_SIZE - 1)
      /\ sqTail = (sqHead + sqOcc) % SQ_SIZE
  BY Sizes DEF SqRing, Sq
<1>2. sqTail = SqIndex(sqOcc + 1)
  <2>1. sqHead + (sqOcc + 1) - 1 = sqHead + sqOcc
    BY <1>1
  <2> QED
    BY <1>1, <2>1 DEF SqIndex
<1>3. /\ \A p \in 1..SQ_SIZE : SqIndex(p) \in Sq
      /\ \A p, r \in 1..SQ_SIZE : SqIndex(p) = SqIndex(r) => p = r
  <2>1. /\ \A p \in 1..SQ_SIZE : (sqHead + p - 1) % SQ_SIZE \in 0..(SQ_SIZE - 1)
        /\ \A p, r \in 1..SQ_SIZE : (sqHead + p - 1) % SQ_SIZE = (sqHead + r - 1) % SQ_SIZE => p = r
    BY <1>1, RingPlaces
  <2> QED
    BY <1>1, <2>1 DEF SqIndex
<1>4. sqOcc + 1 \in 1..SQ_SIZE /\ \A p \in 1..sqOcc : p \in 1..SQ_SIZE /\ p # sqOcc + 1
  BY <1>1
<1>5. sqTail \in Sq /\ \A p \in 1..sqOcc : SqIndex(p) # sqTail
  BY <1>2, <1>3, <1>4
<1> QED
  BY <1>5 DEF SqRing

\* add_store_queue moves no load and performs no store.
LEMMA LoadsAtAddStore ==
  ASSUME LoadInv, NEW i \in Rob, NEW j \in 1..Len(rob[i].sqi), AddStore(i, j)
  PROVE  Named' /\ Places' /\ Values' /\ Regular(trace)'
<1> PICK s, n : s = sqTail /\ n = rob[i].id
  OBVIOUS
<1> DEFINE w == [FreeLsq EXCEPT !.id = n, !.rob = i, !.slot = j]
           sqi == [rob[i].sqi EXCEPT ![j] = s]
           e == [rob[i] EXCEPT !.sqi = sqi]
<1>1. /\ RobShape /\ RobRing /\ StoreInv /\ LqShape /\ EntriesTyped /\ LoadsNamed /\ StoresNamed
      /\ PlacesTyped /\ LoadRings /\ StoreRings /\ MemExact /\ LoadsRight /\ DepsTrue /\ OpsExact
      /\ Regular(trace) /\ SqShape /\ SqRing
  BY DEF LoadInv, StoreInv, FlowInv, RobInv, Named, Places, Values
<1>2. /\ UNCHANGED <<trace, retired, read, mem, lq, rtl0, rtl1, rts1, dtlb, l1d>>
      /\ sq' = [sq EXCEPT ![s] = w] /\ rob' = [rob EXCEPT ![i] = Added(e)]
      /\ rts0' = Append(rts0, s)
  BY DEF AddStore, arch, port
<1>3. rob[i].sqi[j] = SQ_SIZE /\ sqOcc < SQ_SIZE
  BY DEF AddStore, StoreFits
<1>4. Live(i)
  <2>1. rob[i].scheduled = "INFLIGHT"
    BY DEF AddStore, Turn, MemReady
  <2> QED
    BY <1>1, <2>1 DEF RobRing, Blank
<1>5. /\ n \in Nat \ {0} /\ rob[i].sqi \in [1..StoreCount(n) -> Nat] /\ Len(rob[i].sqi) = StoreCount(n)
      /\ j \in 1..StoreCount(n) /\ retired \in Nat /\ SQ_SIZE \notin Sq
  BY <1>1, <1>4, SqiLength, Entries
<1>6. s \in Sq /\ sq[s].id = 0
  BY <1>1, <1>3, SqTailFree
<1>7. w.id = n /\ w.rob = i /\ w.slot = j /\ w.fetched = "NO"
  BY DEF FreeLsq
<1> HIDE DEF w
<1>8. sq'[s] = w /\ \A y \in Sq : y # s => sq'[y] = sq[y]
  BY <1>1, <1>2, <1>6 DEF SqShape
<1>9. /\ e = [f \in Fields |-> e[f]] /\ e.sqi = sqi /\ e.executed = rob[i].executed
      /\ \A f \in MemFields : f # "sqi" => e[f] = rob[i][f]
  <2>1. e = [rob[i] EXCEPT !.sqi = sqi]
    OBVIOUS
  <2> HIDE DEF sqi, e
  <2> QED
    BY <1>1, <2>1 DEF RobShape, Fields, MemFields
<1> HIDE DEF e
<1>10. rob'[i] = Added(e) /\ \A k \in Rob : k # i => rob'[k] = rob[k]
  BY <1>1, <1>2 DEF RobShape
<1>11. /\ rob'[i].sqi = sqi /\ \A f \in MemFields : f # "sqi" => rob'[i][f] = rob[i][f]
       /\ rob'[i].executed = "COMPLETED" => rob[i].executed = "COMPLETED"
  <2>1. /\ \A f \in MemFields : Added(e)[f] = e[f]
        /\ Added(e).executed = "COMPLETED" => e.executed = "COMPLETED"
    BY <1>9, AddedKept
  <2> QED
    BY <1>9, <1>10, <2>1 DEF MemFields
<1>12. \A k \in Rob :
         /\ rob'[k].id = rob[k].id /\ rob'[k].lqi = rob[k].lqi /\ rob'[k].memDeps = rob[k].memDeps
         /\ rob'[k].ops = rob[k].ops /\ rob'[k].got = rob[k].got
         /\ rob'[k].executed = "COMPLETED" => rob[k].executed = "COMPLETED"
         /\ k # i => rob'[k].sqi = rob[k].sqi
  BY <1>10, <1>11 DEF MemFields
<1>13. /\ \A x : InstrAt(x)' = InstrAt(x) /\ LoadCount(x)' = LoadCount(x) /\ StoreCount(x)' = StoreCount(x)
       /\ \A l, x, b : LastStore(l, x, b)' <=> LastStore(l, x, b)
       /\ Regular(trace)'
  BY <1>1, <1>2, TraceKept
<1>14. \A k \in Rob : Live(k)' <=> Live(k)
  BY <1>12 DEF Live
<1>15. \A k \in Rob : \A x : /\ LoadAddr(k, x)' = LoadAddr(k, x)
                             /\ Held(k, x)' <=> Held(k, x)
                             /\ Producer(k, x)' = Producer(k, x)
  BY <1>2, <1>12, <1>13 DEF LoadAddr, Held, Producer
<1>16. s \notin Performed /\ s \notin Range(rts0)
  BY <1>1, <1>6 DEF StoreRings, Parted
<1>17. \A p, b : Done(p, b)' <=> Done(p, b)
  <2>1. \A y \in Sq : /\ sq'[y].fetched = "COMPLETED" => y # s /\ sq'[y] = sq[y]
                      /\ sq[y].fetched = "COMPLETED" => y # s /\ sq'[y] = sq[y]
    BY <1>7, <1>8, <1>16 DEF Performed
  <2> QED
    BY <1>13, <2>1 DEF Done
<1>18. ASSUME NEW k \in Rob, Live(k), NEW x \in 1..StoreCount(rob[k].id)
       PROVE  /\ k = i /\ x = j => rob'[k].sqi[x] = s
              /\ ~(k = i /\ x = j) => rob'[k].sqi[x] = rob[k].sqi[x]
              /\ ~(k = i /\ x = j) /\ rob[k].sqi[x] # SQ_SIZE =>
                   sq'[rob[k].sqi[x]] = sq[rob[k].sqi[x]]
  <2>1. k = i /\ x = j => rob'[k].sqi[x] = s
    BY <1>5, <1>11 
  <2>2. ~(k = i /\ x = j) => rob'[k].sqi[x] = rob[k].sqi[x]
    <3>1. CASE k = i
      BY <1>5, <1>11, <1>18, <3>1
    <3>2. CASE k # i
      BY <1>12, <3>2
    <3> QED
      BY <3>1, <3>2
  <2>3. rob[k].sqi[x] # SQ_SIZE => rob[k].sqi[x] \in Sq /\ rob[k].sqi[x] # s
    <3>1. rob[k].sqi[x] # SQ_SIZE => rob[k].sqi[x] \in Sq /\ sq[rob[k].sqi[x]].id = rob[k].id
      BY <1>1, <1>18, StoreSlots
    <3> QED
      BY <1>6, <1>18, <3>1 DEF Live
  <2> QED
    BY <1>8, <2>1, <2>2, <2>3
<1> HIDE DEF sqi
<1>19. Named'
  <2>1. LqShape' /\ EntriesTyped' /\ LoadsNamed'
    BY <1>1, <1>2, <1>12, <1>13, <1>14 DEF LqShape, EntriesTyped, LoadsNamed
  <2>2. StoresNamed'
    <3> SUFFICES ASSUME NEW k \in Rob, Live(k), NEW x \in 1..StoreCount(rob[k].id), rob'[k].sqi[x] # SQ_SIZE
                 PROVE  sq'[rob'[k].sqi[x]].rob = k /\ sq'[rob'[k].sqi[x]].slot = x
      BY <1>12, <1>13, <1>14 DEF StoresNamed
    <3>1. CASE k = i /\ x = j
      BY <1>7, <1>8, <1>18, <3>1
    <3>2. CASE ~(k = i /\ x = j)
      <4>1. rob'[k].sqi[x] = rob[k].sqi[x] /\ sq'[rob[k].sqi[x]] = sq[rob[k].sqi[x]]
        BY <1>18, <3>2
      <4> QED
        BY <1>1, <4>1 DEF StoresNamed
    <3> QED
      BY <3>1, <3>2
  <2> QED
    BY <2>1, <2>2 DEF Named
<1>20. Places'
  <2> DEFINE All == {y \in Sq : sq[y].id # 0}
  <2>1. All' = All \cup {s}
    BY <1>5, <1>6, <1>7, <1>8
  <2>2. s \notin All /\ Parted(Range(rts0), StoresAtDtlb, Range(rts1), Performed, All)
    BY <1>1, <1>6 DEF StoreRings
  <2>3. Performed' = Performed
    BY <1>7, <1>8, <1>16 DEF Performed
  <2>4. rts0' \in Seq(Sq) /\ IsInjective(rts0') /\ Range(rts0') = Range(rts0) \cup {s}
    BY <1>1, <1>2, <1>6, <1>16, RingAppend DEF PlacesTyped, StoreRings
  <2>5. LoadsAtDtlb' = LoadsAtDtlb /\ StoresAtDtlb' = StoresAtDtlb /\ ToMemory' = ToMemory
    BY <1>2 DEF LoadsAtDtlb, StoresAtDtlb, ToMemory
  <2>6. Parted(Range(rts0) \cup {s}, StoresAtDtlb, Range(rts1), Performed, All \cup {s})
    BY <2>2, PartsMove
  <2>7. LoadRings' /\ PlacesTyped'
    BY <1>1, <1>2, <2>4, <2>5 DEF LoadRings, PlacesTyped
  <2>8. StoreRings'
    BY <1>1, <1>2, <2>1, <2>3, <2>4, <2>5, <2>6 DEF StoreRings
  <2> QED
    BY <2>7, <2>8 DEF Places
<1>21. MemExact'
  BY <1>1, <1>2, MemKept
<1>22. LoadsRight'
  <2> SUFFICES ASSUME NEW k \in Rob, Live(k), NEW x \in 1..LoadCount(rob[k].id), rob[k].lqi[x] # LQ_SIZE
               PROVE  Right(k, x)'
    BY <1>12, <1>13, <1>14 DEF LoadsRight
  <2>1. Right(k, x)
    BY <1>1 DEF LoadsRight
  <2>2. rob'[k].got[x] = rob[k].got[x] /\ rob[k].got[x] \in Nat
    BY <1>1, <1>12 DEF EntriesTyped
  <2>3. (Held(k, x)' <=> Held(k, x)) /\ (Held(k, x) => Producer(k, x)' = Producer(k, x))
    BY <1>15
  <2>4. Held(k, x) /\ Producer(k, x) # 0 => Producer(k, x) > retired
    BY <2>1 DEF Right, Promised
  <2>5. rob[k].id \in Nat
    BY <1>1, Entries
  <2>6. trace' = trace /\ retired' = retired /\ retired <= retired' /\ rob'[k].id = rob[k].id
    BY <1>2, <1>5, <1>12
  <2>7. /\ \A y \in Rob : rob'[y].id = rob[y].id /\ rob'[y].memDeps = rob[y].memDeps
        /\ DoneKept /\ \A y, b : Done(y, b)' <=> Done(y, b)
    BY <1>12, <1>17 DEF DoneKept
  <2>8. PICK p, c : p = Producer(k, x) /\ c = LoadAddr(k, x)
    OBVIOUS
  <2> QED
    BY <1>5, <2>1, <2>2, <2>3, <2>4, <2>5, <2>6, <2>7, <2>8, RightKept
<1>23. DepsTrue'
  <2> SUFFICES ASSUME NEW k \in Rob, NEW x \in rob[k].memDeps
               PROVE  /\ x \in Rob /\ Live(k)' /\ Live(x)'
                      /\ \E y \in (1..LoadCount(rob[x].id))' : LastStore(rob[k].id, rob[x].id, LoadAddr(x, y))'
    BY <1>12 DEF DepsTrue
  <2>1. /\ x \in Rob /\ Live(k) /\ Live(x)
        /\ \E y \in 1..LoadCount(rob[x].id) : LastStore(rob[k].id, rob[x].id, LoadAddr(x, y))
    BY <1>1 DEF DepsTrue
  <2> QED
    BY <1>12, <1>13, <1>14, <1>15, <2>1
<1>24. OpsExact'
  <2> SUFFICES ASSUME NEW k \in Rob, Live(k)
               PROVE  /\ rob'[k].ops = Cardinality(LoadsDue(k)') + Cardinality(StoresDue(k)')
                      /\ rob'[k].executed = "COMPLETED" => LoadsDue(k)' = {} /\ StoresDue(k)' = {}
    BY <1>14 DEF OpsExact
  <2>1. /\ rob[k].ops = Cardinality(LoadsDue(k)) + Cardinality(StoresDue(k))
        /\ rob[k].executed = "COMPLETED" => LoadsDue(k) = {} /\ StoresDue(k) = {}
    BY <1>1 DEF OpsExact
  <2>2. LoadsDue(k)' = LoadsDue(k)
    BY <1>12, <1>13, <1>15 DEF LoadsDue
  <2>3. \A x \in 1..StoreCount(rob[k].id) :
          (rob'[k].sqi[x] = SQ_SIZE \/ sq'[rob'[k].sqi[x]].fetched # "COMPLETED") <=>
            (rob[k].sqi[x] = SQ_SIZE \/ sq[rob[k].sqi[x]].fetched # "COMPLETED")
    <3> SUFFICES ASSUME NEW x \in 1..StoreCount(rob[k].id)
                 PROVE  (rob'[k].sqi[x] = SQ_SIZE \/ sq'[rob'[k].sqi[x]].fetched # "COMPLETED") <=>
                          (rob[k].sqi[x] = SQ_SIZE \/ sq[rob[k].sqi[x]].fetched # "COMPLETED")
      OBVIOUS
    <3>1. CASE k = i /\ x = j
      BY <1>3, <1>7, <1>8, <1>18, <3>1
    <3>2. CASE ~(k = i /\ x = j)
      BY <1>18, <3>2
    <3> QED
      BY <3>1, <3>2
  <2>4. StoresDue(k)' = StoresDue(k)
    BY <1>12, <1>13, <2>3 DEF StoresDue
  <2> QED
    BY <1>12, <2>1, <2>2, <2>4
<1> QED
  BY <1>13, <1>19, <1>20, <1>21, <1>22, <1>23, <1>24 DEF Values

\* The last older store to an address that is in the ROB, if there is one.
LEMMA LastBefore ==
  ASSUME StoreInv, NEW i \in Rob, Live(i), NEW a, NEW p, p = StoreBefore(i, a)
  PROVE  /\ p = ROB_SIZE => \A x \in (retired + 1)..(rob[i].id - 1) : ~Stores(x, a)
         /\ p # ROB_SIZE => /\ p \in Rob /\ Live(p) /\ p # i
                            /\ rob[p].id \in Nat \ {0} /\ rob[p].id > retired
                            /\ LastStore(rob[p].id, rob[i].id, a)
<1> PICK n : n = rob[i].id
  OBVIOUS
<1> DEFINE S == {k \in Rob : Live(k) /\ rob[k].id < n /\ Stores(rob[k].id, a)}
<1>1. RobInv
  BY DEF StoreInv, FlowInv
<1>2. /\ retired \in Nat /\ n \in (retired + 1)..read /\ n \in Nat /\ read \in Nat
      /\ \A k \in Rob : Live(k) => rob[k].id \in Nat \ {0} /\ rob[k].id > retired
      /\ \A x \in (retired + 1)..read : \E k \in Rob : Live(k) /\ rob[k].id = x
  BY Entries
<1>3. p = Youngest(S)
  <2>1. Older(i) = {k \in Rob : Live(k) /\ rob[k].id < n}
    BY <1>1, Numbered
  <2>2. {k \in Older(i) : \E j \in 1..Len(Ins(k).st) : Ins(k).st[j] = a} = S
    BY <2>1 DEF Ins, Stores, StoreCount
  <2> HIDE DEF S
  <2> QED
    BY <2>2 DEF StoreBefore
<1>4. S \in SUBSET {k \in Rob : Live(k)}
  OBVIOUS
<1>5. ASSUME NEW x \in (retired + 1)..(n - 1), Stores(x, a)
      PROVE  \E k \in S : rob[k].id = x
  <2>1. x \in (retired + 1)..read /\ x < n
    BY <1>2
  <2>2. PICK k \in Rob : Live(k) /\ rob[k].id = x
    BY <1>2, <2>1
  <2> QED
    BY <1>5, <2>1, <2>2
<1>6. CASE S = {}
  <2>1. p = ROB_SIZE
    BY <1>1, <1>3, <1>4, <1>6, YoungestIsLast
  <2> QED
    BY <1>5, <1>6, <2>1
<1>7. CASE S # {}
  <2>1. p # ROB_SIZE /\ p \in S /\ \A m \in S : rob[m].id <= rob[p].id
    <3> HIDE DEF S
    <3> QED
      BY <1>1, <1>3, <1>4, <1>7, YoungestIsLast DEF LastOf
  <2>2. p \in Rob /\ Live(p) /\ p # i /\ rob[p].id \in Nat \ {0} /\ rob[p].id > retired /\ rob[p].id < n
        /\ Stores(rob[p].id, a)
    BY <1>2, <2>1
  <2>3. rob[p].id \in 0..(n - 1)
    BY <1>2, <2>2
  <2>4. ASSUME NEW x \in (rob[p].id + 1)..(n - 1) PROVE ~Stores(x, a)
    <3> SUFFICES ASSUME Stores(x, a) PROVE FALSE
      OBVIOUS
    <3>1. x \in (retired + 1)..(n - 1) /\ ~(x <= rob[p].id)
      BY <1>2, <2>2
    <3>2. PICK k \in S : rob[k].id = x
      BY <1>5, <3>1
    <3> QED
      BY <2>1, <3>1, <3>2
  <2> QED
    BY <2>1, <2>2, <2>3, <2>4 DEF LastStore
<1> QED
  BY <1>6, <1>7

\* An entry of SQ is that of a store of the ROB.
LEMMA SqNamed ==
  ASSUME StoreInv, StoresNamed, NEW s \in Sq, sq[s].id # 0
  PROVE  /\ sq[s].rob \in Rob /\ Live(sq[s].rob) /\ rob[sq[s].rob].id = sq[s].id
         /\ sq[s].slot \in 1..StoreCount(sq[s].id) /\ rob[sq[s].rob].sqi[sq[s].slot] = s
         /\ StAddr(s) = InstrAt(sq[s].id).st[sq[s].slot]
<1>1. PICK i \in Rob : \E j \in 1..StoreCount(rob[i].id) :
        Live(i) /\ rob[i].id = sq[s].id /\ rob[i].sqi[j] = s
  BY StoreSlots
<1>2. PICK j \in 1..StoreCount(rob[i].id) : Live(i) /\ rob[i].id = sq[s].id /\ rob[i].sqi[j] = s
  BY <1>1
<1>3. s # SQ_SIZE
  BY Entries
<1>4. sq[s].rob = i /\ sq[s].slot = j
  BY <1>2, <1>3 DEF StoresNamed
<1> QED
  BY <1>2, <1>4 DEF StAddr, Ins

\* What a load finds in SQ.
LEMMA FoundDone ==
  ASSUME StoreInv, StoresNamed, Regular(trace), read \in Nat, read <= MAX_READ,
         NEW p \in Rob, Live(p), NEW a, NEW f, f = Forwarders(p, a)
  PROVE  /\ f # {} /\ sq[Min(f)].fetched = "COMPLETED" <=> Done(rob[p].id, a)
         /\ f # {} => sq[Min(f)].id = rob[p].id
<1> PICK n : n = rob[p].id
  OBVIOUS
<1>1. n \in (retired + 1)..read /\ n \in Nat \ {0} /\ p # ROB_SIZE /\ retired \in Nat
      /\ \A i, k \in Rob : Live(i) /\ rob[i].id = rob[k].id => i = k
  BY Entries
<1>2. \A i, j \in 1..StoreCount(n) : InstrAt(n).st[i] = InstrAt(n).st[j] => i = j
  <2>1. n \in 1..MAX_READ
    BY <1>1, SizesAssumption
  <2> QED
    BY <2>1, RegularTrace
<1>3. f = {s \in Sq : sq[s].id = n /\ InstrAt(n).st[sq[s].slot] = a}
  <2>1. \A s \in Sq : sq[s].id = n => StAddr(s) = InstrAt(n).st[sq[s].slot]
    BY <1>1, SqNamed
  <2> QED
    BY <1>1, <2>1 DEF Forwarders
<1>4. ASSUME NEW s \in f, NEW t \in f PROVE s = t
  <2>1. /\ s \in Sq /\ sq[s].id = n /\ InstrAt(n).st[sq[s].slot] = a
        /\ t \in Sq /\ sq[t].id = n /\ InstrAt(n).st[sq[t].slot] = a /\ n # 0
    BY <1>1, <1>3
  <2>2. /\ sq[s].rob \in Rob /\ Live(sq[s].rob) /\ rob[sq[s].rob].id = n
        /\ sq[s].slot \in 1..StoreCount(n) /\ rob[sq[s].rob].sqi[sq[s].slot] = s
    BY <2>1, SqNamed
  <2>3. /\ sq[t].rob \in Rob /\ Live(sq[t].rob) /\ rob[sq[t].rob].id = n
        /\ sq[t].slot \in 1..StoreCount(n) /\ rob[sq[t].rob].sqi[sq[t].slot] = t
    BY <2>1, SqNamed
  <2>4. sq[s].rob = p /\ sq[t].rob = p
    BY <1>1, <2>2, <2>3
  <2>5. sq[s].slot = sq[t].slot
    BY <1>2, <2>1, <2>2, <2>3
  <2> QED
    BY <2>2, <2>3, <2>4, <2>5
<1>5. ASSUME NEW s \in f PROVE Min(f) = s
  <2>1. s \in Nat
    BY <1>3, SizesAssumption DEF Sq
  <2>2. f = {s}
    BY <1>4
  <2>3. \E x \in f : \A y \in f : x <= y
    BY <2>1, <2>2
  <2>4. Min(f) \in f
    BY <2>3 DEF Min
  <2> QED
    BY <2>2, <2>4
<1>6. \A s \in f : /\ s \in Sq /\ sq[s].id = n /\ Min(f) = s
                   /\ sq[s].fetched = "COMPLETED" => Done(n, a)
  BY <1>3, <1>5 DEF Done
<1>7. Done(n, a) => \E s \in f : sq[s].fetched = "COMPLETED"
  BY <1>3 DEF Done
<1> QED
  BY <1>6, <1>7

\* A dependent is added to an entry.
LEMMA DepsEntry ==
  ASSUME NEW r, r = [f \in Fields |-> r[f]], NEW m
  PROVE  LET e == [r EXCEPT !.memDeps = m] IN
         /\ e.memDeps = m
         /\ e.lqi = r.lqi /\ e.ops = r.ops /\ e.got = r.got
         /\ e.id = r.id /\ e.sqi = r.sqi /\ e.executed = r.executed
<1> DEFINE e == [r EXCEPT !.memDeps = m]
<1>1. DOMAIN r = Fields
  BY Zenon
<1>2. e = [f \in Fields |-> IF f = "memDeps" THEN m ELSE r[f]]
  BY <1>1 DEF Fields
<1> QED
  BY <1>2 DEF Fields

\* The assignments of add_load_queue, with the entry it takes, the last older store,
\* its entries in SQ and whether it has executed.
Taken(i, j, q, p, f, d, w, r, now) ==
  /\ q = Min({x \in Lq : lq[x].id = 0}) /\ p = StoreBefore(i, Ins(i).ld[j])
  /\ f = Forwarders(p, Ins(i).ld[j]) /\ d = sq[Min(f)].id
  /\ w = (IF p = ROB_SIZE THEN 0 ELSE rob[p].id) /\ r = (IF p = ROB_SIZE THEN "NO" ELSE "INFLIGHT")
  /\ now <=> (f # {} /\ sq[Min(f)].fetched = "COMPLETED")
  /\ lq' = IF now THEN lq
           ELSE [lq EXCEPT ![q] = [id |-> rob[i].id, rob |-> i, slot |-> j, producer |-> w,
                                   translated |-> r, fetched |-> "NO"]]
  /\ rtl0' = IF p = ROB_SIZE THEN Append(rtl0, q) ELSE rtl0
  /\ rob' = [k \in Rob |->
       IF k = i
       THEN Added([rob[i] EXCEPT !.lqi[j] = q, !.ops = IF now THEN @ - 1 ELSE @,
                                 !.got[j] = IF now THEN d ELSE @])
       ELSE IF k = p THEN [rob[k] EXCEPT !.memDeps = @ \cup {i}] ELSE rob[k]]

LEMMA AddLoadForm ==
  ASSUME NEW i, NEW j, AddLoad(i, j)
  PROVE  \E q, p, f, d, w, r : \E now \in BOOLEAN : Taken(i, j, q, p, f, d, w, r, now)
<1> DEFINE q == Min({x \in Lq : lq[x].id = 0})
           p == StoreBefore(i, Ins(i).ld[j])
           f == Forwarders(p, Ins(i).ld[j])
           d == sq[Min(f)].id
           w == IF p = ROB_SIZE THEN 0 ELSE rob[p].id
           r == IF p = ROB_SIZE THEN "NO" ELSE "INFLIGHT"
           now == f # {} /\ sq[Min(f)].fetched = "COMPLETED"
<1>1. Taken(i, j, q, p, f, d, w, r, now)
  BY Zenon DEF AddLoad, Taken
<1>2. now \in BOOLEAN
  OBVIOUS
<1> HIDE DEF q, p, f, d, w, r, now
<1> QED
  BY <1>1, <1>2

\* add_load_queue: the load waits for the last store before it, or is given it, or
\* goes to memory.
LEMMA LoadsAtAddLoad ==
  ASSUME LoadInv, NEW i \in Rob, NEW j \in 1..Len(rob[i].lqi), AddLoad(i, j)
  PROVE  Named' /\ Places' /\ Values' /\ Regular(trace)'
<1> PICK n, a : n = rob[i].id /\ a = LoadAddr(i, j)
  OBVIOUS
<1> PICK q, p, f0, d, w, r : \E now \in BOOLEAN : Taken(i, j, q, p, f0, d, w, r, now)
  BY AddLoadForm
<1> PICK now \in BOOLEAN : Taken(i, j, q, p, f0, d, w, r, now)
  OBVIOUS
<1>0. /\ q = Min({x \in Lq : lq[x].id = 0}) /\ p = StoreBefore(i, a) /\ f0 = Forwarders(p, a)
      /\ d = sq[Min(f0)].id /\ w = (IF p = ROB_SIZE THEN 0 ELSE rob[p].id)
      /\ now <=> (f0 # {} /\ sq[Min(f0)].fetched = "COMPLETED")
  BY DEF Taken, LoadAddr, Ins
<1> DEFINE new == [id |-> n, rob |-> i, slot |-> j, producer |-> w, translated |-> r, fetched |-> "NO"]
           l == [rob[i].lqi EXCEPT ![j] = q]
           o == IF now THEN rob[i].ops - 1 ELSE rob[i].ops
           g == [rob[i].got EXCEPT ![j] = IF now THEN d ELSE @]
           e == [rob[i] EXCEPT !.lqi = l, !.ops = o, !.got = g]
<1>1. /\ RobShape /\ RobRing /\ StoreInv /\ LqShape /\ EntriesTyped /\ LoadsNamed /\ StoresNamed
      /\ PlacesTyped /\ LoadRings /\ StoreRings /\ MemExact /\ LoadsRight /\ DepsTrue /\ OpsExact
      /\ Regular(trace) /\ read <= MAX_READ
  BY DEF LoadInv, StoreInv, FlowInv, RobInv, Named, Places, Values, MemExact
<1>2. /\ UNCHANGED <<trace, retired, read, mem, sq, rtl1, rts0, rts1, dtlb, l1d>>
      /\ lq' = IF now THEN lq ELSE [lq EXCEPT ![q] = new]
      /\ rtl0' = IF p = ROB_SIZE THEN Append(rtl0, q) ELSE rtl0
      /\ rob' = [k \in Rob |->
           IF k = i THEN Added(e)
           ELSE IF k = p THEN [rob[k] EXCEPT !.memDeps = @ \cup {i}] ELSE rob[k]]
  <2>1. UNCHANGED <<trace, retired, read, mem, sq, rtl1, rts0, rts1, dtlb, l1d>>
    BY DEF AddLoad, arch, port
  <2>2. e = [rob[i] EXCEPT !.lqi[j] = q, !.ops = IF now THEN @ - 1 ELSE @,
                           !.got[j] = IF now THEN d ELSE @]
    OBVIOUS
  <2> HIDE DEF e
  <2>3. rob' = [k \in Rob |->
          IF k = i THEN Added(e)
          ELSE IF k = p THEN [rob[k] EXCEPT !.memDeps = @ \cup {i}] ELSE rob[k]]
    BY <2>2, ZenonT(40) DEF Taken
  <2>4. /\ lq' = IF now THEN lq ELSE [lq EXCEPT ![q] = new]
        /\ rtl0' = IF p = ROB_SIZE THEN Append(rtl0, q) ELSE rtl0
    BY DEF Taken
  <2> QED
    BY <2>1, <2>3, <2>4
<1>3. rob[i].lqi[j] = LQ_SIZE /\ q \in Lq /\ lq[q].id = 0
  <2>1. rob[i].lqi[j] = LQ_SIZE /\ \E x \in Lq : lq[x].id = 0
    BY DEF AddLoad, LoadFits
  <2>2. {x \in Lq : lq[x].id = 0} # {} /\ {x \in Lq : lq[x].id = 0} \in SUBSET Nat
    <3>1. \A x \in Lq : x \in Nat
      BY Sizes DEF Lq
    <3> QED
      BY <2>1, <3>1
  <2>3. Min({x \in Lq : lq[x].id = 0}) \in {x \in Lq : lq[x].id = 0}
    <3>1. \E x \in {y \in Lq : lq[y].id = 0} : \A y \in {z \in Lq : lq[z].id = 0} : x <= y
      BY <2>2, LeastNumber
    <3> QED
      BY <3>1 DEF Min
  <2> QED
    BY <1>0, <2>1, <2>3
<1>4. Live(i)
  <2>1. rob[i].scheduled = "INFLIGHT"
    BY DEF AddLoad, Turn, MemReady
  <2> QED
    BY <1>1, <2>1 DEF RobRing, Blank
<1>5. /\ n \in Nat \ {0} /\ Len(rob[i].lqi) = LoadCount(n) /\ j \in 1..LoadCount(n) /\ retired \in Nat
      /\ LQ_SIZE \notin Lq /\ read \in Nat /\ LoadCount(n) \in 0..4
      /\ rob[i].lqi \in [1..LoadCount(n) -> Lq \cup {LQ_SIZE}] /\ rob[i].got \in [1..LoadCount(n) -> Nat]
  BY <1>1, <1>4, LqiLength, Entries DEF EntriesTyped
<1>6. /\ p = ROB_SIZE => \A x \in (retired + 1)..(n - 1) : ~Stores(x, a)
      /\ p # ROB_SIZE => /\ p \in Rob /\ Live(p) /\ p # i
                         /\ rob[p].id \in Nat \ {0} /\ rob[p].id > retired
                         /\ LastStore(rob[p].id, n, a)
  BY <1>0, <1>1, <1>4, LastBefore
<1>7. /\ p = ROB_SIZE => ~now
      /\ p # ROB_SIZE => (now <=> Done(rob[p].id, a))
      /\ now => d = rob[p].id /\ d \in Nat
  <2>1. p = ROB_SIZE => f0 = {}
    BY <1>0 DEF Forwarders
  <2>2. ASSUME p # ROB_SIZE
        PROVE  (now <=> Done(rob[p].id, a)) /\ (f0 # {} => d = rob[p].id /\ d \in Nat)
    BY <1>0, <1>1, <1>5, <1>6, <2>2, FoundDone
  <2> QED
    BY <1>0, <2>1, <2>2
<1>8. /\ e = [f \in Fields |-> e[f]]
      /\ e.lqi = l /\ e.ops = o /\ e.got = g
      /\ e.id = n /\ e.sqi = rob[i].sqi /\ e.memDeps = rob[i].memDeps /\ e.executed = rob[i].executed
  <2>1. rob[i] = [f \in Fields |-> rob[i][f]]
    BY <1>1 DEF RobShape
  <2>2. e = [rob[i] EXCEPT !.lqi = l, !.ops = o, !.got = g]
    OBVIOUS
  <2> HIDE DEF l, o, g, e
  <2>3. DOMAIN rob[i] = Fields
    BY <2>1, Zenon
  <2>4. e = [f \in Fields |-> IF f = "lqi" THEN l ELSE IF f = "ops" THEN o
                              ELSE IF f = "got" THEN g ELSE rob[i][f]]
    BY <2>2, <2>3 DEF Fields
  <2> QED
    BY <2>4 DEF Fields
<1> HIDE DEF e
<1>9. rob'[i] = Added(e)
  BY <1>2
<1>10. /\ rob'[i].lqi = l /\ rob'[i].ops = o /\ rob'[i].got = g
       /\ rob'[i].id = n /\ rob'[i].sqi = rob[i].sqi /\ rob'[i].memDeps = rob[i].memDeps
       /\ rob'[i].executed = "COMPLETED" => rob[i].executed = "COMPLETED"
  <2>1. /\ \A f \in MemFields : Added(e)[f] = e[f]
        /\ Added(e).executed = "COMPLETED" => e.executed = "COMPLETED"
    BY <1>8, AddedKept
  <2> HIDE DEF l, o, g
  <2> QED
    BY <1>8, <1>9, <2>1 DEF MemFields
<1>11. ASSUME NEW k \in Rob, k # i
       PROVE  /\ rob'[k].id = rob[k].id /\ rob'[k].lqi = rob[k].lqi /\ rob'[k].sqi = rob[k].sqi
              /\ rob'[k].ops = rob[k].ops /\ rob'[k].got = rob[k].got /\ rob'[k].executed = rob[k].executed
              /\ rob'[k].memDeps = IF k = p THEN rob[k].memDeps \cup {i} ELSE rob[k].memDeps
  <2> DEFINE m == rob[k].memDeps \cup {i}
  <2>1. rob'[k] = IF k = p THEN [rob[k] EXCEPT !.memDeps = m] ELSE rob[k]
    BY <1>2, <1>11
  <2>2. rob[k] = [f \in Fields |-> rob[k][f]]
    BY <1>1 DEF RobShape
  <2> HIDE DEF m
  <2>3. LET x == [rob[k] EXCEPT !.memDeps = m] IN
        /\ x.memDeps = m /\ x.lqi = rob[k].lqi /\ x.ops = rob[k].ops /\ x.got = rob[k].got
        /\ x.id = rob[k].id /\ x.sqi = rob[k].sqi /\ x.executed = rob[k].executed
    BY <2>2, DepsEntry
  <2> QED
    BY <2>1, <2>3 DEF m
<1>12. /\ l \in [1..LoadCount(n) -> Lq \cup {LQ_SIZE}] /\ l[j] = q
       /\ \A x \in 1..LoadCount(n) : x # j => l[x] = rob[i].lqi[x]
       /\ g \in [1..LoadCount(n) -> Nat] /\ (now => g[j] = d)
       /\ \A x \in 1..LoadCount(n) : x # j => g[x] = rob[i].got[x]
  BY <1>3, <1>5, <1>7
<1> HIDE DEF l, g
<1>13. \A k \in Rob : /\ rob'[k].id = rob[k].id /\ rob'[k].sqi = rob[k].sqi
                      /\ rob'[k].executed = "COMPLETED" => rob[k].executed = "COMPLETED"
  BY <1>10, <1>11
<1>26. \A k \in Rob :
         rob'[k].memDeps = IF k = p THEN rob[k].memDeps \cup {i} ELSE rob[k].memDeps
  <2>1. p # i
    BY <1>6, Sizes
  <2> QED
    BY <1>10, <1>11, <2>1
<1>14. /\ \A x : InstrAt(x)' = InstrAt(x) /\ LoadCount(x)' = LoadCount(x) /\ StoreCount(x)' = StoreCount(x)
       /\ \A m, x, b : LastStore(m, x, b)' <=> LastStore(m, x, b)
       /\ \A x, b : Stores(x, b)' <=> Stores(x, b)
       /\ Regular(trace)'
  BY <1>1, <1>2, TraceKept
<1>15. /\ \A k \in Rob : Live(k)' <=> Live(k)
       /\ \A x, b : Done(x, b)' <=> Done(x, b)
       /\ \A k \in Rob : \A x : LoadAddr(k, x)' = LoadAddr(k, x)
  BY <1>2, <1>13, <1>14 DEF Live, Done, LoadAddr
<1>16. /\ new.id = n /\ new.rob = i /\ new.slot = j /\ new.producer = w
       /\ new = [f \in LsqFields |-> new[f]]
  BY DEF LsqFields
<1> HIDE DEF new
<1>17. /\ now => lq'[q] = lq[q]
       /\ ~now => lq'[q] = new
       /\ \A y \in Lq : y # q => lq'[y] = lq[y]
  BY <1>1, <1>2, <1>3 DEF LqShape
<1>18. ASSUME NEW k \in Rob, Live(k), NEW x \in 1..LoadCount(rob[k].id)
       PROVE  /\ rob'[k].lqi[x] = IF k = i /\ x = j THEN q ELSE rob[k].lqi[x]
              /\ ~(k = i /\ x = j) => (Held(k, x)' <=> Held(k, x))
              /\ ~(k = i /\ x = j) /\ Held(k, x) => Producer(k, x)' = Producer(k, x)
              /\ ~(k = i /\ x = j) => rob'[k].got[x] = rob[k].got[x]
              /\ rob[k].got[x] \in Nat /\ rob[k].lqi[x] \in Lq \cup {LQ_SIZE}
  <2>1. rob'[k].lqi[x] = IF k = i /\ x = j THEN q ELSE rob[k].lqi[x]
    <3>1. CASE k = i
      BY <1>10, <1>12, <1>18, <3>1
    <3>2. CASE k # i
      BY <1>11, <3>2
    <3> QED
      BY <3>1, <3>2
  <2>2. rob[k].got[x] \in Nat /\ rob[k].lqi[x] \in Lq \cup {LQ_SIZE}
    <3>1. /\ rob[k].lqi \in [1..LoadCount(rob[k].id) -> Lq \cup {LQ_SIZE}]
          /\ rob[k].got \in [1..LoadCount(rob[k].id) -> Nat]
      BY <1>1, <1>18 DEF EntriesTyped
    <3>2. rob[k].got[x] \in Nat
      BY <3>1
    <3>3. rob[k].lqi[x] \in Lq \cup {LQ_SIZE}
      BY <3>1
    <3> QED
      BY <3>2, <3>3
  <2>3. ~(k = i /\ x = j) => rob'[k].got[x] = rob[k].got[x]
    <3>1. CASE k = i
      BY <1>10, <1>12, <1>18, <3>1
    <3>2. CASE k # i
      BY <1>11, <3>2
    <3> QED
      BY <3>1, <3>2
  <2>4. ASSUME ~(k = i /\ x = j), rob[k].lqi[x] = q PROVE ~Held(k, x) /\ ~Held(k, x)'
    <3>1. ~Held(k, x)
      BY <1>3, <1>18, <2>4 DEF Held, Live
    <3>2. rob'[k].lqi[x] = q /\ rob'[k].id = rob[k].id
      BY <1>13, <2>1, <2>4
    <3>3. ~(lq'[q].id = rob[k].id /\ lq'[q].slot = x)
      <4>1. \A y \in Rob : rob[y].id = rob[k].id => y = k
        BY <1>1, <1>18, Entries
      <4> QED
        BY <1>3, <1>16, <1>17, <1>18, <2>4, <4>1 DEF Live
    <3> QED
      BY <3>1, <3>2, <3>3 DEF Held
  <2>5. ASSUME ~(k = i /\ x = j), rob[k].lqi[x] # q
        PROVE  (Held(k, x)' <=> Held(k, x)) /\ (Held(k, x) => Producer(k, x)' = Producer(k, x))
    <3>1. rob'[k].lqi[x] = rob[k].lqi[x] /\ rob'[k].id = rob[k].id
      BY <1>13, <2>1, <2>5
    <3>2. rob[k].lqi[x] # LQ_SIZE => lq'[rob[k].lqi[x]] = lq[rob[k].lqi[x]]
      BY <1>17, <2>2, <2>5
    <3> QED
      BY <3>1, <3>2 DEF Held, Producer
  <2> QED
    BY <2>1, <2>2, <2>3, <2>4, <2>5
<1>19. /\ rob'[i].lqi[j] = q /\ q # LQ_SIZE
       /\ now => ~Held(i, j)'
       /\ ~now => Held(i, j)' /\ Producer(i, j)' = w
  <2>1. rob'[i].lqi[j] = q /\ q # LQ_SIZE
    BY <1>3, <1>5, <1>10, <1>12
  <2> QED
    BY <1>3, <1>5, <1>10, <1>16, <1>17, <2>1 DEF Held, Producer
<1>20. Named'
  <2>1. LqShape'
    <3>1. lq' = [y \in Lq |-> lq'[y]]
      BY <1>1, <1>2 DEF LqShape
    <3>2. \A y \in Lq : lq'[y] = new \/ lq'[y] = lq[y]
      BY <1>17
    <3>3. ASSUME NEW y \in Lq PROVE lq'[y] = [f \in LsqFields |-> lq'[y][f]]
      BY <1>1, <1>16, <3>2, Zenon DEF LqShape
    <3> QED
      BY <3>1, <3>3 DEF LqShape
  <2>2. EntriesTyped'
    <3>1. \A k \in Rob : Live(k) => /\ rob'[k].lqi \in [1..LoadCount(rob[k].id) -> Lq \cup {LQ_SIZE}]
                                    /\ rob'[k].got \in [1..LoadCount(rob[k].id) -> Nat]
      BY <1>1, <1>10, <1>11, <1>12 DEF EntriesTyped
    <3> QED
      BY <1>13, <1>14, <1>15, <3>1 DEF EntriesTyped
  <2>3. LoadsNamed'
    <3> SUFFICES ASSUME NEW y \in Lq, lq'[y].id # 0
                 PROVE  /\ lq'[y].rob \in Rob /\ rob'[lq'[y].rob].id = lq'[y].id
                        /\ lq'[y].slot \in 1..LoadCount(lq'[y].id)
                        /\ rob'[lq'[y].rob].lqi[lq'[y].slot] = y
      BY <1>14 DEF LoadsNamed
    <3>1. CASE lq'[y] = lq[y]
      <4> PICK b, c : b = lq[y].rob /\ c = lq[y].slot
        OBVIOUS
      <4>1. /\ b \in Rob /\ rob[b].id = lq[y].id /\ c \in 1..LoadCount(lq[y].id) /\ rob[b].lqi[c] = y
            /\ Live(b)
        BY <1>1, <3>1 DEF LoadsNamed, Live
      <4>2. ~(b = i /\ c = j)
        BY <1>3, <1>5, <4>1
      <4>3. rob'[b].lqi[c] = y
        BY <1>18, <4>1, <4>2
      <4> QED
        BY <1>13, <3>1, <4>1, <4>3
    <3>2. CASE lq'[y] # lq[y]
      <4>1. y = q /\ lq'[y] = new
        BY <1>17, <3>2
      <4> QED
        BY <1>5, <1>10, <1>16, <1>19, <4>1
    <3> QED
      BY <3>1, <3>2
  <2>4. StoresNamed'
    BY <1>1, <1>2, <1>13, <1>14, <1>15 DEF StoresNamed
  <2> QED
    BY <2>1, <2>2, <2>3, <2>4 DEF Named
<1>21. Places'
  <2>1. ToMemory' = IF p = ROB_SIZE THEN ToMemory \cup {q} ELSE ToMemory
    <3>1. \A y \in Lq : y # q => lq'[y].id = lq[y].id /\ lq'[y].producer = lq[y].producer
      BY <1>17
    <3>2. lq'[q].id # 0 /\ lq'[q].producer = 0 <=> p = ROB_SIZE
      BY <1>0, <1>3, <1>5, <1>6, <1>7, <1>16, <1>17
    <3> QED
      BY <1>3, <3>1, <3>2 DEF ToMemory
  <2>2. /\ LoadsAtDtlb' = LoadsAtDtlb /\ StoresAtDtlb' = StoresAtDtlb /\ Performed' = Performed
        /\ {s \in Sq : sq[s].id # 0}' = {s \in Sq : sq[s].id # 0}
    BY <1>2 DEF LoadsAtDtlb, StoresAtDtlb, Performed
  <2>3. q \notin ToMemory
    BY <1>3 DEF ToMemory
  <2>4. Parted(Range(rtl0), LoadsAtDtlb, Range(rtl1), l1d, ToMemory)
    BY <1>1 DEF LoadRings
  <2>5. /\ rtl0' \in Seq(Lq) /\ IsInjective(rtl0')
        /\ Range(rtl0') = IF p = ROB_SIZE THEN Range(rtl0) \cup {q} ELSE Range(rtl0)
    <3>1. q \notin Range(rtl0)
      BY <2>3, <2>4 DEF Parted
    <3>2. rtl0 \in Seq(Lq) /\ IsInjective(rtl0)
      BY <1>1 DEF PlacesTyped, LoadRings
    <3>3. Append(rtl0, q) \in Seq(Lq) /\ IsInjective(Append(rtl0, q)) /\ Range(Append(rtl0, q)) = Range(rtl0) \cup {q}
      BY <1>3, <3>1, <3>2, RingAppend
    <3>4. rtl0' = IF p = ROB_SIZE THEN Append(rtl0, q) ELSE rtl0
      BY <1>2
    <3> QED
      BY <3>2, <3>3, <3>4
  <2>6. Parted(Range(rtl0) \cup {q}, LoadsAtDtlb, Range(rtl1), l1d, ToMemory \cup {q})
    BY <2>3, <2>4, PartsMove
  <2>7. LoadRings'
    BY <1>1, <1>2, <2>1, <2>2, <2>4, <2>5, <2>6 DEF LoadRings
  <2> QED
    BY <1>1, <1>2, <2>2, <2>5, <2>7 DEF Places, PlacesTyped, StoreRings
<1>22. MemExact'
  BY <1>1, <1>2, MemKept
<1>23. LoadsRight'
  <2> SUFFICES ASSUME NEW k \in Rob, Live(k), NEW x \in 1..LoadCount(rob[k].id), rob'[k].lqi[x] # LQ_SIZE
               PROVE  Right(k, x)'
    BY <1>13, <1>14, <1>15 DEF LoadsRight
  <2>1. CASE k = i /\ x = j /\ now
    <3>1. p # ROB_SIZE /\ Done(rob[p].id, a) /\ d = rob[p].id
      BY <1>7, <2>1
    <3>2. rob'[i].got[j] = d
      BY <1>10, <1>12, <2>1
    <3>3. LastStore(d, n, a)' /\ Done(d, a)' /\ LoadAddr(i, j)' = a /\ rob'[i].id = n
      BY <1>6, <1>10, <1>14, <1>15, <3>1
    <3>4. Answered(i, j)'
      BY <3>2, <3>3 DEF Answered
    <3> QED
      BY <1>19, <2>1, <3>4 DEF Right
  <2>2. CASE k = i /\ x = j /\ ~now /\ p = ROB_SIZE
    <3>1. Held(i, j)' /\ Producer(i, j)' = 0
      BY <1>0, <1>19, <2>2
    <3>2. FromMemory(i, j)'
      BY <1>2, <1>6, <1>10, <1>14, <1>15, <2>2 DEF FromMemory
    <3> QED
      BY <2>2, <3>1, <3>2 DEF Right
  <2>3. CASE k = i /\ x = j /\ ~now /\ p # ROB_SIZE
    <3> PICK c : c = rob[p].id
      OBVIOUS
    <3>1. Held(i, j)' /\ Producer(i, j)' = c /\ c # 0
      BY <1>0, <1>6, <1>19, <2>3
    <3>2. c > retired' /\ LastStore(c, n, a)' /\ ~Done(c, a)' /\ LoadAddr(i, j)' = a /\ rob'[i].id = n
      BY <1>2, <1>6, <1>7, <1>10, <1>14, <1>15, <2>3
    <3>3. \A y \in Rob : rob'[y].id = c => i \in rob'[y].memDeps
      <4>1. \A y \in Rob : rob[y].id = c => y = p
        BY <1>1, <1>6, <2>3, Entries
      <4> QED
        BY <1>5, <1>10, <1>13, <1>26, <2>3, <4>1, <1>6
    <3>4. Promised(i, j, c)'
      BY <3>2, <3>3 DEF Promised
    <3> QED
      BY <2>3, <3>1, <3>4 DEF Right
  <2>4. CASE ~(k = i /\ x = j)
    <3>1. Right(k, x) /\ rob'[k].got[x] = rob[k].got[x] /\ rob[k].got[x] \in Nat
      BY <1>1, <1>18, <2>4 DEF LoadsRight
    <3>2. (Held(k, x)' <=> Held(k, x)) /\ (Held(k, x) => Producer(k, x)' = Producer(k, x))
      BY <1>18, <2>4
    <3>3. Held(k, x) /\ Producer(k, x) # 0 => Producer(k, x) > retired
      BY <3>1 DEF Right, Promised
    <3>4. rob[k].id \in Nat
      BY <1>1, Entries
    <3>5. trace' = trace /\ retired' = retired /\ retired <= retired' /\ rob'[k].id = rob[k].id
      BY <1>2, <1>5, <1>13
    <3>6. /\ \A y \in Rob : rob'[y].id = rob[y].id /\ (k \in rob[y].memDeps => k \in rob'[y].memDeps)
          /\ DoneKept /\ \A y, b : Done(y, b)' <=> Done(y, b)
      BY <1>13, <1>15, <1>26 DEF DoneKept
    <3>7. PICK b, c : b = Producer(k, x) /\ c = LoadAddr(k, x)
      OBVIOUS
    <3> QED
      BY <1>5, <3>1, <3>2, <3>3, <3>4, <3>5, <3>6, <3>7, RightKept
  <2> QED
    BY <2>1, <2>2, <2>3, <2>4
<1>24. DepsTrue'
  <2> SUFFICES ASSUME NEW k \in Rob, NEW x \in rob'[k].memDeps
               PROVE  /\ x \in Rob /\ Live(k)' /\ Live(x)'
                      /\ \E y \in (1..LoadCount(rob[x].id))' : LastStore(rob[k].id, rob[x].id, LoadAddr(x, y))'
    BY DEF DepsTrue
  <2>1. /\ x \in Rob /\ Live(k) /\ Live(x)
        /\ \E y \in 1..LoadCount(rob[x].id) : LastStore(rob[k].id, rob[x].id, LoadAddr(x, y))
    <3>1. CASE x \in rob[k].memDeps
      BY <1>1, <3>1 DEF DepsTrue
    <3>2. CASE x \notin rob[k].memDeps
      <4>1. k = p /\ x = i /\ p # ROB_SIZE
        BY <1>26, <3>2, Sizes
      <4> QED
        BY <1>4, <1>5, <1>6, <4>1
    <3> QED
      BY <3>1, <3>2
  <2> QED
    BY <1>13, <1>14, <1>15, <2>1
<1>25. OpsExact'
  <2> SUFFICES ASSUME NEW k \in Rob, Live(k)
               PROVE  /\ rob'[k].ops = Cardinality(LoadsDue(k)') + Cardinality(StoresDue(k)')
                      /\ rob'[k].executed = "COMPLETED" => LoadsDue(k)' = {} /\ StoresDue(k)' = {}
    BY <1>15 DEF OpsExact
  <2>1. /\ rob[k].ops = Cardinality(LoadsDue(k)) + Cardinality(StoresDue(k))
        /\ rob[k].executed = "COMPLETED" => LoadsDue(k) = {} /\ StoresDue(k) = {}
    BY <1>1 DEF OpsExact
  <2>2. StoresDue(k)' = StoresDue(k)
    BY <1>2, <1>13, <1>14 DEF StoresDue
  <2>3. LoadsDue(k)' = IF k = i /\ now THEN LoadsDue(k) \ {j} ELSE LoadsDue(k)
    <3>1. \A x \in 1..LoadCount(rob[k].id) :
            (rob'[k].lqi[x] = LQ_SIZE \/ Held(k, x)') <=>
              (rob[k].lqi[x] = LQ_SIZE \/ Held(k, x)) /\ ~(k = i /\ x = j /\ now)
      <4> SUFFICES ASSUME NEW x \in 1..LoadCount(rob[k].id)
                   PROVE  (rob'[k].lqi[x] = LQ_SIZE \/ Held(k, x)') <=>
                            (rob[k].lqi[x] = LQ_SIZE \/ Held(k, x)) /\ ~(k = i /\ x = j /\ now)
        OBVIOUS
      <4>1. CASE k = i /\ x = j
        BY <1>3, <1>19, <4>1
      <4>2. CASE ~(k = i /\ x = j)
        BY <1>18, <4>2
      <4> QED
        BY <4>1, <4>2
    <3> QED
      BY <1>13, <1>14, <3>1 DEF LoadsDue
  <2>4. CASE k = i
    <3>1. j \in LoadsDue(i)
      BY <1>3, <1>5 DEF LoadsDue
    <3>2. IsFiniteSet(LoadsDue(i)) /\ Cardinality(LoadsDue(i)) \in Nat /\ Cardinality(StoresDue(i)) \in Nat
      BY <1>1, <1>4, DueFinite
    <3>3. Cardinality(LoadsDue(i) \ {j}) = Cardinality(LoadsDue(i)) - 1
      BY <3>1, <3>2, FS_RemoveElement
    <3>4. rob'[k].ops = Cardinality(LoadsDue(k)') + Cardinality(StoresDue(k))
      BY <1>10, <2>1, <2>3, <2>4, <3>2, <3>3
    <3>5. rob'[k].executed # "COMPLETED"
      BY <1>13, <2>1, <2>4, <3>1
    <3> QED
      BY <2>2, <3>4, <3>5
  <2>5. CASE k # i
    BY <1>11, <2>1, <2>2, <2>3, <2>5
  <2> QED
    BY <2>4, <2>5
<1> QED
  BY <1>14, <1>20, <1>21, <1>22, <1>23, <1>24, <1>25 DEF Values

\* An instruction has one store to an address in SQ.
LEMMA OneStore ==
  ASSUME StoreInv, StoresNamed, Regular(trace), read <= MAX_READ,
         NEW s \in Sq, sq[s].id # 0, NEW t \in Sq, sq[t].id = sq[s].id,
         InstrAt(sq[s].id).st[sq[t].slot] = InstrAt(sq[s].id).st[sq[s].slot]
  PROVE  s = t
<1> PICK n : n = sq[s].id
  OBVIOUS
<1>1. /\ sq[s].rob \in Rob /\ Live(sq[s].rob) /\ rob[sq[s].rob].id = n
      /\ sq[s].slot \in 1..StoreCount(n) /\ rob[sq[s].rob].sqi[sq[s].slot] = s
  BY SqNamed
<1>2. /\ sq[t].rob \in Rob /\ Live(sq[t].rob) /\ rob[sq[t].rob].id = n
      /\ sq[t].slot \in 1..StoreCount(n) /\ rob[sq[t].rob].sqi[sq[t].slot] = t
  BY SqNamed
<1>3. sq[s].rob = sq[t].rob /\ n \in (retired + 1)..read /\ retired \in Nat /\ read \in Nat
  BY <1>1, <1>2, Entries
<1>4. \A i, j \in 1..StoreCount(n) : InstrAt(n).st[i] = InstrAt(n).st[j] => i = j
  <2>1. n \in 1..MAX_READ
    BY <1>3, SizesAssumption
  <2> QED
    BY <2>1, RegularTrace
<1>5. sq[s].slot = sq[t].slot
  BY <1>1, <1>2, <1>4
<1> QED
  BY <1>1, <1>2, <1>3, <1>5

\* The loads that a store gives its data to are those that were promised it.
LEMMA ForwardsPromised ==
  ASSUME LoadInv, NEW s \in Sq, sq[s].id # 0, s \notin Performed, NEW m, m = sq[s].id,
         NEW b, b = StAddr(s)
  PROVE  /\ \A d \in Forwards(s) : /\ d = <<d[1], d[2]>> /\ d[1] \in Rob /\ Live(d[1])
                                   /\ d[2] \in 1..LoadCount(rob[d[1]].id)
                                   /\ rob[d[1]].lqi[d[2]] \in Lq /\ Held(d[1], d[2])
                                   /\ Producer(d[1], d[2]) = m /\ LoadAddr(d[1], d[2]) = b
                                   /\ LastStore(m, rob[d[1]].id, b)
         /\ \A k \in Rob : Live(k) => \A x \in 1..LoadCount(rob[k].id) :
              Held(k, x) /\ Producer(k, x) = m /\ LoadAddr(k, x) = b => <<k, x>> \in Forwards(s)
<1> PICK y, c : y = sq[s].rob /\ c = sq[s].slot
  OBVIOUS
<1>1. /\ StoreInv /\ LqShape /\ EntriesTyped /\ LoadsNamed /\ StoresNamed
      /\ MemExact /\ LoadsRight /\ DepsTrue /\ Regular(trace) /\ read <= MAX_READ
  BY DEF LoadInv, Named, Places, Values, MemExact
<1>2. /\ y \in Rob /\ Live(y) /\ rob[y].id = m /\ c \in 1..StoreCount(m) /\ b = InstrAt(m).st[c]
      /\ m \in Nat \ {0} /\ m > retired /\ retired \in Nat /\ read \in Nat
      /\ \A k \in Rob : rob[k].id = m => k = y
  BY <1>1, SqNamed, Entries
<1>3. Stores(m, b)
  BY <1>2 DEF Stores
<1>4. ~Done(m, b)
  <2> SUFFICES ASSUME NEW t \in Sq, sq[t].id = m, sq[t].fetched = "COMPLETED",
                      InstrAt(m).st[sq[t].slot] = b
               PROVE FALSE
    BY DEF Done
  <2>1. t = s
    BY <1>1, <1>2, OneStore
  <2> QED
    BY <2>1 DEF Performed
<1>5. ASSUME NEW k \in rob[y].memDeps, NEW x, x \in 1..Len(rob[k].lqi), rob[k].lqi[x] # LQ_SIZE,
             Ins(k).ld[x] = b
      PROVE  /\ k \in Rob /\ Live(k) /\ x \in 1..LoadCount(rob[k].id)
             /\ rob[k].lqi[x] \in Lq /\ Held(k, x) /\ Producer(k, x) = m /\ LoadAddr(k, x) = b
             /\ LastStore(m, rob[k].id, b)
  <2> PICK n : n = rob[k].id
    OBVIOUS
  <2>1. /\ k \in Rob /\ Live(k)
        /\ \E z \in 1..LoadCount(n) : LastStore(m, n, LoadAddr(k, z))
    BY <1>1, <1>2 DEF DepsTrue
  <2>2. PICK z \in 1..LoadCount(n) : LastStore(m, n, LoadAddr(k, z))
    BY <2>1
  <2>3. n \in (retired + 1)..read /\ n \in Nat \ {0} /\ x \in 1..LoadCount(n)
    BY <1>1, <1>5, <2>1, Entries, LqiLength
  <2>4. m \in 1..(n - 1)
    BY <1>2, <2>2, <2>3 DEF LastStore
  <2>5. LoadAddr(k, x) = b /\ InstrAt(n).ld[x] = b /\ LoadAddr(k, z) = InstrAt(n).ld[z]
    BY <1>5 DEF Ins, LoadAddr
  <2>6. LastStore(m, n, b)
    <3>1. n \in 1..MAX_READ
      BY <1>1, <1>2, <2>3, SizesAssumption, SMTT(30)
    <3>2. \A i, j \in 1..LoadCount(n) : \A l \in 1..(n - 1) :
            LastStore(l, n, InstrAt(n).ld[i]) /\ Stores(l, InstrAt(n).ld[j]) => LastStore(l, n, InstrAt(n).ld[j])
      BY <1>1, <3>1, RegularTrace
    <3> QED
      BY <1>3, <2>2, <2>3, <2>4, <2>5, <3>2
  <2>7. Right(k, x)
    BY <1>1, <1>5, <2>1, <2>3 DEF LoadsRight
  <2>8. Held(k, x)
    <3> SUFFICES ASSUME ~Held(k, x) PROVE FALSE
      OBVIOUS
    <3>1. /\ LastStore(rob[k].got[x], n, b)
          /\ rob[k].got[x] > retired => Done(rob[k].got[x], b)
      BY <2>5, <2>7 DEF Right, Answered
    <3>2. rob[k].got[x] = m
      BY <2>3, <2>6, <3>1, OneLast
    <3> QED
      BY <1>2, <1>4, <3>1, <3>2
  <2>9. Producer(k, x) # 0
    <3> SUFFICES ASSUME Producer(k, x) = 0 PROVE FALSE
      OBVIOUS
    <3>1. FromMemory(k, x)
      BY <2>7, <2>8 DEF Right
    <3>2. m \in (retired + 1)..(n - 1)
      BY <1>2, <2>3, <2>4
    <3> QED
      BY <1>3, <2>5, <3>1, <3>2 DEF FromMemory
  <2>10. LastStore(Producer(k, x), n, b)
    BY <2>5, <2>7, <2>8, <2>9 DEF Right, Promised
  <2>11. Producer(k, x) = m
    BY <2>3, <2>6, <2>10, OneLast
  <2>12. rob[k].lqi[x] \in Lq
    <3>1. rob[k].lqi \in [1..LoadCount(n) -> Lq \cup {LQ_SIZE}]
      BY <1>1, <2>1 DEF EntriesTyped
    <3> QED
      BY <1>5, <2>3, <3>1
  <2> QED
    BY <2>1, <2>3, <2>5, <2>6, <2>8, <2>11, <2>12
<1>6. ASSUME NEW k \in Rob, Live(k), NEW x \in 1..LoadCount(rob[k].id),
             Held(k, x), Producer(k, x) = m, LoadAddr(k, x) = b
      PROVE  /\ <<k, x>> \in rob[y].memDeps \X (1..4) /\ x <= Len(rob[k].lqi) /\ rob[k].lqi[x] # LQ_SIZE
             /\ Ins(k).ld[x] = b
  <2>1. rob[k].lqi[x] # LQ_SIZE /\ Ins(k).ld[x] = b
    BY <1>6 DEF Held, LoadAddr, Ins
  <2>2. Right(k, x)
    BY <1>1, <1>6, <2>1 DEF LoadsRight
  <2>3. k \in rob[y].memDeps
    BY <1>2, <1>6, <2>2 DEF Right, Promised
  <2>4. LoadCount(rob[k].id) \in 0..4 /\ Len(rob[k].lqi) = LoadCount(rob[k].id)
    BY <1>1, <1>6, Entries, LqiLength
  <2>5. x \in 1..4 /\ x <= Len(rob[k].lqi)
    BY <2>4
  <2> QED
    BY <2>1, <2>3, <2>5
<1>7. ASSUME NEW d \in Forwards(s)
      PROVE  /\ d = <<d[1], d[2]>> /\ d[1] \in rob[y].memDeps /\ d[2] \in 1..Len(rob[d[1]].lqi)
             /\ rob[d[1]].lqi[d[2]] # LQ_SIZE /\ Ins(d[1]).ld[d[2]] = b
  <2>1. /\ d \in rob[y].memDeps \X (1..4) /\ d[2] <= Len(rob[d[1]].lqi)
        /\ rob[d[1]].lqi[d[2]] # LQ_SIZE /\ Ins(d[1]).ld[d[2]] = b
    BY DEF Forwards
  <2>2. d = <<d[1], d[2]>> /\ d[1] \in rob[y].memDeps /\ d[2] \in 1..4
    BY <2>1
  <2>3. d[1] \in Rob /\ Live(d[1])
    BY <1>1, <1>2, <2>2 DEF DepsTrue
  <2>4. Len(rob[d[1]].lqi) \in Nat
    BY <1>1, <2>3, Entries, LqiLength
  <2> QED
    BY <2>1, <2>2, <2>4
<1>8. \A d \in Forwards(s) : /\ d = <<d[1], d[2]>> /\ d[1] \in Rob /\ Live(d[1])
                             /\ d[2] \in 1..LoadCount(rob[d[1]].id)
                             /\ rob[d[1]].lqi[d[2]] \in Lq /\ Held(d[1], d[2])
                             /\ Producer(d[1], d[2]) = m /\ LoadAddr(d[1], d[2]) = b
                             /\ LastStore(m, rob[d[1]].id, b)
  <2> SUFFICES ASSUME NEW d \in Forwards(s)
               PROVE  /\ d = <<d[1], d[2]>> /\ d[1] \in Rob /\ Live(d[1])
                      /\ d[2] \in 1..LoadCount(rob[d[1]].id)
                      /\ rob[d[1]].lqi[d[2]] \in Lq /\ Held(d[1], d[2])
                      /\ Producer(d[1], d[2]) = m /\ LoadAddr(d[1], d[2]) = b
                      /\ LastStore(m, rob[d[1]].id, b)
    OBVIOUS
  <2> PICK k, x : k = d[1] /\ x = d[2]
    OBVIOUS
  <2>1. /\ d = <<d[1], d[2]>> /\ k \in rob[y].memDeps /\ x \in 1..Len(rob[k].lqi)
        /\ rob[k].lqi[x] # LQ_SIZE /\ Ins(k).ld[x] = b
    BY <1>7
  <2>2. /\ k \in Rob /\ Live(k) /\ x \in 1..LoadCount(rob[k].id)
        /\ rob[k].lqi[x] \in Lq /\ Held(k, x) /\ Producer(k, x) = m /\ LoadAddr(k, x) = b
        /\ LastStore(m, rob[k].id, b)
    BY <1>5, <2>1
  <2> QED
    BY <2>1, <2>2
<1>9. ASSUME NEW k \in Rob, Live(k), NEW x \in 1..LoadCount(rob[k].id),
             Held(k, x), Producer(k, x) = m, LoadAddr(k, x) = b
      PROVE  <<k, x>> \in Forwards(s)
  <2>1. /\ <<k, x>> \in rob[y].memDeps \X (1..4) /\ x <= Len(rob[k].lqi) /\ rob[k].lqi[x] # LQ_SIZE
        /\ Ins(k).ld[x] = b
    BY <1>6, <1>9
  <2> QED
    BY <2>1 DEF Forwards
<1> QED
  BY <1>8, <1>9

\* The assignments of execute_store: store s of instruction m, entry y, to loads F.
Executed(s, F, m, y) ==
  /\ sq' = [sq EXCEPT ![s].fetched = "COMPLETED"]
  /\ lq' = [q \in Lq |-> IF \E d \in F : rob[d[1]].lqi[d[2]] = q THEN FreeLsq ELSE lq[q]]
  /\ rob' = [k \in Rob |->
       [rob[k] EXCEPT !.ops = rob[k].ops - (IF k = y THEN 1 ELSE 0) - Cardinality({d \in F : d[1] = k}),
          !.got = [j \in DOMAIN @ |-> IF <<k, j>> \in F THEN m ELSE @[j]]]]

LEMMA ExecuteStoreForm ==
  ASSUME ExecuteStore
  PROVE  \E s, F, m, y : /\ s = Head(rts1) /\ F = Forwards(s) /\ m = sq[s].id /\ y = sq[s].rob
                        /\ Executed(s, F, m, y)
<1> DEFINE s == Head(rts1)
           F == Forwards(s)
           m == sq[s].id
           y == sq[s].rob
<1>1. Executed(s, F, m, y)
  BY Zenon DEF ExecuteStore, Executed
<1> HIDE DEF s, F, m, y
<1>2. s = Head(rts1) /\ F = Forwards(s) /\ m = sq[s].id /\ y = sq[s].rob
  BY DEF s, F, m, y
<1> QED
  BY <1>1, <1>2

\* execute_store: the loads that were promised the store are given it.
LEMMA LoadsAtExecuteStore ==
  ASSUME LoadInv, ExecuteStore
  PROVE  Named' /\ Places' /\ Values' /\ Regular(trace)'
<1> PICK s, F, m, y : /\ s = Head(rts1) /\ F = Forwards(s) /\ m = sq[s].id /\ y = sq[s].rob
                      /\ Executed(s, F, m, y)
  BY ExecuteStoreForm
<1> PICK c, b : c = sq[s].slot /\ b = StAddr(s)
  OBVIOUS
<1>1. /\ RobShape /\ StoreInv /\ LqShape /\ EntriesTyped /\ LoadsNamed /\ StoresNamed
      /\ PlacesTyped /\ LoadRings /\ StoreRings /\ MemExact /\ LoadsRight /\ DepsTrue /\ OpsExact
      /\ Regular(trace) /\ SqShape /\ read <= MAX_READ
  BY DEF LoadInv, StoreInv, FlowInv, RobInv, Named, Places, Values, MemExact
<1>2. /\ UNCHANGED <<trace, retired, read, mem, rtl0, rtl1, rts0, dtlb, l1d>>
      /\ rts1 # <<>> /\ rts1' = Tail(rts1)
      /\ sq' = [sq EXCEPT ![s].fetched = "COMPLETED"]
  <2>1. /\ UNCHANGED <<trace, retired, read, mem, rtl0, rtl1, rts0, dtlb, l1d>>
        /\ rts1 # <<>> /\ rts1' = Tail(rts1)
    BY DEF ExecuteStore, arch, port
  <2>2. sq' = [sq EXCEPT ![s].fetched = "COMPLETED"]
    BY DEF Executed
  <2> QED
    BY <2>1, <2>2
<1>24. trace' = trace /\ retired' = retired
  BY <1>2
<1>3. /\ s \in Sq /\ s \in Range(rts1) /\ rts1' \in Seq(Sq) /\ IsInjective(rts1')
      /\ Range(rts1') = Range(rts1) \ {s}
  <2>1. rts1 \in Seq(Sq) /\ IsInjective(rts1)
    BY <1>1 DEF PlacesTyped, StoreRings
  <2> QED
    BY <1>2, <2>1, RingTail
<1>4. m # 0 /\ s \notin Performed
  BY <1>1, <1>3 DEF StoreRings, Parted
<1>5. /\ y \in Rob /\ Live(y) /\ rob[y].id = m /\ c \in 1..StoreCount(m) /\ b = InstrAt(m).st[c]
      /\ rob[y].sqi[c] = s /\ m \in Nat \ {0} /\ m > retired /\ retired \in Nat /\ read \in Nat
      /\ LQ_SIZE \notin Lq /\ s # SQ_SIZE
      /\ \A k \in Rob : rob[k].id = m => k = y
  BY <1>1, <1>3, <1>4, SqNamed, Entries, SMTT(30)
<1>6. /\ \A d \in F : /\ d = <<d[1], d[2]>> /\ d[1] \in Rob /\ Live(d[1])
                      /\ d[2] \in 1..LoadCount(rob[d[1]].id)
                      /\ rob[d[1]].lqi[d[2]] \in Lq /\ Held(d[1], d[2])
                      /\ Producer(d[1], d[2]) = m /\ LoadAddr(d[1], d[2]) = b
                      /\ LastStore(m, rob[d[1]].id, b)
      /\ \A k \in Rob : Live(k) => \A x \in 1..LoadCount(rob[k].id) :
           Held(k, x) /\ Producer(k, x) = m /\ LoadAddr(k, x) = b => <<k, x>> \in F
  BY <1>3, <1>4, ForwardsPromised
<1>7. ASSUME NEW k \in Rob, NEW x, <<k, x>> \in F
      PROVE  /\ Live(k) /\ x \in 1..LoadCount(rob[k].id) /\ rob[k].lqi[x] \in Lq
             /\ Held(k, x) /\ Producer(k, x) = m /\ LoadAddr(k, x) = b /\ LastStore(m, rob[k].id, b)
  <2> PICK d : d = <<k, x>>
    OBVIOUS
  <2>1. d[1] = k /\ d[2] = x /\ d \in F
    BY <1>7
  <2> QED
    BY <1>6, <2>1
<1>8. /\ SqShape' /\ SameSlots(sq, sq', Sq)
      /\ \A x \in Sq : sq'[x].fetched = IF x = s THEN "COMPLETED" ELSE sq[x].fetched
  <2>1. Shaped(sq, Sq)
    BY <1>1 DEF SqShape, Shaped
  <2>2. LET h == [sq EXCEPT ![s].fetched = "COMPLETED"] IN
        /\ Shaped(h, Sq) /\ SameSlots(sq, h, Sq)
        /\ \A x \in Sq : h[x].fetched = IF x = s THEN "COMPLETED" ELSE sq[x].fetched
    BY <2>1, MarkFetched
  <2>3. Shaped(sq', Sq)
    BY <1>2, <2>2
  <2> QED
    BY <1>2, <2>2, <2>3 DEF SqShape, Shaped
<1>9. \A x \in Sq : sq'[x].id = sq[x].id /\ sq'[x].rob = sq[x].rob /\ sq'[x].slot = sq[x].slot
  BY <1>8 DEF SameSlots
<1>10. ASSUME NEW k \in Rob
       PROVE  /\ rob'[k].id = rob[k].id /\ rob'[k].lqi = rob[k].lqi /\ rob'[k].sqi = rob[k].sqi
              /\ rob'[k].memDeps = rob[k].memDeps /\ rob'[k].executed = rob[k].executed
              /\ rob'[k].ops = rob[k].ops - (IF k = y THEN 1 ELSE 0) - Cardinality({d \in F : d[1] = k})
              /\ rob'[k].got = [j \in DOMAIN rob[k].got |-> IF <<k, j>> \in F THEN m ELSE rob[k].got[j]]
  <2> DEFINE o == rob[k].ops - (IF k = y THEN 1 ELSE 0) - Cardinality({d \in F : d[1] = k})
             g == [j \in DOMAIN rob[k].got |-> IF <<k, j>> \in F THEN m ELSE rob[k].got[j]]
  <2>1. rob'[k] = [rob[k] EXCEPT !.ops = o, !.got = g]
    BY DEF Executed
  <2>2. rob[k] = [f \in Fields |-> rob[k][f]]
    BY <1>1 DEF RobShape
  <2> HIDE DEF o, g
  <2>3. DOMAIN rob[k] = Fields
    BY <2>2, Zenon
  <2>4. rob'[k] = [f \in Fields |-> IF f = "ops" THEN o ELSE IF f = "got" THEN g ELSE rob[k][f]]
    BY <2>1, <2>3 DEF Fields
  <2>5. rob'[k].ops = o /\ rob'[k].got = g
    BY <2>4 DEF Fields
  <2>6. /\ rob'[k].id = rob[k].id /\ rob'[k].lqi = rob[k].lqi /\ rob'[k].sqi = rob[k].sqi
        /\ rob'[k].memDeps = rob[k].memDeps /\ rob'[k].executed = rob[k].executed
    BY <2>4 DEF Fields
  <2> QED
    BY <2>5, <2>6 DEF o, g
<1>25. ASSUME NEW k \in Rob, Live(k)
       PROVE  rob'[k].got = [j \in 1..LoadCount(rob[k].id) |-> IF <<k, j>> \in F THEN m ELSE rob[k].got[j]]
  <2>1. rob'[k].got = [j \in DOMAIN rob[k].got |-> IF <<k, j>> \in F THEN m ELSE rob[k].got[j]]
    BY <1>10
  <2>2. DOMAIN rob[k].got = 1..LoadCount(rob[k].id)
    BY <1>1, <1>25 DEF EntriesTyped
  <2> QED
    BY <2>1, <2>2
<1>11. \A k \in Rob : /\ rob'[k].id = rob[k].id /\ rob'[k].lqi = rob[k].lqi /\ rob'[k].sqi = rob[k].sqi
                      /\ rob'[k].memDeps = rob[k].memDeps /\ rob'[k].executed = rob[k].executed
  BY <1>10
<1>12. /\ \A x : InstrAt(x)' = InstrAt(x) /\ LoadCount(x)' = LoadCount(x) /\ StoreCount(x)' = StoreCount(x)
       /\ \A l, x, a : LastStore(l, x, a)' <=> LastStore(l, x, a)
       /\ Regular(trace)'
  BY <1>1, <1>2, TraceKept
<1>13. /\ \A k \in Rob : Live(k)' <=> Live(k)
       /\ \A k \in Rob : \A x : LoadAddr(k, x)' = LoadAddr(k, x)
  BY <1>11, <1>12 DEF Live, LoadAddr
<1>14. \A x, a : Done(x, a)' <=> Done(x, a) \/ (x = m /\ a = b)
  <2> SUFFICES ASSUME NEW x, NEW a
               PROVE  Done(x, a)' <=> Done(x, a) \/ (x = m /\ a = b)
    OBVIOUS
  <2>1. Done(x, a)' => Done(x, a) \/ (x = m /\ a = b)
    <3> SUFFICES ASSUME NEW t \in Sq, sq'[t].id = x, sq'[t].fetched = "COMPLETED",
                        InstrAt(x).st[sq'[t].slot] = a
                 PROVE  Done(x, a) \/ (x = m /\ a = b)
      BY <1>12 DEF Done
    <3>1. CASE t = s
      BY <1>5, <1>9, <3>1
    <3>2. CASE t # s
      BY <1>8, <1>9, <3>2 DEF Done
    <3> QED
      BY <3>1, <3>2
  <2>2. Done(x, a) => Done(x, a)'
    BY <1>8, <1>9, <1>12 DEF Done
  <2>3. Done(m, b)'
    BY <1>3, <1>5, <1>8, <1>9, <1>12 DEF Done
  <2> QED
    BY <2>1, <2>2, <2>3
<1>15. \A q \in Lq : /\ (\E d \in F : rob[d[1]].lqi[d[2]] = q) => lq'[q] = FreeLsq
                     /\ ~(\E d \in F : rob[d[1]].lqi[d[2]] = q) => lq'[q] = lq[q]
  BY DEF Executed
<1>16. FreeLsq.id = 0 /\ FreeLsq = [f \in LsqFields |-> FreeLsq[f]]
  BY DEF FreeLsq, LsqFields
<1>17. ASSUME NEW k \in Rob, Live(k), NEW x \in 1..LoadCount(rob[k].id)
       PROVE  /\ Held(k, x)' <=> Held(k, x) /\ <<k, x>> \notin F
              /\ Held(k, x)' => Producer(k, x)' = Producer(k, x)
              /\ rob'[k].got[x] = IF <<k, x>> \in F THEN m ELSE rob[k].got[x]
              /\ rob[k].got[x] \in Nat
  <2> PICK q : q = rob[k].lqi[x]
    OBVIOUS
  <2>1. q \in Lq \cup {LQ_SIZE}
    <3>1. rob[k].lqi \in [1..LoadCount(rob[k].id) -> Lq \cup {LQ_SIZE}]
      BY <1>1, <1>17 DEF EntriesTyped
    <3> QED
      BY <3>1
  <2>2. rob[k].got \in [1..LoadCount(rob[k].id) -> Nat]
    BY <1>1, <1>17 DEF EntriesTyped
  <2>3. rob'[k].got[x] = (IF <<k, x>> \in F THEN m ELSE rob[k].got[x]) /\ rob[k].got[x] \in Nat
    <3>1. rob'[k].got = [j \in 1..LoadCount(rob[k].id) |-> IF <<k, j>> \in F THEN m ELSE rob[k].got[j]]
      BY <1>17, <1>25
    <3> QED
      BY <1>17, <2>2, <3>1
  <2>4. CASE <<k, x>> \in F
    <3>1. q \in Lq /\ lq'[q] = FreeLsq
      <4> PICK d : d = <<k, x>>
        OBVIOUS
      <4>1. d[1] = k /\ d[2] = x /\ d \in F
        BY <2>4
      <4>2. \E e \in F : rob[e[1]].lqi[e[2]] = q
        BY <4>1
      <4> QED
        BY <1>7, <1>15, <2>4, <4>2
    <3>2. ~Held(k, x)'
      BY <1>11, <1>16, <1>17, <3>1 DEF Held, Live
    <3> QED
      BY <2>3, <2>4, <3>2
  <2>5. CASE <<k, x>> \notin F
    <3>1. ASSUME NEW d \in F, rob[d[1]].lqi[d[2]] = q PROVE ~Held(k, x)
      <4> SUFFICES ASSUME Held(k, x) PROVE FALSE
        OBVIOUS
      <4>1. lq[q].id = rob[k].id /\ lq[q].slot = x
        BY DEF Held
      <4>2. /\ d = <<d[1], d[2]>> /\ d[1] \in Rob /\ Live(d[1])
            /\ lq[q].id = rob[d[1]].id /\ lq[q].slot = d[2]
        BY <1>6, <3>1, ZenonT(40) DEF Held
      <4>3. d[1] = k
        BY <1>1, <1>17, <4>1, <4>2, Entries
      <4> QED
        BY <2>5, <4>1, <4>2, <4>3
    <3>2. CASE \E d \in F : rob[d[1]].lqi[d[2]] = q
      <4>1. ~Held(k, x)
        BY <3>1, <3>2
      <4>2. ~Held(k, x)'
        <5>1. q # LQ_SIZE => lq'[q] = FreeLsq
          BY <1>15, <2>1, <3>2
        <5> QED
          BY <1>11, <1>16, <1>17, <5>1 DEF Held, Live
      <4> QED
        BY <2>3, <2>5, <4>1, <4>2
    <3>3. CASE ~(\E d \in F : rob[d[1]].lqi[d[2]] = q)
      <4>1. q # LQ_SIZE => lq'[q] = lq[q]
        BY <1>15, <2>1, <3>3
      <4>2. rob'[k].lqi[x] = q /\ rob'[k].id = rob[k].id
        BY <1>11
      <4>3. (Held(k, x)' <=> Held(k, x)) /\ (Held(k, x)' => Producer(k, x)' = Producer(k, x))
        BY <4>1, <4>2 DEF Held, Producer
      <4> QED
        BY <2>3, <2>5, <4>3
    <3> QED
      BY <3>2, <3>3
  <2> QED
    BY <2>4, <2>5
<1>18. Named'
  <2>1. LqShape'
    <3>1. lq' = [q \in Lq |-> lq'[q]]
      BY DEF Executed
    <3>2. \A q \in Lq : lq'[q] = FreeLsq \/ lq'[q] = lq[q]
      BY <1>15
    <3>3. ASSUME NEW q \in Lq PROVE lq'[q] = [f \in LsqFields |-> lq'[q][f]]
      BY <1>1, <1>16, <3>2, Zenon DEF LqShape
    <3> QED
      BY <3>1, <3>3 DEF LqShape
  <2>2. EntriesTyped'
    <3> SUFFICES ASSUME NEW k \in Rob, Live(k)
                 PROVE  /\ rob'[k].lqi \in [1..LoadCount(rob[k].id) -> Lq \cup {LQ_SIZE}]
                        /\ rob'[k].got \in [1..LoadCount(rob[k].id) -> Nat]
      BY <1>11, <1>12, <1>13 DEF EntriesTyped
    <3>1. /\ rob[k].lqi \in [1..LoadCount(rob[k].id) -> Lq \cup {LQ_SIZE}]
          /\ rob[k].got \in [1..LoadCount(rob[k].id) -> Nat]
      BY <1>1 DEF EntriesTyped
    <3>2. rob'[k].got = [j \in 1..LoadCount(rob[k].id) |-> IF <<k, j>> \in F THEN m ELSE rob[k].got[j]]
      BY <1>25
    <3>3. rob'[k].got \in [1..LoadCount(rob[k].id) -> Nat]
      <4>1. \A j \in 1..LoadCount(rob[k].id) : (IF <<k, j>> \in F THEN m ELSE rob[k].got[j]) \in Nat
        BY <1>5, <3>1
      <4> QED
        BY <3>2, <4>1
    <3> QED
      BY <1>11, <3>1, <3>3
  <2>3. LoadsNamed'
    <3> SUFFICES ASSUME NEW q \in Lq, lq'[q].id # 0
                 PROVE  /\ lq'[q].rob \in Rob /\ rob'[lq'[q].rob].id = lq'[q].id
                        /\ lq'[q].slot \in 1..LoadCount(lq'[q].id)
                        /\ rob'[lq'[q].rob].lqi[lq'[q].slot] = q
      BY <1>12 DEF LoadsNamed
    <3>1. lq'[q] = lq[q]
      BY <1>15, <1>16
    <3> QED
      BY <1>1, <1>11, <3>1 DEF LoadsNamed
  <2>4. StoresNamed'
    <3> SUFFICES ASSUME NEW k \in Rob, Live(k), NEW x \in 1..StoreCount(rob[k].id), rob[k].sqi[x] # SQ_SIZE
                 PROVE  sq'[rob[k].sqi[x]].rob = k /\ sq'[rob[k].sqi[x]].slot = x
      BY <1>11, <1>12, <1>13 DEF StoresNamed
    <3>1. rob[k].sqi[x] \in Sq
      BY <1>1, StoreSlots
    <3> QED
      BY <1>1, <1>9, <3>1 DEF StoresNamed
  <2> QED
    BY <2>1, <2>2, <2>3, <2>4 DEF Named
<1>19. Places'
  <2> DEFINE All == {x \in Sq : sq[x].id # 0}
  <2>1. All' = All
    BY <1>9
  <2>2. Performed' = Performed \cup {s}
    BY <1>3, <1>8 DEF Performed
  <2>3. ToMemory' = ToMemory
    <3> SUFFICES ASSUME NEW q \in Lq
                 PROVE  lq'[q].id # 0 /\ lq'[q].producer = 0 <=> lq[q].id # 0 /\ lq[q].producer = 0
      BY DEF ToMemory
    <3>1. CASE \E d \in F : rob[d[1]].lqi[d[2]] = q
      <4>1. PICK d \in F : rob[d[1]].lqi[d[2]] = q
        BY <3>1
      <4>2. lq[q].producer = m
        BY <1>6, <4>1 DEF Producer
      <4> QED
        BY <1>4, <1>15, <1>16, <3>1, <4>2
    <3>2. CASE ~(\E d \in F : rob[d[1]].lqi[d[2]] = q)
      BY <1>15, <3>2
    <3> QED
      BY <3>1, <3>2
  <2>4. LoadsAtDtlb' = LoadsAtDtlb /\ StoresAtDtlb' = StoresAtDtlb
    BY <1>2 DEF LoadsAtDtlb, StoresAtDtlb
  <2>5. Parted(Range(rts0), StoresAtDtlb, Range(rts1), Performed, All)
    BY <1>1 DEF StoreRings
  <2>6. Parted(Range(rts0), StoresAtDtlb, Range(rts1) \ {s}, Performed \cup {s}, All)
    BY <1>3, <2>5, PartsMove
  <2>7. LoadRings' /\ PlacesTyped'
    BY <1>1, <1>2, <1>3, <2>3, <2>4 DEF LoadRings, PlacesTyped
  <2>8. StoreRings'
    BY <1>1, <1>2, <1>3, <2>1, <2>2, <2>4, <2>6 DEF StoreRings
  <2> QED
    BY <2>7, <2>8 DEF Places
<1>20. MemExact'
  BY <1>1, <1>2, MemKept
<1>21. LoadsRight'
  <2> SUFFICES ASSUME NEW k \in Rob, Live(k), NEW x \in 1..LoadCount(rob[k].id), rob[k].lqi[x] # LQ_SIZE
               PROVE  Right(k, x)'
    BY <1>11, <1>12, <1>13 DEF LoadsRight
  <2>1. Right(k, x)
    BY <1>1 DEF LoadsRight
  <2>2. CASE <<k, x>> \in F
    <3>1. ~Held(k, x)' /\ rob'[k].got[x] = m
      BY <1>17, <2>2
    <3>2. LoadAddr(k, x)' = b /\ LastStore(m, rob[k].id, b)' /\ rob'[k].id = rob[k].id /\ Done(m, b)'
      BY <1>7, <1>11, <1>12, <1>13, <1>14, <2>2
    <3>3. Answered(k, x)'
      BY <3>1, <3>2 DEF Answered
    <3> QED
      BY <3>1, <3>3 DEF Right
  <2>3. CASE <<k, x>> \notin F
    <3>1. rob'[k].got[x] = rob[k].got[x] /\ rob[k].got[x] \in Nat
      BY <1>17, <2>3
    <3>2. (Held(k, x)' <=> Held(k, x)) /\ (Held(k, x) => Producer(k, x)' = Producer(k, x))
      BY <1>17, <2>3
    <3> PICK p, a : p = Producer(k, x) /\ a = LoadAddr(k, x)
      OBVIOUS
    <3>3. Held(k, x) /\ p # 0 => p > retired
      BY <2>1 DEF Right, Promised
    <3>4. Held(k, x) => (Done(p, a)' => Done(p, a))
      <4>1. Held(k, x) => ~(p = m /\ a = b)
        BY <1>6, <2>3
      <4> QED
        BY <1>14, <4>1
    <3>5. rob[k].id \in Nat
      BY <1>1, Entries
    <3>6. trace' = trace /\ retired' = retired /\ retired <= retired' /\ rob'[k].id = rob[k].id
      BY <1>5, <1>11, <1>24
    <3>7. DoneKept /\ \A z \in Rob : rob'[z].id = rob[z].id /\ rob'[z].memDeps = rob[z].memDeps
      BY <1>11, <1>14 DEF DoneKept
    <3> QED
      BY <1>5, <2>1, <3>1, <3>2, <3>3, <3>4, <3>5, <3>6, <3>7, RightKept
  <2> QED
    BY <2>2, <2>3
<1>22. DepsTrue'
  <2> SUFFICES ASSUME NEW k \in Rob, NEW x \in rob[k].memDeps
               PROVE  /\ x \in Rob /\ Live(k)' /\ Live(x)'
                      /\ \E z \in (1..LoadCount(rob[x].id))' : LastStore(rob[k].id, rob[x].id, LoadAddr(x, z))'
    BY <1>11 DEF DepsTrue
  <2>1. /\ x \in Rob /\ Live(k) /\ Live(x)
        /\ \E z \in 1..LoadCount(rob[x].id) : LastStore(rob[k].id, rob[x].id, LoadAddr(x, z))
    BY <1>1 DEF DepsTrue
  <2> QED
    BY <1>11, <1>12, <1>13, <2>1
<1>23. OpsExact'
  <2> SUFFICES ASSUME NEW k \in Rob, Live(k)
               PROVE  /\ rob'[k].ops = Cardinality(LoadsDue(k)') + Cardinality(StoresDue(k)')
                      /\ rob'[k].executed = "COMPLETED" => LoadsDue(k)' = {} /\ StoresDue(k)' = {}
    BY <1>13 DEF OpsExact
  <2>1. /\ rob[k].ops = Cardinality(LoadsDue(k)) + Cardinality(StoresDue(k))
        /\ rob[k].executed = "COMPLETED" => LoadsDue(k) = {} /\ StoresDue(k) = {}
    BY <1>1 DEF OpsExact
  <2> DEFINE X == {x \in 1..LoadCount(rob[k].id) : <<k, x>> \in F}
  <2>2. LoadsDue(k)' = LoadsDue(k) \ X /\ X \subseteq LoadsDue(k)
    <3>1. \A x \in 1..LoadCount(rob[k].id) :
            /\ (rob'[k].lqi[x] = LQ_SIZE \/ Held(k, x)') <=>
                 (rob[k].lqi[x] = LQ_SIZE \/ Held(k, x)) /\ x \notin X
            /\ x \in X => Held(k, x)
      <4> SUFFICES ASSUME NEW x \in 1..LoadCount(rob[k].id)
                   PROVE  /\ (rob'[k].lqi[x] = LQ_SIZE \/ Held(k, x)') <=>
                               (rob[k].lqi[x] = LQ_SIZE \/ Held(k, x)) /\ <<k, x>> \notin F
                          /\ <<k, x>> \in F => Held(k, x)
        OBVIOUS
      <4>1. <<k, x>> \in F => Held(k, x) /\ rob[k].lqi[x] # LQ_SIZE
        BY <1>5, <1>7
      <4> QED
        BY <1>11, <1>17, <4>1
    <3> HIDE DEF X
    <3>2. X \subseteq 1..LoadCount(rob[k].id)
      BY DEF X
    <3> QED
      BY <1>11, <1>12, <3>1, <3>2 DEF LoadsDue
  <2>3. StoresDue(k)' = IF k = y THEN StoresDue(k) \ {c} ELSE StoresDue(k)
    <3> SUFFICES ASSUME NEW x \in 1..StoreCount(rob[k].id)
                 PROVE  (rob[k].sqi[x] = SQ_SIZE \/ sq'[rob[k].sqi[x]].fetched # "COMPLETED") <=>
                          /\ (rob[k].sqi[x] = SQ_SIZE \/ sq[rob[k].sqi[x]].fetched # "COMPLETED")
                          /\ ~(k = y /\ x = c)
      BY <1>11, <1>12 DEF StoresDue
    <3>1. rob[k].sqi[x] # SQ_SIZE => rob[k].sqi[x] \in Sq
      BY <1>1, StoreSlots
    <3>2. rob[k].sqi[x] = s <=> k = y /\ x = c
      BY <1>1, <1>5 DEF StoresNamed
    <3> QED
      BY <1>5, <1>8, <3>1, <3>2
  <2>4. /\ IsFiniteSet(LoadsDue(k)) /\ Cardinality(LoadsDue(k)) \in Nat
        /\ IsFiniteSet(StoresDue(k)) /\ Cardinality(StoresDue(k)) \in Nat
    BY <1>1, DueFinite
  <2>5. Cardinality({d \in F : d[1] = k}) = Cardinality(X)
    <3>1. {d \in F : d[1] = k} = {<<k, x>> : x \in X}
      <4>1. ASSUME NEW d \in F, d[1] = k PROVE d \in {<<k, x>> : x \in X}
        <5>1. d = <<k, d[2]>> /\ d[2] \in 1..LoadCount(rob[k].id)
          BY <1>6, <4>1
        <5> QED
          BY <5>1
      <4>2. ASSUME NEW x \in X PROVE <<k, x>> \in F /\ <<k, x>>[1] = k
        OBVIOUS
      <4> HIDE DEF X
      <4> QED
        BY <4>1, <4>2
    <3>2. IsFiniteSet(X)
      BY <2>2, <2>4, FS_Subset
    <3> HIDE DEF X
    <3>3. Cardinality({<<k, x>> : x \in X}) = Cardinality(X)
      BY <3>2, PairCount, Zenon
    <3> QED
      BY <3>1, <3>3
  <2> HIDE DEF X
  <2>6. Cardinality(LoadsDue(k) \ X) = Cardinality(LoadsDue(k)) - Cardinality(X)
    <3>1. LoadsDue(k) \cap X = X
      BY <2>2
    <3>2. Cardinality(LoadsDue(k) \ X) = Cardinality(LoadsDue(k)) - Cardinality(LoadsDue(k) \cap X)
      BY <2>4, FS_Difference
    <3> QED
      BY <3>1, <3>2
  <2>7. Cardinality(X) \in Nat
    BY <2>2, <2>4, FS_Subset, FS_CardinalityType
  <2>8. k = y => Cardinality(StoresDue(k) \ {c}) = Cardinality(StoresDue(k)) - 1
    <3> SUFFICES ASSUME k = y PROVE Cardinality(StoresDue(k) \ {c}) = Cardinality(StoresDue(k)) - 1
      OBVIOUS
    <3>1. c \in StoresDue(k)
      BY <1>3, <1>4, <1>5 DEF StoresDue, Performed
    <3> QED
      BY <2>4, <3>1, FS_RemoveElement
  <2>9. rob'[k].ops = rob[k].ops - (IF k = y THEN 1 ELSE 0) - Cardinality(X)
    <3>1. rob'[k].ops = rob[k].ops - (IF k = y THEN 1 ELSE 0) - Cardinality({d \in F : d[1] = k})
      BY <1>10
    <3> QED
      BY <2>5, <3>1
  <2>10. rob'[k].executed = rob[k].executed
    BY <1>11
  <2>11. rob'[k].ops = Cardinality(LoadsDue(k)') + Cardinality(StoresDue(k)')
    <3>1. CASE k = y
      <4>1. StoresDue(k)' = StoresDue(k) \ {c} /\ rob'[k].ops = rob[k].ops - 1 - Cardinality(X)
        BY <2>3, <2>9, <3>1
      <4> QED
        BY <2>1, <2>2, <2>4, <2>6, <2>7, <2>8, <3>1, <4>1, SMTT(30)
    <3>2. CASE k # y
      <4>1. StoresDue(k)' = StoresDue(k) /\ rob'[k].ops = rob[k].ops - 0 - Cardinality(X)
        BY <2>3, <2>9, <3>2
      <4> QED
        BY <2>1, <2>2, <2>4, <2>6, <2>7, <4>1
    <3> QED
      BY <3>1, <3>2
  <2>12. LoadsDue(k)' \subseteq LoadsDue(k) /\ StoresDue(k)' \subseteq StoresDue(k)
    BY <2>2, <2>3
  <2> QED
    BY <2>1, <2>10, <2>11, <2>12
<1> QED
  BY <1>12, <1>18, <1>19, <1>20, <1>21, <1>22, <1>23 DEF Values

\* The entry that retires: its loads have been given, its stores have executed.
LEMMA HeadDone ==
  ASSUME LoadInv, Retire, NEW n, n = retired + 1
  PROVE  /\ head \in Rob /\ Live(head) /\ rob[head].id = n /\ n \in (retired + 1)..read
         /\ \A j \in 1..LoadCount(n) : rob[head].lqi[j] # LQ_SIZE /\ ~Held(head, j)
         /\ \A a : Stores(n, a) => Done(n, a)
         /\ \A s \in Sq : /\ s \in ToSet(rob[head].sqi) <=> sq[s].id = n
                          /\ sq[s].id = n => s \in Performed
         /\ \A q \in Lq : lq[q].id # n
         /\ \A a : a \in ToSet(Ins(head).st) <=> Stores(n, a)
<1> PICK h : h = head
  OBVIOUS
<1>1. /\ StoreInv /\ EntriesTyped /\ LoadsNamed /\ StoresNamed /\ OpsExact /\ RobInv
  BY DEF LoadInv, StoreInv, FlowInv, Named, Values
<1>2. rob[h].id # 0 /\ rob[h].executed = "COMPLETED"
  BY DEF Retire
<1>3. h \in Rob /\ Live(h) /\ rob[h].id = n /\ n \in (retired + 1)..read /\ n \in Nat \ {0}
  <2>1. h \in Rob /\ Live(h) /\ rob[h].id \in (retired + 1)..read
    BY <1>1, <1>2, Entries DEF Live
  <2>2. occupancy > 0 /\ retired \in Nat /\ read \in Nat
    <3>1. read = retired + occupancy /\ retired \in Nat /\ occupancy \in Nat
      BY <1>1, Sizes DEF RobInv, CoreTypes, RobRing
    <3> QED
      BY <2>1, <3>1
  <2>3. rob[h].id = n
    BY <1>1, <2>2, Numbered
  <2> QED
    BY <2>1, <2>2, <2>3
<1>4. \A k \in Rob : rob[k].id = n => k = h
  BY <1>1, <1>3, Entries
<1>5. LoadsDue(h) = {} /\ StoresDue(h) = {}
  BY <1>1, <1>2, <1>3 DEF OpsExact
<1>6. \A j \in 1..LoadCount(n) : rob[h].lqi[j] # LQ_SIZE /\ ~Held(h, j)
  BY <1>3, <1>5 DEF LoadsDue
<1>7. ASSUME NEW j \in 1..StoreCount(n)
      PROVE  /\ rob[h].sqi[j] \in Sq /\ sq[rob[h].sqi[j]].id = n /\ sq[rob[h].sqi[j]].slot = j
             /\ sq[rob[h].sqi[j]].fetched = "COMPLETED"
  <2>1. rob[h].sqi[j] # SQ_SIZE /\ sq[rob[h].sqi[j]].fetched = "COMPLETED"
    BY <1>3, <1>5 DEF StoresDue
  <2>2. rob[h].sqi[j] \in Sq /\ sq[rob[h].sqi[j]].id = n
    BY <1>1, <1>3, <2>1, StoreSlots
  <2> QED
    BY <1>1, <1>3, <2>1, <2>2 DEF StoresNamed
<1>8. ASSUME NEW a, Stores(n, a) PROVE Done(n, a)
  BY <1>7, <1>8 DEF Stores, Done
<1>9. \A s \in Sq : sq[s].id = n => \E j \in 1..StoreCount(n) : rob[h].sqi[j] = s
  BY <1>1, <1>3, <1>4, SqNamed
<1>10. ToSet(rob[h].sqi) = {rob[h].sqi[j] : j \in 1..StoreCount(n)}
  <2>1. DOMAIN rob[h].sqi = 1..StoreCount(n)
    BY <1>1, <1>3, SqiLength
  <2> QED
    BY <2>1, Zenon DEF ToSet
<1>11. \A s \in Sq : /\ s \in ToSet(rob[h].sqi) <=> sq[s].id = n
                     /\ sq[s].id = n => s \in Performed
  BY <1>7, <1>9, <1>10 DEF Performed
<1>12. ASSUME NEW q \in Lq, lq[q].id = n PROVE FALSE
  <2>1. lq[q].rob = h /\ lq[q].slot \in 1..LoadCount(n) /\ rob[h].lqi[lq[q].slot] = q
    BY <1>1, <1>3, <1>4, <1>12 DEF LoadsNamed
  <2>2. Held(h, lq[q].slot)
    BY <1>3, <1>6, <1>12, <2>1 DEF Held
  <2> QED
    BY <1>6, <2>1, <2>2
<1>13. \A a : a \in ToSet(Ins(h).st) <=> Stores(n, a)
  <2>1. Ins(h).st = InstrAt(n).st
    BY <1>3 DEF Ins
  <2>2. DOMAIN InstrAt(n).st = 1..StoreCount(n)
    <3>1. InstrAt(n).st \in Seq(Addr)
      BY <1>1, <1>3, StoreCounts, Entries
    <3> QED
      BY <3>1, LenProperties DEF StoreCount
  <2>3. ToSet(InstrAt(n).st) = {InstrAt(n).st[j] : j \in 1..StoreCount(n)}
    BY <2>2, Zenon DEF ToSet
  <2> QED
    BY <2>1, <2>3 DEF Stores
<1> QED
  BY <1>3, <1>6, <1>8, <1>11, <1>12, <1>13

\* retire_rob: the stores of the entry are performed in memory and leave SQ.
LEMMA LoadsAtRetire ==
  ASSUME LoadInv, Retire
  PROVE  Named' /\ Places' /\ Values' /\ Regular(trace)'
<1> PICK h, n : h = head /\ n = retired + 1
  OBVIOUS
<1>1. /\ RobShape /\ StoreInv /\ LqShape /\ EntriesTyped /\ LoadsNamed /\ StoresNamed
      /\ PlacesTyped /\ LoadRings /\ StoreRings /\ MemExact /\ LoadsRight /\ DepsTrue /\ OpsExact
      /\ Regular(trace) /\ SqShape
  BY DEF LoadInv, StoreInv, FlowInv, RobInv, Named, Places, Values
<1>2. /\ UNCHANGED <<trace, read, lq, rtl0, rtl1, rts0, rts1, dtlb, l1d>>
      /\ retired' = n
      /\ sq' = [s \in Sq |-> IF s \in ToSet(rob[h].sqi) THEN FreeLsq ELSE sq[s]]
      /\ rob' = [rob EXCEPT ![h] = FreeSlot]
      /\ mem' = [a \in Addr |-> IF a \in ToSet(Ins(h).st) THEN rob[h].id ELSE mem[a]]
  BY DEF Retire, rings
<1>3. trace' = trace /\ retired' = n /\ read' = read
  BY <1>2
<1>4. /\ h \in Rob /\ Live(h) /\ rob[h].id = n /\ n \in (retired + 1)..read
      /\ \A j \in 1..LoadCount(n) : rob[h].lqi[j] # LQ_SIZE /\ ~Held(h, j)
      /\ \A a : Stores(n, a) => Done(n, a)
      /\ \A s \in Sq : /\ s \in ToSet(rob[h].sqi) <=> sq[s].id = n
                       /\ sq[s].id = n => s \in Performed
      /\ \A q \in Lq : lq[q].id # n
      /\ \A a : a \in ToSet(Ins(h).st) <=> Stores(n, a)
  BY HeadDone
<1>5. /\ retired \in Nat /\ read \in Nat /\ n \in Nat \ {0} /\ LQ_SIZE \notin Lq /\ SQ_SIZE \notin Sq
      /\ \A k \in Rob : rob[k].id = n => k = h
      /\ \A k \in Rob : Live(k) => rob[k].id \in Nat /\ rob[k].id > retired
  BY <1>1, <1>4, Entries
<1>6. /\ rob'[h].id = 0 /\ rob'[h].memDeps = {}
      /\ \A k \in Rob : k # h => rob'[k] = rob[k]
  BY <1>1, <1>2, <1>4 DEF RobShape, FreeSlot
<1>7. FreeLsq.id = 0 /\ FreeLsq.fetched = "NO"
  BY DEF FreeLsq
<1>8. \A s \in Sq : /\ sq[s].id = n => sq'[s].id = 0 /\ sq'[s].fetched = "NO"
                    /\ sq[s].id # n => sq'[s] = sq[s]
  BY <1>2, <1>4, <1>7
<1>9. \A k \in Rob : Live(k)' <=> Live(k) /\ k # h
  BY <1>6 DEF Live
<1>10. /\ \A x : InstrAt(x)' = InstrAt(x) /\ LoadCount(x)' = LoadCount(x) /\ StoreCount(x)' = StoreCount(x)
       /\ \A l, x, a : LastStore(l, x, a)' <=> LastStore(l, x, a)
       /\ \A x, a : Stores(x, a)' <=> Stores(x, a)
       /\ Regular(trace)'
  BY <1>1, <1>3, TraceKept
<1>11. \A x, a : Done(x, a)' <=> Done(x, a) /\ x # n
  <2>1. \A s \in Sq : /\ sq'[s].fetched = "COMPLETED" => sq'[s] = sq[s] /\ sq[s].id # n
                      /\ sq[s].id # n => sq'[s] = sq[s]
    BY <1>8
  <2> QED
    BY <1>10, <2>1 DEF Done
<1>12. \A k \in Rob : k # h => \A x : /\ LoadAddr(k, x)' = LoadAddr(k, x)
                                      /\ Held(k, x)' <=> Held(k, x)
                                      /\ Producer(k, x)' = Producer(k, x)
  BY <1>2, <1>6, <1>10 DEF LoadAddr, Held, Producer
<1>13. ASSUME NEW k \in Rob, Live(k), k # h, NEW x \in 1..StoreCount(rob[k].id), rob[k].sqi[x] # SQ_SIZE
       PROVE  sq'[rob[k].sqi[x]] = sq[rob[k].sqi[x]]
  <2>1. rob[k].sqi[x] \in Sq /\ sq[rob[k].sqi[x]].id = rob[k].id
    BY <1>1, <1>13, StoreSlots
  <2>2. rob[k].id # n
    BY <1>5, <1>13
  <2> QED
    BY <1>8, <2>1, <2>2
<1>14. Named'
  <2>1. LqShape'
    BY <1>1, <1>2 DEF LqShape
  <2>2. EntriesTyped'
    BY <1>1, <1>6, <1>9, <1>10 DEF EntriesTyped
  <2>3. LoadsNamed'
    <3> SUFFICES ASSUME NEW q \in Lq, lq[q].id # 0
                 PROVE  /\ lq[q].rob \in Rob /\ rob'[lq[q].rob].id = lq[q].id
                        /\ lq[q].slot \in 1..LoadCount(lq[q].id)
                        /\ rob'[lq[q].rob].lqi[lq[q].slot] = q
      BY <1>2, <1>10 DEF LoadsNamed
    <3>1. /\ lq[q].rob \in Rob /\ rob[lq[q].rob].id = lq[q].id
          /\ lq[q].slot \in 1..LoadCount(lq[q].id) /\ rob[lq[q].rob].lqi[lq[q].slot] = q
      BY <1>1 DEF LoadsNamed
    <3>2. lq[q].rob # h
      BY <1>4, <3>1
    <3> QED
      BY <1>6, <3>1, <3>2
  <2>4. StoresNamed'
    <3> SUFFICES ASSUME NEW k \in Rob, Live(k), k # h, NEW x \in 1..StoreCount(rob[k].id), rob[k].sqi[x] # SQ_SIZE
                 PROVE  sq'[rob[k].sqi[x]].rob = k /\ sq'[rob[k].sqi[x]].slot = x
      BY <1>6, <1>9, <1>10 DEF StoresNamed
    <3> QED
      BY <1>1, <1>13 DEF StoresNamed
  <2> QED
    BY <2>1, <2>2, <2>3, <2>4 DEF Named
<1>15. Places'
  <2> DEFINE All == {s \in Sq : sq[s].id # 0}
             E == {s \in Sq : sq[s].id = n}
  <2>1. All' = All \ E
    BY <1>5, <1>8
  <2>2. Performed' = Performed \ E
    BY <1>8 DEF Performed
  <2>3. /\ LoadsAtDtlb' = LoadsAtDtlb /\ StoresAtDtlb' = StoresAtDtlb /\ ToMemory' = ToMemory
    BY <1>2 DEF LoadsAtDtlb, StoresAtDtlb, ToMemory
  <2>4. E \subseteq Performed
    BY <1>4
  <2>5. Parted(Range(rts0), StoresAtDtlb, Range(rts1), Performed, All)
    BY <1>1 DEF StoreRings
  <2> HIDE DEF All, E
  <2>6. Parted(Range(rts0), StoresAtDtlb, Range(rts1), Performed \ E, All \ E)
    BY <2>4, <2>5 DEF Parted
  <2>7. LoadRings' /\ PlacesTyped'
    BY <1>1, <1>2, <2>3 DEF LoadRings, PlacesTyped
  <2>8. StoreRings'
    BY <1>1, <1>2, <2>1, <2>2, <2>3, <2>6 DEF StoreRings, All
  <2> QED
    BY <2>7, <2>8 DEF Places
<1>16. MemExact'
  <2>1. \A a \in Addr : mem'[a] = IF Stores(n, a) THEN n ELSE mem[a]
    BY <1>2, <1>4
  <2>2. ASSUME NEW a \in Addr PROVE LastStore(mem'[a], n + 1, a)
    <3> PICK m : m = mem[a]
      OBVIOUS
    <3>1. m \in 0..retired /\ (m # 0 => Stores(m, a)) /\ \A x \in (m + 1)..retired : ~Stores(x, a)
      <4>1. LastStore(m, n, a)
        BY <1>1 DEF MemExact
      <4>2. n - 1 = retired
        BY <1>5
      <4> QED
        BY <4>1, <4>2 DEF LastStore
    <3>2. CASE Stores(n, a)
      <4>1. mem'[a] = n /\ n \in 0..((n + 1) - 1) /\ (n + 1)..((n + 1) - 1) = {}
        BY <1>5, <2>1, <3>2
      <4> QED
        BY <3>2, <4>1 DEF LastStore
    <3>3. CASE ~Stores(n, a)
      <4>1. mem'[a] = m /\ m \in 0..((n + 1) - 1)
        BY <1>5, <2>1, <3>1, <3>3
      <4>2. \A x \in (m + 1)..((n + 1) - 1) : x \in (m + 1)..retired \/ x = n
        BY <1>5, <3>1
      <4> QED
        BY <3>1, <3>3, <4>1, <4>2 DEF LastStore
    <3> QED
      BY <3>2, <3>3
  <2>3. mem' = [a \in Addr |-> mem'[a]]
    BY <1>2
  <2>4. read' <= MAX_READ /\ retired' + 1 = n + 1
    BY <1>1, <1>3 DEF MemExact
  <2>5. \A a \in Addr : LastStore(mem[a], retired + 1, a)'
    BY <1>10, <2>2, <2>4
  <2> QED
    BY <2>3, <2>4, <2>5 DEF MemExact
<1>17. LoadsRight'
  <2> SUFFICES ASSUME NEW k \in Rob, Live(k), k # h, NEW x \in 1..LoadCount(rob[k].id), rob[k].lqi[x] # LQ_SIZE
               PROVE  Right(k, x)'
    BY <1>6, <1>9, <1>10 DEF LoadsRight
  <2> PICK p, a : p = Producer(k, x) /\ a = LoadAddr(k, x)
    OBVIOUS
  <2>1. Right(k, x)
    BY <1>1 DEF LoadsRight
  <2>2. rob'[k].got[x] = rob[k].got[x] /\ rob[k].got[x] \in Nat
    <3>1. rob[k].got \in [1..LoadCount(rob[k].id) -> Nat]
      BY <1>1 DEF EntriesTyped
    <3> QED
      BY <1>6, <3>1
  <2>3. (Held(k, x)' <=> Held(k, x)) /\ (Held(k, x) => Producer(k, x)' = p)
    BY <1>12
  <2>4. Held(k, x) /\ p # 0 => p > retired' /\ p # n
    <3> SUFFICES ASSUME Held(k, x), p # 0 PROVE p > retired' /\ p # n
      OBVIOUS
    <3>1. p > retired /\ LastStore(p, rob[k].id, a) /\ ~Done(p, a)
      BY <2>1 DEF Right, Promised
    <3>2. p # n
      BY <1>4, <3>1 DEF LastStore
    <3>3. p \in 0..(rob[k].id - 1) /\ rob[k].id \in Nat
      BY <1>5, <3>1 DEF LastStore
    <3> QED
      BY <1>3, <1>5, <3>1, <3>2, <3>3
  <2>5. Done(p, a)' => Done(p, a)
    BY <1>11
  <2>6. \A y \in Rob : p # 0 /\ rob'[y].id = p =>
          rob[y].id = p /\ (k \in rob[y].memDeps => k \in rob'[y].memDeps)
    BY <1>6
  <2>7. DoneKept
    BY <1>3, <1>5, <1>11 DEF DoneKept
  <2>8. rob[k].id \in Nat /\ retired' \in Nat /\ retired <= retired' /\ rob'[k].id = rob[k].id
    BY <1>3, <1>5, <1>6
  <2> QED
    BY <1>3, <1>5, <2>1, <2>2, <2>3, <2>4, <2>5, <2>6, <2>7, <2>8, RightKept
<1>18. DepsTrue'
  <2> SUFFICES ASSUME NEW k \in Rob, NEW x \in rob'[k].memDeps
               PROVE  /\ x \in Rob /\ Live(k)' /\ Live(x)'
                      /\ \E y \in (1..LoadCount(rob[x].id))' : LastStore(rob[k].id, rob[x].id, LoadAddr(x, y))'
    BY DEF DepsTrue
  <2>1. k # h /\ x \in rob[k].memDeps
    BY <1>6
  <2>2. /\ x \in Rob /\ Live(k) /\ Live(x)
        /\ \E y \in 1..LoadCount(rob[x].id) : LastStore(rob[k].id, rob[x].id, LoadAddr(x, y))
    BY <1>1, <2>1 DEF DepsTrue
  <2>3. x # h
    <3> SUFFICES ASSUME x = h PROVE FALSE
      OBVIOUS
    <3>1. rob[k].id \in 0..(n - 1)
      BY <1>4, <2>2 DEF LastStore
    <3>2. rob[k].id \in Nat /\ rob[k].id > retired
      BY <1>5, <2>2
    <3> QED
      BY <1>5, <3>1, <3>2
  <2> QED
    BY <1>6, <1>9, <1>10, <1>12, <2>1, <2>2, <2>3
<1>19. OpsExact'
  <2> SUFFICES ASSUME NEW k \in Rob, Live(k), k # h
               PROVE  /\ rob'[k].ops = Cardinality(LoadsDue(k)') + Cardinality(StoresDue(k)')
                      /\ rob'[k].executed = "COMPLETED" => LoadsDue(k)' = {} /\ StoresDue(k)' = {}
    BY <1>9 DEF OpsExact
  <2>1. rob'[k] = rob[k]
    BY <1>6
  <2>2. LoadsDue(k)' = LoadsDue(k)
    BY <1>10, <1>12, <2>1 DEF LoadsDue
  <2>3. StoresDue(k)' = StoresDue(k)
    BY <1>10, <1>13, <2>1 DEF StoresDue
  <2> QED
    BY <1>1, <2>1, <2>2, <2>3 DEF OpsExact
<1> QED
  BY <1>10, <1>14, <1>15, <1>16, <1>17, <1>18, <1>19 DEF Values

\* handle_branch: an instruction enters with all its memory operations to come.
LEMMA LoadsAtEnter ==
  ASSUME LoadInv, HandleBranch
  PROVE  Named' /\ Places' /\ Values' /\ Regular(trace)'
<1> PICK h, n : h = tail /\ n = read + 1
  OBVIOUS
<1> PICK mis : rob' = [rob EXCEPT ![h] = NewEntry(n, mis)]
  BY DEF HandleBranch
<1> DEFINE lc == LoadCount(n)
           sc == StoreCount(n)
           new == NewEntry(n, mis)
<1>1. /\ RobShape /\ StoreInv /\ LqShape /\ EntriesTyped /\ LoadsNamed /\ StoresNamed
      /\ PlacesTyped /\ LoadRings /\ StoreRings /\ MemExact /\ LoadsRight /\ DepsTrue /\ OpsExact
      /\ Regular(trace) /\ RobRing /\ head \in Rob /\ occupancy \in 0..ROB_SIZE
  BY DEF LoadInv, StoreInv, FlowInv, RobInv, CoreTypes, Named, Places, Values
<1>2. /\ UNCHANGED <<trace, retired, mem, lq, sq, rtl0, rtl1, rts0, rts1, dtlb, l1d>>
      /\ read' = n /\ read < MAX_READ /\ occupancy < ROB_SIZE
  BY DEF HandleBranch, MayRead, arch, rings, port
<1>3. trace' = trace /\ retired' = retired
  BY <1>2
<1>4. h \in Rob /\ ~Live(h)
  BY <1>1, <1>2, TailFree
<1>5. /\ retired \in Nat /\ read \in Nat /\ n \in Nat \ {0} /\ trace \in Traces
      /\ \A k \in Rob : Live(k) => rob[k].id \in Nat /\ rob[k].id < n
  <2>1. /\ retired \in Nat /\ read \in Nat /\ trace \in Traces
        /\ \A k \in Rob : Live(k) => rob[k].id \in (retired + 1)..read
    BY <1>1, Entries
  <2> QED
    BY <2>1
<1>6. lc \in 0..4 /\ sc \in 0..4
  BY <1>5, LoadCounts, StoreCounts
<1>7. /\ new.id = n /\ new.memDeps = {} /\ new.executed = "NO" /\ new.ops = lc + sc
      /\ new.lqi = [j \in 1..lc |-> LQ_SIZE] /\ new.sqi = [j \in 1..sc |-> SQ_SIZE]
      /\ new.got = [j \in 1..lc |-> 0]
  BY DEF NewEntry, LoadCount, StoreCount
<1> HIDE DEF new, lc, sc
<1>8. rob'[h] = new /\ \A k \in Rob : k # h => rob'[k] = rob[k]
  BY <1>1, <1>4 DEF RobShape, new
<1>9. \A k \in Rob : Live(k)' <=> Live(k) \/ k = h
  BY <1>5, <1>7, <1>8 DEF Live
<1>10. /\ \A x : InstrAt(x)' = InstrAt(x) /\ LoadCount(x)' = LoadCount(x) /\ StoreCount(x)' = StoreCount(x)
       /\ \A l, x, a : LastStore(l, x, a)' <=> LastStore(l, x, a)
       /\ Regular(trace)'
  BY <1>1, <1>3, TraceKept
<1>11. \A x, a : Done(x, a)' <=> Done(x, a)
  BY <1>2, <1>10 DEF Done
<1>12. \A k \in Rob : k # h => \A x : /\ LoadAddr(k, x)' = LoadAddr(k, x)
                                      /\ Held(k, x)' <=> Held(k, x)
                                      /\ Producer(k, x)' = Producer(k, x)
  BY <1>2, <1>8, <1>10 DEF LoadAddr, Held, Producer
<1>13. /\ \A x \in 1..lc : rob'[h].lqi[x] = LQ_SIZE
       /\ \A x \in 1..sc : rob'[h].sqi[x] = SQ_SIZE
       /\ rob'[h].id = n /\ (1..LoadCount(rob[h].id))' = 1..lc /\ (1..StoreCount(rob[h].id))' = 1..sc
  <2>1. rob'[h].id = n
    BY <1>7, <1>8
  <2>2. LoadCount(rob[h].id)' = lc /\ StoreCount(rob[h].id)' = sc
    BY <1>10, <2>1 DEF lc, sc
  <2>3. rob'[h].lqi = [j \in 1..lc |-> LQ_SIZE] /\ rob'[h].sqi = [j \in 1..sc |-> SQ_SIZE]
    BY <1>7, <1>8
  <2>4. (1..LoadCount(rob[h].id))' = 1..lc /\ (1..StoreCount(rob[h].id))' = 1..sc
    BY <2>2
  <2> QED
    BY <2>1, <2>3, <2>4
<1>14. Named'
  <2>1. LqShape'
    BY <1>1, <1>2 DEF LqShape
  <2>2. EntriesTyped'
    <3> SUFFICES ASSUME NEW k \in Rob, Live(k) \/ k = h
                 PROVE  /\ rob'[k].lqi \in [1..LoadCount(rob'[k].id) -> Lq \cup {LQ_SIZE}]
                        /\ rob'[k].got \in [1..LoadCount(rob'[k].id) -> Nat]
      BY <1>9, <1>10 DEF EntriesTyped
    <3>1. CASE k = h
      <4>1. /\ [j \in 1..lc |-> LQ_SIZE] \in [1..lc -> Lq \cup {LQ_SIZE}]
            /\ [j \in 1..lc |-> 0] \in [1..lc -> Nat]
        OBVIOUS
      <4> QED
        BY <1>7, <1>8, <3>1, <4>1 DEF lc
    <3>2. CASE k # h
      BY <1>1, <1>8, <3>2 DEF EntriesTyped
    <3> QED
      BY <3>1, <3>2
  <2>3. LoadsNamed'
    <3> SUFFICES ASSUME NEW q \in Lq, lq[q].id # 0
                 PROVE  /\ lq[q].rob \in Rob /\ rob'[lq[q].rob].id = lq[q].id
                        /\ lq[q].slot \in 1..LoadCount(lq[q].id)
                        /\ rob'[lq[q].rob].lqi[lq[q].slot] = q
      BY <1>2, <1>10 DEF LoadsNamed
    <3>1. /\ lq[q].rob \in Rob /\ rob[lq[q].rob].id = lq[q].id
          /\ lq[q].slot \in 1..LoadCount(lq[q].id) /\ rob[lq[q].rob].lqi[lq[q].slot] = q
      BY <1>1 DEF LoadsNamed
    <3>2. lq[q].rob # h
      BY <1>4, <3>1 DEF Live
    <3> QED
      BY <1>8, <3>1, <3>2
  <2>4. StoresNamed'
    <3> SUFFICES ASSUME NEW k \in Rob, Live(k) \/ k = h, NEW x \in (1..StoreCount(rob[k].id))',
                        rob'[k].sqi[x] # SQ_SIZE
                 PROVE  sq[rob'[k].sqi[x]].rob = k /\ sq[rob'[k].sqi[x]].slot = x
      BY <1>2, <1>9 DEF StoresNamed
    <3>1. k # h
      BY <1>13
    <3>2. rob'[k] = rob[k] /\ x \in 1..StoreCount(rob[k].id)
      BY <1>8, <1>10, <3>1
    <3> QED
      BY <1>1, <3>1, <3>2 DEF StoresNamed
  <2> QED
    BY <2>1, <2>2, <2>3, <2>4 DEF Named
<1>15. Places'
  <2>1. /\ LoadsAtDtlb' = LoadsAtDtlb /\ StoresAtDtlb' = StoresAtDtlb /\ ToMemory' = ToMemory
        /\ Performed' = Performed /\ {s \in Sq : sq[s].id # 0}' = {s \in Sq : sq[s].id # 0}
    BY <1>2 DEF LoadsAtDtlb, StoresAtDtlb, ToMemory, Performed
  <2> QED
    BY <1>1, <1>2, <2>1 DEF Places, PlacesTyped, LoadRings, StoreRings
<1>16. MemExact'
  <2>1. read' <= MAX_READ
    BY <1>2, <1>5, SizesAssumption
  <2>2. mem' = mem /\ retired' = retired
    BY <1>2
  <2> QED
    BY <1>1, <1>10, <2>1, <2>2 DEF MemExact
<1>17. LoadsRight'
  <2> SUFFICES ASSUME NEW k \in Rob, Live(k) \/ k = h, NEW x \in (1..LoadCount(rob[k].id))',
                      rob'[k].lqi[x] # LQ_SIZE
               PROVE  Right(k, x)'
    BY <1>9 DEF LoadsRight
  <2>1. k # h
    BY <1>13
  <2>2. rob'[k] = rob[k] /\ x \in 1..LoadCount(rob[k].id) /\ rob[k].lqi[x] # LQ_SIZE /\ Live(k)
    BY <1>8, <1>10, <2>1
  <2> PICK p, a : p = Producer(k, x) /\ a = LoadAddr(k, x)
    OBVIOUS
  <2>3. Right(k, x)
    BY <1>1, <2>2 DEF LoadsRight
  <2>4. rob'[k].got[x] = rob[k].got[x] /\ rob[k].got[x] \in Nat
    <3>1. rob[k].got \in [1..LoadCount(rob[k].id) -> Nat]
      BY <1>1, <2>2 DEF EntriesTyped
    <3> QED
      BY <2>2, <3>1
  <2>5. (Held(k, x)' <=> Held(k, x)) /\ Producer(k, x)' = p
    BY <1>12, <2>1
  <2>6. rob[k].id \in Nat /\ retired' \in Nat /\ retired <= retired' /\ rob'[k].id = rob[k].id
    BY <1>3, <1>5, <2>2
  <2>7. Held(k, x) /\ p # 0 => p > retired' /\ p < n
    <3> SUFFICES ASSUME Held(k, x), p # 0 PROVE p > retired' /\ p < n
      OBVIOUS
    <3>1. p > retired /\ LastStore(p, rob[k].id, a)
      BY <2>3 DEF Right, Promised
    <3>2. p \in 0..(rob[k].id - 1)
      BY <3>1 DEF LastStore
    <3>3. rob[k].id < n
      BY <1>5, <2>2
    <3> QED
      BY <1>3, <1>5, <2>6, <3>1, <3>2, <3>3
  <2>8. \A y \in Rob : p < n /\ rob'[y].id = p =>
          rob[y].id = p /\ (k \in rob[y].memDeps => k \in rob'[y].memDeps)
    <3> SUFFICES ASSUME NEW y \in Rob, p < n, rob'[y].id = p
                 PROVE  rob'[y] = rob[y]
      OBVIOUS
    <3>1. y # h
      BY <1>5, <1>13
    <3> QED
      BY <1>8, <3>1
  <2>9. DoneKept /\ (Done(p, a)' => Done(p, a))
    BY <1>11 DEF DoneKept
  <2> QED
    BY <1>3, <1>5, <2>3, <2>4, <2>5, <2>6, <2>7, <2>8, <2>9, RightKept
<1>18. DepsTrue'
  <2> SUFFICES ASSUME NEW k \in Rob, NEW x \in rob'[k].memDeps
               PROVE  /\ x \in Rob /\ Live(k)' /\ Live(x)'
                      /\ \E y \in (1..LoadCount(rob[x].id))' : LastStore(rob[k].id, rob[x].id, LoadAddr(x, y))'
    BY DEF DepsTrue
  <2>1. k # h /\ x \in rob[k].memDeps
    BY <1>7, <1>8
  <2>2. /\ x \in Rob /\ Live(k) /\ Live(x) /\ x # h
        /\ \E y \in 1..LoadCount(rob[x].id) : LastStore(rob[k].id, rob[x].id, LoadAddr(x, y))
    BY <1>1, <1>4, <2>1 DEF DepsTrue
  <2> QED
    BY <1>8, <1>9, <1>10, <1>12, <2>1, <2>2
<1>19. OpsExact'
  <2> SUFFICES ASSUME NEW k \in Rob, Live(k) \/ k = h
               PROVE  /\ rob'[k].ops = Cardinality(LoadsDue(k)') + Cardinality(StoresDue(k)')
                      /\ rob'[k].executed = "COMPLETED" => LoadsDue(k)' = {} /\ StoresDue(k)' = {}
    BY <1>9 DEF OpsExact
  <2>1. CASE k = h
    <3>1. LoadsDue(h)' = 1..lc
      BY <1>13 DEF LoadsDue
    <3>2. StoresDue(h)' = 1..sc
      BY <1>13 DEF StoresDue
    <3>3. \A c \in 0..4 : Cardinality(1..c) = c
      <4> SUFFICES ASSUME NEW c \in 0..4 PROVE Cardinality(1..c) = c
        OBVIOUS
      <4>1. c \in Int /\ 1 \in Int
        OBVIOUS
      <4>2. Cardinality(1..c) = IF 1 > c THEN 0 ELSE c - 1 + 1
        BY <4>1, FS_Interval
      <4> QED
        BY <4>2
    <3>4. rob'[h].ops = lc + sc /\ rob'[h].executed = "NO"
      BY <1>7, <1>8
    <3> QED
      BY <1>6, <2>1, <3>1, <3>2, <3>3, <3>4
  <2>2. CASE k # h
    <3>1. rob'[k] = rob[k] /\ Live(k)
      BY <1>8, <2>2
    <3>2. LoadsDue(k)' = LoadsDue(k)
      BY <1>10, <1>12, <2>2, <3>1 DEF LoadsDue
    <3>3. StoresDue(k)' = StoresDue(k)
      BY <1>2, <1>10, <3>1 DEF StoresDue
    <3> QED
      BY <1>1, <3>1, <3>2, <3>3 DEF OpsExact
  <2> QED
    BY <2>1, <2>2
<1> QED
  BY <1>10, <1>14, <1>15, <1>16, <1>17, <1>18, <1>19 DEF Values

\* A core that has read nothing.
LEMMA LoadInit ==
  ASSUME Init, Regular(trace)
  PROVE  LoadInv
<1>1. /\ retired = 0 /\ read = 0 /\ mem = [a \in Addr |-> 0] /\ rob = [i \in Rob |-> FreeSlot]
      /\ lq = [q \in Lq |-> FreeLsq] /\ sq = [s \in Sq |-> FreeLsq]
      /\ rtl0 = <<>> /\ rtl1 = <<>> /\ rts0 = <<>> /\ rts1 = <<>> /\ dtlb = {} /\ l1d = {}
  BY DEF Init
<1>2. /\ FreeLsq.id = 0 /\ FreeLsq.fetched = "NO" /\ FreeLsq = [f \in LsqFields |-> FreeLsq[f]]
      /\ FreeSlot.id = 0 /\ FreeSlot.memDeps = {}
  BY DEF FreeLsq, LsqFields, FreeSlot
<1>3. /\ \A i \in Rob : ~Live(i) /\ rob[i].memDeps = {}
      /\ \A q \in Lq : lq[q] = FreeLsq
      /\ \A s \in Sq : sq[s] = FreeLsq
  BY <1>1, <1>2 DEF Live
<1>4. Named
  <2>1. LqShape
    BY <1>1, <1>2 DEF LqShape
  <2>2. EntriesTyped /\ LoadsNamed /\ StoresNamed
    BY <1>2, <1>3 DEF EntriesTyped, LoadsNamed, StoresNamed
  <2> QED
    BY <2>1, <2>2 DEF Named
<1>5. Places
  <2>1. Range(<<>>) = {} /\ IsInjective(<<>>)
    BY DEF Range, IsInjective
  <2>2. /\ LoadsAtDtlb = {} /\ StoresAtDtlb = {} /\ Performed = {} /\ ToMemory = {}
        /\ {s \in Sq : sq[s].id # 0} = {}
    BY <1>1, <1>2, <1>3 DEF LoadsAtDtlb, StoresAtDtlb, Performed, ToMemory
  <2>3. PlacesTyped
    BY <1>1 DEF PlacesTyped
  <2> QED
    BY <1>1, <2>1, <2>2, <2>3 DEF Places, LoadRings, StoreRings, Parted
<1>6. Values
  <2>1. MAX_READ \in Nat
    BY SizesAssumption
  <2>2. \A a \in Addr : mem[a] = 0
    BY <1>1
  <2>3. \A a \in Addr : LastStore(mem[a], retired + 1, a)
    BY <1>1, <2>2 DEF LastStore
  <2>4. MemExact
    BY <1>1, <2>1, <2>2, <2>3 DEF MemExact
  <2>5. LoadsRight /\ DepsTrue /\ OpsExact
    BY <1>3 DEF LoadsRight, DepsTrue, OpsExact
  <2> QED
    BY <2>4, <2>5 DEF Values
<1>7. StoreInv
  BY StoreInit
<1> QED
  BY <1>4, <1>5, <1>6, <1>7 DEF LoadInv

\* Every step keeps the loads right.
LEMMA LoadStep ==
  ASSUME LoadInv, [Next]_vars
  PROVE  LoadInv'
<1>1. StoreInv /\ Named /\ Places /\ Values /\ Regular(trace) /\ StoreInv'
  BY StoreStep DEF LoadInv
<1>2. ASSUME LoadKept, Places' PROVE Named' /\ Places' /\ Values' /\ Regular(trace)'
  BY <1>1, <1>2, LoadKeptStep
<1>3. CASE HandleBranch
  BY <1>1, <1>3, LoadsAtEnter DEF LoadInv
<1>4. CASE \/ ResumeFetch \/ ItlbRead \/ L1iFetch \/ Execute \/ UNCHANGED vars
           \/ \E i \in Rob : CompleteInstrFetch(i)
           \/ \E i \in Rob : Schedule(i)
           \/ \E i \in Rob : rob[i].id # 0 /\ CompleteExecution(i)
           \/ \E a \in Addr : L1dWrite(a)
  <2>1. LoadKept /\ UNCHANGED <<rtl0, rtl1, rts0, rts1, dtlb, l1d>>
    BY <1>1, <1>4, LoadsRest
  <2>2. Places'
    BY <1>1, <2>1, PlacesKept
  <2> QED
    BY <1>1, <1>2, <2>1, <2>2 DEF LoadInv
<1>5. CASE \E i \in Rob : CheckAndAddLsq(i)
  BY <1>1, <1>5, LoadsAtAddLoad, LoadsAtAddStore DEF LoadInv, CheckAndAddLsq
<1>6. CASE DtlbLoad \/ ExecuteLoad \/ \E q \in Lq : LoadTranslated(q)
  <2>1. LoadKept /\ Places'
    BY <1>1, <1>6, LoadsMove
  <2> QED
    BY <1>1, <1>2, <2>1 DEF LoadInv
<1>7. CASE DtlbStore \/ \E s \in Sq : StoreTranslated(s)
  <2>1. LoadKept /\ Places'
    BY <1>1, <1>7, StoresMove
  <2> QED
    BY <1>1, <1>2, <2>1 DEF LoadInv
<1>8. CASE ExecuteStore
  BY <1>1, <1>8, LoadsAtExecuteStore DEF LoadInv
<1>9. CASE \E q \in Lq : LoadReturned(q)
  BY <1>1, <1>9, LoadServed DEF LoadInv
<1>10. CASE Retire
  BY <1>1, <1>10, LoadsAtRetire DEF LoadInv
<1> QED
  BY <1>3, <1>4, <1>5, <1>6, <1>7, <1>8, <1>9, <1>10
  DEF Next, OperateLsq, UpdateRob, CompleteDataFetch

\* The places of an entry, counted.
LEMMA OnePlace ==
  ASSUME StoreInv, Places
  PROVE  /\ \A q \in Lq : LoadPlaces(q) = One(q \in ToMemory)
         /\ \A s \in Sq : StorePlaces(s) = One(sq[s].id # 0)
<1>1. PlacesTyped /\ LoadRings /\ StoreRings
  BY DEF Places
<1>2. /\ \A x : Times(rtl0, x) = One(x \in Range(rtl0)) /\ Times(rtl1, x) = One(x \in Range(rtl1))
      /\ \A x : Times(rts0, x) = One(x \in Range(rts0)) /\ Times(rts1, x) = One(x \in Range(rts1))
  BY <1>1, TimesOnce DEF PlacesTyped, LoadRings, StoreRings
<1>3. ASSUME NEW q \in Lq PROVE LoadPlaces(q) = One(q \in ToMemory)
  <2>1. /\ LoadPlaces(q) = One(q \in Range(rtl0)) + One(q \in LoadsAtDtlb) + One(q \in Range(rtl1))
                           + One(q \in l1d)
    BY <1>2 DEF LoadPlaces, LoadsAtDtlb
  <2>2. Parted(Range(rtl0), LoadsAtDtlb, Range(rtl1), l1d, ToMemory)
    BY <1>1 DEF LoadRings
  <2> QED
    BY <2>1, <2>2 DEF Parted, One
<1>4. ASSUME NEW s \in Sq PROVE StorePlaces(s) = One(sq[s].id # 0)
  <2>1. /\ StorePlaces(s) = One(s \in Range(rts0)) + One(s \in StoresAtDtlb) + One(s \in Range(rts1))
                            + One(s \in Performed)
    BY <1>2 DEF StorePlaces, StoresAtDtlb, Performed
  <2>2. Parted(Range(rts0), StoresAtDtlb, Range(rts1), Performed, {t \in Sq : sq[t].id # 0})
    BY <1>1 DEF StoreRings
  <2>3. sq[s].id # 0 <=> s \in {t \in Sq : sq[t].id # 0}
    OBVIOUS
  <2> QED
    BY <2>1, <2>2, <2>3 DEF Parted, One
<1> QED
  BY <1>3, <1>4

\* A load that was promised a store's data waits for a store that will execute.
LEMMA PromiseKept ==
  ASSUME LoadInv, NEW q \in Lq, lq[q].id # 0, lq[q].producer # 0
  PROVE  WaitsForStore(q)
<1> PICK i, j, p : i = lq[q].rob /\ j = lq[q].slot /\ p = lq[q].producer
  OBVIOUS
<1>1. StoreInv /\ RobInv /\ LoadsNamed /\ StoresNamed /\ LoadsRight
  BY DEF LoadInv, StoreInv, FlowInv, Named, Values
<1>2. /\ i \in Rob /\ Live(i) /\ rob[i].id = lq[q].id /\ j \in 1..LoadCount(rob[i].id)
      /\ rob[i].lqi[j] = q /\ LQ_SIZE # q
  BY <1>1, Entries DEF LoadsNamed, Live
<1>3. Held(i, j) /\ Producer(i, j) = p
  BY <1>2 DEF Held, Producer
<1>4. Promised(i, j, p)
  BY <1>1, <1>2, <1>3 DEF LoadsRight, Right
<1>5. LdAddr(q) = LoadAddr(i, j)
  BY DEF LdAddr, LoadAddr, Ins
<1>6. p > retired /\ p \in 0..(rob[i].id - 1) /\ ~Done(p, LoadAddr(i, j))
      /\ \A k \in Rob : rob[k].id = p => i \in rob[k].memDeps
  BY <1>4 DEF Promised, LastStore
<1>7. retired \in Nat /\ read \in Nat /\ rob[i].id \in (retired + 1)..read
  BY <1>1, <1>2, Entries
<1>8. PICK k \in Rob : Live(k) /\ rob[k].id = p
  <2>1. p \in (retired + 1)..read
    BY <1>6, <1>7
  <2> QED
    BY <1>1, <2>1, Entries
<1>9. k \in Older(i)
  BY <1>1, <1>2, <1>6, <1>7, <1>8, Numbered
<1>10. ASSUME NEW s \in Sq, sq[s].id = p, StAddr(s) = LoadAddr(i, j)
       PROVE  sq[s].fetched # "COMPLETED"
  <2>1. StAddr(s) = InstrAt(p).st[sq[s].slot]
    BY <1>1, <1>10, SqNamed
  <2> QED
    BY <1>6, <1>10, <2>1 DEF Done
<1> QED
  BY <1>5, <1>6, <1>8, <1>9, <1>10 DEF WaitsForStore

\* No load, store or instruction is in two places or in none.
LEMMA EntriesAreExact ==
  ASSUME LoadInv
  PROVE  EntriesExact
<1>1. StoreInv /\ RobInv /\ CoreTypes /\ RteExact /\ LoadsNamed /\ Places /\ LqShape
  BY DEF LoadInv, StoreInv, FlowInv, RobInv, Named
<1>2. ASSUME NEW q \in Lq
      PROVE  /\ lq[q].id = 0 => LoadPlaces(q) = 0
             /\ lq[q].id # 0 =>
                  /\ rob[lq[q].rob].id = lq[q].id /\ rob[lq[q].rob].lqi[lq[q].slot] = q
                  /\ IF lq[q].producer = 0 THEN LoadPlaces(q) = 1
                     ELSE LoadPlaces(q) = 0 /\ WaitsForStore(q)
  <2>1. LoadPlaces(q) = One(lq[q].id # 0 /\ lq[q].producer = 0)
    <3>1. q \in ToMemory <=> (lq[q].id # 0 /\ lq[q].producer = 0)
      BY DEF ToMemory
    <3> QED
      BY <1>1, <3>1, OnePlace DEF One
  <2>2. lq[q].id # 0 => rob[lq[q].rob].id = lq[q].id /\ rob[lq[q].rob].lqi[lq[q].slot] = q
    BY <1>1 DEF LoadsNamed
  <2>3. lq[q].id # 0 /\ lq[q].producer # 0 => WaitsForStore(q)
    BY PromiseKept
  <2> QED
    BY <2>1, <2>2, <2>3 DEF One
<1>3. \A s \in Sq : StorePlaces(s) = One(sq[s].id # 0)
  BY <1>1, OnePlace
<1>4. ASSUME NEW i \in Rob
      PROVE  Times(rte0, i) + Times(rte1, i) =
               One(rob[i].id # 0 /\ rob[i].ready /\ ~IsMemory(i) /\ rob[i].executed = "NO")
  <2>1. /\ Times(rte0, i) = One(i \in Range(rte0)) /\ Times(rte1, i) = One(i \in Range(rte1))
    BY <1>1, TimesOnce DEF CoreTypes, RteExact
  <2>2. i \in Waiting <=> (rob[i].id # 0 /\ rob[i].ready /\ ~IsMemory(i) /\ rob[i].executed = "NO")
    BY DEF Waiting, Live
  <2>3. Range(rte0) \cap Range(rte1) = {} /\ Range(rte0) \cup Range(rte1) = Waiting
    BY <1>1 DEF RteExact
  <2> QED
    BY <2>1, <2>2, <2>3 DEF One
<1>5. EntriesTracked
  BY <1>2, <1>3, <1>4 DEF EntriesTracked
<1>6. ForwardsMatch
  <2> SUFFICES ASSUME NEW s \in ToSet(rts1), NEW d \in Forwards(s), NEW q, q = rob[d[1]].lqi[d[2]]
               PROVE  lq[q].id = rob[d[1]].id /\ lq[q].producer = sq[s].id
    BY DEF ForwardsMatch
  <2>1. s \in Range(rts1)
    BY DEF ToSet, Range
  <2>2. s \in Sq /\ sq[s].id # 0 /\ s \notin Performed
    BY <1>1, <2>1 DEF Places, StoreRings, Parted
  <2>3. Held(d[1], d[2]) /\ Producer(d[1], d[2]) = sq[s].id
    BY <2>2, ForwardsPromised
  <2> QED
    BY <2>3 DEF Held, Producer
<1> QED
  BY <1>5, <1>6 DEF EntriesExact

\* The head retires with what the in-order machine gives it.
LEMMA RetireInOrder ==
  ASSUME LoadInv, Retire
  PROVE  Arch!Step
<1> PICK h, n : h = head /\ n = retired + 1
  OBVIOUS
<1>1. StoreInv /\ EntriesTyped /\ MemExact /\ LoadsRight
  BY DEF LoadInv, Named, Values
<1>2. /\ h \in Rob /\ Live(h) /\ rob[h].id = n /\ n \in (retired + 1)..read
      /\ \A j \in 1..LoadCount(n) : rob[h].lqi[j] # LQ_SIZE /\ ~Held(h, j)
      /\ \A a : a \in ToSet(Ins(h).st) <=> Stores(n, a)
  BY HeadDone
<1>3. /\ trace' = trace /\ retired' = n /\ seen' = rob[h].got
      /\ mem' = [a \in Addr |-> IF a \in ToSet(Ins(h).st) THEN rob[h].id ELSE mem[a]]
  BY DEF Retire
<1>4. retired \in Nat /\ read \in Nat /\ trace \in Traces /\ n \in Nat \ {0}
      /\ MAX_READ \in Nat /\ read <= MAX_READ
  BY <1>1, <1>2, Entries, SizesAssumption, SMTT(30) DEF MemExact
<1>5. retired < MAX_READ
  BY <1>2, <1>4
<1>6. mem' = [a \in Addr |-> IF \E j \in 1..Len(InstrAt(n).st) : InstrAt(n).st[j] = a
                             THEN n ELSE mem[a]]
  BY <1>2, <1>3 DEF Stores, StoreCount
<1>7. seen' = [j \in 1..Len(InstrAt(n).ld) |-> mem[InstrAt(n).ld[j]]]
  <2>1. InstrAt(n).ld \in Seq(Addr) /\ rob[h].got \in [1..LoadCount(n) -> Nat]
    BY <1>1, <1>2, <1>4, LoadCounts DEF EntriesTyped
  <2>2. ASSUME NEW j \in 1..LoadCount(n) PROVE rob[h].got[j] = mem[InstrAt(n).ld[j]]
    <3>1. Answered(h, j) /\ LoadAddr(h, j) = InstrAt(n).ld[j]
      BY <1>1, <1>2 DEF LoadsRight, Right, LoadAddr
    <3>2. LastStore(rob[h].got[j], n, InstrAt(n).ld[j])
      BY <1>2, <3>1 DEF Answered
    <3>3. InstrAt(n).ld[j] \in Addr
      BY <2>1 DEF LoadCount
    <3>4. LastStore(mem[InstrAt(n).ld[j]], n, InstrAt(n).ld[j])
      BY <1>1, <3>3 DEF MemExact
    <3> QED
      BY <1>4, <3>2, <3>4, OneLast
  <2> QED
    BY <1>3, <2>1, <2>2 DEF LoadCount
<1>8. Arch!InstrAt(retired + 1) = InstrAt(n)
  BY DEF Arch!InstrAt, InstrAt
<1> QED
  BY <1>3, <1>5, <1>6, <1>7, <1>8 DEF Arch!Step

\* Every other step leaves what the in-order machine has.
LEMMA CoreSteps ==
  ASSUME LoadInv, [Next]_vars
  PROVE  [Arch!Step]_(Arch!vars)
<1>1. CASE Retire
  BY <1>1, RetireInOrder
<1>2. CASE \/ HandleBranch \/ ResumeFetch \/ ItlbRead \/ L1iFetch \/ Execute \/ UNCHANGED vars
           \/ \E i \in Rob : CompleteInstrFetch(i) \/ Schedule(i) \/ CompleteExecution(i)
           \/ \E a \in Addr : L1dWrite(a)
  <2>1. UNCHANGED arch
    BY <1>2 DEF HandleBranch, ResumeFetch, ItlbRead, L1iFetch, Execute, CompleteInstrFetch,
                Schedule, CompleteExecution, L1dWrite, vars
  <2> QED
    BY <2>1 DEF arch, Arch!vars
<1>3. CASE OperateLsq \/ CompleteDataFetch
  <2>1. UNCHANGED arch
    BY <1>3 DEF OperateLsq, DtlbStore, DtlbLoad, ExecuteStore, ExecuteLoad,
                CompleteDataFetch, StoreTranslated, LoadTranslated, LoadReturned
  <2> QED
    BY <2>1 DEF arch, Arch!vars
<1>4. CASE \E i \in Rob : CheckAndAddLsq(i)
  <2>1. ASSUME NEW i \in Rob, NEW j, AddLoad(i, j) PROVE UNCHANGED arch
    BY <2>1, Zenon DEF AddLoad
  <2>2. ASSUME NEW i \in Rob, NEW j, AddStore(i, j) PROVE UNCHANGED arch
    BY <2>2 DEF AddStore
  <2> QED
    BY <1>4, <2>1, <2>2 DEF CheckAndAddLsq, arch, Arch!vars
<1> QED
  BY <1>1, <1>2, <1>3, <1>4 DEF Next, UpdateRob

(***************************************************************************)
(* No load, store or instruction is lost or taken for another: for every   *)
(* regular trace and every size of the buffers, each entry of LQ and SQ is *)
(* in exactly one ring or at one cache or waits for a store of the ROB     *)
(* that will execute, each instruction that is ready is in one ready ring, *)
(* and execute_store forwards only to loads that wait for its store.       *)
(***************************************************************************)
THEOREM EntriesStayExact == RegularTraces => (Spec => []EntriesExact)
<1> SUFFICES ASSUME RegularTraces PROVE Spec => []EntriesExact
  OBVIOUS
<1>1. Init => LoadInv
  BY LoadInit DEF Init, RegularTraces
<1>2. LoadInv /\ [Next]_vars => LoadInv'
  BY LoadStep
<1>3. LoadInv => EntriesExact
  BY EntriesAreExact
<1> QED
  BY <1>1, <1>2, <1>3, PTL DEF Spec

(***************************************************************************)
(* The out-of-order core implements the in-order machine: for every        *)
(* regular trace and every size of the buffers, instructions retire in the *)
(* order of the trace, and every load, forwarded from SQ or served by      *)
(* memory, was given the last store to its address before it.              *)
(***************************************************************************)
THEOREM CoreIsInOrder == RegularTraces => (Spec => InOrderSpec)
<1> SUFFICES ASSUME RegularTraces PROVE Spec => InOrderSpec
  OBVIOUS
<1>1. Init => LoadInv
  BY LoadInit DEF Init, RegularTraces
<1>2. LoadInv /\ [Next]_vars => LoadInv'
  BY LoadStep
<1>3. Init => Arch!Init
  BY DEF Init, Arch!Init
<1>4. LoadInv /\ [Next]_vars => [Arch!Step]_(Arch!vars)
  BY CoreSteps
<1> QED
  BY <1>1, <1>2, <1>3, <1>4, PTL DEF Spec, InOrderSpec, Arch!Spec
=============================================================================
