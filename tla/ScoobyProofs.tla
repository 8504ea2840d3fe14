---------------------------- MODULE ScoobyProofs ----------------------------
(***************************************************************************)
(* Of Pythia: the tracker and the learning engine; and the best-offset     *)
(* prefetcher.                                                             *)
(*                                                                         *)
(* With every line tracked once (the default of                            *)
(* scooby_enable_track_multiple), States have one owner, learning follows  *)
(* the order of the actions and rewards are what the prefetches deserved,  *)
(* for every size of the tables and every stream of accesses.              *)
(*                                                                         *)
(* The engine's Q-values stay bounded, and its choice is the features'     *)
(* where they agree.  What a sum adds up is a recursive function on the    *)
(* subsets of what it sums over; facts about it are proved by taking a     *)
(* subset of least size that would break them.  So are facts about the     *)
(* folds of the best-offset prefetcher.                                    *)
(***************************************************************************)
EXTENDS Scooby, Learning, Bop, SequenceTheorems, FiniteSetTheorems, WellFoundedInduction, TLAPS

EntryT == [address : Line \cup {NoPrefetch}, state : Nat, is_filled : BOOLEAN,
           reward : Reward, arrived : BOOLEAN, demand : {"none", "before", "after"}]

\* What an entry knows of its line agrees with what happened to it.
Fair(e) ==
  /\ e \in EntryT
  /\ e.address # NoPrefetch => e.is_filled = e.arrived
  /\ e.demand = "none" /\ e.address # NoPrefetch => e.reward = NoReward
  /\ e.reward = NoReward => e.demand = "none"
  /\ e.reward = "correct_timely" <=> e.demand = "after"
  /\ e.reward = "correct_untimely" <=> e.demand = "before"

\* The inductive invariant, for the parts of the state that track changes and m
\* States made: along deleted States, last evicted entry and tracker the States
\* increase, and no line is tracked twice.
Sound(pt, last, fr, ln, m) ==
  /\ pt \in Seq(EntryT)
  /\ \A i \in DOMAIN pt : Fair(pt[i]) /\ pt[i].state < m
  /\ \A i, j \in DOMAIN pt : i < j => pt[i].state < pt[j].state
  /\ \A i, j \in DOMAIN pt :
       pt[i].address # NoPrefetch /\ pt[i].address = pt[j].address => i = j
  /\ last = NoEntry \/ Fair(last)
  /\ last # NoEntry =>
       last.state < m /\ \A i \in DOMAIN pt : last.state < pt[i].state
  /\ fr \subseteq Nat
  /\ last = NoEntry => fr = {}
  /\ \A s \in fr : s < last.state
  /\ ln # NoLearn =>
       /\ last # NoEntry /\ ln.to = last.state
       /\ ln.reward = "correct_timely" <=> ln.demand = "after"
       /\ ln.reward = "correct_untimely" <=> ln.demand = "before"

TrackOnceOnly == \A k \in Knobs : ~k.track_multiple

Inv ==
  /\ made \in Nat
  /\ knob \in Knobs
  /\ Sound(prefetch_tracker, last_evicted_tracker, freed, learned, made)

\* What one learn has to do with the one before.
Chained(before, after) ==
  after # before => /\ after.from < after.to
                    /\ before # NoLearn => after.from = before.to

-----------------------------------------------------------------------------
\* An entry whose line is not tracked and whose State is the newest goes to the
\* back of a sound queue.
LEMMA AppendSound ==
  ASSUME NEW pt, NEW last, NEW fr, NEW ln, NEW m \in Nat, NEW e,
         Sound(pt, last, fr, ln, m), Fair(e), e.state = m,
         e.address # NoPrefetch => Matches(pt, e.address) = {}
  PROVE  Sound(Append(pt, e), last, fr, ln, m + 1)
<1> DEFINE s == Append(pt, e)
<1>1. /\ pt \in Seq(EntryT) /\ e \in EntryT /\ e.state = m
      /\ \A i \in DOMAIN pt : Fair(pt[i]) /\ pt[i].state < m /\ pt[i].state \in Nat
      /\ \A i \in DOMAIN pt : e.address # NoPrefetch => pt[i].address # e.address
      /\ DOMAIN pt = 1..Len(pt) /\ Len(pt) \in Nat
  BY DEF Sound, Matches, Fair, EntryT
<1>2. /\ s \in Seq(EntryT) /\ DOMAIN s = 1..(Len(pt) + 1)
      /\ \A i \in 1..Len(pt) : s[i] = pt[i]
      /\ s[Len(pt) + 1] = e
  BY <1>1, AppendProperties
<1>3. \A i \in DOMAIN s : i \in 1..Len(pt) \/ i = Len(pt) + 1
  BY <1>1, <1>2
<1> HIDE DEF s
<1>4. \A i \in DOMAIN s : Fair(s[i]) /\ s[i].state < m + 1
  BY <1>1, <1>2, <1>3
<1>5. ASSUME NEW i \in DOMAIN s, NEW j \in DOMAIN s, i < j
      PROVE  s[i].state < s[j].state
  <2>1. i \in 1..Len(pt)
    BY <1>1, <1>2, <1>5
  <2>2. CASE j \in 1..Len(pt)
    BY <1>1, <1>2, <1>5, <2>1, <2>2 DEF Sound
  <2>3. CASE j = Len(pt) + 1
    BY <1>1, <1>2, <2>1, <2>3
  <2> QED
    BY <1>3, <2>2, <2>3
<1>6. \A i, j \in DOMAIN s :
        s[i].address # NoPrefetch /\ s[i].address = s[j].address => i = j
  BY <1>1, <1>2, <1>3 DEF Sound
<1>7. last # NoEntry =>
        last.state < m + 1 /\ \A i \in DOMAIN s : last.state < s[i].state
  <2>1. SUFFICES ASSUME last # NoEntry
                 PROVE  last.state < m + 1 /\ \A i \in DOMAIN s : last.state < s[i].state
    OBVIOUS
  <2>2. /\ last.state \in Nat /\ last.state < m
        /\ \A i \in DOMAIN pt : last.state < pt[i].state
    BY <2>1 DEF Sound, Fair, EntryT
  <2> QED
    BY <1>1, <1>2, <1>3, <2>2
<1> QED
  BY <1>2, <1>4, <1>5, <1>6, <1>7 DEF Sound, s

\* The eviction of the oldest entry: learning from the one evicted before it,
\* which is then deleted, keeps the queue sound and continues the chain.
LEMMA EvictSound ==
  ASSUME NEW pt, NEW last, NEW fr, NEW ln, NEW m \in Nat, pt # <<>>,
         Sound(pt, last, fr, ln, m),
         NEW fr2, fr2 = IF last = NoEntry THEN fr ELSE fr \cup {last.state},
         NEW ln2, ln2 = IF last = NoEntry THEN ln
                        ELSE [from |-> last.state, reward |-> FinalReward(last),
                              demand |-> last.demand, to |-> Head(pt).state]
  PROVE  Sound(Tail(pt), Head(pt), fr2, ln2, m) /\ Chained(ln, ln2)
<1> DEFINE t == Tail(pt)
           v == Head(pt)
<1>1. /\ pt \in Seq(EntryT) /\ DOMAIN pt = 1..Len(pt) /\ Len(pt) \in Nat \ {0}
      /\ \A i \in DOMAIN pt : Fair(pt[i]) /\ pt[i].state < m /\ pt[i].state \in Nat
  BY EmptySeq DEF Sound, Fair, EntryT
<1>2. /\ t \in Seq(EntryT) /\ DOMAIN t = 1..(Len(pt) - 1)
      /\ \A i \in DOMAIN t : t[i] = pt[i + 1] /\ i + 1 \in DOMAIN pt
      /\ v = pt[1] /\ 1 \in DOMAIN pt
  BY <1>1, HeadTailProperties
<1> HIDE DEF t, v
<1>3. Fair(v) /\ v.state \in Nat /\ v.state < m /\ v.address \in Line \cup {NoPrefetch}
  BY <1>1, <1>2 DEF Fair, EntryT
<1>4. /\ \A i \in DOMAIN t : Fair(t[i]) /\ t[i].state < m /\ v.state < t[i].state
      /\ \A i, j \in DOMAIN t : i < j => t[i].state < t[j].state
      /\ \A i, j \in DOMAIN t :
           t[i].address # NoPrefetch /\ t[i].address = t[j].address => i = j
  <2>1. \A i \in DOMAIN t : i \in Nat /\ 1 < i + 1
    BY <1>1, <1>2
  <2>2. \A i, j \in DOMAIN t : i < j => i + 1 < j + 1
    BY <2>1
  <2>3. \A i, j \in DOMAIN t : i + 1 = j + 1 => i = j
    BY <2>1
  <2> QED
    BY <1>1, <1>2, <2>1, <2>2, <2>3 DEF Sound
<1>5. v # NoEntry
  BY <1>3 DEF NoEntry, Fair, EntryT
<1>6. CASE last = NoEntry
  <2>1. fr2 = {} /\ ln2 = ln /\ ln = NoLearn
    BY <1>6 DEF Sound
  <2> QED
    BY <1>2, <1>3, <1>4, <1>5, <2>1 DEF Sound, Chained, t, v
<1>7. CASE last # NoEntry
  <2>1. /\ Fair(last) /\ last.state \in Nat /\ last.state < v.state
        /\ fr \subseteq Nat /\ \A x \in fr : x < last.state
    BY <1>2, <1>7 DEF Sound, Fair, EntryT
  <2>2. fr2 = fr \cup {last.state}
    BY <1>7
  <2>3. fr2 \subseteq Nat /\ \A x \in fr2 : x < v.state
    <3>1. ASSUME NEW x \in fr2 PROVE x \in Nat /\ x < v.state
      <4>1. x \in Nat /\ (x < last.state \/ x = last.state)
        BY <2>1, <2>2
      <4> QED
        BY <1>3, <2>1, <4>1
    <3> QED
      BY <3>1
  <2>4. /\ ln2.from = last.state /\ ln2.to = v.state
        /\ ln2.reward = FinalReward(last) /\ ln2.demand = last.demand
    BY <1>7 DEF v
  <2>5. /\ ln2.reward = "correct_timely" <=> ln2.demand = "after"
        /\ ln2.reward = "correct_untimely" <=> ln2.demand = "before"
    BY <2>1, <2>4 DEF FinalReward, Fair, NoReward
  <2>6. Chained(ln, ln2)
    BY <1>7, <2>1, <2>4 DEF Chained, Sound
  <2> QED
    BY <1>2, <1>3, <1>4, <1>5, <2>3, <2>4, <2>5, <2>6 DEF Sound, t, v
<1> QED
  BY <1>6, <1>7

\* track keeps the invariant and extends the chain.
LEMMA TrackSound ==
  ASSUME NEW pt, NEW last, NEW fr, NEW ln, NEW m \in Nat, NEW e,
         Sound(pt, last, fr, ln, m), Fair(e), e.state = m,
         e.address # NoPrefetch => Matches(pt, e.address) = {},
         NEW q, q = track([pt |-> pt, last |-> last, freed |-> fr, learned |-> ln], e)
  PROVE  Sound(q.pt, q.last, q.freed, q.learned, m + 1) /\ Chained(ln, q.learned)
<1>1. CASE ~Full(pt)
  <2>1. q.pt = Append(pt, e) /\ q.last = last /\ q.freed = fr /\ q.learned = ln
    BY <1>1 DEF track
  <2> QED
    BY <2>1, AppendSound DEF Chained
<1>2. CASE Full(pt)
  <2> DEFINE fr2 == IF last = NoEntry THEN fr ELSE fr \cup {last.state}
             ln2 == IF last = NoEntry THEN ln
                    ELSE [from |-> last.state, reward |-> FinalReward(last),
                          demand |-> last.demand, to |-> Head(pt).state]
  <2>1. /\ q.pt = Append(Tail(pt), e) /\ q.last = Head(pt)
        /\ q.freed = fr2 /\ q.learned = ln2
    BY <1>2 DEF track, Deleted, Successor
  <2>2. pt # <<>> /\ pt \in Seq(EntryT)
    BY <1>2, ScoobyAssumption, EmptySeq DEF Full, Sound
  <2>3. Sound(Tail(pt), Head(pt), fr2, ln2, m) /\ Chained(ln, ln2)
    BY <2>2, EvictSound
  <2>4. e.address # NoPrefetch => Matches(Tail(pt), e.address) = {}
    <3>1. \A i \in DOMAIN Tail(pt) : i + 1 \in DOMAIN pt /\ Tail(pt)[i] = pt[i + 1]
      BY <2>2, HeadTailProperties
    <3> QED
      BY <3>1 DEF Matches
  <2>5. Sound(Append(Tail(pt), e), Head(pt), fr2, ln2, m + 1)
    BY <2>3, <2>4, AppendSound
  <2> QED
    BY <2>1, <2>3, <2>5
<1> QED
  BY <1>1, <1>2

-----------------------------------------------------------------------------
\* A demand access rewards the entry of its line, if it has none yet, by what
\* happened to the line; everything else stays.
LEMMA DemandSound ==
  ASSUME NEW addr \in Line, Inv,
         NEW pt, pt = DemandReward(prefetch_tracker, addr)
  PROVE  /\ Sound(pt, last_evicted_tracker, freed, learned, made)
         /\ \A a : Matches(pt, a) = Matches(prefetch_tracker, a)
<1> DEFINE p == prefetch_tracker
           R == Rewarded(p, addr)
<1>1. /\ p \in Seq(EntryT) /\ DOMAIN p = 1..Len(p) /\ Len(p) \in Nat
      /\ \A i \in DOMAIN p : Fair(p[i]) /\ p[i] \in EntryT
      /\ \A i, j \in DOMAIN p :
           p[i].address # NoPrefetch /\ p[i].address = p[j].address => i = j
  BY DEF Inv, Sound, Fair
<1>2. addr # NoPrefetch
  <2>1. PICK x \in Page, y \in 0..(LINES - 1) : addr = <<x, y>>
    BY DEF Line
  <2>2. Len(addr) = 2 /\ Len(<<>>) = 0
    BY <2>1
  <2> QED
    BY <2>2, SMTT(30) DEF NoPrefetch
<1>3. ASSUME NEW i \in DOMAIN p
      PROVE  i \in R <=> p[i].address = addr /\ p[i].reward = NoReward
  <2>1. \A j \in Matches(p, addr) : p[i].address = addr => j = i
    BY <1>1, <1>2 DEF Matches
  <2>2. p[i].address = addr => search_pt(p, addr, knob.reward_all) = {i}
    BY <1>1, <2>1 DEF search_pt, Matches
  <2>3. p[i].address # addr => i \notin search_pt(p, addr, knob.reward_all)
    BY DEF search_pt, Matches
  <2> QED
    BY <1>1, <2>2, <2>3 DEF Rewarded
<1> HIDE DEF R
<1>4. pt = [i \in DOMAIN p |->
              LET e == IF p[i].address = addr THEN Observe(p[i]) ELSE p[i] IN
              IF i \notin R THEN e
              ELSE [e EXCEPT !.reward = IF e.is_filled THEN "correct_timely"
                                        ELSE "correct_untimely"]]
  BY DEF DemandReward, R
<1>5. ASSUME NEW i \in DOMAIN p
      PROVE  Fair(pt[i]) /\ pt[i].state = p[i].state /\ pt[i].address = p[i].address
  <2>1. p[i] \in EntryT /\ Fair(p[i])
    BY <1>1
  <2>2. CASE p[i].address # addr
    BY <1>3, <1>4, <2>1, <2>2
  <2>3. CASE p[i].address = addr /\ p[i].reward # NoReward
    <3>1. p[i].demand # "none"
      BY <1>2, <2>1, <2>3 DEF Fair
    <3>2. pt[i] = p[i]
      BY <1>3, <1>4, <2>3, <3>1 DEF Observe
    <3> QED
      BY <2>1, <3>2
  <2>4. CASE p[i].address = addr /\ p[i].reward = NoReward
    <3>1. p[i].demand = "none" /\ p[i].is_filled = p[i].arrived
      BY <1>2, <2>1, <2>4 DEF Fair
    <3>2. i \in R
      BY <1>3, <2>4
    <3>3. pt[i] = [p[i] EXCEPT
                     !.demand = IF p[i].arrived THEN "after" ELSE "before",
                     !.reward = IF p[i].arrived THEN "correct_timely"
                                ELSE "correct_untimely"]
      BY <1>4, <2>1, <2>4, <3>1, <3>2 DEF Observe, EntryT
    <3> QED
      BY <1>2, <2>1, <2>4, <3>1, <3>3 DEF Fair, EntryT, Reward, NoReward
  <2> QED
    BY <2>2, <2>3, <2>4
<1>6. DOMAIN pt = DOMAIN p
  BY <1>4
<1>7. pt \in Seq(EntryT)
  <2>1. \A i \in 1..Len(p) : pt[i] \in EntryT
    BY <1>1, <1>5 DEF Fair
  <2>2. pt \in [1..Len(p) -> EntryT]
    BY <1>1, <1>4, <2>1
  <2> QED
    BY <1>1, <2>2, SeqDef
<1> HIDE DEF p
<1>8. Sound(p, last_evicted_tracker, freed, learned, made)
  BY DEF Inv, p
<1>9. Sound(pt, last_evicted_tracker, freed, learned, made)
  BY <1>5, <1>6, <1>7, <1>8 DEF Sound
<1>10. ASSUME NEW a PROVE Matches(pt, a) = Matches(p, a)
  BY <1>5, <1>6 DEF Matches
<1> QED
  BY <1>9, <1>10 DEF p

\* A new entry is fair: it has no fill, and a reward only with no prefetch.
LEMMA EntryFair ==
  ASSUME NEW a \in Line \cup {NoPrefetch}, NEW s \in Nat,
         NEW r \in {NoReward, "out_of_bounds", "tracker_hit"},
         a # NoPrefetch => r = NoReward
  PROVE  Fair(Entry(a, s, r)) /\ Entry(a, s, r).state = s /\ Entry(a, s, r).address = a
<1>1. Entry(a, s, r) \in EntryT
  BY DEF Entry, EntryT, Reward
<1> QED
  BY <1>1 DEF Fair, Entry, NoReward

\* A prediction tracks at most one entry, of a line that is not tracked yet.
LEMMA PredictedOne ==
  ASSUME NEW p \in Page, NEW o \in 0..(LINES - 1), NEW a \in Int, NEW m \in Nat,
         ~knob.track_multiple, NEW pt, NEW last, NEW fr, NEW ln,
         Sound(pt, last, fr, ln, m),
         NEW es, es = Predicted(pt, p, o, a, m)
  PROVE  \/ es = <<>>
         \/ \E e : /\ es = <<e>> /\ Fair(e) /\ e.state = m
                   /\ e.address # NoPrefetch => Matches(pt, e.address) = {}
<1> DEFINE addr == <<p, o + a>>
           new == search_pt(pt, addr, FALSE) = {}
           no(r) == Entry(NoPrefetch, m, r)
           Ok(e) == /\ Fair(e) /\ e.state = m
                    /\ e.address # NoPrefetch => Matches(pt, e.address) = {}
<1>1. \A r \in {NoReward, "out_of_bounds", "tracker_hit"} : Ok(no(r)) /\ no(r) \in EntryT
  BY EntryFair DEF Fair
<1>2. CASE a = 0
  BY <1>1, <1>2 DEF Predicted
<1>3. CASE a # 0 /\ o + a \notin 0..(LINES - 1)
  BY <1>1, <1>3 DEF Predicted
<1>4. CASE a # 0 /\ o + a \in 0..(LINES - 1)
  <2> DEFINE e == Entry(addr, m, NoReward)
  <2>1. addr \in Line
    BY <1>4 DEF Line
  <2>2. Fair(e) /\ e.state = m /\ e.address = addr /\ e \in EntryT
    BY <2>1, EntryFair DEF Fair
  <2>3. new => Matches(pt, addr) = {}
    <3>1. addr # NoPrefetch
      BY DEF NoPrefetch
    <3>2. \A i, j \in Matches(pt, addr) : i = j /\ i \in Nat
      <4>1. \A i \in DOMAIN pt : i \in Nat
        BY LenProperties DEF Sound
      <4>2. \A i, j \in DOMAIN pt :
              pt[i].address # NoPrefetch /\ pt[i].address = pt[j].address => i = j
        BY DEF Sound
      <4> QED
        BY <3>1, <4>1, <4>2 DEF Matches
    <3>3. \A i \in Matches(pt, addr) : i \in search_pt(pt, addr, FALSE)
      BY <3>2 DEF search_pt
    <3> QED
      BY <3>3
  <2>4. es = (IF new THEN <<e>> ELSE <<>>)
             \o (IF ~new /\ knob.reward_tracker_hit THEN <<no("tracker_hit")>> ELSE <<>>)
    BY <1>4 DEF Predicted
  <2>5. <<e>> \in Seq(EntryT) /\ <<no("tracker_hit")>> \in Seq(EntryT) /\ <<>> \in Seq(EntryT)
    BY <1>1, <2>2
  <2> HIDE DEF new, e, no, addr
  <2>6. CASE new
    <3>1. es = <<e>>
      BY <2>4, <2>5, <2>6, ConcatEmptySeq
    <3> QED
      BY <2>2, <2>3, <2>6, <3>1
  <2>7. CASE ~new /\ knob.reward_tracker_hit
    <3>1. es = <<no("tracker_hit")>>
      BY <2>4, <2>5, <2>7, ConcatEmptySeq
    <3> QED
      BY <1>1, <3>1
  <2>8. CASE ~new /\ ~knob.reward_tracker_hit
    BY <2>4, <2>5, <2>8, ConcatEmptySeq
  <2> QED
    BY <2>6, <2>7, <2>8
<1> QED
  BY <1>2, <1>3, <1>4

\* Tracking what a prediction made keeps the queue sound and extends the chain.
LEMMA PredictSound ==
  ASSUME NEW p \in Page, NEW o \in 0..(LINES - 1), NEW a \in Int, NEW m \in Nat,
         ~knob.track_multiple, NEW pt, NEW last, NEW fr, NEW ln,
         Sound(pt, last, fr, ln, m),
         NEW q, q = Tracked([pt |-> pt, last |-> last, freed |-> fr, learned |-> ln],
                            Predicted(pt, p, o, a, m))
  PROVE  Sound(q.pt, q.last, q.freed, q.learned, m + 1) /\ Chained(ln, q.learned)
<1> DEFINE q0 == [pt |-> pt, last |-> last, freed |-> fr, learned |-> ln]
<1>1. PICK es : es = Predicted(pt, p, o, a, m)
  OBVIOUS
<1>2. q = Tracked(q0, es)
  BY <1>1
<1>3. \/ es = <<>>
      \/ \E e : /\ es = <<e>> /\ Fair(e) /\ e.state = m
                /\ e.address # NoPrefetch => Matches(pt, e.address) = {}
  BY <1>1, PredictedOne
<1>4. CASE es = <<>>
  <2>1. q = q0
    BY <1>2, <1>4 DEF Tracked
  <2>2. Sound(pt, last, fr, ln, m + 1)
    <3>1. \A x \in Nat : x < m => x < m + 1
      OBVIOUS
    <3>2. /\ \A i \in DOMAIN pt : pt[i].state \in Nat
          /\ last # NoEntry => last.state \in Nat
      BY DEF Sound, Fair, EntryT
    <3> QED
      BY <3>1, <3>2 DEF Sound
  <2> QED
    BY <2>1, <2>2 DEF Chained
<1>5. ASSUME NEW e, es = <<e>>, Fair(e), e.state = m,
             e.address # NoPrefetch => Matches(pt, e.address) = {}
      PROVE  Sound(q.pt, q.last, q.freed, q.learned, m + 1) /\ Chained(ln, q.learned)
  <2>1. <<e>> # <<>> /\ Len(<<e>>) = 1 /\ <<e>>[1] = e
    OBVIOUS
  <2>2. q = track(q0, e)
    BY <1>2, <1>5, <2>1 DEF Tracked
  <2> QED
    BY <1>5, <2>2, TrackSound
<1> QED
  BY <1>3, <1>4, <1>5

\* A demand: its reward, then the tracking of the prediction.
LEMMA InvokeSound ==
  ASSUME Inv, TrackOnceOnly, NEW l \in Line, NEW a \in Actions,
         invoke_prefetcher(l[1], l[2], a)
  PROVE  Inv' /\ Chained(learned, learned')
<1> DEFINE pt == DemandReward(prefetch_tracker, l)
           q == Tracked([pt |-> pt, last |-> last_evicted_tracker, freed |-> freed,
                         learned |-> learned],
                        Predicted(pt, l[1], l[2], a, made))
<1>1. /\ l = <<l[1], l[2]>> /\ l[1] \in Page /\ l[2] \in 0..(LINES - 1)
      /\ a \in Int /\ made \in Nat /\ ~knob.track_multiple /\ knob' = knob
      /\ knob \in Knobs /\ made' = made + 1
  BY ScoobyAssumption DEF Line, Inv, TrackOnceOnly, invoke_prefetcher
<1>2. [Queue EXCEPT !.pt = pt]
        = [pt |-> pt, last |-> last_evicted_tracker, freed |-> freed, learned |-> learned]
  BY DEF Queue
<1>3. /\ prefetch_tracker' = q.pt /\ last_evicted_tracker' = q.last
      /\ freed' = q.freed /\ learned' = q.learned
  BY <1>1, <1>2 DEF invoke_prefetcher
<1>4. Sound(pt, last_evicted_tracker, freed, learned, made)
  BY DemandSound
<1> HIDE DEF pt
<1>5. Sound(q.pt, q.last, q.freed, q.learned, made + 1) /\ Chained(learned, q.learned)
  BY <1>1, <1>4, PredictSound
<1> HIDE DEF q
<1> QED
  BY <1>1, <1>3, <1>5 DEF Inv

\* A fill is noted in the one entry of its line.
LEMMA FillSound ==
  ASSUME Inv, NEW l \in Line, register_fill(l)
  PROVE  Inv' /\ Chained(learned, learned')
<1> DEFINE p == prefetch_tracker
           F == search_pt(p, l, knob.reward_all)
<1>1. /\ p \in Seq(EntryT) /\ DOMAIN p = 1..Len(p) /\ Len(p) \in Nat
      /\ \A i \in DOMAIN p : Fair(p[i]) /\ p[i] \in EntryT
      /\ \A i, j \in DOMAIN p :
           p[i].address # NoPrefetch /\ p[i].address = p[j].address => i = j
  BY DEF Inv, Sound, Fair
<1>2. l # NoPrefetch
  <2>1. PICK x \in Page, y \in 0..(LINES - 1) : l = <<x, y>>
    BY DEF Line
  <2>2. Len(l) = 2 /\ Len(<<>>) = 0
    BY <2>1
  <2> QED
    BY <2>2 DEF NoPrefetch
<1>3. ASSUME NEW i \in DOMAIN p PROVE i \in F <=> p[i].address = l
  <2>1. \A j \in Matches(p, l) : p[i].address = l => j = i
    BY <1>1, <1>2 DEF Matches
  <2> QED
    BY <1>1, <2>1 DEF search_pt, Matches
<1>4. /\ p' = [i \in DOMAIN p |->
                 [p[i] EXCEPT !.is_filled = @ \/ i \in F,
                              !.arrived = @ \/ p[i].address = l]]
      /\ UNCHANGED <<knob, last_evicted_tracker, made, freed, learned>>
  BY DEF register_fill
<1> HIDE DEF F
<1>5. ASSUME NEW i \in DOMAIN p
      PROVE  Fair(p'[i]) /\ p'[i].state = p[i].state /\ p'[i].address = p[i].address
  <2>1. p[i] \in EntryT /\ Fair(p[i])
    BY <1>1
  <2>2. p'[i] = [p[i] EXCEPT !.is_filled = p[i].is_filled \/ p[i].address = l,
                             !.arrived = p[i].arrived \/ p[i].address = l]
    BY <1>3, <1>4, <2>1 DEF EntryT
  <2> QED
    BY <2>1, <2>2 DEF Fair, EntryT
<1>6. DOMAIN p' = DOMAIN p
  BY <1>4
<1>7. p' \in Seq(EntryT)
  <2>1. \A i \in 1..Len(p) : p'[i] \in EntryT
    BY <1>1, <1>5 DEF Fair
  <2>2. p' \in [1..Len(p) -> EntryT]
    BY <1>1, <1>4, <2>1
  <2> QED
    BY <1>1, <2>2, SeqDef
<1>8. Sound(prefetch_tracker, last_evicted_tracker, freed, learned, made)
  BY DEF Inv
<1>9. Sound(prefetch_tracker', last_evicted_tracker, freed, learned, made)
  BY <1>5, <1>6, <1>7, <1>8 DEF Sound
<1> QED
  BY <1>4, <1>9 DEF Inv, Chained

\* The empty tracker of the constructor.
LEMMA InitInv ==
  ASSUME Init
  PROVE  Inv
<1>1. <<>> \in Seq(EntryT) /\ DOMAIN <<>> = {}
  OBVIOUS
<1> QED
  BY <1>1 DEF Init, Inv, Sound, NoEntry, NoLearn

\* Every step keeps the invariant and extends the chain.
LEMMA NextInv ==
  ASSUME Inv, TrackOnceOnly, [Next]_vars
  PROVE  Inv' /\ Chained(learned, learned')
<1>1. CASE UNCHANGED vars
  BY <1>1 DEF vars, Inv, Chained
<1>2. CASE Next
  BY <1>2, InvokeSound, FillSound DEF Next
<1> QED
  BY <1>1, <1>2

\* The invariant is strong enough for what the runs check.
LEMMA InvSafe ==
  ASSUME Inv
  PROVE  StatesOwned /\ CreditFair
<1> DEFINE p == prefetch_tracker
<1>1. Sound(p, last_evicted_tracker, freed, learned, made)
  BY DEF Inv
<1>2. \A i \in DOMAIN p : p[i].state \in Nat /\ i \in Nat
  BY <1>1, LenProperties DEF Sound, Fair, EntryT
<1>3. last_evicted_tracker # NoEntry =>
        /\ last_evicted_tracker.state \in Nat
        /\ \A i \in DOMAIN p : last_evicted_tracker.state < p[i].state
  BY <1>1 DEF Sound, Fair, EntryT
<1>4. freed \subseteq Nat /\ (last_evicted_tracker = NoEntry => freed = {})
      /\ \A s \in freed : s < last_evicted_tracker.state
  BY <1>1 DEF Sound
<1>5. ASSUME NEW i \in DOMAIN p
      PROVE  /\ p[i].state \notin freed
             /\ last_evicted_tracker # NoEntry => p[i].state # last_evicted_tracker.state
  BY <1>2, <1>3, <1>4
<1>6. ASSUME NEW i \in DOMAIN p, NEW j \in DOMAIN p, p[i].state = p[j].state
      PROVE  i = j
  <2>1. ~(i < j) /\ ~(j < i)
    BY <1>1, <1>2, <1>6 DEF Sound
  <2> QED
    BY <1>2, <2>1
<1>7. last_evicted_tracker # NoEntry => last_evicted_tracker.state \notin freed
  BY <1>3, <1>4
<1>8. CreditFair
  BY <1>1 DEF CreditFair, Sound
<1> QED
  BY <1>5, <1>6, <1>7, <1>8 DEF StatesOwned

\* For every size of the tables, every set of actions and every stream of
\* accesses and fills, when a line is tracked once: no State is used after it was
\* deleted or deleted twice (track), and the engine is trained with the reward
\* each prefetch deserved (reward, train).
THEOREM TrackerSound == TrackOnceOnly /\ Spec => []TrackerExact
<1>1. TrackOnceOnly /\ Inv /\ [Next]_vars => Inv'
  BY NextInv
<1>2. Init => Inv
  BY InitInv
<1>3. Inv => TrackerExact
  BY InvSafe DEF TrackerExact
<1>4. TrackOnceOnly => []TrackOnceOnly
  <2>1. TrackOnceOnly => TrackOnceOnly'
    BY DEF TrackOnceOnly
  <2> QED
    BY <2>1, PTL
<1> QED
  BY <1>1, <1>2, <1>3, <1>4, PTL DEF Spec

\* Under the same condition the calls of learn form one chain along the actions:
\* each starts with the State the one before ended with (train).
THEOREM LearningChained == TrackOnceOnly /\ Spec => SarsaChain
<1>1. TrackOnceOnly /\ Inv /\ [Next]_vars => Inv'
  BY NextInv
<1>2. Init => Inv
  BY InitInv
<1>3. TrackOnceOnly /\ Inv /\ [Next]_vars
        => [learned' # learned =>
              /\ learned'.from < learned'.to
              /\ learned # NoLearn => learned'.from = learned.to]_vars
  BY NextInv DEF Chained
<1>4. TrackOnceOnly => []TrackOnceOnly
  <2>1. TrackOnceOnly => TrackOnceOnly'
    BY DEF TrackOnceOnly
  <2> QED
    BY <2>1, PTL
<1> QED
  BY <1>1, <1>2, <1>3, <1>4, PTL DEF Spec, SarsaChain

-----------------------------------------------------------------------------
(***************************************************************************)
(* The sizes of the tables, with any knobs, and what the signature table   *)
(* holds.  The erased iterator of insert_action_tracker shows the element  *)
(* it should as long as the tracker holds two actions at most, which is    *)
(* its default; with three, the run finds an action twice.                 *)
(***************************************************************************)
Distinct(s) == \A i, j \in DOMAIN s : s[i] = s[j] => i = j

ActionList(s) ==
  /\ s \in Seq(Actions) /\ Len(s) <= scooby_action_tracker_size
  /\ Distinct(s)

StEntry == [page : Page, bmp_pred : SUBSET Int, action_tracker : Seq(Actions)]

Signatures(st) ==
  /\ st \in Seq(StEntry) /\ Len(st) <= scooby_st_size
  /\ \A i, j \in DOMAIN st : st[i].page = st[j].page => i = j
  /\ \A i \in DOMAIN st : ActionList(st[i].action_tracker)

Tracker(pt) == pt \in Seq(EntryT) /\ Len(pt) <= scooby_pt_size

TablesInv ==
  /\ made \in Nat
  /\ Signatures(signature_table)
  /\ Tracker(prefetch_tracker)

\* Intervals from one that are equal end alike.
LEMMA SameInterval ==
  ASSUME NEW a \in Nat, NEW b \in Nat, 1..a = 1..b PROVE a = b
<1>1. ~(a < b)
  <2> SUFFICES ASSUME a < b PROVE FALSE
    OBVIOUS
  <2>1. b \in 1..b /\ b \notin 1..a
    OBVIOUS
  <2> QED
    BY <2>1
<1>2. ~(b < a)
  <2> SUFFICES ASSUME b < a PROVE FALSE
    OBVIOUS
  <2>1. a \in 1..a /\ a \notin 1..b
    OBVIOUS
  <2> QED
    BY <2>1
<1> QED
  BY <1>1, <1>2

\* A sequence is as long as its domain says.
LEMMA LenOfDomain ==
  ASSUME NEW S, NEW s \in Seq(S), NEW n \in Nat, DOMAIN s = 1..n
  PROVE  Len(s) = n
<1> DEFINE a == Len(s)
<1>1. 1..a = 1..n
  BY LenProperties, Zenon
<1>2. a \in Nat
  BY LenProperties
<1> HIDE DEF a
<1>3. a = n
  BY <1>1, <1>2, SameInterval
<1> QED
  BY <1>3 DEF a

\* Removing an element moves those behind it one place to the front.
LEMMA WithoutProperties ==
  ASSUME NEW S, NEW s \in Seq(S), NEW i \in DOMAIN s
  PROVE  /\ Without(s, i) \in Seq(S) /\ Len(Without(s, i)) = Len(s) - 1
         /\ \A j \in 1..(Len(s) - 1) :
              Without(s, i)[j] = s[IF j < i THEN j ELSE j + 1]
<1> DEFINE w == Without(s, i)
<1>1. Len(s) \in Nat \ {0} /\ DOMAIN s = 1..Len(s) /\ i \in 1..Len(s)
  BY EmptySeq, LenProperties
<1>2. \A j \in 1..(Len(s) - 1) : w[j] = s[IF j < i THEN j ELSE j + 1] /\ w[j] \in S
  BY <1>1, ElementOfSeq DEF Without
<1>3. w \in [1..(Len(s) - 1) -> S]
  BY <1>1, <1>2 DEF Without
<1>4. w \in Seq(S)
  BY <1>1, <1>3, SeqDef
<1>5. Len(w) = Len(s) - 1
  <2>1. DOMAIN w = 1..(Len(s) - 1) /\ Len(s) - 1 \in Nat
    BY <1>1, <1>3
  <2> HIDE DEF w
  <2> QED
    BY <1>4, <2>1, LenOfDomain
<1> QED
  BY <1>2, <1>4, <1>5

\* An action comes to the back of its tracker and is there once.
LEMMA InsertAction ==
  ASSUME scooby_action_tracker_size <= 2, NEW s, ActionList(s), NEW a \in Actions
  PROVE  ActionList(insert_action_tracker(s, a))
<1> DEFINE at == {i \in DOMAIN s : s[i] = a}
           t == insert_action_tracker(s, a)
<1>1. /\ s \in Seq(Actions) /\ Len(s) \in Nat /\ DOMAIN s = 1..Len(s)
      /\ Len(s) <= scooby_action_tracker_size /\ scooby_action_tracker_size \in {1, 2}
  BY LenProperties, ScoobyAssumption DEF ActionList
<1>2. ASSUME at # {} PROVE ActionList(t)
  <2>1. PICK i \in DOMAIN s : s[i] = a /\ (CHOOSE k \in at : \A j \in at : k <= j) = i
    <3>1. PICK i \in DOMAIN s : s[i] = a
      BY <1>2
    <3>2. \A j \in at : j = i
      BY <3>1 DEF ActionList, Distinct
    <3>3. at = {i}
      BY <3>1, <3>2
    <3> QED
      BY <1>1, <3>1, <3>3
  <2>2. ReadErased(s, i) = a
    <3>1. CASE Len(s) = 1
      BY <1>1, <2>1, <3>1 DEF ReadErased
    <3>2. CASE Len(s) = 2
      BY <1>1, <2>1, <3>2 DEF ReadErased
    <3> QED
      BY <1>1, <2>1, <3>1, <3>2
  <2>3. t = Append(Without(s, i), a)
    BY <1>2, <2>1, <2>2 DEF insert_action_tracker, Renewed
  <2> DEFINE w == Without(s, i)
  <2>4. /\ w \in Seq(Actions) /\ Len(w) = Len(s) - 1
        /\ \A j \in 1..(Len(s) - 1) : w[j] = s[IF j < i THEN j ELSE j + 1]
    BY <1>1, <2>1, WithoutProperties
  <2>9. t = Append(w, a) /\ w \in Seq(Actions)
    BY <2>3, <2>4
  <2> HIDE DEF w, t
  <2>5. /\ t \in Seq(Actions) /\ Len(t) = Len(s) /\ DOMAIN t = 1..Len(s)
        /\ \A j \in 1..(Len(s) - 1) : t[j] = w[j]
        /\ t[Len(s)] = a
    <3>1. /\ t \in Seq(Actions) /\ Len(t) = Len(w) + 1
          /\ \A j \in 1..Len(w) : t[j] = w[j]
          /\ t[Len(w) + 1] = a
      BY <2>9, AppendProperties
    <3>2. DOMAIN t = 1..Len(t)
      BY <3>1, LenProperties
    <3>3. Len(w) = Len(s) - 1 /\ Len(s) \in Nat
      BY <1>1, <2>4
    <3> QED
      BY <3>1, <3>2, <3>3
  <2>6. \A j \in 1..(Len(s) - 1) : w[j] # a
    BY <1>1, <2>1, <2>4 DEF ActionList, Distinct
  <2>7. \A j, k \in 1..(Len(s) - 1) : w[j] = w[k] => j = k
    BY <1>1, <2>1, <2>4 DEF ActionList, Distinct
  <2>8. ASSUME NEW j \in DOMAIN t, NEW k \in DOMAIN t, t[j] = t[k] PROVE j = k
    <3>1. (j \in 1..(Len(s) - 1) \/ j = Len(s)) /\ (k \in 1..(Len(s) - 1) \/ k = Len(s))
      BY <1>1, <2>5
    <3> QED
      BY <2>5, <2>6, <2>7, <2>8, <3>1
  <2> QED
    BY <1>1, <2>5, <2>8 DEF ActionList, Distinct
<1>3. ASSUME at = {} PROVE ActionList(t)
  <2> DEFINE f == IF Len(s) >= scooby_action_tracker_size THEN Tail(s) ELSE s
  <2>1. t = Append(f, a)
    BY <1>3 DEF insert_action_tracker
  <2>2. /\ f \in Seq(Actions) /\ Len(f) \in Nat /\ Len(f) < scooby_action_tracker_size
        /\ \A j \in 1..Len(f) : f[j] # a
        /\ \A j, k \in 1..Len(f) : f[j] = f[k] => j = k
    <3>1. CASE Len(s) >= scooby_action_tracker_size
      <4>1. s # <<>>
        BY <1>1, <3>1, EmptySeq
      <4>3. f = Tail(s)
        BY <3>1
      <4> HIDE DEF f
      <4>2. /\ f \in Seq(Actions) /\ Len(f) = Len(s) - 1
            /\ \A j \in 1..Len(f) : f[j] = s[j + 1] /\ j + 1 \in DOMAIN s
        BY <1>1, <4>1, <4>3, HeadTailProperties
      <4> QED
        BY <1>1, <1>3, <4>2 DEF ActionList, Distinct
    <3>2. CASE ~(Len(s) >= scooby_action_tracker_size)
      BY <1>1, <1>3, <3>2 DEF ActionList, Distinct
    <3> QED
      BY <3>1, <3>2
  <2> HIDE DEF f
  <2>3. /\ t \in Seq(Actions) /\ Len(t) = Len(f) + 1 /\ DOMAIN t = 1..(Len(f) + 1)
        /\ \A j \in 1..Len(f) : t[j] = f[j]
        /\ t[Len(f) + 1] = a
    BY <2>1, <2>2, AppendProperties
  <2> HIDE DEF t
  <2>4. ASSUME NEW j \in DOMAIN t, NEW k \in DOMAIN t, t[j] = t[k] PROVE j = k
    <3>1. (j \in 1..Len(f) \/ j = Len(f) + 1) /\ (k \in 1..Len(f) \/ k = Len(f) + 1)
      BY <2>2, <2>3
    <3> QED
      BY <2>2, <2>3, <2>4, <3>1
  <2> QED
    BY <1>1, <2>2, <2>3, <2>4 DEF ActionList, Distinct
<1> QED
  BY <1>2, <1>3

\* update_local_state keeps the pages apart, and the page accessed is the last.
LEMMA UpdateSignatures ==
  ASSUME NEW st, Signatures(st), NEW p \in Page,
         NEW u, u = update_local_state(st, p)
  PROVE  Signatures(u) /\ u # <<>> /\ u[Len(u)].page = p
<1> DEFINE fresh == [page |-> p, bmp_pred |-> {}, action_tracker |-> <<>>]
<1>1. /\ st \in Seq(StEntry) /\ Len(st) \in Nat /\ DOMAIN st = 1..Len(st)
      /\ Len(st) <= scooby_st_size /\ scooby_st_size \in Nat \ {0}
  BY LenProperties, ScoobyAssumption DEF Signatures
<1>2. fresh \in StEntry /\ fresh.page = p /\ ActionList(fresh.action_tracker)
  <2>1. <<>> \in Seq(Actions) /\ Len(<<>>) = 0 /\ DOMAIN <<>> = {}
    BY EmptySeq
  <2> QED
    BY <2>1, ScoobyAssumption DEF StEntry, ActionList, Distinct
<1> HIDE DEF fresh
<1>3. PICK f \in Seq(StEntry), e \in StEntry :
        /\ u = Append(f, e) /\ e.page = p /\ ActionList(e.action_tracker)
        /\ Len(f) \in Nat /\ Len(f) < scooby_st_size
        /\ \A j \in 1..Len(f) : f[j].page # p /\ ActionList(f[j].action_tracker)
        /\ \A j, k \in 1..Len(f) : f[j].page = f[k].page => j = k
  <2>1. CASE StIndex(st, p) # {}
    <3> DEFINE i == CHOOSE i \in StIndex(st, p) : TRUE
    <3>1. i \in DOMAIN st /\ st[i].page = p
      BY <2>1 DEF StIndex
    <3>2. u = Append(Without(st, i), st[i])
      BY <2>1 DEF update_local_state
    <3> HIDE DEF i
    <3>3. /\ Without(st, i) \in Seq(StEntry) /\ Len(Without(st, i)) = Len(st) - 1
          /\ \A j \in 1..(Len(st) - 1) :
               Without(st, i)[j] = st[IF j < i THEN j ELSE j + 1]
      BY <1>1, <3>1, WithoutProperties
    <3>4. st[i] \in StEntry /\ ActionList(st[i].action_tracker)
      BY <1>1, <3>1, ElementOfSeq DEF Signatures
    <3> DEFINE w == Without(st, i)
    <3>5. \A j \in 1..(Len(st) - 1) :
            /\ (IF j < i THEN j ELSE j + 1) \in DOMAIN st
            /\ (IF j < i THEN j ELSE j + 1) # i
      BY <1>1, <3>1
    <3>6. \A j \in 1..(Len(st) - 1) : w[j].page # p /\ ActionList(w[j].action_tracker)
      BY <3>1, <3>3, <3>5 DEF Signatures
    <3>7. ASSUME NEW j \in 1..(Len(st) - 1), NEW k \in 1..(Len(st) - 1),
                 w[j].page = w[k].page
          PROVE  j = k
      <4>1. (IF j < i THEN j ELSE j + 1) = (IF k < i THEN k ELSE k + 1)
        BY <3>3, <3>5, <3>7, SMTT(30) DEF Signatures
      <4> QED
        BY <1>1, <3>1, <4>1
    <3> QED
      BY <1>1, <3>1, <3>2, <3>3, <3>4, <3>6, <3>7, SMTT(30)
  <2>2. CASE StIndex(st, p) = {} /\ Len(st) >= scooby_st_size
    <3>1. st # <<>>
      BY <1>1, <2>2, EmptySeq
    <3>2. /\ Tail(st) \in Seq(StEntry) /\ Len(Tail(st)) = Len(st) - 1
          /\ \A j \in 1..Len(Tail(st)) : Tail(st)[j] = st[j + 1]
      BY <1>1, <3>1, HeadTailProperties
    <3>3. u = Append(Tail(st), fresh)
      BY <2>2 DEF update_local_state, fresh
    <3>4. \A j \in 1..Len(Tail(st)) : j + 1 \in DOMAIN st
      BY <1>1, <3>2
    <3>5. \A j \in DOMAIN st : st[j].page # p
      BY <2>2 DEF StIndex
    <3>6. \A j, k \in 1..Len(Tail(st)) : Tail(st)[j].page = Tail(st)[k].page => j = k
      BY <3>2, <3>4 DEF Signatures
    <3>7. \A j \in 1..Len(Tail(st)) :
            Tail(st)[j].page # p /\ ActionList(Tail(st)[j].action_tracker)
      BY <3>2, <3>4, <3>5 DEF Signatures
    <3>8. Len(Tail(st)) \in Nat /\ Len(Tail(st)) < scooby_st_size
      BY <1>1, <3>1, <3>2, EmptySeq
    <3>. Tail(st) \in Seq(StEntry) /\ fresh \in StEntry
      BY <1>2, <3>2
    <3> WITNESS Tail(st) \in Seq(StEntry), fresh \in StEntry
    <3> QED
      BY <1>2, <3>3, <3>6, <3>7, <3>8
  <2>3. CASE StIndex(st, p) = {} /\ ~(Len(st) >= scooby_st_size)
    <3>1. u = Append(st, fresh)
      BY <2>3 DEF update_local_state, fresh
    <3>2. \A j \in DOMAIN st : st[j].page # p /\ ActionList(st[j].action_tracker)
      BY <2>3 DEF StIndex, Signatures
    <3> QED
      BY <1>1, <1>2, <2>3, <3>1, <3>2, SMTT(30) DEF Signatures
  <2> QED
    BY <2>1, <2>2, <2>3
<1>4. /\ u \in Seq(StEntry) /\ Len(u) = Len(f) + 1 /\ DOMAIN u = 1..(Len(f) + 1)
      /\ \A j \in 1..Len(f) : u[j] = f[j]
      /\ u[Len(f) + 1] = e
  BY <1>3, AppendProperties
<1>5. \A j \in DOMAIN u : j \in 1..Len(f) \/ j = Len(f) + 1
  BY <1>3, <1>4
<1>6. \A j, k \in DOMAIN u : u[j].page = u[k].page => j = k
  BY <1>3, <1>4, <1>5
<1>7. \A j \in DOMAIN u : ActionList(u[j].action_tracker)
  BY <1>3, <1>4, <1>5
<1>8. u # <<>> /\ Len(u) <= scooby_st_size
  BY <1>1, <1>3, <1>4, EmptySeq
<1> QED
  BY <1>3, <1>4, <1>6, <1>7, <1>8 DEF Signatures

\* track_prefetch changes the entry of the page, and only its offsets and actions.
LEMMA TrackSignatures ==
  ASSUME scooby_action_tracker_size <= 2, NEW st, Signatures(st), st # <<>>,
         NEW o \in Int, NEW a \in Actions
  PROVE  Signatures(track_in_st(st, o, a))
<1> DEFINE n == Len(st)
           e == st[n]
           new == [e EXCEPT !.bmp_pred = @ \cup {o},
                            !.action_tracker = insert_action_tracker(@, a)]
           t == [st EXCEPT ![n] = new]
<1>1. st \in Seq(StEntry) /\ n \in Nat \ {0} /\ DOMAIN st = 1..n /\ n \in DOMAIN st
  BY EmptySeq, LenProperties DEF Signatures
<1>2. e \in StEntry /\ ActionList(insert_action_tracker(e.action_tracker, a))
  BY <1>1, ElementOfSeq, InsertAction DEF Signatures
<1>3. new \in StEntry /\ new.page = e.page /\ ActionList(new.action_tracker)
  BY <1>2 DEF StEntry, ActionList
<1> HIDE DEF new
<1>4. /\ t \in Seq(StEntry) /\ Len(t) = n /\ DOMAIN t = 1..n
      /\ \A j \in 1..n : t[j] = IF j = n THEN new ELSE st[j]
  BY <1>1, <1>3, ExceptSeq, LenProperties
<1>5. \A j \in DOMAIN t : t[j].page = st[j].page /\ ActionList(t[j].action_tracker)
  BY <1>1, <1>3, <1>4 DEF Signatures
<1>6. Signatures(t)
  BY <1>1, <1>4, <1>5 DEF Signatures
<1> QED
  BY <1>6 DEF track_in_st, new

-----------------------------------------------------------------------------
\* Rewarding a demand changes no entry's place and keeps every entry one.
LEMMA DemandTyped ==
  ASSUME NEW pt, Tracker(pt), NEW addr
  PROVE  Tracker(DemandReward(pt, addr))
<1> DEFINE R == Rewarded(pt, addr)
           d == DemandReward(pt, addr)
<1>1. pt \in Seq(EntryT) /\ DOMAIN pt = 1..Len(pt) /\ Len(pt) \in Nat
  BY LenProperties DEF Tracker
<1>2. d = [i \in DOMAIN pt |->
             LET e == IF pt[i].address = addr THEN Observe(pt[i]) ELSE pt[i] IN
             IF i \notin R THEN e
             ELSE [e EXCEPT !.reward = IF e.is_filled THEN "correct_timely"
                                       ELSE "correct_untimely"]]
  BY DEF DemandReward
<1> HIDE DEF R, d
<1>3. ASSUME NEW i \in DOMAIN pt PROVE d[i] \in EntryT
  <2> DEFINE e == IF pt[i].address = addr THEN Observe(pt[i]) ELSE pt[i]
  <2>1. pt[i] \in EntryT
    BY <1>1, <1>3, ElementOfSeq
  <2>2. e \in EntryT
    <3>1. Observe(pt[i]) \in EntryT
      BY <2>1 DEF Observe, EntryT
    <3> QED
      BY <2>1, <3>1
  <2>3. d[i] = IF i \notin R THEN e
               ELSE [e EXCEPT !.reward = IF e.is_filled THEN "correct_timely"
                                         ELSE "correct_untimely"]
    BY <1>2, <1>3
  <2> HIDE DEF e
  <2>4. [e EXCEPT !.reward = IF e.is_filled THEN "correct_timely"
                             ELSE "correct_untimely"] \in EntryT
    BY <2>2 DEF EntryT, Reward
  <2> QED
    BY <2>2, <2>3, <2>4
<1>4. d \in [1..Len(pt) -> EntryT]
  BY <1>1, <1>2, <1>3
<1>5. d \in Seq(EntryT) /\ Len(d) = Len(pt)
  BY <1>1, <1>4, SeqDef, LenOfDomain
<1> QED
  BY <1>5 DEF Tracker, d

\* A record of the parts of the state that track changes.
QueueOf(pt, last, fr, ln) == [pt |-> pt, last |-> last, freed |-> fr, learned |-> ln]

Whole(q) == q = QueueOf(q.pt, q.last, q.freed, q.learned) /\ Tracker(q.pt)

\* track keeps the tracker to its size, whatever is evicted.
LEMMA TrackTyped ==
  ASSUME NEW q, Whole(q), NEW e \in EntryT
  PROVE  Whole(track(q, e))
<1> DEFINE pt == q.pt
<1>1. /\ pt \in Seq(EntryT) /\ Len(pt) \in Nat /\ Len(pt) <= scooby_pt_size
      /\ scooby_pt_size \in Nat \ {0}
  BY LenProperties, ScoobyAssumption DEF Tracker, Whole
<1>2. CASE ~Full(pt)
  <2>1. track(q, e) = QueueOf(Append(pt, e), q.last, q.freed, q.learned)
    BY <1>2 DEF track, Whole, QueueOf
  <2>2. Append(pt, e) \in Seq(EntryT) /\ Len(Append(pt, e)) = Len(pt) + 1
    BY <1>1, AppendProperties
  <2>3. Tracker(Append(pt, e))
    BY <1>1, <1>2, <2>2 DEF Full, Tracker
  <2> QED
    BY <2>1, <2>3 DEF Whole, QueueOf
<1>3. CASE Full(pt)
  <2>1. pt # <<>>
    BY <1>1, <1>3, EmptySeq DEF Full
  <2>2. Tail(pt) \in Seq(EntryT) /\ Len(Tail(pt)) = Len(pt) - 1
    BY <1>1, <2>1, HeadTailProperties
  <2>3. Append(Tail(pt), e) \in Seq(EntryT) /\ Len(Append(Tail(pt), e)) = Len(pt)
    BY <1>1, <2>2, AppendProperties
  <2>4. Tracker(Append(Tail(pt), e))
    BY <1>1, <2>3 DEF Tracker
  <2> QED
    BY <1>3, <2>4 DEF track, Whole, QueueOf
<1> QED
  BY <1>2, <1>3

\* Two sequences of one element make one of two (the entries of a tracker hit).
LEMMA Pair ==
  ASSUME NEW S, NEW a \in S, NEW b \in S
  PROVE  <<a>> \o <<b>> = <<a, b>>
<1> DEFINE s == <<a>> \o <<b>>
           t == <<a, b>>
<1>1. <<a>> \in Seq(S) /\ <<b>> \in Seq(S) /\ Len(<<a>>) = 1 /\ Len(<<b>>) = 1
  OBVIOUS
<1>2. s \in Seq(S) /\ Len(s) = 2 /\ s[1] = a /\ s[2] = b
  BY <1>1, ConcatProperties
<1>3. t \in Seq(S) /\ Len(t) = 2 /\ t[1] = a /\ t[2] = b
  OBVIOUS
<1> HIDE DEF s, t
<1>4. s = t
  BY <1>2, <1>3, SeqEqual
<1> QED
  BY <1>4 DEF s, t

\* The entries of one prediction are entries, and two at most.
LEMMA PredictedTyped ==
  ASSUME NEW pt, NEW p \in Page, NEW o \in Int, NEW a \in Int, NEW s \in Nat,
         NEW es, es = Predicted(pt, p, o, a, s)
  PROVE  \/ es = <<>>
         \/ \E e \in EntryT : es = <<e>>
         \/ \E e, f \in EntryT : es = <<e, f>>
<1> DEFINE addr == <<p, o + a>>
           new == search_pt(pt, addr, FALSE) = {}
           some == Entry(addr, s, NoReward)
           hit == Entry(NoPrefetch, s, "tracker_hit")
           noone == Entry(NoPrefetch, s, NoReward)
           out == Entry(NoPrefetch, s, "out_of_bounds")
<1>1. noone \in EntryT /\ out \in EntryT /\ hit \in EntryT
  BY DEF Entry, EntryT, Reward, NoReward
<1>2. ASSUME o + a \in 0..(LINES - 1) PROVE some \in EntryT
  BY <1>2 DEF Entry, EntryT, Reward, NoReward, Line
<1>3. CASE a = 0
  BY <1>1, <1>3 DEF Predicted
<1>4. CASE a # 0 /\ o + a \notin 0..(LINES - 1)
  BY <1>1, <1>4 DEF Predicted
<1>5. CASE a # 0 /\ o + a \in 0..(LINES - 1)
  <2> DEFINE first == IF new \/ knob.track_multiple THEN <<some>> ELSE <<>>
             second == IF ~new /\ knob.reward_tracker_hit THEN <<hit>> ELSE <<>>
  <2>1. es = first \o second
    BY <1>5 DEF Predicted
  <2> HIDE DEF some, hit, new
  <2>2. some \in EntryT /\ hit \in EntryT
    BY <1>1, <1>2, <1>5
  <2>3. /\ <<>> \o <<>> = <<>> /\ <<>> \o <<hit>> = <<hit>>
        /\ <<some>> \o <<>> = <<some>> /\ <<some>> \o <<hit>> = <<some, hit>>
    <3>1. /\ <<>> \in Seq(EntryT) /\ <<some>> \in Seq(EntryT) /\ <<hit>> \in Seq(EntryT)
      BY <2>2
    <3>2. <<some>> \o <<hit>> = <<some, hit>>
      BY <2>2, Pair
    <3>3. <<>> \o <<>> = <<>> /\ <<>> \o <<hit>> = <<hit>> /\ <<some>> \o <<>> = <<some>>
      BY <3>1, ConcatEmptySeq
    <3> QED
      BY <3>2, <3>3
  <2> QED
    BY <2>1, <2>2, <2>3
<1> QED
  BY <1>3, <1>4, <1>5

\* One access keeps the tracker to its size.
LEMMA InvokeTyped ==
  ASSUME TablesInv, NEW l \in Line, NEW a \in Actions, invoke_prefetcher(l[1], l[2], a)
  PROVE  Tracker(prefetch_tracker')
<1> DEFINE pt == DemandReward(prefetch_tracker, <<l[1], l[2]>>)
           es == Predicted(pt, l[1], l[2], a, made)
           q == QueueOf(pt, last_evicted_tracker, freed, learned)
<1>1. l[1] \in Page /\ l[2] \in Int /\ a \in Int /\ made \in Nat
  BY ScoobyAssumption DEF Line, TablesInv
<1>2. Tracker(pt)
  BY DemandTyped DEF TablesInv
<1>3. prefetch_tracker' = Tracked(q, es).pt
  BY DEF invoke_prefetcher, Queue, QueueOf
<1>4. Whole(q)
  BY <1>2 DEF Whole, QueueOf
<1> HIDE DEF pt, q
<1>5. \/ es = <<>>
      \/ \E e \in EntryT : es = <<e>>
      \/ \E e, f \in EntryT : es = <<e, f>>
  BY <1>1, PredictedTyped
<1> HIDE DEF es
<1>6. Whole(Tracked(q, es))
  <2>1. CASE es = <<>>
    BY <1>4, <2>1 DEF Tracked
  <2>2. ASSUME NEW e \in EntryT, es = <<e>> PROVE Whole(Tracked(q, es))
    <3>1. es # <<>> /\ Len(es) = 1 /\ es[1] = e
      BY <2>2
    <3>2. Tracked(q, es) = track(q, e)
      BY <3>1 DEF Tracked
    <3> QED
      BY <1>4, <3>2, TrackTyped
  <2>3. ASSUME NEW e \in EntryT, NEW f \in EntryT, es = <<e, f>>
        PROVE  Whole(Tracked(q, es))
    <3>1. es # <<>> /\ Len(es) = 2 /\ es[1] = e /\ es[2] = f
      BY <2>3
    <3>2. Tracked(q, es) = track(track(q, e), f)
      BY <3>1 DEF Tracked
    <3>3. Whole(track(q, e))
      BY <1>4, TrackTyped
    <3> QED
      BY <3>2, <3>3, TrackTyped
  <2> QED
    BY <1>5, <2>1, <2>2, <2>3
<1> QED
  BY <1>3, <1>6 DEF Whole

\* A fill changes flags of entries and nothing else.
LEMMA FillTyped ==
  ASSUME TablesInv, NEW l \in Line, register_fill(l)
  PROVE  Tracker(prefetch_tracker')
<1> DEFINE p == prefetch_tracker
           F == search_pt(p, l, knob.reward_all)
<1>1. p \in Seq(EntryT) /\ DOMAIN p = 1..Len(p) /\ Len(p) \in Nat
  BY LenProperties DEF TablesInv, Tracker
<1>2. p' = [i \in DOMAIN p |->
              [p[i] EXCEPT !.is_filled = @ \/ i \in F, !.arrived = @ \/ p[i].address = l]]
  BY DEF register_fill
<1> HIDE DEF F
<1>3. ASSUME NEW i \in DOMAIN p PROVE p'[i] \in EntryT
  <2>1. p[i] \in EntryT
    BY <1>1, <1>3, ElementOfSeq
  <2>2. p'[i] = [p[i] EXCEPT !.is_filled = @ \/ i \in F, !.arrived = @ \/ p[i].address = l]
    BY <1>2, <1>3
  <2> QED
    BY <2>1, <2>2 DEF EntryT
<1>4. p' \in [1..Len(p) -> EntryT]
  BY <1>1, <1>2, <1>3
<1> HIDE DEF p
<1>5. p' \in Seq(EntryT) /\ Len(p') = Len(p)
  BY <1>1, <1>4, SeqDef, LenOfDomain
<1> QED
  BY <1>5 DEF p, TablesInv, Tracker

\* Both tables are kept by every step.
LEMMA TablesKept ==
  ASSUME scooby_action_tracker_size <= 2, TablesInv, [Next]_vars
  PROVE  TablesInv'
<1>1. ASSUME NEW l \in Line, NEW a \in Actions, invoke_prefetcher(l[1], l[2], a)
      PROVE  TablesInv'
  <2> DEFINE st == update_local_state(signature_table, l[1])
  <2>1. l[1] \in Page /\ l[2] + a \in Int /\ made' \in Nat
    BY <1>1, ScoobyAssumption DEF Line, TablesInv, invoke_prefetcher
  <2>2. Signatures(st) /\ st # <<>>
    BY <2>1, UpdateSignatures DEF TablesInv
  <2>3. signature_table' = track_in_st(st, l[2] + a, a) \/ signature_table' = st
    BY <1>1 DEF invoke_prefetcher
  <2> HIDE DEF st
  <2>4. Signatures(signature_table')
    BY <2>1, <2>2, <2>3, TrackSignatures
  <2>5. Tracker(prefetch_tracker')
    BY <1>1, InvokeTyped
  <2> QED
    BY <2>1, <2>4, <2>5 DEF TablesInv, Signatures, Tracker
<1>2. ASSUME NEW l \in Line, register_fill(l) PROVE TablesInv'
  BY <1>2, FillTyped DEF TablesInv, register_fill, Signatures, Tracker
<1>3. CASE UNCHANGED vars
  BY <1>3 DEF TablesInv, vars, Signatures, Tracker
<1> QED
  BY <1>1, <1>2, <1>3 DEF Next

\* For every stream of accesses and every setting of the other knobs, the tables
\* keep to their sizes and hold a page, and an action of a page, once, when the
\* action tracker holds at most its default of two (scooby_action_tracker_size,
\* knobs.cc:223).
THEOREM TablesStayExact ==
  ASSUME scooby_action_tracker_size <= 2
  PROVE  Spec => []TablesExact
<1>1. Init => TablesInv
  <2>1. /\ <<>> \in Seq(StEntry) /\ <<>> \in Seq(EntryT) /\ Len(<<>>) = 0
        /\ DOMAIN <<>> = {}
    BY EmptySeq
  <2> QED
    BY <2>1, ScoobyAssumption DEF Init, TablesInv, Signatures, Tracker
<1>2. TablesInv /\ [Next]_vars => TablesInv'
  BY TablesKept
<1>3. TablesInv => TablesExact
  <2> SUFFICES ASSUME TablesInv PROVE TablesExact
    OBVIOUS
  <2>1. \A i \in DOMAIN prefetch_tracker :
          /\ prefetch_tracker[i].address \in Line \cup {NoPrefetch}
          /\ prefetch_tracker[i].reward \in Reward
    <3>1. \A i \in DOMAIN prefetch_tracker : prefetch_tracker[i] \in EntryT
      BY ElementOfSeq, LenProperties DEF TablesInv, Tracker
    <3> QED
      BY <3>1 DEF EntryT
  <2> QED
    BY <2>1 DEF TablesInv, Signatures, Tracker, TablesExact, TypeOK, ActionsDistinct,
                ActionList, Distinct
<1> QED
  BY <1>1, <1>2, <1>3, PTL DEF Spec


-----------------------------------------------------------------------------
(***************************************************************************)
(* The learning engine.                                                    *)
(***************************************************************************)

\* The least element of a set of natural numbers that is not empty.
LEMMA LeastNumber ==
  ASSUME NEW S \in SUBSET Nat, S # {}
  PROVE  \E x \in S : \A y \in S : x <= y
<1> DEFINE L == OpToRel(<, Nat)
<1>1. \A x, y \in Nat : x < y => <<x, y>> \in L
  BY DEF OpToRel
<1>2. IsWellFoundedOn(L, Nat)
  BY NatLessThanWellFounded
<1> HIDE DEF L
<1>3. PICK x \in S : \A y \in S : ~(<<y, x>> \in L)
  BY <1>2, WFMin
<1>4. ASSUME NEW y \in S PROVE x <= y
  <2>1. x \in Nat /\ y \in Nat /\ ~(y < x)
    BY <1>1, <1>3
  <2> QED
    BY <2>1
<1> QED
  BY <1>4

\* A function on the subsets of a finite set that starts at base, and of which each
\* further value is made by step from an element ch takes out and the value before.
Recursive(S, X, base, ch, step, g) ==
  /\ g \in [SUBSET S -> X] /\ g[{}] = base
  /\ \A T \in SUBSET S : T # {} => g[T] = step[ch[T], g[T \ {ch[T]}]]

LEMMA RecursionOnSets ==
  ASSUME NEW S, IsFiniteSet(S), NEW X, NEW base \in X,
         NEW ch, \A T \in SUBSET S : T # {} => ch[T] \in T,
         NEW step \in [S \X X -> X]
  PROVE  \E g : Recursive(S, X, base, ch, step, g)
<1> DEFINE Upto(n, g) ==
             /\ g \in [SUBSET S -> X] /\ g[{}] = base
             /\ \A T \in SUBSET S : T # {} /\ Cardinality(T) <= n =>
                  g[T] = step[ch[T], g[T \ {ch[T]}]]
<1>1. \A T \in SUBSET S : /\ Cardinality(T) \in Nat /\ Cardinality(T) <= Cardinality(S)
                          /\ Cardinality(T) = 0 <=> T = {}
  BY FS_Subset, FS_CardinalityType, FS_EmptySet
<1>2. \A T \in SUBSET S : T # {} =>
        /\ T \ {ch[T]} \in SUBSET S /\ ch[T] \in S
        /\ Cardinality(T \ {ch[T]}) = Cardinality(T) - 1
  BY FS_Subset, FS_RemoveElement
<1>3. \E g : Upto(0, g)
  <2> DEFINE g == [T \in SUBSET S |-> base]
  <2>1. g \in [SUBSET S -> X] /\ g[{}] = base
    OBVIOUS
  <2>2. \A T \in SUBSET S : ~(T # {} /\ Cardinality(T) <= 0)
    BY <1>1
  <2> HIDE DEF g
  <2> QED
    BY <2>1, <2>2
<1>4. ASSUME NEW n \in Nat, NEW g, Upto(n, g) PROVE \E h : Upto(n + 1, h)
  <2> DEFINE h == [T \in SUBSET S |-> IF Cardinality(T) = n + 1 THEN step[ch[T], g[T \ {ch[T]}]] ELSE g[T]]
  <2>1. \A T \in SUBSET S : Cardinality(T) = n + 1 => T # {}
    BY <1>1
  <2>2. h \in [SUBSET S -> X]
    BY <1>2, <1>4, <2>1
  <2>3. h[{}] = base
    <3>1. {} \in SUBSET S /\ Cardinality({}) # n + 1
      BY <2>1
    <3> QED
      BY <1>4, <3>1
  <2>4. ASSUME NEW T \in SUBSET S, T # {}, Cardinality(T) <= n + 1
        PROVE  h[T] = step[ch[T], h[T \ {ch[T]}]]
    <3>1. /\ T \ {ch[T]} \in SUBSET S /\ Cardinality(T) \in Nat
          /\ Cardinality(T \ {ch[T]}) = Cardinality(T) - 1
      BY <1>1, <1>2, <2>4
    <3>2. h[T \ {ch[T]}] = g[T \ {ch[T]}]
      <4>1. Cardinality(T \ {ch[T]}) # n + 1
        BY <2>4, <3>1
      <4> QED
        BY <3>1, <4>1
    <3>3. CASE Cardinality(T) = n + 1
      BY <3>2, <3>3
    <3>4. CASE Cardinality(T) # n + 1
      <4>1. Cardinality(T) <= n
        BY <2>4, <3>1, <3>4
      <4>2. g[T] = step[ch[T], g[T \ {ch[T]}]]
        BY <1>4, <2>4, <4>1
      <4> QED
        BY <3>2, <3>4, <4>2
    <3> QED
      BY <3>3, <3>4
  <2> HIDE DEF h
  <2> QED
    BY <2>2, <2>3, <2>4
<1> HIDE DEF Upto
<1>5. \E g : Upto(Cardinality(S), g)
  <2> SUFFICES ASSUME ~\E g : Upto(Cardinality(S), g) PROVE FALSE
    OBVIOUS
  <2> DEFINE B == {n \in Nat : ~\E g : Upto(n, g)}
  <2>1. Cardinality(S) \in B
    BY FS_CardinalityType
  <2>2. PICK n \in B : \A m \in B : n <= m
    BY <2>1, LeastNumber
  <2>3. n # 0 /\ n - 1 \in Nat /\ (n - 1) + 1 = n
    BY <1>3
  <2>4. ~(n - 1 \in B)
    BY <2>2, <2>3
  <2>5. \E g : Upto(n - 1, g)
    BY <2>3, <2>4
  <2> QED
    BY <1>4, <2>2, <2>3, <2>5
<1> QED
  BY <1>1, <1>5 DEF Upto, Recursive


\* g adds up v over each subset of S.
Sums(S, v, g) ==
  /\ g \in [SUBSET S -> Int] /\ g[{}] = 0
  /\ \A T \in SUBSET S : T # {} =>
       g[T] = v[CHOOSE x \in T : TRUE] + g[T \ {CHOOSE x \in T : TRUE}]

LEMMA SumIsRecursive ==
  ASSUME NEW S, IsFiniteSet(S), NEW v \in [S -> Int]
  PROVE  \E g : Sums(S, v, g) /\ SumFunction(v) = g[S]
<1> DEFINE ch == [T \in SUBSET S |-> CHOOSE x \in T : TRUE]
           step == [p \in S \X Int |-> v[p[1]] + p[2]]
           Body(g) == [T \in SUBSET S |-> IF T = {} THEN 0
                         ELSE v[CHOOSE x \in T : TRUE] + g[T \ {CHOOSE x \in T : TRUE}]]
           it == CHOOSE g : g = Body(g)
<1>1. SumFunction(v) = it[S]
  BY DEF SumFunction, SumFunctionOnSet, FoldFunctionOnSet, MapThenFoldSet
<1>2. \A T \in SUBSET S : T # {} => ch[T] \in T
  OBVIOUS
<1>3. step \in [S \X Int -> Int]
  OBVIOUS
<1>4. PICK h : Recursive(S, Int, 0, ch, step, h)
  <2>1. 0 \in Int
    OBVIOUS
  <2> HIDE DEF ch, step
  <2> QED
    BY <1>2, <1>3, <2>1, RecursionOnSets, Zenon
<1>5. ASSUME NEW T \in SUBSET S, T # {}
      PROVE  h[T] = v[CHOOSE x \in T : TRUE] + h[T \ {CHOOSE x \in T : TRUE}]
  <2>1. h[T] = step[ch[T], h[T \ {ch[T]}]]
    BY <1>4, <1>5, Zenon DEF Recursive
  <2>2. ch[T] \in S /\ ch[T] = CHOOSE x \in T : TRUE
    BY <1>2, <1>5
  <2>3. h[T \ {ch[T]}] \in Int
    BY <1>4 DEF Recursive
  <2> HIDE DEF ch
  <2>4. step[ch[T], h[T \ {ch[T]}]] = v[ch[T]] + h[T \ {ch[T]}]
    BY <2>2, <2>3
  <2> QED
    BY <2>1, <2>2, <2>4
<1>6. h = Body(h)
  <2>1. h \in [SUBSET S -> Int] /\ h[{}] = 0
    BY <1>4 DEF Recursive
  <2>2. \A T \in SUBSET S : h[T] = IF T = {} THEN 0
                         ELSE v[CHOOSE x \in T : TRUE] + h[T \ {CHOOSE x \in T : TRUE}]
    BY <1>5, <2>1
  <2> QED
    BY <2>1, <2>2
<1>7. it = Body(it)
  <2> HIDE DEF Body
  <2> QED
    BY <1>6
<1> HIDE DEF it
<1>8. Sums(S, v, it)
  <2>1. it[{}] = 0 /\ DOMAIN it = SUBSET S
    BY <1>7
  <2>2. ASSUME NEW T \in SUBSET S, T # {}
        PROVE it[T] = v[CHOOSE x \in T : TRUE] + it[T \ {CHOOSE x \in T : TRUE}]
    BY <1>7, <2>2
  <2>3. it \in [SUBSET S -> Int]
    <3>1. \A T \in SUBSET S : it[T] \in Int
      <4> SUFFICES ASSUME NEW T0 \in SUBSET S, it[T0] \notin Int PROVE FALSE
        OBVIOUS
      <4> DEFINE B == {n \in Nat : \E T \in SUBSET S : Cardinality(T) = n /\ it[T] \notin Int}
      <4>1. \A T \in SUBSET S : IsFiniteSet(T) /\ Cardinality(T) \in Nat
        BY FS_Subset, FS_CardinalityType
      <4>2. PICK n \in B : \A m \in B : n <= m
        <5>1. Cardinality(T0) \in B
          BY <4>1
        <5> HIDE DEF B
        <5>2. B # {}
          BY <5>1
        <5>3. B \in SUBSET Nat
          BY DEF B
        <5> QED
          BY <5>2, <5>3, LeastNumber
      <4>3. PICK T \in SUBSET S : Cardinality(T) = n /\ it[T] \notin Int
        BY <4>2
      <4>4. T # {}
        <5>1. it[{}] \in Int
          BY <2>1
        <5> QED
          BY <4>3, <5>1, Zenon
      <4>5. PICK x \in T : x = CHOOSE y \in T : TRUE
        BY <4>4
      <4>6. it[T] = v[x] + it[T \ {x}]
        BY <2>2, <4>4, <4>5
      <4>7. T \ {x} \in SUBSET S /\ Cardinality(T \ {x}) = n - 1
        BY <4>1, <4>3, <4>5, FS_RemoveElement
      <4>8. it[T \ {x}] \in Int
        <5>1. ~(n - 1 \in B)
          BY <4>2
        <5>2. n - 1 \in Nat
          BY <4>1, <4>7
        <5> QED
          BY <4>7, <5>1, <5>2
      <4> QED
        BY <4>3, <4>5, <4>6, <4>8
    <3> QED
      BY <2>1, <3>1, <1>7
  <2> QED
    BY <2>1, <2>2, <2>3 DEF Sums
<1> QED
  BY <1>1, <1>8

\* A sum is a number, and rises with what is added.
LEMMA SumsCompared ==
  ASSUME NEW S, IsFiniteSet(S), NEW v \in [S -> Int], NEW w \in [S -> Int]
  PROVE  /\ SumFunction(v) \in Int
         /\ S # {} /\ (\A x \in S : v[x] < w[x]) => SumFunction(v) < SumFunction(w)
         /\ (\A x \in S : v[x] <= w[x]) => SumFunction(v) <= SumFunction(w)
<1>1. PICK g : Sums(S, v, g) /\ SumFunction(v) = g[S]
  BY SumIsRecursive
<1>2. PICK h : Sums(S, w, h) /\ SumFunction(w) = h[S]
  BY SumIsRecursive
<1>3. \A T \in SUBSET S : IsFiniteSet(T) /\ Cardinality(T) \in Nat
  BY FS_Subset, FS_CardinalityType
<1>4. \A T \in SUBSET S : T # {} => \E x \in T : /\ g[T] = v[x] + g[T \ {x}]
                                                  /\ h[T] = w[x] + h[T \ {x}]
  <2> SUFFICES ASSUME NEW T \in SUBSET S, T # {}
               PROVE  \E x \in T : g[T] = v[x] + g[T \ {x}] /\ h[T] = w[x] + h[T \ {x}]
    OBVIOUS
  <2>1. PICK x \in T : x = CHOOSE y \in T : TRUE
    OBVIOUS
  <2> QED
    BY <1>1, <1>2, <2>1 DEF Sums
<1>5. /\ \A T \in SUBSET S : g[T] \in Int /\ h[T] \in Int
      /\ g[{}] = 0 /\ h[{}] = 0
  BY <1>1, <1>2 DEF Sums
<1>6. ASSUME \A x \in S : v[x] <= w[x],
             NEW strict \in BOOLEAN, strict => \A x \in S : v[x] < w[x],
             NEW T0 \in SUBSET S, ~(g[T0] <= h[T0] /\ (strict /\ T0 # {} => g[T0] < h[T0]))
      PROVE  FALSE
  <2> DEFINE Good(T) == g[T] <= h[T] /\ (strict /\ T # {} => g[T] < h[T])
             B == {n \in Nat : \E T \in SUBSET S : Cardinality(T) = n /\ ~Good(T)}
  <2>1. PICK n \in B : \A m \in B : n <= m
    <3>1. Cardinality(T0) \in B
      BY <1>3, <1>6
    <3> HIDE DEF B
    <3>2. B # {}
      BY <3>1
    <3>3. B \in SUBSET Nat
      BY DEF B
    <3> QED
      BY <3>2, <3>3, LeastNumber
  <2>2. PICK T \in SUBSET S : Cardinality(T) = n /\ ~Good(T)
    BY <2>1
  <2>3. T # {}
    <3>1. Good({})
      BY <1>5
    <3> HIDE DEF Good
    <3> QED
      BY <2>2, <3>1, Zenon
  <2>4. PICK x \in T : g[T] = v[x] + g[T \ {x}] /\ h[T] = w[x] + h[T \ {x}]
    BY <1>4, <2>3
  <2>5. T \ {x} \in SUBSET S /\ Cardinality(T \ {x}) = n - 1
    BY <1>3, <2>2, <2>4, FS_RemoveElement
  <2>6. Good(T \ {x})
    <3>1. ~(n - 1 \in B) /\ n - 1 \in Nat
      BY <1>3, <2>1, <2>5
    <3> QED
      BY <2>5, <3>1
  <2>7. v[x] <= w[x] /\ v[x] \in Int /\ w[x] \in Int /\ (strict => v[x] < w[x])
    BY <1>6, <2>2
  <2>8. g[T \ {x}] \in Int /\ h[T \ {x}] \in Int /\ g[T] \in Int /\ h[T] \in Int
    BY <1>5, <2>5
  <2>9. g[T \ {x}] <= h[T \ {x}]
    BY <2>6
  <2>10. g[T] <= h[T] /\ (strict => g[T] < h[T])
    BY <2>4, <2>7, <2>8, <2>9
  <2> QED
    BY <2>2, <2>10
<1>7. S # {} /\ (\A x \in S : v[x] < w[x]) => g[S] < h[S]
  <2> SUFFICES ASSUME S # {}, \A x \in S : v[x] < w[x] PROVE g[S] < h[S]
    OBVIOUS
  <2>1. \A x \in S : v[x] <= w[x]
    OBVIOUS
  <2>2. S \in SUBSET S
    OBVIOUS
  <2> QED
    BY <1>6, <2>1, <2>2
<1>8. (\A x \in S : v[x] <= w[x]) => g[S] <= h[S]
  <2>1. S \in SUBSET S
    OBVIOUS
  <2> QED
    BY <1>6, <2>1
<1> QED
  BY <1>1, <1>2, <1>5, <1>7, <1>8

\* A sum of numbers above zero is above zero.
LEMMA SumPositive ==
  ASSUME NEW S, IsFiniteSet(S), S # {}, NEW v \in [S -> Int], \A x \in S : v[x] > 0
  PROVE  SumFunction(v) > 0
<1>1. PICK g : Sums(S, v, g) /\ SumFunction(v) = g[S]
  BY SumIsRecursive
<1>2. \A T \in SUBSET S : IsFiniteSet(T) /\ Cardinality(T) \in Nat
  BY FS_Subset, FS_CardinalityType
<1>3. ASSUME NEW T0 \in SUBSET S, ~(g[T0] >= 0 /\ (T0 # {} => g[T0] > 0)) PROVE FALSE
  <2> DEFINE Good(T) == g[T] >= 0 /\ (T # {} => g[T] > 0)
             B == {n \in Nat : \E T \in SUBSET S : Cardinality(T) = n /\ ~Good(T)}
  <2>1. PICK n \in B : \A m \in B : n <= m
    <3>1. Cardinality(T0) \in B
      BY <1>2, <1>3
    <3> HIDE DEF B
    <3>2. B # {}
      BY <3>1
    <3>3. B \in SUBSET Nat
      BY DEF B
    <3> QED
      BY <3>2, <3>3, LeastNumber
  <2>2. PICK T \in SUBSET S : Cardinality(T) = n /\ ~Good(T)
    BY <2>1
  <2>3. T # {}
    <3>1. Good({})
      BY <1>1 DEF Sums
    <3> HIDE DEF Good
    <3> QED
      BY <2>2, <3>1, Zenon
  <2>4. PICK x \in T : x = CHOOSE y \in T : TRUE
    BY <2>3
  <2>5. g[T] = v[x] + g[T \ {x}]
    BY <1>1, <2>3, <2>4 DEF Sums
  <2>6. T \ {x} \in SUBSET S /\ Cardinality(T \ {x}) = n - 1
    BY <1>2, <2>2, <2>4, FS_RemoveElement, ZenonT(40)
  <2>7. Good(T \ {x})
    <3>1. ~(n - 1 \in B) /\ n - 1 \in Nat
      BY <1>2, <2>1, <2>6
    <3> QED
      BY <2>6, <3>1
  <2>8. v[x] \in Int /\ v[x] > 0 /\ g[T \ {x}] \in Int /\ g[T \ {x}] >= 0
    BY <1>1, <2>2, <2>6, <2>7 DEF Sums
  <2> QED
    BY <2>2, <2>5, <2>8
<1> QED
  BY <1>1, <1>3

\* A finite set has a greatest value.
LEMMA Greatest ==
  ASSUME NEW S, IsFiniteSet(S), S # {}, NEW v \in [S -> Int]
  PROVE  \E x \in S : \A y \in S : v[y] <= v[x]
<1>1. \A T \in SUBSET S : IsFiniteSet(T) /\ Cardinality(T) \in Nat
  BY FS_Subset, FS_CardinalityType
<1> DEFINE Good(T) == \E x \in T : \A y \in T : v[y] <= v[x]
           B == {n \in Nat : \E T \in SUBSET S : Cardinality(T) = n /\ T # {} /\ ~Good(T)}
<1>2. SUFFICES ASSUME ~Good(S) PROVE FALSE
  OBVIOUS
<1>3. PICK n \in B : \A m \in B : n <= m
  <2>1. Cardinality(S) \in B
    BY <1>1, <1>2
  <2> HIDE DEF B
  <2>2. B # {}
    BY <2>1
  <2>3. B \in SUBSET Nat
    BY DEF B
  <2> QED
    BY <2>2, <2>3, LeastNumber
<1>4. PICK T \in SUBSET S : Cardinality(T) = n /\ T # {} /\ ~Good(T)
  BY <1>3
<1>5. PICK x \in T : TRUE
  BY <1>4
<1>6. T \ {x} \in SUBSET S /\ Cardinality(T \ {x}) = n - 1
  BY <1>1, <1>4, <1>5, FS_RemoveElement
<1>7. T \ {x} # {} => Good(T \ {x})
  <2>1. ~(n - 1 \in B) /\ n - 1 \in Nat
    BY <1>1, <1>3, <1>6
  <2> QED
    BY <1>6, <2>1
<1>8. \A y \in T : v[y] \in Int
  BY <1>4
<1>9. CASE T \ {x} = {}
  <2>1. \A y \in T : y = x
    BY <1>9
  <2> QED
    BY <1>4, <1>8, <2>1
<1>10. CASE T \ {x} # {}
  <2>1. PICK z \in T \ {x} : \A y \in T \ {x} : v[y] <= v[z]
    BY <1>7, <1>10
  <2>2. z \in T /\ \A y \in T : y = x \/ v[y] <= v[z]
    BY <2>1
  <2>3. CASE v[x] <= v[z]
    BY <1>4, <2>2, <2>3
  <2>4. CASE ~(v[x] <= v[z])
    <3>1. \A y \in T : v[y] <= v[x]
      BY <1>8, <2>2, <2>4
    <3> QED
      BY <1>4, <3>1
  <2> QED
    BY <2>3, <2>4
<1> QED
  BY <1>9, <1>10

LEMMA MaxOf ==
  ASSUME NEW S, IsFiniteSet(S), S # {}, NEW v \in [S -> Int]
  PROVE  LET M == Max({v[x] : x \in S}) IN
         M \in Int /\ (\E x \in S : M = v[x]) /\ \A x \in S : v[x] <= M
<1> DEFINE V == {v[x] : x \in S}
<1>1. PICK x \in S : \A y \in S : v[y] <= v[x]
  BY Greatest
<1>2. v[x] \in V /\ \A y \in V : v[x] >= y
  BY <1>1
<1> HIDE DEF V
<1>3. Max(V) \in V /\ \A y \in V : Max(V) >= y
  BY <1>2 DEF Max
<1> QED
  BY <1>3 DEF V

LEMMA ActionsFinite ==
  IsFiniteSet(Action) /\ Action # {} /\ Action \in SUBSET Nat
<1>1. {m_actions, alpha_inv, gamma_den, FirstWeight, gradient_inv} \subseteq Nat \ {0}
  BY LearningAssumption, Zenon DEF LearningAssumption
<1>2. m_actions \in Nat /\ m_actions # 0
  BY <1>1
<1>3. m_actions - 1 \in Nat /\ 0 \in Int /\ m_actions - 1 \in Int
  BY <1>2
<1>4. IsFiniteSet(0..(m_actions - 1))
  BY <1>3, FS_Interval
<1>5. 0 \in 0..(m_actions - 1) /\ 0..(m_actions - 1) \in SUBSET Nat
  BY <1>3
<1> QED
  BY <1>4, <1>5 DEF Action

\* The first of the best actions.
FirstBest(value, b) ==
  /\ b \in Action /\ \A a \in Action : value[a] <= value[b]
  /\ \A a \in Action : a < b => value[a] < value[b]

\* Selected is the first of the best actions, or action 0.
LEMMA SelectedIs ==
  ASSUME NEW value \in [Action -> Int], NEW fallback \in BOOLEAN
  PROVE  /\ \E b : /\ FirstBest(value, b)
                   /\ Selected(value, fallback) = IF fallback /\ value[b] <= 0 THEN 0 ELSE b
         /\ \A b, c : FirstBest(value, b) /\ FirstBest(value, c) => b = c
<1>2. IsFiniteSet(Action) /\ Action # {} /\ Action \in SUBSET Nat
  BY ActionsFinite
<1> DEFINE best == Max({value[a] : a \in Action})
           B == {a \in Action : value[a] = best}
<1>3. best \in Int /\ (\E x \in Action : best = value[x]) /\ \A x \in Action : value[x] <= best
  BY <1>2, MaxOf
<1>4. Selected(value, fallback) = IF fallback /\ best <= 0 THEN 0 ELSE Min(B)
  BY DEF Selected
<1> HIDE DEF best
<1>5. PICK b \in B : \A a \in B : b <= a
  <2>1. B \in SUBSET Nat /\ B # {}
    BY <1>2, <1>3
  <2> HIDE DEF B
  <2> QED
    BY <2>1, LeastNumber
<1>6. Min(B) = b
  <2>1. Min(B) \in B /\ \A y \in B : Min(B) <= y
    BY <1>5 DEF Min
  <2>2. Min(B) \in Nat /\ b \in Nat /\ b <= Min(B) /\ Min(B) <= b
    BY <1>2, <1>5, <2>1
  <2> QED
    BY <2>2
<1>7. FirstBest(value, b)
  <2>1. ASSUME NEW a \in Action, a < b PROVE value[a] < value[b]
    <3>1. ~(a \in B)
      BY <1>2, <1>5, <2>1
    <3>2. value[a] # best /\ value[a] <= best /\ value[b] = best /\ value[a] \in Int
      BY <1>3, <1>5, <2>1, <3>1
    <3> QED
      BY <1>3, <3>2
  <2> QED
    BY <1>3, <1>5, <2>1 DEF FirstBest
<1>8. ASSUME NEW x, NEW y, FirstBest(value, x), FirstBest(value, y) PROVE x = y
  <2>1. x \in Nat /\ y \in Nat /\ value[x] \in Int /\ value[y] \in Int
    BY <1>2, <1>8 DEF FirstBest
  <2>2. ~(x < y) /\ ~(y < x)
    BY <1>8, <2>1 DEF FirstBest
  <2> QED
    BY <2>1, <2>2
<1>9. value[b] = best
  BY <1>5
<1> QED
  BY <1>4, <1>6, <1>7, <1>8, <1>9

\* What the constants are, one by one.
LEMMA LearningNumbers ==
  /\ m_actions \in Nat \ {0} /\ alpha_inv \in Nat \ {0} /\ gamma_den \in Nat \ {0}
  /\ FirstWeight \in Nat \ {0} /\ gradient_inv \in Nat \ {0}
  /\ gamma_num \in Nat /\ gamma_num < gamma_den
<1>1. {m_actions, alpha_inv, gamma_den, FirstWeight, gradient_inv} \subseteq Nat \ {0}
  BY LearningAssumption, Zenon DEF LearningAssumption
<1>2. gamma_num \in 0..(gamma_den - 1)
  BY LearningAssumption, Zenon DEF LearningAssumption
<1>3. gamma_den \in Nat
  BY <1>1
<1> QED
  BY <1>1, <1>2, <1>3

\* No reward exceeds MaxReward.
LEMMA RewardBounded ==
  /\ MaxReward \in Nat
  /\ \A r \in AgentReward : r.value \in Int /\ -MaxReward <= r.value /\ r.value <= MaxReward
<1> DEFINE v == [r \in AgentReward |-> Magnitude(r.value)]
<1>1. IsFiniteSet(AgentReward) /\ AgentReward # {} /\ \A r \in AgentReward : r.value \in Int
  BY LearningAssumption, Zenon DEF LearningAssumption
<1>2. \A r \in AgentReward : /\ v[r] \in Nat /\ v[r] = Magnitude(r.value)
                             /\ -v[r] <= r.value /\ r.value <= v[r]
  BY <1>1 DEF Magnitude
<1>3. v \in [AgentReward -> Int]
  BY <1>2
<1>4. MaxReward = Max({v[r] : r \in AgentReward})
  BY DEF MaxReward
<1> HIDE DEF v
<1> DEFINE M == Max({v[r] : r \in AgentReward})
<1>5. M \in Int /\ (\E r \in AgentReward : M = v[r]) /\ \A r \in AgentReward : v[r] <= M
  BY <1>1, <1>3, MaxOf, Zenon
<1> HIDE DEF M
<1>6. MaxReward = M
  BY <1>4 DEF M
<1>7. M \in Nat
  BY <1>2, <1>5
<1>8. ASSUME NEW r \in AgentReward PROVE r.value \in Int /\ -M <= r.value /\ r.value <= M
  <2>1. v[r] \in Nat /\ -v[r] <= r.value /\ r.value <= v[r] /\ v[r] <= M /\ r.value \in Int
    BY <1>1, <1>2, <1>5
  <2> QED
    BY <1>7, <2>1
<1> QED
  BY <1>6, <1>7, <1>8

\* A quotient is rounded down.
LEMMA RoundedDown ==
  ASSUME NEW x \in Int, NEW n \in Nat \ {0}
  PROVE  x \div n \in Int /\ n * (x \div n) <= x /\ x < n * (x \div n) + n
OBVIOUS

LEMMA TimesAtMost ==
  ASSUME NEW c \in Nat, NEW x \in Int, NEW y \in Int, x <= y
  PROVE  c * x <= c * y
OBVIOUS

\* One step of learning leaves the interval -K .. K only if the reward could.
LEMMA SarsaStays ==
  ASSUME NEW K \in Nat, MaxReward * gamma_den <= (gamma_den - gamma_num) * K,
         NEW q1 \in (-K)..K, NEW q2 \in (-K)..K, NEW r \in AgentReward
  PROVE  Sarsa(q1, r.value, q2) \in (-K)..K
<1> DEFINE gd == gamma_den  gn == gamma_num  ai == alpha_inv  M == MaxReward
           n == gd * ai
           x == gd * (r.value - q1) + gn * q2
           d == x \div n
<1>1. gd \in Nat \ {0} /\ gn \in Nat /\ gn < gd /\ ai \in Nat \ {0}
  BY LearningNumbers
<1>2. M \in Nat /\ r.value \in Int /\ -M <= r.value /\ r.value <= M
  BY RewardBounded
<1>3. q1 \in Int /\ -K <= q1 /\ q1 <= K /\ q2 \in Int /\ -K <= q2 /\ q2 <= K
  OBVIOUS
<1>4. M * gd <= (gd - gn) * K
  OBVIOUS
<1>5. Sarsa(q1, r.value, q2) = q1 + d
  BY DEF Sarsa
<1> DEFINE rv == r.value
<1>6. rv \in Int /\ -M <= rv /\ rv <= M /\ x = gd * (rv - q1) + gn * q2
  BY <1>2
<1> HIDE DEF gd, gn, ai, M, x, n, d, rv
<1>7. n \in Nat \ {0} /\ n >= gd
  <2>1. n = gd * ai
    BY DEF n
  <2>2. gd * 1 <= gd * ai
    BY <1>1, TimesAtMost
  <2>3. n \in Nat /\ gd * 1 = gd
    BY <1>1, <2>1
  <2> QED
    BY <1>1, <2>1, <2>2, <2>3
<1>8. x \in Int
  BY <1>1, <1>3, <1>6
<1>9. d \in Int /\ n * d <= x /\ x < n * d + n
  BY <1>7, <1>8, RoundedDown DEF d
<1>10. gd * (rv - q1) = gd * rv - gd * q1 /\ gd * (rv - q1) \in Int
  BY <1>1, <1>3, <1>6
<1>11. gd * rv <= gd * M /\ gd * (-M) <= gd * rv
  BY <1>1, <1>2, <1>6, TimesAtMost
<1>12. gn * q2 <= gn * K /\ gn * (-K) <= gn * q2
  BY <1>1, <1>3, TimesAtMost
<1>13. (gd - gn) * K = gd * K - gn * K /\ gd * M = M * gd
  BY <1>1, <1>2
<1>14. gd * (-M) = -(gd * M) /\ gn * (-K) = -(gn * K)
  BY <1>1, <1>2
<1>15. /\ gd * rv \in Int /\ gd * q1 \in Int /\ gn * q2 \in Int /\ gn * K \in Int
       /\ gd * K \in Int /\ gd * M \in Int
  BY <1>1, <1>2, <1>3, <1>6
<1>16. x <= gd * K - gd * q1
  BY <1>4, <1>6, <1>10, <1>11, <1>12, <1>13, <1>15
<1>17. x >= -(gd * K) - gd * q1
  BY <1>4, <1>6, <1>10, <1>11, <1>12, <1>13, <1>14, <1>15
<1>18. gd * (K - q1) = gd * K - gd * q1 /\ gd * (-K - q1) = -(gd * K) - gd * q1
  BY <1>1, <1>3
<1>19. q1 + d <= K
  <2> SUFFICES ASSUME K - q1 + 1 <= d PROVE FALSE
    BY <1>3, <1>9
  <2>1. n * (K - q1 + 1) <= n * d
    BY <1>3, <1>7, <1>9, TimesAtMost
  <2>2. K - q1 + 1 \in Nat
    BY <1>3
  <2>3. (K - q1 + 1) * gd <= (K - q1 + 1) * n
    BY <1>1, <1>7, <2>2, TimesAtMost
  <2>4. (K - q1 + 1) * gd = gd * (K - q1) + gd /\ (K - q1 + 1) * n = n * (K - q1 + 1)
    BY <1>1, <1>3, <1>7
  <2>5. gd * (K - q1) + gd <= n * d /\ n * d \in Int /\ gd * (K - q1) \in Int
    BY <1>1, <1>3, <1>7, <1>9, <2>1, <2>3, <2>4
  <2> QED
    BY <1>1, <1>8, <1>9, <1>16, <1>18, <2>5
<1>20. -K <= q1 + d
  <2> SUFFICES ASSUME d + 1 <= -K - q1 PROVE FALSE
    BY <1>3, <1>9
  <2>1. n * (d + 1) <= n * (-K - q1)
    BY <1>3, <1>7, <1>9, TimesAtMost
  <2>2. K + q1 \in Nat
    BY <1>3
  <2>3. (K + q1) * gd <= (K + q1) * n
    BY <1>1, <1>7, <2>2, TimesAtMost
  <2>4. (K + q1) * gd = -(gd * (-K - q1)) /\ (K + q1) * n = -(n * (-K - q1))
    BY <1>1, <1>3, <1>7
  <2>5. n * (d + 1) = n * d + n /\ n * d \in Int
    BY <1>7, <1>9
  <2>6. gd * (-K - q1) \in Int /\ n * (-K - q1) \in Int
    BY <1>1, <1>3, <1>7
  <2> QED
    BY <1>7, <1>8, <1>9, <1>17, <1>18, <2>1, <2>3, <2>4, <2>5, <2>6
<1> QED
  BY <1>3, <1>5, <1>9, <1>19, <1>20

\* The values QBounded allows are an interval that learning does not leave.
LEMMA BoundedInterval ==
  \E K \in Nat :
    /\ MaxReward * gamma_den <= (gamma_den - gamma_num) * K
    /\ \A q \in Int : (Magnitude(q) - 1) * (gamma_den - gamma_num) < MaxReward * gamma_den <=> q \in (-K)..K
<1> DEFINE w == gamma_den - gamma_num
           b == MaxReward * gamma_den
           S == {k \in Nat : b <= w * k}
<1>1. w \in Nat \ {0} /\ b \in Nat
  BY LearningNumbers, RewardBounded
<1>2. PICK K \in S : \A k \in S : K <= k
  <2>1. b \in S
    BY <1>1
  <2> HIDE DEF S
  <2>2. S # {}
    BY <2>1
  <2>3. S \in SUBSET Nat
    BY DEF S
  <2> QED
    BY <2>2, <2>3, LeastNumber
<1> HIDE DEF w, b
<1>3. ASSUME NEW q \in Int, (Magnitude(q) - 1) * w < b PROVE q \in (-K)..K
  <2> DEFINE m == Magnitude(q)
  <2>1. m \in Nat /\ -m <= q /\ q <= m
    BY DEF Magnitude
  <2> HIDE DEF m
  <2>2. (m - 1) * w < w * K
    BY <1>1, <1>2, <1>3, <2>1 DEF m
  <2>3. m <= K
    <3> SUFFICES ASSUME K <= m - 1 PROVE FALSE
      BY <1>2, <2>1
    <3>1. w * K <= w * (m - 1)
      BY <1>1, <1>2, <2>1, TimesAtMost
    <3> QED
      BY <1>1, <1>2, <2>1, <2>2, <3>1
  <2> QED
    BY <1>2, <2>1, <2>3
<1>4. ASSUME NEW q \in (-K)..K PROVE (Magnitude(q) - 1) * w < b
  <2> DEFINE m == Magnitude(q)
  <2>1. m \in Nat /\ m <= K
    BY <1>2 DEF Magnitude
  <2> HIDE DEF m
  <2>2. CASE m = 0
    BY <1>1, <2>1, <2>2 DEF m
  <2>3. CASE m # 0
    <3>1. m - 1 \in Nat /\ ~(m - 1 \in S)
      BY <1>2, <2>1, <2>3
    <3>2. ~(b <= w * (m - 1)) /\ w * (m - 1) \in Int /\ w * (m - 1) = (m - 1) * w
      BY <1>1, <3>1
    <3> QED
      BY <1>1, <3>2 DEF m
  <2> QED
    BY <2>2, <2>3
<1> QED
  BY <1>2, <1>3, <1>4 DEF w, b

\* What the engine keeps.
Decision == [state : AgentState, action : Action, consensus : SUBSET Feature]

LearningTypes ==
  /\ engine \in EngineKnobs
  /\ qtable \in [Feature -> [Tiling -> [Tile -> [Action -> Int]]]]
  /\ weight \in [Feature -> Int]
  /\ decisions \in Seq(Decision)

LEMMA TileChosen ==
  ASSUME NEW f \in Feature, NEW t \in Tiling, NEW s \in AgentState
  PROVE  TileOf[f][t][s] \in Tile
<1> DEFINE X == {TileOf[f][t][x] : x \in AgentState}
           XX == {{TileOf[g][u][x] : x \in AgentState} : g \in Feature, u \in Tiling}
<1>1. TileOf[f][t][s] \in X
  OBVIOUS
<1>2. X \in XX
  OBVIOUS
<1>3. Tile = UNION XX
  BY DEF Tile
<1> HIDE DEF X, XX
<1> QED
  BY <1>1, <1>2, <1>3

LEMMA ValueNumber ==
  ASSUME LearningTypes, NEW f \in Feature, NEW s \in AgentState, NEW a \in Action
  PROVE  /\ \A t \in Tiling : getQ(f, t, s, a) \in Int
         /\ retrieveQ(f, s, a) \in Int
<1>1. \A t \in Tiling : getQ(f, t, s, a) \in Int
  <2> TAKE t \in Tiling
  <2>1. TileOf[f][t][s] \in Tile
    BY TileChosen
  <2>2. qtable[f][t] \in [Tile -> [Action -> Int]]
    BY DEF LearningTypes
  <2>3. qtable[f][t][TileOf[f][t][s]] \in [Action -> Int]
    BY <2>1, <2>2
  <2> QED
    BY <2>3 DEF getQ
<1> DEFINE v == [t \in Tiling |-> getQ(f, t, s, a)]
<1>2. v \in [Tiling -> Int]
  BY <1>1
<1>3. IsFiniteSet(Tiling)
  BY LearningAssumption, Zenon DEF LearningAssumption
<1>4. SumFunction(v) \in Int
  <2> HIDE DEF v
  <2> QED
    BY <1>2, <1>3, SumsCompared
<1>5. retrieveQ(f, s, a) = weight[f] * SumFunction(v)
  BY DEF retrieveQ
<1>6. weight[f] \in Int
  BY DEF LearningTypes
<1> HIDE DEF v
<1>7. weight[f] * SumFunction(v) \in Int
  BY <1>4, <1>6
<1> QED
  BY <1>1, <1>5, <1>7

LEMMA FeatureFacts ==
  /\ IsFiniteSet(Feature) /\ Feature # {}
  /\ \A k \in EngineKnobs : k.enable_action_fallback \in BOOLEAN
  /\ \A k \in EngineKnobs : k.enable_dyn_action_fallback => k.enable_action_fallback
BY LearningAssumption, Zenon DEF LearningAssumption

\* The pooled value is a number, the greatest of the features' or their sum.
LEMMA PooledNumber ==
  ASSUME LearningTypes, NEW s \in AgentState, NEW a \in Action
  PROVE  LET v == [f \in Feature |-> retrieveQ(f, s, a)] IN
         /\ v \in [Feature -> Int] /\ consultQ(s, a) \in Int
         /\ \/ engine.pooling_type = 1 /\ consultQ(s, a) = SumFunction(v)
            \/ /\ engine.pooling_type # 1
               /\ \E f \in Feature : consultQ(s, a) = v[f]
               /\ \A f \in Feature : v[f] <= consultQ(s, a)
<1> DEFINE v == [f \in Feature |-> retrieveQ(f, s, a)]
<1>1. v \in [Feature -> Int]
  BY ValueNumber
<1>2. consultQ(s, a) = IF engine.pooling_type = 1 THEN SumFunction(v) ELSE Max({v[f] : f \in Feature})
  BY DEF consultQ
<1> HIDE DEF v
<1>3. SumFunction(v) \in Int
  BY <1>1, SumsCompared, FeatureFacts
<1> DEFINE M == Max({v[f] : f \in Feature})
<1>4. M \in Int /\ (\E f \in Feature : M = v[f]) /\ \A f \in Feature : v[f] <= M
  BY <1>1, MaxOf, FeatureFacts, Zenon
<1>5. consultQ(s, a) = IF engine.pooling_type = 1 THEN SumFunction(v) ELSE M
  BY <1>2
<1> HIDE DEF M
<1> QED
  BY <1>1, <1>3, <1>4, <1>5 DEF v

\* If a beats a2 for every feature, it does for their pool.
LEMMA PoolCompared ==
  ASSUME LearningTypes, NEW s \in AgentState, NEW a \in Action, NEW a2 \in Action
  PROVE  /\ (\A f \in Feature : retrieveQ(f, s, a2) <= retrieveQ(f, s, a)) => consultQ(s, a2) <= consultQ(s, a)
         /\ (\A f \in Feature : retrieveQ(f, s, a2) < retrieveQ(f, s, a)) => consultQ(s, a2) < consultQ(s, a)
         /\ (\A f \in Feature : retrieveQ(f, s, a) > 0) => consultQ(s, a) > 0
<1> DEFINE v == [f \in Feature |-> retrieveQ(f, s, a)]
           w == [f \in Feature |-> retrieveQ(f, s, a2)]
<1>1. \A f \in Feature : v[f] = retrieveQ(f, s, a) /\ w[f] = retrieveQ(f, s, a2)
  OBVIOUS
<1>2. /\ v \in [Feature -> Int] /\ consultQ(s, a) \in Int
      /\ \/ engine.pooling_type = 1 /\ consultQ(s, a) = SumFunction(v)
         \/ /\ engine.pooling_type # 1
            /\ \E f \in Feature : consultQ(s, a) = v[f]
            /\ \A f \in Feature : v[f] <= consultQ(s, a)
  BY PooledNumber
<1>3. /\ w \in [Feature -> Int] /\ consultQ(s, a2) \in Int
      /\ \/ engine.pooling_type = 1 /\ consultQ(s, a2) = SumFunction(w)
         \/ /\ engine.pooling_type # 1
            /\ \E f \in Feature : consultQ(s, a2) = w[f]
            /\ \A f \in Feature : w[f] <= consultQ(s, a2)
  BY PooledNumber
<1> HIDE DEF v, w
<1>4. CASE engine.pooling_type = 1
  <2>1. consultQ(s, a) = SumFunction(v) /\ consultQ(s, a2) = SumFunction(w)
    BY <1>2, <1>3, <1>4
  <2>2. (\A f \in Feature : w[f] <= v[f]) => SumFunction(w) <= SumFunction(v)
    BY <1>2, <1>3, SumsCompared, FeatureFacts
  <2>3. (\A f \in Feature : w[f] < v[f]) => SumFunction(w) < SumFunction(v)
    BY <1>2, <1>3, SumsCompared, FeatureFacts
  <2>4. (\A f \in Feature : v[f] > 0) => SumFunction(v) > 0
    BY <1>2, SumPositive, FeatureFacts
  <2> QED
    BY <1>1, <2>1, <2>2, <2>3, <2>4
<1>5. CASE engine.pooling_type # 1
  <2>1. PICK g \in Feature : consultQ(s, a2) = w[g]
    BY <1>3, <1>5
  <2>2. v[g] <= consultQ(s, a) /\ v[g] \in Int /\ w[g] \in Int
    BY <1>2, <1>3, <1>5
  <2>3. v[g] = retrieveQ(g, s, a) /\ w[g] = retrieveQ(g, s, a2)
    BY <1>1
  <2> QED
    BY <1>2, <1>3, <2>1, <2>2, <2>3
<1> QED
  BY <1>4, <1>5

LEMMA UnanimousFollows ==
  ASSUME LearningTypes
  PROVE  UnanimousChosen
<1> SUFFICES ASSUME NEW s \in AgentState, NEW a \in Action,
                    a # 0 \/ ~engine.enable_action_fallback, Consensus(s, a) = Feature,
                    NEW fallback \in do_fallback
             PROVE  MaxAction(s, fallback) = a
  BY DEF UnanimousChosen
<1> DEFINE e == engine.enable_action_fallback
           p == [b \in Action |-> consultQ(s, b)]
<1>1. e \in BOOLEAN /\ (engine.enable_dyn_action_fallback => e)
  BY FeatureFacts DEF LearningTypes
<1>2. fallback \in BOOLEAN /\ (fallback => e)
  BY <1>1 DEF do_fallback
<1>3. p \in [Action -> Int] /\ \A b \in Action : p[b] = consultQ(s, b)
  BY PooledNumber
<1>4. MaxAction(s, fallback) = Selected(p, fallback)
  BY DEF MaxAction
<1> HIDE DEF e, p
<1>5. ASSUME NEW f \in Feature
      PROVE  /\ \A b \in Action : retrieveQ(f, s, b) <= retrieveQ(f, s, a)
             /\ \A b \in Action : b < a => retrieveQ(f, s, b) < retrieveQ(f, s, a)
             /\ e => retrieveQ(f, s, a) > 0
  <2> DEFINE v == [b \in Action |-> retrieveQ(f, s, b)]
  <2>1. v \in [Action -> Int] /\ \A b \in Action : v[b] = retrieveQ(f, s, b)
    BY ValueNumber
  <2>2. getMaxAction(f, s) = Selected(v, e)
    BY DEF getMaxAction, e
  <2>3. getMaxAction(f, s) = a
    BY DEF Consensus
  <2> HIDE DEF v
  <2>4. PICK b : /\ FirstBest(v, b)
                 /\ Selected(v, e) = IF e /\ v[b] <= 0 THEN 0 ELSE b
    BY <1>1, <2>1, SelectedIs
  <2>5. ~(e /\ v[b] <= 0) \/ a = 0
    BY <2>2, <2>3, <2>4
  <2>6. ~(e /\ v[b] <= 0)
    BY <1>1, <2>5 DEF e
  <2>7. b = a
    BY <2>2, <2>3, <2>4, <2>6
  <2>8. e => v[a] > 0
    BY <2>1, <2>6, <2>7
  <2> QED
    BY <2>1, <2>4, <2>7, <2>8 DEF FirstBest
<1>6. FirstBest(p, a)
  <2>1. ASSUME NEW b \in Action
        PROVE  p[b] <= p[a] /\ (b < a => p[b] < p[a])
    BY <1>3, <1>5, PoolCompared
  <2> QED
    BY <2>1 DEF FirstBest
<1>7. e => p[a] > 0
  BY <1>3, <1>5, PoolCompared
<1>8. PICK b : /\ FirstBest(p, b)
               /\ Selected(p, fallback) = IF fallback /\ p[b] <= 0 THEN 0 ELSE b
  BY <1>2, <1>3, SelectedIs
<1>9. b = a
  BY <1>2, <1>3, <1>6, <1>8, SelectedIs
<1>10. ~(fallback /\ p[a] <= 0)
  BY <1>2, <1>3, <1>7
<1> QED
  BY <1>4, <1>8, <1>9, <1>10

\* The engine's choice is an action.
LEMMA ActionChosen ==
  ASSUME LearningTypes, NEW s \in AgentState, NEW fallback \in do_fallback
  PROVE  MaxAction(s, fallback) \in Action
<1> DEFINE p == [b \in Action |-> consultQ(s, b)]
<1>1. fallback \in BOOLEAN
  BY FeatureFacts DEF do_fallback, LearningTypes
<1>2. p \in [Action -> Int]
  BY PooledNumber
<1>3. MaxAction(s, fallback) = Selected(p, fallback)
  BY DEF MaxAction
<1> HIDE DEF p
<1>4. PICK b : /\ FirstBest(p, b)
               /\ Selected(p, fallback) = IF fallback /\ p[b] <= 0 THEN 0 ELSE b
  BY <1>1, <1>2, SelectedIs
<1>5. m_actions \in Nat \ {0}
  BY LearningNumbers
<1>6. 0 \in Action
  BY <1>5 DEF Action
<1> QED
  BY <1>3, <1>4, <1>6 DEF FirstBest

LEMMA DecisionIs ==
  ASSUME LearningTypes, NEW i \in 1..Len(decisions)
  PROVE  decisions[i].state \in AgentState /\ decisions[i].action \in Action
<1>1. decisions[i] \in Decision
  BY DEF LearningTypes
<1> QED
  BY <1>1 DEF Decision

\* Each cell a decision learns takes one step of SARSA, the others stay.
LEMMA CellLearned ==
  ASSUME LearningTypes, NEW f \in Feature, NEW t \in Tiling, NEW i \in Tile, NEW a \in Action,
         NEW d1 \in Decision, NEW d2 \in Decision, NEW r \in AgentReward
  PROVE  LET q == updateQ(f, d1, r.value, d2)[t][i][a] IN
         \/ q = qtable[f][t][i][a]
         \/ q = Sarsa(qtable[f][t][i][a], r.value, getQ(f, t, d2.state, d2.action))
<1> DEFINE T == qtable[f][t]
           j == TileOf[f][t][d1.state]
           c == d1.action
           new == Sarsa(T[j][c], r.value, getQ(f, t, d2.state, d2.action))
<1>1. T \in [Tile -> [Action -> Int]]
  BY DEF LearningTypes
<1>2. updateQ(f, d1, r.value, d2)[t] = [T EXCEPT ![j][c] = new]
  BY DEF updateQ
<1>3. updateQ(f, d1, r.value, d2)[t][i] = IF i = j THEN [T[j] EXCEPT ![c] = new] ELSE T[i]
  <2> HIDE DEF T, j, c, new
  <2> QED
    BY <1>1, <1>2
<1>4. T[i] \in [Action -> Int]
  BY <1>1
<1>5. CASE i = j
  <2>1. updateQ(f, d1, r.value, d2)[t][i][a] = IF a = c THEN new ELSE T[i][a]
    <3> HIDE DEF T, j, c, new
    <3> QED
      BY <1>3, <1>4, <1>5
  <2> QED
    BY <1>5, <2>1
<1>6. CASE i # j
  BY <1>3, <1>6
<1> QED
  BY <1>5, <1>6

LEMMA SarsaNumber ==
  ASSUME NEW q1 \in Int, NEW q2 \in Int, NEW r \in AgentReward
  PROVE  Sarsa(q1, r.value, q2) \in Int
<1> DEFINE x == gamma_den * (r.value - q1) + gamma_num * q2
           n == gamma_den * alpha_inv
<1>1. r.value \in Int
  BY RewardBounded
<1>2. x \in Int /\ n \in Nat
  BY <1>1, LearningNumbers
<1>3. n # 0
  BY LearningNumbers
<1>4. Sarsa(q1, r.value, q2) = q1 + x \div n
  BY DEF Sarsa
<1> HIDE DEF x, n
<1>5. x \div n \in Int
  BY <1>2, <1>3, RoundedDown
<1> QED
  BY <1>4, <1>5

\* A choice adds a decision and nothing else.
LEMMA ChooseKeeps ==
  ASSUME LearningTypes, NEW s \in AgentState, chooseAction(s)
  PROVE  LearningTypes' /\ qtable' = qtable
<1>1. UNCHANGED <<engine, qtable, weight, learns>>
  BY DEF chooseAction
<1>2. \E d \in Decision : decisions' = Append(decisions, d)
  <2>1. CASE \E a \in Action : decisions' = Append(decisions, [state |-> s, action |-> a, consensus |-> {}])
    <3>1. PICK a \in Action : decisions' = Append(decisions, [state |-> s, action |-> a, consensus |-> {}])
      BY <2>1
    <3>2. [state |-> s, action |-> a, consensus |-> {}] \in Decision
      BY DEF Decision
    <3> QED
      BY <3>1, <3>2
  <2>2. CASE \E fb \in do_fallback : LET a == MaxAction(s, fb) IN
               decisions' = Append(decisions, [state |-> s, action |-> a, consensus |-> Consensus(s, a)])
    <3>1. PICK fb \in do_fallback :
            decisions' = Append(decisions, [state |-> s, action |-> MaxAction(s, fb),
                                            consensus |-> Consensus(s, MaxAction(s, fb))])
      BY <2>2
    <3>2. MaxAction(s, fb) \in Action
      BY ActionChosen
    <3>3. Consensus(s, MaxAction(s, fb)) \in SUBSET Feature
      BY DEF Consensus
    <3>4. [state |-> s, action |-> MaxAction(s, fb), consensus |-> Consensus(s, MaxAction(s, fb))] \in Decision
      BY <3>2, <3>3 DEF Decision
    <3> QED
      BY <3>1, <3>4
  <2> QED
    BY <2>1, <2>2 DEF chooseAction
<1>3. PICK d \in Decision : decisions' = Append(decisions, d)
  BY <1>2
<1>4. decisions' \in Seq(Decision)
  BY <1>3 DEF LearningTypes
<1>5. qtable' \in [Feature -> [Tiling -> [Tile -> [Action -> Int]]]] /\ weight' \in [Feature -> Int]
      /\ engine' \in EngineKnobs
  BY <1>1 DEF LearningTypes
<1> QED
  BY <1>1, <1>4, <1>5 DEF LearningTypes

\* The value of a cell after learn.
LEMMA LearnIs ==
  ASSUME LearningTypes, NEW r \in AgentReward, learn(r)
  PROVE  \A f \in Feature, t \in Tiling, i \in Tile, a \in Action :
           \/ qtable'[f][t][i][a] = qtable[f][t][i][a]
           \/ \E g \in Tile, b \in Action :
                qtable'[f][t][i][a] = Sarsa(qtable[f][t][i][a], r.value, qtable[f][t][g][b])
<1> SUFFICES ASSUME NEW f \in Feature, NEW t \in Tiling, NEW i \in Tile, NEW a \in Action
             PROVE  \/ qtable'[f][t][i][a] = qtable[f][t][i][a]
                    \/ \E g \in Tile, b \in Action :
                         qtable'[f][t][i][a] = Sarsa(qtable[f][t][i][a], r.value, qtable[f][t][g][b])
  OBVIOUS
<1> DEFINE d1 == decisions[1]  d2 == decisions[2]
<1>1. d1 \in Decision /\ d2 \in Decision
  <2>1. 1 \in 1..Len(decisions) /\ 2 \in 1..Len(decisions)
    BY DEF learn, LearningTypes
  <2> QED
    BY <2>1 DEF LearningTypes
<1>2. qtable'[f] = IF engine.selective_update /\ f \notin d1.consensus THEN qtable[f]
                   ELSE updateQ(f, d1, r.value, d2)
  BY DEF learn
<1>3. TileOf[f][t][d2.state] \in Tile /\ d2.action \in Action
  <2>1. d2.state \in AgentState /\ d2.action \in Action
    BY <1>1 DEF Decision
  <2> QED
    BY <2>1, TileChosen
<1>4. getQ(f, t, d2.state, d2.action) = qtable[f][t][TileOf[f][t][d2.state]][d2.action]
  BY DEF getQ
<1>5. LET q == updateQ(f, d1, r.value, d2)[t][i][a] IN
      \/ q = qtable[f][t][i][a]
      \/ q = Sarsa(qtable[f][t][i][a], r.value, getQ(f, t, d2.state, d2.action))
  <2> HIDE DEF d1, d2
  <2> QED
    BY <1>1, CellLearned
<1> HIDE DEF d1, d2
<1> QED
  BY <1>2, <1>3, <1>4, <1>5

LEMMA LearnedTable ==
  ASSUME LearningTypes, NEW r \in AgentReward, learn(r)
  PROVE  qtable' \in [Feature -> [Tiling -> [Tile -> [Action -> Int]]]]
<1> DEFINE d1 == decisions[1]  d2 == decisions[2]
           new == [f \in Feature |-> IF engine.selective_update /\ f \notin d1.consensus THEN qtable[f]
                                     ELSE updateQ(f, d1, r.value, d2)]
<1>1. qtable' = new
  BY DEF learn
<1>2. d2 \in Decision /\ d1 \in Decision
  <2>1. 1 \in 1..Len(decisions) /\ 2 \in 1..Len(decisions)
    BY DEF learn, LearningTypes
  <2> QED
    BY <2>1 DEF LearningTypes
<1>3. d2.state \in AgentState /\ d2.action \in Action
  BY <1>2 DEF Decision
<1> HIDE DEF d1, d2
<1>4. ASSUME NEW f \in Feature PROVE updateQ(f, d1, r.value, d2) \in [Tiling -> [Tile -> [Action -> Int]]]
  <2>1. ASSUME NEW t \in Tiling
        PROVE  [qtable[f][t] EXCEPT ![TileOf[f][t][d1.state]][d1.action] =
                  Sarsa(qtable[f][t][TileOf[f][t][d1.state]][d1.action], r.value, getQ(f, t, d2.state, d2.action))]
                 \in [Tile -> [Action -> Int]]
    <3> DEFINE T == qtable[f][t]
               j == TileOf[f][t][d1.state]
               c == d1.action
               n == Sarsa(T[j][c], r.value, getQ(f, t, d2.state, d2.action))
    <3>1. T \in [Tile -> [Action -> Int]]
      BY DEF LearningTypes
    <3>2. j \in Tile /\ c \in Action
      <4>1. d1.state \in AgentState /\ d1.action \in Action
        BY <1>2 DEF Decision
      <4> QED
        BY <4>1, TileChosen
    <3>3. T[j][c] \in Int
      BY <3>1, <3>2
    <3>4. n \in Int
      BY <1>3, <3>3, ValueNumber, SarsaNumber
    <3> HIDE DEF T, j, c, n
    <3>5. [T EXCEPT ![j][c] = n] \in [Tile -> [Action -> Int]]
      BY <3>1, <3>2, <3>4
    <3> QED
      BY <3>5 DEF T, j, c, n
  <2> QED
    BY <2>1 DEF updateQ
<1>5. \A f \in Feature : qtable[f] \in [Tiling -> [Tile -> [Action -> Int]]]
  BY DEF LearningTypes
<1> QED
  BY <1>1, <1>4, <1>5

LEMMA LearnedWeight ==
  ASSUME LearningTypes, NEW r \in AgentReward, NEW c, NEW f \in Feature
  PROVE  Adjusted(f, c, r.kind) \in Int
<1>1. weight[f] \in Int
  BY DEF LearningTypes
<1>2. weight[f] \div gradient_inv \in Int
  BY <1>1, LearningNumbers, RoundedDown
<1> QED
  BY <1>1, <1>2 DEF Adjusted

LEMMA LearnKeeps ==
  ASSUME LearningTypes, NEW r \in AgentReward, learn(r)
  PROVE  LearningTypes'
<1>1. qtable' \in [Feature -> [Tiling -> [Tile -> [Action -> Int]]]]
  BY LearnedTable
<1>2. weight' \in [Feature -> Int]
  BY LearnedWeight DEF learn
<1>3. decisions' \in Seq(Decision)
  <2>1. decisions' = Tail(decisions) /\ decisions # <<>>
    BY DEF learn, LearningTypes
  <2> QED
    BY <2>1 DEF LearningTypes
<1>4. engine' \in EngineKnobs
  BY DEF learn, LearningTypes
<1> QED
  BY <1>1, <1>2, <1>3, <1>4 DEF LearningTypes

\* Learning keeps every Q-value within its bound.
LEMMA LearnBounded ==
  ASSUME LearningTypes, QBounded, NEW r \in AgentReward, learn(r)
  PROVE  QBounded'
<1>1. PICK K \in Nat :
        /\ MaxReward * gamma_den <= (gamma_den - gamma_num) * K
        /\ \A q \in Int : (Magnitude(q) - 1) * (gamma_den - gamma_num) < MaxReward * gamma_den <=> q \in (-K)..K
  BY BoundedInterval
<1>2. \A f \in Feature, t \in Tiling, i \in Tile, a \in Action : qtable[f][t][i][a] \in Int
  BY DEF LearningTypes
<1>3. \A f \in Feature, t \in Tiling, i \in Tile, a \in Action : qtable[f][t][i][a] \in (-K)..K
  BY <1>1, <1>2 DEF QBounded
<1>4. ASSUME NEW f \in Feature, NEW t \in Tiling, NEW i \in Tile, NEW a \in Action
      PROVE  qtable'[f][t][i][a] \in (-K)..K
  <2>1. CASE qtable'[f][t][i][a] = qtable[f][t][i][a]
    BY <1>3, <2>1
  <2>2. CASE \E g \in Tile, b \in Action :
               qtable'[f][t][i][a] = Sarsa(qtable[f][t][i][a], r.value, qtable[f][t][g][b])
    <3>1. PICK g \in Tile, b \in Action :
            qtable'[f][t][i][a] = Sarsa(qtable[f][t][i][a], r.value, qtable[f][t][g][b])
      BY <2>2
    <3>2. qtable[f][t][i][a] \in (-K)..K /\ qtable[f][t][g][b] \in (-K)..K
      BY <1>3
    <3>3. Sarsa(qtable[f][t][i][a], r.value, qtable[f][t][g][b]) \in (-K)..K
      BY <1>1, <3>2, SarsaStays
    <3> QED
      BY <3>1, <3>3
  <2> QED
    BY <2>1, <2>2, LearnIs
<1>5. \A q \in (-K)..K : (Magnitude(q) - 1) * (gamma_den - gamma_num) < MaxReward * gamma_den
  BY <1>1
<1> QED
  BY <1>4, <1>5 DEF QBounded

LEMMA LearningStarts ==
  ASSUME LearningInit
  PROVE  LearningTypes /\ QBounded
<1>1. InitValue \in Int /\ Magnitude(InitValue) * (gamma_den - gamma_num) <= MaxReward * gamma_den
  BY LearningAssumption, Zenon DEF LearningAssumption
<1>2. (Magnitude(InitValue) - 1) * (gamma_den - gamma_num) < MaxReward * gamma_den
  <2> DEFINE m == Magnitude(InitValue)  w == gamma_den - gamma_num  b == MaxReward * gamma_den
  <2>1. m \in Nat /\ w \in Nat \ {0} /\ b \in Nat /\ m * w <= b
    BY <1>1, LearningNumbers, RewardBounded DEF Magnitude
  <2> HIDE DEF m, w, b
  <2>2. (m - 1) * w = m * w - w /\ m * w \in Int
    BY <2>1
  <2>3. (m - 1) * w < b
    BY <2>1, <2>2
  <2> QED
    BY <2>3 DEF m, w, b
<1>3. LearningTypes
  <2>1. FirstWeight \in Int
    BY LearningNumbers
  <2> QED
    BY <1>1, <2>1 DEF LearningInit, LearningTypes
<1>4. \A f \in Feature, t \in Tiling, i \in Tile, a \in Action : qtable[f][t][i][a] = InitValue
  BY DEF LearningInit
<1>5. QBounded
  BY <1>2, <1>4 DEF QBounded
<1> QED
  BY <1>3, <1>5

\* What the engine has learned stays bounded, whatever the decisions, the rewards and
\* the tiles that states share, and decides its choice: where all features would
\* choose an action, the pooled values choose it too (learn, chooseAction).
THEOREM LearningStaysSound == LearningSpec => []LearningSound
<1>1. LearningInit => LearningTypes /\ QBounded
  BY LearningStarts
<1>2. LearningTypes /\ QBounded /\ [LearningNext]_learningVars => LearningTypes' /\ QBounded'
  <2> SUFFICES ASSUME LearningTypes, QBounded, [LearningNext]_learningVars
               PROVE  LearningTypes' /\ QBounded'
    OBVIOUS
  <2>1. CASE \E s \in AgentState : chooseAction(s)
    <3>1. LearningTypes' /\ qtable' = qtable
      BY <2>1, ChooseKeeps
    <3> QED
      BY <3>1 DEF QBounded
  <2>2. CASE \E r \in AgentReward : learn(r)
    BY <2>2, LearnKeeps, LearnBounded
  <2>3. CASE UNCHANGED learningVars
    BY <2>3 DEF learningVars, LearningTypes, QBounded
  <2> QED
    BY <2>1, <2>2, <2>3 DEF LearningNext
<1>3. LearningTypes /\ QBounded => LearningSound
  BY UnanimousFollows DEF LearningSound
<1> QED
  BY <1>1, <1>2, <1>3, PTL DEF LearningSpec

-----------------------------------------------------------------------------
(***************************************************************************)
(* The best-offset prefetcher.                                             *)
(***************************************************************************)

\* What holds of the empty set, and of a set when it holds of it without some one of
\* its elements, holds of a finite set.
LEMMA BySubsets ==
  ASSUME NEW S, IsFiniteSet(S), NEW G, {} \in G,
         \A T \in SUBSET S : T # {} => \E x \in T : T \ {x} \in G => T \in G
  PROVE  S \in G
<1> SUFFICES ASSUME S \notin G PROVE FALSE
  OBVIOUS
<1> DEFINE B == {n \in Nat : \E T \in SUBSET S : Cardinality(T) = n /\ T \notin G}
<1>1. \A T \in SUBSET S : IsFiniteSet(T) /\ Cardinality(T) \in Nat
  BY FS_Subset, FS_CardinalityType
<1>2. PICK n \in B : \A m \in B : n <= m
  <2>1. Cardinality(S) \in B
    BY <1>1
  <2> HIDE DEF B
  <2>2. B # {}
    BY <2>1
  <2>3. B \in SUBSET Nat
    BY DEF B
  <2> QED
    BY <2>2, <2>3, LeastNumber
<1>3. PICK T \in SUBSET S : Cardinality(T) = n /\ T \notin G
  BY <1>2
<1>4. T # {}
  BY <1>3
<1>5. PICK x \in T : T \ {x} \in G => T \in G
  BY <1>4
<1>6. T \ {x} \in SUBSET S /\ Cardinality(T \ {x}) = n - 1
  BY <1>1, <1>3, <1>5, FS_RemoveElement
<1>7. T \ {x} \in G
  <2>1. ~(n - 1 \in B) /\ n - 1 \in Nat
    BY <1>1, <1>2, <1>6
  <2> QED
    BY <1>6, <2>1
<1> QED
  BY <1>3, <1>5, <1>7

LEMMA GreatestMember ==
  ASSUME NEW T, IsFiniteSet(T), T # {}, T \in SUBSET Int
  PROVE  Max(T) \in T /\ \A x \in T : x <= Max(T)
<1> DEFINE v == [x \in T |-> x]
<1>1. v \in [T -> Int]
  OBVIOUS
<1>2. {v[x] : x \in T} = T /\ \A x \in T : v[x] = x
  OBVIOUS
<1> HIDE DEF v
<1> DEFINE M == Max({v[x] : x \in T})
<1>3. M \in Int /\ (\E x \in T : M = v[x]) /\ \A x \in T : v[x] <= M
  BY <1>1, MaxOf, Zenon
<1>4. M = Max(T)
  BY <1>2
<1> HIDE DEF M
<1> QED
  BY <1>2, <1>3, <1>4

-----------------------------------------------------------------------------
\* A table of recent requests for the pairs fp that were filled.
Requests(fp) ==
  {t \in Seq(BopLine) : /\ IsInjective(t) /\ Len(t) <= bop_rr_size
                        /\ \A k \in DOMAIN t : \E p \in fp : p[1] - p[2] = t[k]}

LEMMA BopNumbers ==
  /\ bop_max_rounds \in Nat \ {0} /\ bop_rr_size \in Nat \ {0} /\ bop_top_n \in Nat
  /\ bop_candidates \in Seq(Int) /\ Len(bop_candidates) \in Nat \ {0}
<1>1. /\ {bop_max_rounds, bop_max_score, bop_rr_size} \subseteq Nat \ {0}
      /\ {bop_top_n, bop_pref_buffer_size, bop_pref_degree} \subseteq Nat
      /\ bop_candidates \in Seq(Int) /\ Len(bop_candidates) > 0
  BY BopAssumption, Zenon DEF BopAssumption
<1>2. Len(bop_candidates) \in Nat
  BY <1>1
<1>3. bop_max_rounds \in Nat \ {0} /\ bop_rr_size \in Nat \ {0} /\ bop_top_n \in Nat
  BY <1>1
<1> QED
  BY <1>1, <1>2, <1>3

LEMMA InsertKeeps ==
  ASSUME NEW fp, NEW t \in Requests(fp), NEW b \in BopLine, \E p \in fp : p[1] - p[2] = b
  PROVE  insert_rr(t, b) \in Requests(fp)
<1>1. /\ t \in Seq(BopLine) /\ IsInjective(t) /\ Len(t) <= bop_rr_size
      /\ \A k \in DOMAIN t : \E p \in fp : p[1] - p[2] = t[k]
  BY DEF Requests
<1>2. CASE b \in ToSet(t)
  BY <1>2 DEF insert_rr
<1>3. CASE b \notin ToSet(t)
  <2> DEFINE u == IF Len(t) >= bop_rr_size THEN Tail(t) ELSE t
  <2>1. insert_rr(t, b) = Append(u, b)
    BY <1>3 DEF insert_rr
  <2>2. bop_rr_size \in Nat \ {0}
    BY BopNumbers
  <2>3. /\ u \in Seq(BopLine) /\ Len(u) < bop_rr_size
        /\ \E d \in 0..1 : \A k \in 1..Len(u) : k + d \in 1..Len(t) /\ u[k] = t[k + d]
    <3>1. CASE Len(t) >= bop_rr_size
      <4>1. t # <<>> /\ u = Tail(t)
        BY <1>1, <2>2, <3>1
      <4>2. u \in Seq(BopLine) /\ Len(u) = Len(t) - 1 /\ \A k \in 1..Len(u) : u[k] = t[k + 1]
        BY <1>1, <4>1
      <4>3. \A k \in 1..Len(u) : k + 1 \in 1..Len(t)
        BY <1>1, <4>2
      <4> HIDE DEF u
      <4>4. Len(u) < bop_rr_size
        BY <1>1, <2>2, <4>2
      <4> QED
        BY <4>2, <4>3, <4>4
    <3>2. CASE ~(Len(t) >= bop_rr_size)
      <4>1. u = t
        BY <3>2
      <4> HIDE DEF u
      <4>2. Len(u) < bop_rr_size /\ \A k \in 1..Len(u) : k + 0 = k
        BY <1>1, <2>2, <3>2, <4>1
      <4> QED
        BY <1>1, <4>1, <4>2
    <3> QED
      BY <3>1, <3>2
  <2> HIDE DEF u
  <2>4. PICK d \in 0..1 : \A k \in 1..Len(u) : k + d \in 1..Len(t) /\ u[k] = t[k + d]
    BY <2>3
  <2> DEFINE w == Append(u, b)
  <2>5. /\ w \in Seq(BopLine) /\ Len(w) = Len(u) + 1 /\ w[Len(u) + 1] = b
        /\ \A k \in 1..Len(u) : w[k] = u[k]
    BY <2>3
  <2> HIDE DEF w
  <2>6. Len(w) <= bop_rr_size
    BY <2>2, <2>3, <2>5
  <2>7. \A k \in 1..Len(w) : k \in 1..Len(u) \/ k = Len(u) + 1
    BY <2>3, <2>5
  <2>8. \A k \in 1..Len(u) : u[k] \in ToSet(t)
    BY <1>1, <2>4 DEF ToSet
  <2>9. ASSUME NEW i \in 1..Len(w), NEW j \in 1..Len(w), w[i] = w[j] PROVE i = j
    <3>1. CASE i \in 1..Len(u) /\ j \in 1..Len(u)
      <4>1. t[i + d] = t[j + d] /\ i + d \in DOMAIN t /\ j + d \in DOMAIN t
        BY <1>1, <2>4, <2>5, <2>9, <3>1
      <4>2. i + d = j + d
        BY <1>1, <4>1 DEF IsInjective
      <4> QED
        BY <3>1, <4>2
    <3>2. CASE i \in 1..Len(u) /\ j = Len(u) + 1
      BY <1>3, <2>5, <2>8, <2>9, <3>2
    <3>3. CASE j \in 1..Len(u) /\ i = Len(u) + 1
      BY <1>3, <2>5, <2>8, <2>9, <3>3
    <3> QED
      BY <2>7, <3>1, <3>2, <3>3
  <2>10. DOMAIN w = 1..Len(w)
    BY <2>5
  <2>11. IsInjective(w)
    BY <2>9, <2>10 DEF IsInjective
  <2>12. ASSUME NEW k \in 1..Len(w) PROVE \E p \in fp : p[1] - p[2] = w[k]
    <3>1. CASE k \in 1..Len(u)
      <4>1. w[k] = t[k + d] /\ k + d \in DOMAIN t
        BY <1>1, <2>4, <2>5, <3>1
      <4> QED
        BY <1>1, <4>1
    <3>2. CASE k = Len(u) + 1
      BY <2>5, <3>2
    <3> QED
      BY <2>7, <3>1, <3>2
  <2>13. w \in Requests(fp)
    BY <2>5, <2>6, <2>10, <2>11, <2>12 DEF Requests
  <2> QED
    BY <2>1, <2>13 DEF w
<1> QED
  BY <1>2, <1>3

\* Whatever the offsets in use, the bases inserted at a fill are of pairs filled.
LEMMA BasesKeep ==
  ASSUME NEW line \in BopLine, NEW fp, NEW seq \in Seq(Int), best_offsets = seq,
         \A k \in DOMAIN seq : <<line, seq[k]>> \in fp,
         rr \in Requests(fp)
  PROVE  Bases(line) \in Requests(fp)
<1> DEFINE D == DOMAIN seq
           X == Requests(fp)
           add(t, k) == IF line - seq[k] \in BopLine THEN insert_rr(t, line - seq[k]) ELSE t
           ch == [T \in SUBSET D |-> Max(T)]
           step == [p \in D \X X |-> add(p[2], p[1])]
           Body(g) == [T \in SUBSET D |-> IF T = {} THEN rr ELSE add(g[T \ {Max(T)}], Max(T))]
           it == CHOOSE g : g = Body(g)
<1>1. Bases(line) = it[D]
  BY DEF Bases, FoldLeft, MapThenFoldSet
<1>2. IsFiniteSet(D) /\ D \in SUBSET Int
  <2>1. D = 1..Len(seq) /\ Len(seq) \in Int /\ 1 \in Int
    OBVIOUS
  <2>2. IsFiniteSet(1..Len(seq))
    BY <2>1, FS_Interval
  <2>3. 1..Len(seq) \in SUBSET Int
    BY <2>1
  <2> QED
    BY <2>1, <2>2, <2>3
<1>3. ASSUME NEW k \in D, NEW t \in X PROVE add(t, k) \in X
  <2>1. CASE line - seq[k] \in BopLine
    <3>1. <<line, seq[k]>> \in fp /\ <<line, seq[k]>>[1] - <<line, seq[k]>>[2] = line - seq[k]
      OBVIOUS
    <3>2. \E p \in fp : p[1] - p[2] = line - seq[k]
      BY <3>1
    <3>3. insert_rr(t, line - seq[k]) \in X
      BY <2>1, <3>2, InsertKeeps
    <3> QED
      BY <2>1, <3>3
  <2>2. CASE line - seq[k] \notin BopLine
    BY <2>2
  <2> QED
    BY <2>1, <2>2
<1>4. ASSUME NEW T \in SUBSET D, T # {} PROVE Max(T) \in T
  <2>1. IsFiniteSet(T) /\ T \in SUBSET Int
    BY <1>2, FS_Subset
  <2> QED
    BY <1>4, <2>1, GreatestMember
<1> HIDE DEF D, X, add
<1>5. step \in [D \X X -> X]
  BY <1>3
<1>6. \A T \in SUBSET D : T # {} => ch[T] \in T
  BY <1>4
<1>7. rr \in X
  BY DEF X
<1>8. PICK h : Recursive(D, X, rr, ch, step, h)
  <2> HIDE DEF ch, step
  <2> QED
    BY <1>2, <1>5, <1>6, <1>7, RecursionOnSets, Zenon
<1>9. h \in [SUBSET D -> X] /\ h[{}] = rr
  BY <1>8 DEF Recursive
<1>10. ASSUME NEW T \in SUBSET D, T # {} PROVE h[T] = add(h[T \ {Max(T)}], Max(T))
  <2>1. h[T] = step[ch[T], h[T \ {ch[T]}]]
    BY <1>8, <1>10, Zenon DEF Recursive
  <2>2. ch[T] = Max(T) /\ Max(T) \in D
    BY <1>4, <1>10
  <2>3. h[T \ {Max(T)}] \in X
    BY <1>9
  <2> HIDE DEF ch
  <2>4. step[Max(T), h[T \ {Max(T)}]] = add(h[T \ {Max(T)}], Max(T))
    BY <2>2, <2>3
  <2> QED
    BY <2>1, <2>2, <2>4
<1>11. h = Body(h)
  <2>1. \A T \in SUBSET D : h[T] = IF T = {} THEN rr ELSE add(h[T \ {Max(T)}], Max(T))
    BY <1>9, <1>10
  <2> QED
    BY <1>9, <2>1
<1>12. it = Body(it)
  <2> HIDE DEF Body
  <2> QED
    BY <1>11
<1> HIDE DEF it
<1> DEFINE G == {T \in SUBSET D : it[T] \in X}
<1>13. {} \in G
  BY <1>7, <1>12
<1>14. ASSUME NEW T \in SUBSET D, T # {} PROVE \E x \in T : T \ {x} \in G => T \in G
  <2>1. Max(T) \in T
    BY <1>4, <1>14
  <2>2. it[T] = add(it[T \ {Max(T)}], Max(T))
    BY <1>12, <1>14
  <2>3. T \ {Max(T)} \in G => T \in G
    BY <1>3, <2>1, <2>2
  <2> QED
    BY <2>1, <2>3
<1>15. D \in G
  <2> HIDE DEF G
  <2> QED
    BY <1>2, <1>13, <1>14, BySubsets
<1> QED
  BY <1>1, <1>15 DEF X

\* g is made step by step from base, N times.
Iterates(N, X, base, step, g) ==
  g \in [0..N -> X] /\ g[0] = base /\ \A n \in 1..N : g[n] = step[g[n - 1]]

LEMMA Iterated ==
  ASSUME NEW N \in Nat, NEW X, NEW base \in X, NEW step \in [X -> X]
  PROVE  \E g : Iterates(N, X, base, step, g)
<1> DEFINE Upto(m, g) == /\ g \in [0..N -> X] /\ g[0] = base
                         /\ \A n \in 1..N : n <= m => g[n] = step[g[n - 1]]
           B == {m \in Nat : ~\E g : Upto(m, g)}
<1>1. \E g : Upto(0, g)
  <2> DEFINE g == [n \in 0..N |-> base]
  <2>1. g \in [0..N -> X] /\ g[0] = base
    OBVIOUS
  <2>2. \A n \in 1..N : ~(n <= 0)
    OBVIOUS
  <2> HIDE DEF g
  <2> QED
    BY <2>1, <2>2
<1>2. ASSUME NEW m \in Nat, NEW g, Upto(m, g) PROVE \E h : Upto(m + 1, h)
  <2> DEFINE h == [n \in 0..N |-> IF n = m + 1 THEN step[g[n - 1]] ELSE g[n]]
  <2>1. g \in [0..N -> X] /\ g[0] = base
    BY <1>2
  <2>2. ASSUME NEW n \in 0..N PROVE h[n] \in X
    <3>1. CASE n = m + 1
      <4>1. n - 1 \in 0..N
        BY <3>1
      <4>2. step[g[n - 1]] \in X
        BY <2>1, <4>1
      <4> QED
        BY <3>1, <4>2
    <3>2. CASE n # m + 1
      BY <2>1, <3>2
    <3> QED
      BY <3>1, <3>2
  <2>3. h \in [0..N -> X] /\ h[0] = base
    BY <2>1, <2>2
  <2>4. ASSUME NEW n \in 1..N, n <= m + 1 PROVE h[n] = step[h[n - 1]]
    <3>1. n \in 0..N /\ n - 1 \in 0..N /\ n - 1 # m + 1
      BY <2>4
    <3>2. h[n - 1] = g[n - 1]
      BY <3>1
    <3>3. CASE n = m + 1
      BY <3>1, <3>2, <3>3
    <3>4. CASE n # m + 1
      <4>1. n <= m
        BY <2>4, <3>4
      <4>2. g[n] = step[g[n - 1]]
        BY <1>2, <4>1
      <4>3. h[n] = g[n]
        BY <3>1, <3>4
      <4> QED
        BY <3>2, <4>2, <4>3
    <3> QED
      BY <3>3, <3>4
  <2> HIDE DEF h
  <2> QED
    BY <2>3, <2>4
<1>3. \A g : Upto(N, g) => Iterates(N, X, base, step, g)
  BY DEF Iterates
<1> HIDE DEF Upto
<1>4. \E g : Upto(N, g)
  <2> SUFFICES ASSUME N \in B PROVE FALSE
    OBVIOUS
  <2>1. PICK m \in B : \A k \in B : m <= k
    <3>1. B # {} /\ B \in SUBSET Nat
      OBVIOUS
    <3> HIDE DEF B
    <3> QED
      BY <3>1, LeastNumber
  <2>2. m # 0 /\ m - 1 \in Nat /\ (m - 1) + 1 = m
    BY <1>1
  <2>3. ~(m - 1 \in B)
    BY <2>1, <2>2
  <2> QED
    BY <1>2, <2>1, <2>2, <2>3
<1> QED
  BY <1>3, <1>4

\* BestBelow gives a candidate, the best if none reaches the limit.
LEMMA BestBelowIs ==
  ASSUME NEW sc \in [Candidate -> Nat], NEW limit \in Nat
  PROVE  /\ BestBelow(sc, limit) \in Candidate
         /\ (\A c \in Candidate : sc[c] < limit) => \A d \in Candidate : sc[d] <= sc[BestBelow(sc, limit)]
<1> DEFINE below == {c \in Candidate : sc[c] < limit}
           top == {c \in below : \A d \in below : sc[d] <= sc[c]}
<1>1. IsFiniteSet(Candidate) /\ Candidate \in SUBSET Int /\ 1 \in Candidate
  <2>1. Len(bop_candidates) \in Int /\ Len(bop_candidates) >= 1 /\ 1 \in Int
    BY BopNumbers
  <2>2. IsFiniteSet(1..Len(bop_candidates))
    BY <2>1, FS_Interval
  <2>3. 1..Len(bop_candidates) \in SUBSET Int /\ 1 \in 1..Len(bop_candidates)
    BY <2>1
  <2> QED
    BY <2>2, <2>3 DEF Candidate
<1>2. BestBelow(sc, limit) = IF below = {} THEN 1 ELSE Max(top)
  BY DEF BestBelow
<1>3. CASE below = {}
  BY <1>1, <1>2, <1>3
<1>4. CASE below # {}
  <2> DEFINE v == [c \in below |-> sc[c]]
  <2>1. v \in [below -> Int]
    OBVIOUS
  <2>2. IsFiniteSet(below)
    <3>1. below \in SUBSET Candidate
      OBVIOUS
    <3> HIDE DEF below
    <3> QED
      BY <1>1, <3>1, FS_Subset
  <2>3. \E c \in below : \A d \in below : v[d] <= v[c]
    <3> HIDE DEF v, below
    <3> QED
      BY <1>4, <2>1, <2>2, Greatest
  <2>4. top # {}
    BY <2>3
  <2>5. IsFiniteSet(top) /\ top \in SUBSET Int
    <3>1. top \in SUBSET below /\ top \in SUBSET Candidate
      OBVIOUS
    <3> HIDE DEF top, below
    <3> QED
      BY <1>1, <2>2, <3>1, FS_Subset
  <2>6. Max(top) \in top
    <3> HIDE DEF top
    <3> QED
      BY <2>4, <2>5, GreatestMember
  <2>7. BestBelow(sc, limit) \in top
    BY <1>2, <1>4, <2>6
  <2> QED
    BY <2>7
<1> QED
  BY <1>3, <1>4

\* The first of the offsets chosen at the end of a phase has the best score.
LEMMA TopOffsetsFirst ==
  ASSUME NEW sc \in [Candidate -> Nat], \A c \in Candidate : sc[c] <= bop_max_rounds
  PROVE  /\ TopOffsets(sc) \in Seq(Int)
         /\ TopOffsets(sc) # <<>> =>
              \E c \in Candidate : /\ TopOffsets(sc)[1] = bop_candidates[c]
                                   /\ \A d \in Candidate : sc[d] <= sc[c]
<1> DEFINE base == [limit |-> bop_max_rounds + 1, offsets |-> <<>>]
           c(x) == BestBelow(sc, x.limit)
           next(x) == [limit |-> IF \A d \in Candidate : sc[d] >= x.limit THEN 0 ELSE sc[c(x)],
                       offsets |-> Append(x.offsets, bop_candidates[c(x)])]
           Body(g) == [n \in 0..bop_top_n |-> IF n = 0 THEN base ELSE next(g[n - 1])]
           pick == CHOOSE g : g = Body(g)
           X == [limit : Nat, offsets : Seq(Int)]
           step == [x \in X |-> next(x)]
<1>1. TopOffsets(sc) = pick[bop_top_n].offsets
  BY DEF TopOffsets
<1>2. base \in X
  BY BopNumbers
<1>3. ASSUME NEW x \in X PROVE next(x) \in X /\ c(x) \in Candidate /\ bop_candidates[c(x)] \in Int
  <2>1. x.limit \in Nat /\ x.offsets \in Seq(Int)
    OBVIOUS
  <2>2. c(x) \in Candidate
    BY <2>1, BestBelowIs
  <2>3. bop_candidates[c(x)] \in Int
    BY <2>2, BopNumbers DEF Candidate
  <2> HIDE DEF c
  <2>4. (IF \A d \in Candidate : sc[d] >= x.limit THEN 0 ELSE sc[c(x)]) \in Nat
    BY <2>2
  <2>5. Append(x.offsets, bop_candidates[c(x)]) \in Seq(Int)
    BY <2>1, <2>3
  <2> QED
    BY <2>2, <2>3, <2>4, <2>5
<1> HIDE DEF base, next
<1>4. step \in [X -> X]
  BY <1>3
<1>5. bop_top_n \in Nat
  BY BopNumbers
<1>6. PICK h \in [0..bop_top_n -> X] : h[0] = base /\ \A n \in 1..bop_top_n : h[n] = step[h[n - 1]]
  <2> HIDE DEF step, X
  <2>1. \E h : Iterates(bop_top_n, X, base, step, h)
    BY <1>2, <1>4, <1>5, Iterated, Zenon
  <2> QED
    BY <2>1 DEF Iterates
<1>7. h = Body(h)
  <2>1. ASSUME NEW n \in 0..bop_top_n PROVE h[n] = IF n = 0 THEN base ELSE next(h[n - 1])
    <3>1. CASE n = 0
      BY <1>6, <3>1
    <3>2. CASE n # 0
      <4>1. n \in 1..bop_top_n /\ n - 1 \in 0..bop_top_n
        BY <1>5, <3>2
      <4>2. h[n] = step[h[n - 1]] /\ h[n - 1] \in X
        BY <1>6, <4>1
      <4> QED
        BY <3>2, <4>2
    <3> QED
      BY <3>1, <3>2
  <2> QED
    BY <1>6, <2>1
<1>8. pick = Body(pick)
  <2> HIDE DEF Body
  <2> QED
    BY <1>7
<1> HIDE DEF pick
<1>9. pick[0] = base /\ \A n \in 0..bop_top_n : n # 0 => pick[n] = next(pick[n - 1])
  BY <1>5, <1>8
<1> DEFINE first == BestBelow(sc, bop_max_rounds + 1)
           Good(n) == /\ pick[n] \in X
                      /\ pick[n].offsets # <<>> => pick[n].offsets[1] = bop_candidates[first]
                      /\ n # 0 => pick[n].offsets # <<>>
           B == {n \in 0..bop_top_n : ~Good(n)}
<1>10. Good(0)
  BY <1>2, <1>9 DEF base
<1>11. ASSUME NEW n \in 1..bop_top_n, Good(n - 1) PROVE Good(n)
  <2> DEFINE x == pick[n - 1]
  <2>1. pick[n] = next(x) /\ x \in X
    BY <1>9, <1>11
  <2>2. pick[n] \in X
    BY <1>3, <2>1
  <2>3. x.offsets \in Seq(Int) /\ bop_candidates[c(x)] \in Int
    BY <1>3, <2>1
  <2>4. pick[n].offsets = Append(x.offsets, bop_candidates[c(x)])
    BY <2>1 DEF next
  <2>5. pick[n].offsets # <<>>
    <3> DEFINE s == x.offsets  e == bop_candidates[c(x)]
    <3>1. s \in Seq(Int) /\ e \in Int
      BY <2>3
    <3> HIDE DEF s, e
    <3>2. Len(Append(s, e)) = Len(s) + 1 /\ Len(s) \in Nat /\ Len(<<>>) = 0
      BY <3>1
    <3>3. Append(s, e) # <<>>
      BY <3>2
    <3> QED
      BY <2>4, <3>3 DEF s, e
  <2>6. CASE n = 1
    <3>1. x = base
      BY <1>9, <2>6
    <3>2. x.offsets = <<>> /\ x.limit = bop_max_rounds + 1
      BY <3>1 DEF base
    <3>3. pick[n].offsets[1] = bop_candidates[c(x)]
      <4> HIDE DEF x, c
      <4> QED
        BY <2>3, <2>4, <3>2
    <3> QED
      BY <2>2, <2>5, <3>2, <3>3
  <2>7. CASE n # 1
    <3>1. x.offsets # <<>> /\ x.offsets[1] = bop_candidates[first]
      BY <1>11, <2>7
    <3>2. pick[n].offsets[1] = x.offsets[1]
      <4> HIDE DEF x, c
      <4> QED
        BY <2>3, <2>4, <3>1
    <3> QED
      BY <2>2, <2>5, <3>1, <3>2
  <2> QED
    BY <2>6, <2>7
<1> HIDE DEF Good
<1>12. Good(bop_top_n)
  <2> SUFFICES ASSUME bop_top_n \in B PROVE FALSE
    BY <1>5
  <2>1. PICK n \in B : \A m \in B : n <= m
    <3>1. B # {}
      OBVIOUS
    <3>2. B \in SUBSET (0..bop_top_n)
      OBVIOUS
    <3> HIDE DEF B
    <3>3. B \in SUBSET Nat
      BY <1>5, <3>2
    <3> QED
      BY <3>1, <3>3, LeastNumber
  <2>2. n \in 1..bop_top_n /\ n - 1 \in 0..bop_top_n
    BY <1>5, <1>10, <2>1
  <2>3. ~(n - 1 \in B)
    BY <2>1, <2>2
  <2> QED
    BY <1>11, <2>1, <2>2, <2>3
<1>13. bop_max_rounds + 1 \in Nat /\ \A d \in Candidate : sc[d] < bop_max_rounds + 1
  BY BopNumbers
<1>14. first \in Candidate /\ \A d \in Candidate : sc[d] <= sc[first]
  BY <1>13, BestBelowIs
<1> QED
  BY <1>1, <1>12, <1>14 DEF Good

\* The phase: what a candidate scored is what it was seen to earn, and less than
\* the rounds of the phase.
PhaseSound ==
  /\ scores \in [Candidate -> Nat] /\ earned = scores
  /\ round_counter \in Nat /\ round_counter < bop_max_rounds
  /\ \A c \in Candidate : scores[c] <= round_counter
  /\ candidate_ptr \in 0..(Len(bop_candidates) - 1)
  /\ best_offsets \in Seq(Int)

BopInv == PhaseSound /\ BestEarned /\ rr \in Requests(filled)

LEMMA RequestsFilled ==
  ASSUME rr \in Requests(filled)
  PROVE  BasesFilled
<1>1. /\ rr \in Seq(BopLine) /\ IsInjective(rr) /\ Len(rr) <= bop_rr_size
      /\ \A k \in DOMAIN rr : \E p \in filled : p[1] - p[2] = rr[k]
  BY DEF Requests
<1>2. \A k \in DOMAIN rr : rr[k] \in BopLine
  BY <1>1
<1> QED
  BY <1>1, <1>2 DEF BasesFilled

LEMMA FillKeeps ==
  ASSUME BopInv, NEW line \in BopLine, BopFill(line)
  PROVE  BopInv'
<1>1. UNCHANGED <<scores, candidate_ptr, round_counter, best_offsets, earned, phase_earned>>
  BY DEF BopFill, bopPhase
<1>2. PhaseSound' /\ BestEarned'
  BY <1>1 DEF BopInv, PhaseSound, BestEarned
<1>3. rr \in Requests(filled')
  <2>1. filled \subseteq filled'
    BY DEF BopFill
  <2> QED
    BY <2>1 DEF BopInv, Requests
<1>4. \A k \in DOMAIN best_offsets : <<line, best_offsets[k]>> \in filled'
  BY DEF BopFill, ToSet
<1>5. Bases(line) \in Requests(filled')
  BY <1>3, <1>4, BasesKeep DEF BopInv, PhaseSound
<1>6. rr' \in Requests(filled')
  BY <1>5 DEF BopFill
<1> QED
  BY <1>2, <1>6 DEF BopInv

LEMMA PointerNext ==
  ASSUME NEW n \in Nat \ {0}, NEW k \in 0..(n - 1)
  PROVE  (k + 1) % n \in 0..(n - 1) /\ k + 1 \in 1..n
OBVIOUS

LEMMA AccessKeeps ==
  ASSUME BopInv, NEW line \in BopLine, BopAccess(line)
  PROVE  BopInv'
<1> DEFINE sc == Tested(line)
           c == candidate_ptr + 1
           hit == line - bop_candidates[c] \in ToSet(rr)
           won == IF \E p \in filled : p[1] - p[2] = line - bop_candidates[c] /\ p[1] - p[2] \in ToSet(rr)
                  THEN 1 ELSE 0
           now == [earned EXCEPT ![c] = @ + won]
<1>1. PhaseSound /\ BestEarned /\ rr \in Requests(filled)
  BY DEF BopInv
<1>2. c \in Candidate /\ (candidate_ptr + 1) % Len(bop_candidates) \in 0..(Len(bop_candidates) - 1)
  BY <1>1, PointerNext, BopNumbers DEF PhaseSound, Candidate
<1>3. won = IF hit THEN 1 ELSE 0
  <2>1. ASSUME hit PROVE \E p \in filled : p[1] - p[2] = line - bop_candidates[c] /\ p[1] - p[2] \in ToSet(rr)
    <3>1. PICK k \in DOMAIN rr : line - bop_candidates[c] = rr[k]
      BY <2>1 DEF ToSet
    <3>2. PICK p \in filled : p[1] - p[2] = rr[k]
      BY <1>1, <3>1 DEF Requests
    <3> QED
      BY <2>1, <3>1, <3>2
  <2>2. ASSUME NEW p \in filled, p[1] - p[2] = line - bop_candidates[c], p[1] - p[2] \in ToSet(rr) PROVE hit
    BY <2>2
  <2> HIDE DEF hit
  <2> QED
    BY <2>1, <2>2
<1>4. sc = IF hit THEN [scores EXCEPT ![c] = @ + 1] ELSE scores
  BY DEF Tested
<1>5. /\ IF check_end_of_phase(sc)
         THEN phase_end(sc) /\ phase_earned' = now /\ earned' = NoScores
         ELSE /\ scores' = sc /\ round_counter' = round_counter + 1
              /\ candidate_ptr' = (candidate_ptr + 1) % Len(bop_candidates)
              /\ earned' = now
              /\ UNCHANGED <<best_offsets, phase_earned>>
      /\ UNCHANGED <<rr, filled>>
  BY DEF BopAccess
<1> HIDE DEF sc, c, hit, won
<1>6. scores \in [Candidate -> Nat] /\ earned = scores
  BY <1>1 DEF PhaseSound
<1>7. now = sc /\ sc \in [Candidate -> Nat]
      /\ \A d \in Candidate : sc[d] <= scores[d] + 1
  <2>1. CASE hit
    <3>1. won = 1 /\ sc = [scores EXCEPT ![c] = @ + 1]
      BY <1>3, <1>4, <2>1
    <3> QED
      BY <1>2, <1>6, <3>1
  <2>2. CASE ~hit
    <3>1. won = 0 /\ sc = scores
      BY <1>3, <1>4, <2>2
    <3>2. [scores EXCEPT ![c] = @ + 0] = scores
      BY <1>2, <1>6
    <3> QED
      BY <1>2, <1>6, <3>1, <3>2
  <2> QED
    BY <2>1, <2>2
<1> HIDE DEF now
<1>8. \A d \in Candidate : sc[d] <= round_counter + 1
  <2> TAKE d \in Candidate
  <2>1. scores[d] \in Nat /\ sc[d] \in Nat /\ scores[d] <= round_counter /\ round_counter \in Nat
    BY <1>1, <1>6, <1>7 DEF PhaseSound
  <2> QED
    BY <1>7, <2>1
<1>9. round_counter \in Nat /\ round_counter < bop_max_rounds /\ bop_max_rounds \in Nat
  BY <1>1, BopNumbers DEF PhaseSound
<1>10. rr' \in Requests(filled')
  BY <1>1, <1>5
<1>11. CASE check_end_of_phase(sc)
  <2>1. /\ best_offsets' = TopOffsets(sc) /\ scores' = NoScores /\ round_counter' = 0
        /\ candidate_ptr' = 0 /\ phase_earned' = sc /\ earned' = NoScores
    BY <1>5, <1>7, <1>11 DEF phase_end
  <2>2. \A d \in Candidate : sc[d] <= bop_max_rounds
    <3> TAKE d \in Candidate
    <3>1. sc[d] \in Nat /\ sc[d] <= round_counter + 1
      BY <1>7, <1>8
    <3> QED
      BY <1>9, <3>1
  <2>3. /\ TopOffsets(sc) \in Seq(Int)
        /\ TopOffsets(sc) # <<>> =>
              \E b \in Candidate : /\ TopOffsets(sc)[1] = bop_candidates[b]
                                   /\ \A d \in Candidate : sc[d] <= sc[b]
    BY <1>7, <2>2, TopOffsetsFirst
  <2>4. BestEarned'
    BY <2>1, <2>3 DEF BestEarned
  <2>5. 0 \in 0..(Len(bop_candidates) - 1)
    BY BopNumbers
  <2>6. PhaseSound'
    <3>1. NoScores \in [Candidate -> Nat] /\ \A d \in Candidate : NoScores[d] <= 0
      BY DEF NoScores
    <3>2. 0 < bop_max_rounds
      BY <1>9
    <3> QED
      BY <2>1, <2>3, <2>5, <3>1, <3>2 DEF PhaseSound
  <2> QED
    BY <1>10, <2>4, <2>6 DEF BopInv
<1>12. CASE ~check_end_of_phase(sc)
  <2>1. /\ scores' = sc /\ round_counter' = round_counter + 1
        /\ candidate_ptr' = (candidate_ptr + 1) % Len(bop_candidates)
        /\ earned' = sc /\ best_offsets' = best_offsets /\ phase_earned' = phase_earned
    BY <1>5, <1>7, <1>12
  <2>2. round_counter + 1 < bop_max_rounds
    BY <1>9, <1>12 DEF check_end_of_phase
  <2>3. best_offsets \in Seq(Int)
    BY <1>1 DEF PhaseSound
  <2>4. PhaseSound'
    BY <1>2, <1>7, <1>8, <1>9, <2>1, <2>2, <2>3 DEF PhaseSound
  <2>5. BestEarned'
    BY <1>1, <2>1 DEF BestEarned
  <2> QED
    BY <1>10, <2>4, <2>5 DEF BopInv
<1> QED
  BY <1>11, <1>12

LEMMA BopStarts ==
  ASSUME BopInit
  PROVE  BopInv
<1>1. NoScores \in [Candidate -> Nat] /\ \A d \in Candidate : NoScores[d] <= 0
  BY DEF NoScores
<1>2. 0 < bop_max_rounds /\ 0 \in 0..(Len(bop_candidates) - 1) /\ bop_rr_size \in Nat
  BY BopNumbers
<1>3. PhaseSound
  BY <1>1, <1>2 DEF BopInit, PhaseSound
<1>4. BestEarned
  BY DEF BopInit, BestEarned
<1>5. rr \in Requests(filled)
  <2>1. rr = <<>>
    BY DEF BopInit
  <2>2. <<>> \in Seq(BopLine) /\ IsInjective(<<>>) /\ Len(<<>>) <= bop_rr_size /\ DOMAIN <<>> = {}
    BY <1>2 DEF IsInjective
  <2> QED
    BY <2>1, <2>2 DEF Requests
<1> QED
  BY <1>3, <1>4, <1>5 DEF BopInv

\* However accesses and fills interleave with the phases, the first offset in use is
\* one that earned the most in its phase, and what it earned was on requests really
\* filled while their offset was in use (invoke_prefetcher, phase_end, register_fill).
THEOREM OffsetsAreEarned == BopSpec => []OffsetsEarned
<1>1. BopInit => BopInv
  BY BopStarts
<1>2. BopInv /\ [BopNext]_bopVars => BopInv'
  <2> SUFFICES ASSUME BopInv, [BopNext]_bopVars PROVE BopInv'
    OBVIOUS
  <2>1. CASE \E line \in BopLine : BopAccess(line) \/ BopFill(line)
    BY <2>1, AccessKeeps, FillKeeps
  <2>2. CASE UNCHANGED bopVars
    BY <2>2 DEF bopVars, bopPhase, BopInv, PhaseSound, BestEarned
  <2> QED
    BY <2>1, <2>2 DEF BopNext
<1>3. BopInv => OffsetsEarned
  BY RequestsFilled DEF BopInv, OffsetsEarned
<1> QED
  BY <1>1, <1>2, <1>3, PTL DEF BopSpec
=============================================================================
