------------------------------- MODULE Scooby -------------------------------
(***************************************************************************)
(* The Pythia prefetcher (src/prefetcher/scooby.cc, scooby_helper.cc): the *)
(* signature table of pages, and the queue of tracked actions that wait    *)
(* for a reward before the learning engine is trained with them.           *)
(*                                                                         *)
(* The engine is abstract: chooseAction may return any action, and learn   *)
(* records what it is given.  Of a State only its identity is kept, the    *)
(* number of the access it was made for.  Rewards are kept by type; the    *)
(* bandwidth level only selects their values.                              *)
(*                                                                         *)
(* Operators marked "mutant" are deliberately faulty variants of the       *)
(* definition after them; no specification uses them.                      *)
(***************************************************************************)
EXTENDS Integers, Sequences

CONSTANTS
  Page,                \* pages of the demand stream
  LINES,               \* lines per page (64)
  Actions,             \* offsets the agent may choose; 0 is no prefetch
  scooby_pt_size, scooby_st_size, scooby_action_tracker_size,
  Knobs,               \* settings of the knobs to consider
  MaxState             \* bound on the number of accesses

ASSUME ScoobyAssumption ==
  /\ LINES \in Nat \ {0} /\ Actions \subseteq Int
  /\ scooby_pt_size \in Nat \ {0} /\ scooby_st_size \in Nat \ {0}
  /\ scooby_action_tracker_size \in Nat \ {0}
  /\ Knobs \subseteq [track_multiple : BOOLEAN, reward_all : BOOLEAN,
                      reward_tracker_hit : BOOLEAN, reward_out_of_bounds : BOOLEAN]
  /\ MaxState \in Nat

VARIABLES
  knob,                    \* the knobs of this simulation
  signature_table,         \* oldest page first
  prefetch_tracker,        \* tracked actions, oldest first
  last_evicted_tracker,    \* the action evicted last, or NoEntry
  made,                    \* number of States allocated
  freed,                   \* States deleted
  learned                  \* the latest call of learn, or NoLearn

vars == <<knob, signature_table, prefetch_tracker, last_evicted_tracker, made,
          freed, learned>>

Line == Page \X (0..(LINES - 1))
NoPrefetch == <<>>         \* 0xdeadbeef
NoEntry == <<>>
NoLearn == <<>>
NoReward == "no reward"    \* ~has_reward

Reward == {NoReward, "none", "incorrect", "correct_untimely", "correct_timely",
           "out_of_bounds", "tracker_hit"}

(***************************************************************************)
(* Scooby_PTEntry.  The last two fields observe the caches: arrived, the   *)
(* line was filled since; demand, whether the first demand of the line     *)
(* since came "before" or "after" it arrived.                              *)
(***************************************************************************)
Entry(addr, s, r) ==
  [address |-> addr, state |-> s, is_filled |-> FALSE, reward |-> r,
   arrived |-> FALSE, demand |-> "none"]

-----------------------------------------------------------------------------
(***************************************************************************)
(* The prefetch tracker.                                                   *)
(***************************************************************************)

Matches(pt, addr) == {i \in DOMAIN pt : pt[i].address = addr}

\* The oldest entry of the line, or with search_all every one.
search_pt(pt, addr, all) ==
  {i \in Matches(pt, addr) : all \/ \A j \in Matches(pt, addr) : i <= j}

Observe(e) ==
  IF e.demand = "none"
  THEN [e EXCEPT !.demand = IF e.arrived THEN "after" ELSE "before"] ELSE e

\* mutant: an entry that has its reward is given another.
RewardedAgain(pt, addr) == search_pt(pt, addr, knob.reward_all)

\* The entries that reward(address) reaches: it returns at the first one that
\* has its reward.
Rewarded(pt, addr) ==
  LET found == search_pt(pt, addr, knob.reward_all) IN
  {i \in found : \A j \in found : j <= i => pt[j].reward = NoReward}

\* reward(address), on every demand access.
DemandReward(pt, addr) ==
  [i \in DOMAIN pt |->
     LET e == IF pt[i].address = addr THEN Observe(pt[i]) ELSE pt[i] IN
     IF i \notin Rewarded(pt, addr) THEN e
     ELSE [e EXCEPT !.reward = IF e.is_filled THEN "correct_timely"
                               ELSE "correct_untimely"]]

\* train gives an entry that was never demanded its reward: reward(ptentry).
FinalReward(e) ==
  IF e.reward # NoReward THEN e.reward
  ELSE IF e.address = NoPrefetch THEN "none" ELSE "incorrect"

(***************************************************************************)
(* track: the entry goes to the back of the tracker.  A full tracker       *)
(* evicts its oldest entry, the engine learns from the entry evicted       *)
(* before that one, and only then is that one deleted, with its State.  q  *)
(* is the part of the state track changes.                                 *)
(***************************************************************************)
Queue == [pt |-> prefetch_tracker, last |-> last_evicted_tracker,
          freed |-> freed, learned |-> learned]

\* mutant: the tracker holds one entry too many.
OverFull(pt) == Len(pt) > scooby_pt_size

Full(pt) == Len(pt) >= scooby_pt_size

\* mutant: the entry just evicted is deleted with the one before it.
DeletedBoth(last, victim) == {last.state, victim.state}

Deleted(last, victim) == {last.state}

\* mutant: the action tracked now is taken for the one that came next.
SuccessorNew(victim, e) == e

\* The action learn takes for the one after the last evicted.
Successor(victim, e) == victim

track(q, e) ==
  IF ~Full(q.pt) THEN [q EXCEPT !.pt = Append(@, e)]
  ELSE LET victim == Head(q.pt) IN
       [pt |-> Append(Tail(q.pt), e),
        last |-> victim,
        freed |-> IF q.last = NoEntry THEN q.freed
                  ELSE q.freed \cup Deleted(q.last, victim),
        learned |-> IF q.last = NoEntry THEN q.learned
                    ELSE [from |-> q.last.state, reward |-> FinalReward(q.last),
                          demand |-> q.last.demand, to |-> Successor(victim, e).state]]

-----------------------------------------------------------------------------
(***************************************************************************)
(* The signature table: an entry per page with the offsets prefetched      *)
(* (bmp_pred) and the actions last taken on it (action_tracker).           *)
(***************************************************************************)

Without(s, i) == [j \in 1..(Len(s) - 1) |-> IF j < i THEN s[j] ELSE s[j + 1]]

StIndex(st, p) == {i \in DOMAIN st : st[i].page = p}

\* update_local_state: the page moves to the back, a new page evicts the front.
update_local_state(st, p) ==
  LET fresh == [page |-> p, bmp_pred |-> {}, action_tracker |-> <<>>] IN
  IF StIndex(st, p) # {}
  THEN LET i == CHOOSE i \in StIndex(st, p) : TRUE IN Append(Without(st, i), st[i])
  ELSE Append(IF Len(st) >= scooby_st_size THEN Tail(st) ELSE st, fresh)

(***************************************************************************)
(* insert_action_tracker reads the deque through an iterator that erase    *)
(* has invalidated.  std::deque::erase moves the shorter side over the     *)
(* gap, so the iterator then shows the neighbour that was moved, or the    *)
(* erased element itself when it was the first or the last, whose slot is  *)
(* left as it was.                                                         *)
(***************************************************************************)
ReadErased(s, i) ==
  IF i - 1 < Len(s) \div 2 THEN IF i = 1 THEN s[1] ELSE s[i - 1]
                           ELSE IF i = Len(s) THEN s[i] ELSE s[i + 1]

\* mutant: the action stays where it was.
NotErased(s, i) == Append(s, s[i])

Renewed(s, i) == Append(Without(s, i), ReadErased(s, i))

insert_action_tracker(s, a) ==
  LET at == {i \in DOMAIN s : s[i] = a} IN
  IF at # {} THEN Renewed(s, CHOOSE i \in at : \A j \in at : i <= j)
  ELSE Append(IF Len(s) >= scooby_action_tracker_size THEN Tail(s) ELSE s, a)

\* track_prefetch, for the entry of the page (the last one).
track_in_st(st, o, a) ==
  LET e == st[Len(st)] IN
  IF o \in e.bmp_pred THEN st
  ELSE [st EXCEPT ![Len(st)] =
          [e EXCEPT !.bmp_pred = @ \cup {o},
                    !.action_tracker = insert_action_tracker(@, a)]]

-----------------------------------------------------------------------------
\* The tracked entries of one prediction: none, one, or two that share a State
\* when a line that is tracked again is also a tracker hit.
Predicted(pt, p, o, a, s) ==
  LET addr == <<p, o + a>>
      new == search_pt(pt, addr, FALSE) = {} IN
  IF a = 0 THEN <<Entry(NoPrefetch, s, NoReward)>>
  ELSE IF o + a \notin 0..(LINES - 1)
  THEN IF knob.reward_out_of_bounds THEN <<Entry(NoPrefetch, s, "out_of_bounds")>> ELSE <<>>
  ELSE (IF new \/ knob.track_multiple THEN <<Entry(addr, s, NoReward)>> ELSE <<>>)
       \o (IF ~new /\ knob.reward_tracker_hit
           THEN <<Entry(NoPrefetch, s, "tracker_hit")>> ELSE <<>>)

Tracked(q, es) ==
  IF es = <<>> THEN q
  ELSE IF Len(es) = 1 THEN track(q, es[1]) ELSE track(track(q, es[1]), es[2])

\* A demand access of the L2C to line o of page p, for which the agent chooses
\* action a: reward, update_local_state, predict.
invoke_prefetcher(p, o, a) ==
  LET pt == DemandReward(prefetch_tracker, <<p, o>>)
      st == update_local_state(signature_table, p)
      issued == /\ a # 0 /\ o + a \in 0..(LINES - 1)
                /\ search_pt(pt, <<p, o + a>>, FALSE) = {}
      q == Tracked([Queue EXCEPT !.pt = pt], Predicted(pt, p, o, a, made)) IN
  /\ made < MaxState
  /\ made' = made + 1
  /\ signature_table' = IF issued THEN track_in_st(st, o + a, a) ELSE st
  /\ prefetch_tracker' = q.pt
  /\ last_evicted_tracker' = q.last
  /\ freed' = q.freed
  /\ learned' = q.learned
  /\ UNCHANGED knob

\* register_fill: a line prefetched by the L2C, or for it, was filled.
register_fill(addr) ==
  /\ prefetch_tracker' =
       [i \in DOMAIN prefetch_tracker |->
          [prefetch_tracker[i] EXCEPT
             !.is_filled = @ \/ i \in search_pt(prefetch_tracker, addr, knob.reward_all),
             !.arrived = @ \/ prefetch_tracker[i].address = addr]]
  /\ UNCHANGED <<knob, signature_table, last_evicted_tracker, made, freed, learned>>

Init ==
  /\ knob \in Knobs
  /\ signature_table = <<>>
  /\ prefetch_tracker = <<>>
  /\ last_evicted_tracker = NoEntry
  /\ made = 0
  /\ freed = {}
  /\ learned = NoLearn

Next ==
  \/ \E l \in Line, a \in Actions : invoke_prefetcher(l[1], l[2], a)
  \/ \E l \in Line : register_fill(l)

Spec == Init /\ [][Next]_vars

-----------------------------------------------------------------------------
(***************************************************************************)
(* Properties.                                                             *)
(***************************************************************************)

\* The tables keep to their sizes and a page has one signature; the entry that
\* left the tracker is complete.
TypeOK ==
  /\ Len(prefetch_tracker) <= scooby_pt_size
  /\ \A i \in DOMAIN prefetch_tracker :
       /\ prefetch_tracker[i].address \in Line \cup {NoPrefetch}
       /\ prefetch_tracker[i].reward \in Reward
  /\ Len(signature_table) <= scooby_st_size
  /\ \A i, j \in DOMAIN signature_table :
       signature_table[i].page = signature_table[j].page => i = j

\* A State belongs to one tracked action: none that is tracked, or waits as the
\* last evicted one, has been deleted, and no two share one (track deletes the
\* State of an entry after the call of learn that uses it as the first).
StatesOwned ==
  LET s(i) == prefetch_tracker[i].state IN
  /\ \A i \in DOMAIN prefetch_tracker :
       /\ s(i) \notin freed
       /\ last_evicted_tracker # NoEntry => s(i) # last_evicted_tracker.state
  /\ \A i, j \in DOMAIN prefetch_tracker : s(i) = s(j) => i = j
  /\ last_evicted_tracker # NoEntry => last_evicted_tracker.state \notin freed

\* The engine learns along the sequence of actions taken: each learn starts from
\* the State the one before ended with, and ends with a later one, so that no
\* tracked action is skipped or learned twice (train).
SarsaChain ==
  [][learned' # learned =>
       /\ learned'.from < learned'.to
       /\ learned # NoLearn => learned'.from = learned.to]_vars

\* The reward an action is learned with is what its prefetch deserved: timely
\* when its line arrived before the first demand for it, untimely when it was
\* demanded first, and incorrect only if it was never demanded while tracked
\* ("that means, this address doesn't see a demand reuse", scooby.cc:674).
CreditFair ==
  learned # NoLearn =>
    /\ learned.reward = "correct_timely" <=> learned.demand = "after"
    /\ learned.reward = "correct_untimely" <=> learned.demand = "before"

\* What the tracker holds and what is learned from it stay true to each prefetch.
TrackerExact == StatesOwned /\ CreditFair

\* The action tracker of a page holds an action once (insert_action_tracker
\* moves one that is there to the back, "maintain the recency order",
\* scooby_helper.cc:334): otherwise it is deleted twice.
ActionsDistinct ==
  \A k \in DOMAIN signature_table :
    LET s == signature_table[k].action_tracker IN
    \A i, j \in DOMAIN s : s[i] = s[j] => i = j

\* Whatever is evicted, moved or renewed, the tables keep to their sizes and hold a
\* page, and an action of a page, once.
TablesExact == TypeOK /\ ActionsDistinct
=============================================================================
