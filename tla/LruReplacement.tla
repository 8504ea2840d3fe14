-------------------------- MODULE LruReplacement --------------------------
(***************************************************************************)
(* One cache set under lru_victim and lru_update                           *)
(* (src/replacement/base_replacement.cc), the policy of every cache but    *)
(* the LLC and, with lru.llc_repl, of the LLC: a position per way, 0 for   *)
(* the way used last.                                                      *)
(*                                                                         *)
(* Operators marked "mutant" are deliberately faulty variants of the       *)
(* definition after them; no specification uses them.                      *)
(***************************************************************************)
EXTENDS Naturals

CONSTANT NUM_WAY

ASSUME WayAssumption == NUM_WAY \in Nat \ {0}

VARIABLES
  valid,    \* block[set][way].valid
  lru       \* block[set][way].lru

lruVars == <<valid, lru>>

Way == 0..(NUM_WAY - 1)

\* The first invalid way, else the first way in the last position; no way at
\* all is the assertion "no victim!".
LruVictim(w) ==
  IF \E a \in Way : ~valid[a]
  THEN ~valid[w] /\ \A a \in 0..(w - 1) : valid[a]
  ELSE lru[w] = NUM_WAY - 1 /\ \A a \in 0..(w - 1) : lru[a] # NUM_WAY - 1

\* mutant: w and the way in front change places.
AgedSwapped(w) == [a \in Way |-> IF lru[a] = 0 THEN lru[w] ELSE lru[a]]

\* The loop of lru_update: the ways used after w move one position back.
LruAged(w) == [a \in Way |-> IF lru[a] < lru[w] THEN lru[a] + 1 ELSE lru[a]]

\* lru_update.
lru_update(w) == lru' = [LruAged(w) EXCEPT ![w] = 0]

\* A line is filled: handle_fill, or handle_writeback of a write-back that
\* misses.  A fill that finds the write queue below full has changed nothing.
LruFill(w) ==
  /\ LruVictim(w)
  /\ valid' = [valid EXCEPT ![w] = TRUE]
  /\ lru_update(w)

\* A hit of handle_read, handle_prefetch or an RFO.
LruHit(w) == valid[w] /\ lru_update(w) /\ UNCHANGED valid

\* update_replacement_state returns early for a write-back that hits.
WritebackHit(w) == valid[w] /\ UNCHANGED lruVars

\* invalidate_entry leaves the position alone.
Invalidate(w) == valid[w] /\ valid' = [valid EXCEPT ![w] = FALSE] /\ UNCHANGED lru

\* The constructor of CACHE.
LruInit ==
  /\ valid = [w \in Way |-> FALSE]
  /\ lru = [w \in Way |-> w]

LruNext == \E w \in Way : LruFill(w) \/ LruHit(w) \/ WritebackHit(w) \/ Invalidate(w)

LruSpec == LruInit /\ [][LruNext]_lruVars

-----------------------------------------------------------------------------
(***************************************************************************)
(* Properties.                                                             *)
(***************************************************************************)

\* The positions are a permutation of the ways, through hits, fills and
\* invalidations in any order, so that exactly one way is in the last position
\* and lru_victim never ends in "no victim!" (base_replacement.cc:52).
Permutation ==
  /\ lru \in [Way -> Way]
  /\ \A a, b \in Way : lru[a] = lru[b] => a = b
  /\ \A p \in Way : \E w \in Way : lru[w] = p

\* The positions implement the order of use: whatever lru_update does to the
\* counters, the victim of a full set is the way used longest ago.
Recency == INSTANCE RecencyOrder
             WITH older <- {p \in Way \X Way : lru[p[1]] > lru[p[2]]}

RecencySpec == Recency!Spec
=============================================================================
