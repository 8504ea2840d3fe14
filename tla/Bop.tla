-------------------------------- MODULE Bop --------------------------------
(***************************************************************************)
(* The best-offset prefetcher (src/prefetcher/bop.cc).  At each access one *)
(* candidate offset is tested: it scores if the line that far before was   *)
(* the base of a prefetch that is filled (the recent requests, rr).  At    *)
(* the end of a phase the offsets that scored best are used in the next.   *)
(* Accesses and fills are to the lines of one page.                        *)
(*                                                                         *)
(* Operators marked "mutant" are deliberately faulty variants of the       *)
(* definition after them; no specification uses them.                      *)
(***************************************************************************)
EXTENDS Integers, Sequences, SequencesExt, FiniteSetsExt

CONSTANTS
  BopLines,                  \* lines of a page, 64
  bop_candidates,            \* a sequence of offsets
  bop_max_rounds, bop_max_score, bop_top_n,
  bop_rr_size, bop_pref_buffer_size, bop_pref_degree,
  MaxEvents                  \* bound: accesses and fills of a run

ASSUME BopAssumption ==
  /\ bop_candidates \in Seq(Int) /\ Len(bop_candidates) > 0
  /\ {bop_max_rounds, bop_max_score, bop_rr_size} \subseteq Nat \ {0}
  /\ {bop_top_n, bop_pref_buffer_size, bop_pref_degree} \subseteq Nat

VARIABLES
  bop_buffered,              \* bop_enable_pref_buffer
  scores, candidate_ptr, round_counter,
  best_offsets,
  rr,                        \* recent requests, oldest first
  bop_buffer, bop_issued,    \* pref_buffer, and pref_addr of the last access
  \* What happened, for the properties.
  events,
  earned,                    \* by candidate: what it was seen to earn in this phase
  phase_earned,              \* earned, at the end of the last phase
  filled                     \* pairs of a line and an offset in use when it was filled

bopPhase == <<scores, candidate_ptr, round_counter, best_offsets, earned, phase_earned>>
bopVars == <<bop_buffered, bopPhase, rr, bop_buffer, bop_issued, events, filled>>

BopLine == 0..(BopLines - 1)
Candidate == 1..Len(bop_candidates)
NoScores == [c \in Candidate |-> 0]

\* Scores after the candidate at candidate_ptr has been tested (search_rr).
Tested(line) ==
  IF line - bop_candidates[candidate_ptr + 1] \in ToSet(rr)
  THEN [scores EXCEPT ![candidate_ptr + 1] = @ + 1] ELSE scores

\* The value that check_end_of_phase compares with bop_max_score: it keeps the
\* index of the last score that is not below the index kept before.
MaxScoreFound(sc) ==
  FoldLeft(LAMBDA m, c : IF sc[c] >= m THEN c - 1 ELSE m, 0, [c \in Candidate |-> c])

check_end_of_phase(sc) ==
  round_counter + 1 >= bop_max_rounds \/ MaxScoreFound(sc) >= bop_max_score

\* The last of the best below a score, or the first candidate if there is none.
BestBelow(sc, limit) ==
  LET below == {c \in Candidate : sc[c] < limit} IN
  IF below = {} THEN 1
  ELSE Max({c \in below : \A d \in below : sc[d] <= sc[c]})

\* The offsets of the bop_top_n best scores, each below the one before.
TopOffsets(sc) ==
  LET pick[n \in 0..bop_top_n] ==
        IF n = 0 THEN [limit |-> bop_max_rounds + 1, offsets |-> <<>>]
        ELSE LET c == BestBelow(sc, pick[n - 1].limit)
                 none == \A d \in Candidate : sc[d] >= pick[n - 1].limit IN
             [limit |-> IF none THEN 0 ELSE sc[c],
              offsets |-> Append(pick[n - 1].offsets, bop_candidates[c])] IN
  pick[bop_top_n].offsets

\* mutant: the scores of the phase stay.
KeepScores(sc) ==
  /\ best_offsets' = TopOffsets(sc)
  /\ scores' = sc /\ round_counter' = 0 /\ candidate_ptr' = 0

\* phase_end.
phase_end(sc) ==
  /\ best_offsets' = TopOffsets(sc)
  /\ scores' = NoScores /\ round_counter' = 0 /\ candidate_ptr' = 0

\* The lines to prefetch, as many as lie in the page.
BopAhead(line) ==
  SelectSeq([k \in DOMAIN best_offsets' |-> line + best_offsets'[k]], LAMBDA x : x \in BopLine)

\* buffer_prefetch and issue_prefetch, or neither.
Send(lines) ==
  LET room == Max({0, bop_pref_buffer_size - Len(bop_buffer)})
      all == bop_buffer \o SubSeq(lines, 1, Min({room, Len(lines)}))
      n == Min({Len(all), bop_pref_degree}) IN
  IF bop_buffered
  THEN bop_issued' = SubSeq(all, 1, n) /\ bop_buffer' = SubSeq(all, n + 1, Len(all))
  ELSE bop_issued' = lines /\ UNCHANGED bop_buffer

\* invoke_prefetcher.
BopAccess(line) ==
  LET sc == Tested(line)
      c == candidate_ptr + 1
      won == IF \E p \in filled : p[1] - p[2] = line - bop_candidates[c] /\ p[1] - p[2] \in ToSet(rr)
             THEN 1 ELSE 0
      now == [earned EXCEPT ![c] = @ + won] IN
  /\ IF check_end_of_phase(sc)
     THEN phase_end(sc) /\ phase_earned' = now /\ earned' = NoScores
     ELSE /\ scores' = sc /\ round_counter' = round_counter + 1
          /\ candidate_ptr' = (candidate_ptr + 1) % Len(bop_candidates)
          /\ earned' = now
          /\ UNCHANGED <<best_offsets, phase_earned>>
  /\ Send(BopAhead(line))
  /\ UNCHANGED <<bop_buffered, rr, filled>>

\* insert_rr: the oldest makes room.
insert_rr(table, base) ==
  IF base \in ToSet(table) THEN table
  ELSE Append(IF Len(table) >= bop_rr_size THEN Tail(table) ELSE table, base)

\* mutant: the line filled is taken for its own base.
FilledLine(line) == FoldLeft(LAMBDA t, o : insert_rr(t, line), rr, best_offsets)

\* The bases of a line filled, for each of the best offsets.
Bases(line) ==
  FoldLeft(LAMBDA t, o : IF line - o \in BopLine THEN insert_rr(t, line - o) ELSE t, rr, best_offsets)

\* register_fill.
BopFill(line) ==
  /\ rr' = Bases(line)
  /\ filled' = filled \cup {<<line, o>> : o \in ToSet(best_offsets)}
  /\ UNCHANGED <<bop_buffered, bopPhase, bop_buffer, bop_issued>>

BopInit ==
  /\ bop_buffered \in BOOLEAN
  /\ scores = NoScores /\ candidate_ptr = 0 /\ round_counter = 0 /\ best_offsets = <<1>>
  /\ rr = <<>> /\ bop_buffer = <<>> /\ bop_issued = <<>>
  /\ events = 0 /\ earned = NoScores /\ phase_earned = NoScores /\ filled = {}

BopNext ==
  /\ events < MaxEvents /\ events' = events + 1
  /\ \E line \in BopLine : BopAccess(line) \/ BopFill(line)

BopSpec == BopInit /\ [][BopNext]_bopVars

-----------------------------------------------------------------------------
(***************************************************************************)
(* Properties.                                                             *)
(***************************************************************************)

\* Until the first phase ends the offset in use is 1; after a phase the first in use
\* is one that earned the most in that phase alone.
BestEarned ==
  \/ best_offsets = <<1>> /\ phase_earned = NoScores
  \/ best_offsets # <<>> =>
       \E c \in Candidate : /\ best_offsets[1] = bop_candidates[c]
                            /\ \A d \in Candidate : phase_earned[d] <= phase_earned[c]

\* A recent request is the base of a line that was filled while its offset was in
\* use, is held once, and lies in the page, whatever has become of the offsets.
BasesFilled ==
  /\ IsInjective(rr) /\ Len(rr) <= bop_rr_size
  /\ \A k \in DOMAIN rr : rr[k] \in BopLine /\ \E p \in filled : p[1] - p[2] = rr[k]

\* Offsets come into use by what they earned, on requests that were really filled.
OffsetsEarned == BestEarned /\ BasesFilled
=============================================================================
