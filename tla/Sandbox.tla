------------------------------ MODULE Sandbox ------------------------------
(***************************************************************************)
(* The sandbox prefetcher (src/prefetcher/sandbox.cc).  Offsets are tried  *)
(* one after the other, each for a phase of accesses: the lines it would   *)
(* have prefetched go into a Bloom filter, and an access that the filter   *)
(* holds raises its score.  A round tries every offset evaluated; at its   *)
(* end the worst make room for offsets that wait.  The accesses are to the *)
(* lines of one page.                                                      *)
(*                                                                         *)
(* Operators marked "mutant" are deliberately faulty variants of the       *)
(* definition after them; no specification uses them.                      *)
(***************************************************************************)
EXTENDS Integers, Sequences, SequencesExt, FiniteSetsExt

CONSTANTS
  SandboxLines,                    \* lines of a page, 64
  FirstOffsets, LaterOffsets,      \* +1..+8 and -8..-1, +9..+16 and -16..-9
  sandbox_num_access_in_phase,
  sandbox_num_cycle_offsets,
  sandbox_pref_degree,
  sandbox_stream_detect_length,
  MaxScore                         \* bound: larger scores are not told apart

ASSUME SandboxAssumption ==
  /\ sandbox_num_access_in_phase \in Nat \ {0}
  /\ {sandbox_num_cycle_offsets, sandbox_pref_degree, sandbox_stream_detect_length} \subseteq Nat
  /\ FirstOffsets \in Seq(Int) /\ LaterOffsets \in Seq(Int) /\ FirstOffsets # <<>>
  /\ IsInjective(FirstOffsets \o LaterOffsets)
  /\ sandbox_num_cycle_offsets <= Len(FirstOffsets) /\ MaxScore \in Nat
  /\ MaxScore >= (sandbox_stream_detect_length + 1) * sandbox_num_access_in_phase

VARIABLES
  enable_stream_detect,            \* sandbox_enable_stream_detect
  evaluated_offsets,               \* [offset, score]
  non_evaluated_offsets,
  curr_ptr, total_demand,          \* eval
  filter,                          \* the lines in the Bloom filter
  sandbox_pref,                    \* the lines of the page prefetched last
  seen                             \* history: the lines accessed in this phase

eval == <<curr_ptr, total_demand, filter, seen>>
sandboxVars == <<enable_stream_detect, evaluated_offsets, non_evaluated_offsets, eval, sandbox_pref>>

PageLine == 0..(SandboxLines - 1)

\* The filter finds every line that was added, and may find one that was not.
filter_lookup(line) == IF line \in filter THEN {TRUE} ELSE BOOLEAN

\* Step 1: how much the score of the current offset may rise, by one for the line
\* and, with stream detection, by one for each line before it that is found.
Gains(line) ==
  LET by == evaluated_offsets[curr_ptr + 1].offset
      before == {k \in 1..sandbox_stream_detect_length : line - by * k \in PageLine}
      found == {k \in before : line - by * k \in filter} IN
  {IF ~hit THEN 0 ELSE 1 + n : hit \in filter_lookup(line),
     n \in IF enable_stream_detect THEN Cardinality(found)..Cardinality(before) ELSE {0}}

Scored(line, gain) ==
  [evaluated_offsets EXCEPT ![curr_ptr + 1].score = Min({@ + gain, MaxScore})]

\* Step 2: the line the current offset would prefetch.
Pseudo(line) == {line + evaluated_offsets[curr_ptr + 1].offset} \cap PageLine

\* mutant: the lines of the last phase stay in the filter.
ResetCounts(ptr) == curr_ptr' = ptr /\ total_demand' = 0 /\ seen' = {} /\ UNCHANGED filter

\* reset_eval, and the offset of the next phase.
reset_eval(ptr) == curr_ptr' = ptr /\ total_demand' = 0 /\ filter' = {} /\ seen' = {}

\* The orders that std::sort may leave: by falling score.
Ranked(scores) ==
  {s \in SetToAllKPermutations(ToSet(scores)) :
     /\ Len(s) = Len(scores)
     /\ \A i, j \in DOMAIN s : i < j => s[i].score >= s[j].score}

\* mutant: the offsets that leave are lost, and others take their place twice.
RoundLosesOffsets(scores) ==
  LET keep == Len(scores) - sandbox_num_cycle_offsets IN
  \E s \in Ranked(scores) :
    /\ evaluated_offsets' = SubSeq(s, 1, keep)
         \o [k \in 1..sandbox_num_cycle_offsets |-> [offset |-> non_evaluated_offsets[k], score |-> 0]]
    /\ UNCHANGED non_evaluated_offsets

\* mutant: the offsets that leave go to the front of those that wait.
RoundReturnsFirst(scores) ==
  LET keep == Len(scores) - sandbox_num_cycle_offsets IN
  \E s \in Ranked(scores) :
    LET out == [k \in 1..sandbox_num_cycle_offsets |-> s[Len(s) + 1 - k].offset]
        waiting == out \o non_evaluated_offsets IN
    /\ evaluated_offsets' = SubSeq(s, 1, keep)
         \o [k \in 1..sandbox_num_cycle_offsets |-> [offset |-> waiting[k], score |-> 0]]
    /\ non_evaluated_offsets' = SubSeq(waiting, sandbox_num_cycle_offsets + 1, Len(waiting))

\* end_of_round: the worst go to the end of those that wait, the first of which
\* come in.  The others keep their scores.
end_of_round(scores) ==
  LET keep == Len(scores) - sandbox_num_cycle_offsets IN
  \E s \in Ranked(scores) :
    LET out == [k \in 1..sandbox_num_cycle_offsets |-> s[Len(s) + 1 - k].offset]
        waiting == non_evaluated_offsets \o out IN
    /\ evaluated_offsets' = SubSeq(s, 1, keep)
         \o [k \in 1..sandbox_num_cycle_offsets |-> [offset |-> waiting[k], score |-> 0]]
    /\ non_evaluated_offsets' = SubSeq(waiting, sandbox_num_cycle_offsets + 1, Len(waiting))

\* Step 3: the end of a phase, and of a round.
Step3(line, scores) ==
  IF total_demand + 1 < sandbox_num_access_in_phase
  THEN /\ evaluated_offsets' = scores /\ total_demand' = total_demand + 1
       /\ filter' = filter \cup Pseudo(line) /\ seen' = seen \cup {line}
       /\ UNCHANGED <<non_evaluated_offsets, curr_ptr>>
  ELSE IF curr_ptr + 1 < Len(scores)
  THEN evaluated_offsets' = scores /\ reset_eval(curr_ptr + 1) /\ UNCHANGED non_evaluated_offsets
  ELSE end_of_round(scores) /\ reset_eval(0)

\* The lines one offset prefetches: further ahead for higher scores.
Ahead(line, e) ==
  LET far == IF enable_stream_detect THEN sandbox_stream_detect_length + 1 ELSE 1
      ks == SelectSeq([k \in 1..far |-> k], LAMBDA k :
              e.score >= k * sandbox_num_access_in_phase /\ line + e.offset * k \in PageLine) IN
  [i \in DOMAIN ks |-> line + e.offset * ks[i]]

\* generate_prefetch, for offsets of one sign, nearest first: another offset is
\* asked as long as no more than the degree have been prefetched.
generate_sandbox(line, list) ==
  FoldLeft(LAMBDA acc, e : IF Len(acc) > sandbox_pref_degree THEN acc
                           ELSE acc \o Ahead(line, e), <<>>, list)

\* get_offset_list_sorted: the offsets of one sign, nearest first.
get_offset_list_sorted(list, sign) ==
  SetToSortSeq({e \in ToSet(list) : e.offset * sign > 0},
               LAMBDA x, y : x.offset * sign < y.offset * sign)

\* invoke_prefetcher.
SandboxAccess(line) ==
  /\ \E gain \in Gains(line) : Step3(line, Scored(line, gain))
  /\ sandbox_pref' = generate_sandbox(line, get_offset_list_sorted(evaluated_offsets', 1))
                     \o generate_sandbox(line, get_offset_list_sorted(evaluated_offsets', -1))
  /\ UNCHANGED enable_stream_detect

SandboxInit ==
  /\ enable_stream_detect \in BOOLEAN
  /\ evaluated_offsets = [k \in 1..Len(FirstOffsets) |-> [offset |-> FirstOffsets[k], score |-> 0]]
  /\ non_evaluated_offsets = LaterOffsets
  /\ curr_ptr = 0 /\ total_demand = 0 /\ filter = {} /\ seen = {} /\ sandbox_pref = <<>>

SandboxNext == \E line \in PageLine : SandboxAccess(line)

SandboxSpec == SandboxInit /\ [][SandboxNext]_sandboxVars

\* The core goes on accessing memory.
SandboxFairness == WF_sandboxVars(SandboxNext)

-----------------------------------------------------------------------------
(***************************************************************************)
(* Properties.                                                             *)
(***************************************************************************)

\* Every offset is evaluated or waits, and is so once, however often offsets have
\* been exchanged.
OffsetsKept ==
  LET all == [k \in DOMAIN evaluated_offsets |-> evaluated_offsets[k].offset]
             \o non_evaluated_offsets IN
  /\ Len(evaluated_offsets) = Len(FirstOffsets)
  /\ IsInjective(all) /\ ToSet(all) = ToSet(FirstOffsets) \cup ToSet(LaterOffsets)

\* An offset is judged by its own prefetches: the filter holds the lines it would
\* have prefetched in this phase, and none of the offset before it.
FilterOwn ==
  filter = {line + evaluated_offsets[curr_ptr + 1].offset : line \in seen} \cap PageLine

\* Rounds of evaluation lose no offset and mix up no two.
EvaluationExact == OffsetsKept /\ FilterOwn

\* Whatever the scores, every offset is evaluated again and again.
EveryOffsetTried ==
  \A o \in ToSet(FirstOffsets) \cup ToSet(LaterOffsets) :
    []<>(\E k \in DOMAIN evaluated_offsets : evaluated_offsets[k].offset = o)
=============================================================================
