------------------------------- MODULE Power7 -------------------------------
(***************************************************************************)
(* The POWER7 prefetcher (src/prefetcher/pref_power7.cc) with the two it   *)
(* drives, the streamer (streamer.cc) and the stride prefetcher            *)
(* (stride.cc).  It tries its configurations one after the other, measures *)
(* the cycles each one takes, and keeps the fastest for a while; a         *)
(* configuration is the degrees of the two, which it sets by assigning     *)
(* their knobs.                                                            *)
(*                                                                         *)
(* Operators marked "mutant" are deliberately faulty variants of the       *)
(* definition after them; no specification uses them.                      *)
(***************************************************************************)
EXTENDS Integers, Sequences, SequencesExt, FiniteSetsExt

CONSTANTS
  Access,                   \* accesses: [pc, page, offset]
  PAGE_LINES,               \* lines of a page, 64
  NumConfigs,               \* the configurations tried, 14
  power7_explore_epoch, power7_exploit_epoch, power7_default_streamer_degree,
  streamer_num_trackers, stride_num_trackers,
  Elapse,                   \* cycles that may pass between two accesses
  MaxAccesses               \* bound: accesses of a run

ASSUME Power7Assumption ==
  /\ {PAGE_LINES, streamer_num_trackers, stride_num_trackers} \subseteq Nat \ {0}
  /\ NumConfigs \in 1..14
  /\ {power7_explore_epoch, power7_exploit_epoch, power7_default_streamer_degree} \subseteq Nat
  /\ Elapse \subseteq Nat
  /\ \A a \in Access : a.page \in Nat /\ a.offset \in 0..(PAGE_LINES - 1)

VARIABLES
  mode, config, access_counter,
  cycle_stats,              \* by configuration
  cycle_stamp,
  cpu_cycle,                \* current_core_cycle of the core
  streamer_pref_degree, stride_pref_degree,
  streams,                  \* trackers of the streamer, least recent first
  strides,                  \* trackers of the stride prefetcher, most recent first
  fetched_ahead,            \* pref_addr of the last access, by its prefetcher
  \* What happened, for the properties.
  accesses,                 \* how many accesses there have been
  path,                     \* the last lines accessed of a page, and by a pc
  spent                     \* the cycles of this round under each configuration

tuning == <<mode, config, access_counter, cycle_stats, cycle_stamp,
            streamer_pref_degree, stride_pref_degree>>
power7Vars == <<tuning, cpu_cycle, streams, strides, fetched_ahead, accesses, path, spent>>

Config == 0..(NumConfigs - 1)

\* get_streamer_degree: Default, Off, then pairs from Shallowest (2) to Deepest (7).
get_streamer_degree(c) ==
  IF c = 0 THEN power7_default_streamer_degree ELSE IF c = 1 THEN 0 ELSE (c \div 2) + 1

\* get_stride_degree: the second of each pair turns the stride prefetcher on.
get_stride_degree(c) == IF c > 1 /\ c % 2 = 1 THEN 4 ELSE 0

NoCycles == [c \in Config |-> 0]      \* clear_cycle_stats

\* get_winner_config: the last one of the fastest.
get_winner_config(s) ==
  CHOOSE c \in Config : \A d \in Config : s[c] < s[d] \/ (s[c] = s[d] /\ c >= d)

-----------------------------------------------------------------------------
(***************************************************************************)
(* The two prefetchers.                                                    *)
(***************************************************************************)

InPage(o) == 0 <= o /\ o < PAGE_LINES

\* The lines offset + k * step for k in a range, up to the end of the page.
Run(offset, step, from, to) ==
  LET out == {k \in from..to : ~InPage(offset + k * step)}
      last == IF out = {} THEN to ELSE Min(out) - 1 IN
  [k \in 1..(last - from + 1) |-> offset + (from + k - 1) * step]

\* mutant: every move is followed.
AnyMove(t, dir) == TRUE

\* The second move in one direction.
DirMatch(t, dir) == dir = t.last_dir

\* Streamer::invoke_prefetcher: the trackers, and the lines to prefetch.
Streamer(a) ==
  LET i == SelectInSeq(streams, LAMBDA t : t.page = a.page)
      t == streams[i]
      dir == IF a.offset > t.last_offset THEN 1 ELSE -1 IN
  IF i = 0
  THEN [table |-> Append(IF Len(streams) >= streamer_num_trackers THEN Tail(streams) ELSE streams,
                         [page |-> a.page, last_offset |-> a.offset, last_dir |-> 0]),
        lines |-> <<>>]
  ELSE IF a.offset = t.last_offset THEN [table |-> streams, lines |-> <<>>]
  ELSE [table |-> Append(RemoveAt(streams, i),
                         [page |-> a.page, last_offset |-> a.offset, last_dir |-> dir]),
        lines |-> IF DirMatch(t, dir) THEN Run(a.offset, dir, 1, streamer_pref_degree')
                  ELSE <<>>]

\* StridePrefetcher::invoke_prefetcher; the run begins with the line accessed.
Stride(a) ==
  LET line == a.page * PAGE_LINES + a.offset
      i == SelectInSeq(strides, LAMBDA t : t.pc = a.pc)
      stride == line - strides[i].last_cl_addr IN
  IF i = 0
  THEN [table |-> Cons([pc |-> a.pc, last_cl_addr |-> line, last_stride |-> 0],
                       IF Len(strides) >= stride_num_trackers THEN Front(strides) ELSE strides),
        lines |-> <<>>]
  ELSE IF stride = 0 THEN [table |-> strides, lines |-> <<>>]
  ELSE [table |-> Cons([pc |-> a.pc, last_cl_addr |-> line, last_stride |-> stride],
                       RemoveAt(strides, i)),
        lines |-> IF stride = strides[i].last_stride
                  THEN Run(a.offset, stride, 0, stride_pref_degree' - 1) ELSE <<>>]

-----------------------------------------------------------------------------
(***************************************************************************)
(* The choice of a configuration.                                          *)
(***************************************************************************)

\* mutant: the degrees are not set.
ForgetParams(c) ==
  /\ config' = c
  /\ UNCHANGED <<streamer_pref_degree, stride_pref_degree>>

\* set_params.
set_params(c) ==
  /\ config' = c
  /\ streamer_pref_degree' = get_streamer_degree(c)
  /\ stride_pref_degree' = get_stride_degree(c)

EpochIs(m, epoch) == mode = m /\ access_counter + 1 >= epoch

\* mutant: the cycles of the next epoch are counted from an old stamp.
KeepStamp == access_counter' = 0 /\ UNCHANGED cycle_stamp

\* A new epoch begins.
NewEpoch == access_counter' = 0 /\ cycle_stamp' = cpu_cycle'

\* Exploit to Explore.
Explore ==
  /\ EpochIs("Exploit", power7_exploit_epoch)
  /\ mode' = "Explore" /\ set_params(0)
  /\ cycle_stats' = NoCycles /\ NewEpoch

Measured == [cycle_stats EXCEPT ![config] = cpu_cycle' - cycle_stamp]

\* Explore to Exploit, after the last configuration.
Exploit ==
  /\ EpochIs("Explore", power7_explore_epoch) /\ config = NumConfigs - 1
  /\ mode' = "Exploit" /\ set_params(get_winner_config(Measured))
  /\ cycle_stats' = NoCycles /\ NewEpoch

\* The next configuration is tried.
TryNext ==
  /\ EpochIs("Explore", power7_explore_epoch) /\ config # NumConfigs - 1
  /\ set_params(config + 1)
  /\ cycle_stats' = Measured /\ NewEpoch
  /\ UNCHANGED mode

\* The epoch goes on.
Within ==
  /\ ~EpochIs("Exploit", power7_exploit_epoch) /\ ~EpochIs("Explore", power7_explore_epoch)
  /\ access_counter' = access_counter + 1
  /\ UNCHANGED <<mode, config, cycle_stats, cycle_stamp, streamer_pref_degree, stride_pref_degree>>

Last3(s, x) ==
  IF s # <<>> /\ s[Len(s)] = x THEN s
  ELSE IF Len(s) < 3 THEN Append(s, x) ELSE Append(Tail(s), x)

\* invoke_prefetcher.
Invoke(a) ==
  /\ accesses < MaxAccesses /\ accesses' = accesses + 1
  /\ \E d \in Elapse : cpu_cycle' = cpu_cycle + d
  /\ Explore \/ Exploit \/ TryNext \/ Within
  /\ spent' = IF mode = "Exploit" THEN NoCycles
              ELSE [spent EXCEPT ![config] = @ + cpu_cycle' - cpu_cycle]
  /\ streams' = Streamer(a).table /\ strides' = Stride(a).table
  /\ fetched_ahead' = [stream |-> Streamer(a).lines, stride |-> Stride(a).lines, of |-> a]
  /\ path' = [path EXCEPT !.page[a.page] = Last3(@, a.offset),
                          !.pc[a.pc] = Last3(@, a.page * PAGE_LINES + a.offset)]

Power7Init ==
  /\ mode = "Exploit" /\ config = 0 /\ access_counter = 0
  /\ cycle_stats = NoCycles /\ cycle_stamp = 0 /\ cpu_cycle = 0
  /\ streamer_pref_degree = get_streamer_degree(0) /\ stride_pref_degree = get_stride_degree(0)
  /\ streams = <<>> /\ strides = <<>>
  /\ fetched_ahead = [stream |-> <<>>, stride |-> <<>>, of |-> "none"]
  /\ accesses = 0 /\ spent = NoCycles
  /\ path = [page |-> [p \in {a.page : a \in Access} |-> <<>>],
             pc |-> [p \in {a.pc : a \in Access} |-> <<>>]]

Power7Next == \E a \in Access : Invoke(a)

Power7Spec == Power7Init /\ [][Power7Next]_power7Vars

-----------------------------------------------------------------------------
(***************************************************************************)
(* Properties.                                                             *)
(***************************************************************************)

\* What is prefetched obeys the configuration that POWER7_Pref is in, through the
\* knobs it assigns, and stays in the page of the access; Off prefetches nothing.
DegreesObeyed ==
  /\ Len(fetched_ahead.stream) <= get_streamer_degree(config)
  /\ Len(fetched_ahead.stride) <= get_stride_degree(config)
  /\ \A k \in DOMAIN fetched_ahead.stream : InPage(fetched_ahead.stream[k])
  /\ \A k \in DOMAIN fetched_ahead.stride : InPage(fetched_ahead.stride[k])

\* The streamer follows the last two moves within a page, whatever the trackers
\* lost in between, and the stride prefetcher two equal strides of a pc.
PatternsConfirmed ==
  /\ fetched_ahead.stream # <<>> =>
       LET p == path.page[fetched_ahead.of.page] IN
       /\ Len(p) = 3
       /\ \/ p[1] < p[2] /\ p[2] < p[3] /\ fetched_ahead.stream[1] = p[3] + 1
          \/ p[1] > p[2] /\ p[2] > p[3] /\ fetched_ahead.stream[1] = p[3] - 1
  /\ fetched_ahead.stride # <<>> =>
       LET p == path.pc[fetched_ahead.of.pc] IN
       Len(p) = 3 /\ p[2] - p[1] = p[3] - p[2]

\* What is prefetched is confirmed by earlier accesses and within the configuration.
AheadConfirmed == DegreesObeyed /\ PatternsConfirmed

\* After a round of exploration the configuration kept is one under which the
\* fewest cycles passed in that round, each cycle counted for the configuration in
\* force and for no other.
FastestKept ==
  [][mode = "Explore" /\ mode' = "Exploit" =>
       \A c \in Config : spent'[config'] <= spent'[c]]_power7Vars
=============================================================================
