-------------------------------- MODULE Rrip --------------------------------
(***************************************************************************)
(* One set of the LLC under the policies that predict when a line is used  *)
(* again: srrip.llc_repl, drrip.llc_repl, and ship.llc_repl, the one the   *)
(* build scripts choose.  policy and role are fixed when the set starts;   *)
(* what other sets do to the tables they share is OtherSet.  One core.     *)
(* invalidate_entry changes nothing that is kept here and is left out.     *)
(*                                                                         *)
(* Operators marked "mutant" are deliberately faulty variants of the       *)
(* definition after them; no specification uses them.                      *)
(***************************************************************************)
EXTENDS Integers, Sequences, SequencesExt, FiniteSetsExt

CONSTANTS
  LLC_WAY,      \* also SAMPLER_WAY
  LlcTag,       \* lines of the set, positive numbers
  Ip,           \* instructions, as indices of SHCT
  SHCT_MAX, PSEL_MAX, BIP_MAX

ASSUME RripAssumption ==
  /\ LLC_WAY \in Nat \ {0} /\ LlcTag \subseteq Nat \ {0}
  /\ SHCT_MAX \in Nat /\ PSEL_MAX \in Nat /\ BIP_MAX \in Nat \ {0}

VARIABLES
  policy, role,
  rrpv,         \* rrpv[set]
  llc,          \* the line in each way, 0 for none
  sampler,      \* the set's sampler entries
  SHCT,         \* counters of one core
  PSEL, bip_counter,
  \* history
  reused,       \* ways hit since their line was filled
  behind,       \* for each way, the ways that had no hit when it had its last one
  overtaken,    \* the ways behind the last victim
  recent        \* the last LLC_WAY lines accessed, the latest first, each with its
                \* first instruction and whether it was accessed again

rripVars == <<policy, role, rrpv, llc, sampler, SHCT, PSEL, bip_counter,
              reused, behind, overtaken, recent>>

maxRRPV == 3
PSEL_THRS == PSEL_MAX \div 2
LlcWay == 0..(LLC_WAY - 1)
NoIp == 0

\* is_it_leader and is_it_sampled; sets are drawn so that they have one role.
Roles(p) ==
  CASE p = "drrip" -> {"leader BIP", "leader SRRIP", "follower"}
    [] p = "ship" -> {"sampled", "other"}
    [] p = "srrip" -> {"other"}

-----------------------------------------------------------------------------
(***************************************************************************)
(* llc_find_victim: all ways grow until one is at maxRRPV.                 *)
(***************************************************************************)
Rounds == Min({maxRRPV - rrpv[w] : w \in {x \in LlcWay : rrpv[x] <= maxRRPV}})
AgedRrpv == [w \in LlcWay |-> rrpv[w] + Rounds]

llc_find_victim(w) == w = Min({x \in LlcWay : AgedRrpv[x] = maxRRPV})

-----------------------------------------------------------------------------
(***************************************************************************)
(* update_sampler.                                                         *)
(***************************************************************************)
Sampled(tag) == {w \in LlcWay : sampler[w].valid /\ sampler[w].tag = tag}
Invalid == {w \in LlcWay : ~sampler[w].valid}

\* The entry taken: of the line, or invalid, or used longest ago.
Match(tag) ==
  IF Sampled(tag) # {} THEN Min(Sampled(tag))
  ELSE IF Invalid # {} THEN Min(Invalid)
  ELSE CHOOSE w \in LlcWay : sampler[w].lru = LLC_WAY - 1

\* mutant: a hit takes over the ip of the access.
SampledLatest(w, tag, ip) ==
  [valid |-> TRUE, tag |-> tag, ip |-> ip, used |-> Sampled(tag) # {}, lru |-> 0]

SampledAs(w, tag, ip) ==
  IF Sampled(tag) # {} THEN [sampler[w] EXCEPT !.used = TRUE, !.lru = 0]
  ELSE [valid |-> TRUE, tag |-> tag, ip |-> ip, used |-> FALSE, lru |-> 0]

Moved(w) == [x \in LlcWay |->
  IF sampler[x].lru < sampler[w].lru THEN [sampler[x] EXCEPT !.lru = @ + 1] ELSE sampler[x]]

\* A reused line takes a point off its instruction, one evicted unused adds one.
Trained(tag, w) ==
  IF Sampled(tag) # {}
  THEN [SHCT EXCEPT ![sampler[w].ip] = IF @ > 0 THEN @ - 1 ELSE @]
  ELSE IF sampler[w].valid /\ ~sampler[w].used
  THEN [SHCT EXCEPT ![sampler[w].ip] = IF @ < SHCT_MAX THEN @ + 1 ELSE @]
  ELSE SHCT

Known(tag) == {k \in DOMAIN recent : recent[k].tag = tag}
Latest(s) == SubSeq(s, 1, IF Len(s) < LLC_WAY THEN Len(s) ELSE LLC_WAY - 1)

update_sampler(tag, ip) ==
  LET w == Match(tag)
      k == Min(Known(tag)) IN
  /\ sampler' = [Moved(w) EXCEPT ![w] = SampledAs(w, tag, ip)]
  /\ SHCT' = Trained(tag, w)
  /\ recent' = IF Known(tag) = {}
               THEN <<[tag |-> tag, ip |-> ip, used |-> FALSE]>> \o Latest(recent)
               ELSE <<[tag |-> tag, ip |-> recent[k].ip, used |-> TRUE]>> \o RemoveAt(recent, k)

SamplerKept == UNCHANGED <<sampler, SHCT, recent>>

-----------------------------------------------------------------------------
(***************************************************************************)
(* Set duelling of DRRIP: what a miss leaves in PSEL and bip_counter, and  *)
(* the value a line is filled with.                                        *)
(***************************************************************************)
NextBip == IF bip_counter + 1 = BIP_MAX THEN 0 ELSE bip_counter + 1
BipRrpv == IF NextBip = 0 THEN maxRRPV - 1 ELSE maxRRPV

Bimodal(r) == r = "leader BIP" \/ (r = "follower" /\ PSEL > PSEL_THRS)

Duel(r) ==
  /\ PSEL' = CASE r = "leader BIP" -> IF PSEL > 0 THEN PSEL - 1 ELSE PSEL
               [] r = "leader SRRIP" -> IF PSEL < PSEL_MAX THEN PSEL + 1 ELSE PSEL
               [] OTHER -> PSEL
  /\ bip_counter' = IF Bimodal(r) THEN NextBip ELSE bip_counter

DuelKept == UNCHANGED <<PSEL, bip_counter>>

-----------------------------------------------------------------------------
(***************************************************************************)
(* llc_update_replacement_state.  r is rrpv as llc_find_victim left it.    *)
(***************************************************************************)

\* Way w holds a line that was hit: w comes before all that had no hit yet.
Reuse(w) ==
  /\ reused' = reused \cup {w}
  /\ behind' = [x \in LlcWay |-> IF x = w THEN LlcWay \ (reused \cup {w}) ELSE behind[x] \ {w}]

\* The order of w among the ways is no longer known.
Forget(w) == behind' = [x \in LlcWay |-> IF x = w THEN {} ELSE behind[x] \ {w}]

\* mutant: a hit brings a line one step nearer.
NearerOnHit(w) == IF rrpv[w] > 0 THEN rrpv[w] - 1 ELSE 0

HitRrpv(w) == 0

UpdateHit(w, ip, type) ==
  CASE policy = "drrip" /\ type = "WRITEBACK" ->
         /\ rrpv' = [rrpv EXCEPT ![w] = maxRRPV - 1]
         /\ Forget(w) /\ UNCHANGED reused /\ SamplerKept
    [] policy = "ship" /\ type = "WRITEBACK" ->
         UNCHANGED <<rrpv, reused, behind>> /\ SamplerKept
    [] OTHER ->
         /\ rrpv' = [rrpv EXCEPT ![w] = HitRrpv(w)]
         /\ Reuse(w)
         /\ IF policy = "ship" /\ role = "sampled" THEN update_sampler(llc[w], ip)
            ELSE SamplerKept

\* The counter is read after the sampler has been updated.
ShipRrpv(ip) == IF SHCT'[ip] = SHCT_MAX THEN maxRRPV ELSE maxRRPV - 1

UpdateFill(w, tag, ip, type, r) ==
  /\ reused' = reused \ {w} /\ Forget(w)
  /\ IF policy = "ship" /\ role = "sampled" /\ type # "WRITEBACK"
     THEN update_sampler(tag, ip) ELSE SamplerKept
  /\ IF policy = "drrip" /\ type # "WRITEBACK" THEN Duel(role) ELSE DuelKept
  /\ rrpv' = [r EXCEPT ![w] =
       IF policy = "drrip" /\ type # "WRITEBACK" /\ Bimodal(role) THEN BipRrpv
       ELSE IF policy = "ship" /\ type # "WRITEBACK" THEN ShipRrpv(ip)
       ELSE maxRRPV - 1]

-----------------------------------------------------------------------------
(***************************************************************************)
(* What the cache does with the set.  A write-back has no ip.              *)
(***************************************************************************)
LlcAccess == ({"LOAD"} \X Ip) \cup {<<"WRITEBACK", NoIp>>}

LlcHit(w) ==
  /\ llc[w] # 0
  /\ \E a \in LlcAccess : UpdateHit(w, a[2], a[1])
  /\ DuelKept /\ UNCHANGED <<policy, role, llc, overtaken>>

\* handle_fill, and handle_writeback of a write-back that misses.
LlcFill(w, tag) ==
  /\ llc_find_victim(w) /\ \A x \in LlcWay : llc[x] # tag
  /\ llc' = [llc EXCEPT ![w] = tag]
  /\ overtaken' = behind[w]
  /\ \E a \in LlcAccess : UpdateFill(w, tag, a[2], a[1], AgedRrpv)
  /\ UNCHANGED <<policy, role>>

\* The write queue below is full: the victim was looked for and is not taken.
LlcStall ==
  /\ Rounds > 0 /\ rrpv' = AgedRrpv
  /\ UNCHANGED <<policy, role, llc, reused, behind, overtaken>> /\ SamplerKept /\ DuelKept

\* A miss in another leader set, an access of another sampled set.
OtherSet ==
  /\ UNCHANGED <<policy, role, rrpv, llc, sampler, reused, behind, overtaken, recent>>
  /\ \/ policy = "drrip" /\ (\E r \in Roles("drrip") : Duel(r)) /\ UNCHANGED SHCT
     \/ /\ policy = "ship" /\ role = "other" /\ DuelKept
        /\ \E i \in Ip : \E n \in {SHCT[i] - 1, SHCT[i] + 1} \cap (0..SHCT_MAX) :
             SHCT' = [SHCT EXCEPT ![i] = n]

\* llc_initialize_replacement.
RripInit ==
  /\ policy \in {"srrip", "drrip", "ship"} /\ role \in Roles(policy)
  /\ rrpv = [w \in LlcWay |-> maxRRPV] /\ llc = [w \in LlcWay |-> 0]
  /\ sampler = [w \in LlcWay |-> [valid |-> FALSE, tag |-> 0, ip |-> NoIp, used |-> FALSE, lru |-> w]]
  /\ SHCT = [i \in Ip |-> 0] /\ PSEL = 0 /\ bip_counter = 0
  /\ reused = {} /\ behind = [w \in LlcWay |-> {}] /\ overtaken = {}
  /\ recent = <<>>

RripNext ==
  \/ \E w \in LlcWay : LlcHit(w) \/ \E tag \in LlcTag : LlcFill(w, tag)
  \/ LlcStall \/ OtherSet

RripSpec == RripInit /\ [][RripNext]_rripVars

-----------------------------------------------------------------------------
(***************************************************************************)
(* Properties.                                                             *)
(***************************************************************************)

\* A line that was hit outlives every line beside it that was not hit when it was
\* and has not been since, whatever fills, stalls and write-backs come between
\* (llc_find_victim evicts the prediction that lies farthest).
ReusedOutlive == overtaken = {}

\* The sampler holds the lines of the set accessed last, each with the instruction
\* that brought it and whether it was used again since, so that the points an
\* instruction gets are those of its own lines (update_sampler).
SamplerExact ==
  policy = "ship" /\ role = "sampled" =>
    {[tag |-> sampler[w].tag, ip |-> sampler[w].ip, used |-> sampler[w].used] :
       w \in {x \in LlcWay : sampler[x].valid}} = {recent[k] : k \in DOMAIN recent}

\* The LLC keeps what was reused, and learns it from lines it really sampled.
ReuseLearned == ReusedOutlive /\ SamplerExact
=============================================================================
