-------------------------------- MODULE Sms --------------------------------
(***************************************************************************)
(* Spatial memory streaming (src/prefetcher/sms.cc).  A generation of a    *)
(* region begins with an access that finds it in no table; its second      *)
(* access moves it from the filter table to the accumulation table, which  *)
(* collects the offsets accessed; when it is evicted from there, the       *)
(* pattern goes to the pattern history table under the generation's first  *)
(* pc and offset, and the next generation that begins with them prefetches *)
(* the pattern.                                                            *)
(*                                                                         *)
(* Operators marked "mutant" are deliberately faulty variants of the       *)
(* definition after them; no specification uses them.                      *)
(***************************************************************************)
EXTENDS Integers, Sequences, SequencesExt, FiniteSetsExt

CONSTANTS
  Region,                   \* pages of 2^sms_region_size_log bytes
  Offset,                   \* lines of a region
  Pc,
  sms_ft_size, sms_at_size,
  pht_sets, sms_pht_assoc,
  sms_pref_buffer_size, sms_pref_degree,
  MaxAccess                 \* bound: accesses of a run

ASSUME SmsAssumption ==
  /\ {sms_ft_size, sms_at_size, pht_sets, sms_pht_assoc} \subseteq Nat \ {0}
  /\ {sms_pref_buffer_size, sms_pref_degree} \subseteq Nat
  /\ Offset \subseteq Nat /\ IsFiniteSet(Offset) /\ Pc \subseteq Nat

VARIABLES
  filter_table, acc_table,  \* oldest entry first
  pht,                      \* pht[set]
  pref_buffer,
  enable_pref_buffer,       \* sms_enable_pref_buffer
  issued,                   \* pref_addr of the last access
  \* What happened, for the properties.
  clock,                    \* accesses so far
  generation,               \* by region: the first access and the offsets since
  used,                     \* by region: when it was last accessed
  generation_learned        \* by signature: the pattern of its last generation

smsTables == <<filter_table, acc_table, pht, pref_buffer, issued>>
smsVars == <<smsTables, enable_pref_buffer, clock, generation, used, generation_learned>>

\* Signatures keep pc and offset apart (create_signature).
Signature == Pc \X Offset
SetOf(sig) == (sig[1] * Cardinality(Offset) + sig[2]) % pht_sets

Find(table, P(_)) == SelectInSeq(table, P)
Held(table, page) == Find(table, LAMBDA e : e.page = page)

\* The last of the oldest entries: search_victim_acc_table, search_victim_pht.
OldestEntry(table) ==
  CHOOSE i \in DOMAIN table : \A j \in DOMAIN table :
    table[j].age < table[i].age \/ (table[j].age = table[i].age /\ j <= i)

Older(table) == [i \in DOMAIN table |-> [table[i] EXCEPT !.age = @ + 1]]

\* mutant: the entry used grows older with the others.
NothingTouched(table, i) == Older(table)

\* update_age_acc_table, update_age_pht: entry i is the youngest.
Touch(table, i) == [Older(table) EXCEPT ![i].age = 0]

\* mutant: the pattern of an old generation stays.
InsertOnce(table, sig, pattern) ==
  LET set == table[SetOf(sig)]
      i == Find(set, LAMBDA e : e.signature = sig)
      room == IF Len(set) >= sms_pht_assoc THEN RemoveAt(set, OldestEntry(set)) ELSE set IN
  IF i # 0 THEN [table EXCEPT ![SetOf(sig)] = Touch(set, i)]
  ELSE [table EXCEPT ![SetOf(sig)] =
         Append([j \in DOMAIN room |-> [room[j] EXCEPT !.age = 0]],
                [signature |-> sig, pattern |-> pattern, age |-> 0])]

\* insert_pht_table; an insertion makes every entry of the set young.
insert_pht_table(table, sig, pattern) ==
  LET set == table[SetOf(sig)]
      i == Find(set, LAMBDA e : e.signature = sig)
      room == IF Len(set) >= sms_pht_assoc THEN RemoveAt(set, OldestEntry(set)) ELSE set IN
  IF i # 0
  THEN [table EXCEPT ![SetOf(sig)] = Touch([set EXCEPT ![i].pattern = pattern], i)]
  ELSE [table EXCEPT ![SetOf(sig)] =
         Append([j \in DOMAIN room |-> [room[j] EXCEPT !.age = 0]],
                [signature |-> sig, pattern |-> pattern, age |-> 0])]

\* evict_acc_table, where insert_acc_table needs the room: the generation ends.
EvictAcc ==
  LET v == acc_table[OldestEntry(acc_table)]
      sig == <<v.pc, v.trigger>> IN
  IF Len(acc_table) < sms_at_size THEN UNCHANGED <<pht, generation_learned>>
  ELSE /\ pht' = insert_pht_table(pht, sig, v.pattern)
       /\ generation_learned' = [generation_learned EXCEPT ![sig] = v.pattern]

\* insert_acc_table, for the filter entry f and a second access at offset.
insert_acc_table(f, offset) ==
  LET room == IF Len(acc_table) < sms_at_size THEN acc_table
              ELSE RemoveAt(acc_table, OldestEntry(acc_table)) IN
  acc_table' = Append(Older(room),
    [page |-> f.page, pc |-> f.pc, trigger |-> f.trigger,
     pattern |-> {f.trigger, offset}, age |-> 0])

\* mutant: the entry stays in the filter table.
StaysInFilter(i) == UNCHANGED filter_table

\* evict_filter_table.
evict_filter_table(i) == filter_table' = RemoveAt(filter_table, i)

\* insert_filter_table: the oldest entry leaves a full table.
insert_filter_table(pc, page, offset) ==
  filter_table' = Append(
    IF Len(filter_table) >= sms_ft_size THEN Tail(filter_table) ELSE filter_table,
    [page |-> page, pc |-> pc, trigger |-> offset])

\* The k-th line of a bitmap.
NthLine(lines, k) == CHOOSE x \in lines : Cardinality({y \in lines : y < x}) = k - 1

\* The lines generate_prefetch finds, in the order of the bitmap.
PredictedLines(pc, page, offset) ==
  LET set == pht[SetOf(<<pc, offset>>)]
      i == Find(set, LAMBDA e : e.signature = <<pc, offset>>)
      lines == IF i = 0 THEN {} ELSE set[i].pattern \ {offset} IN
  [k \in 1..Cardinality(lines) |-> <<page, NthLine(lines, k)>>]

\* generate_prefetch, whose entry becomes the youngest of its set.
generate_prefetch(pc, offset) ==
  LET s == SetOf(<<pc, offset>>)
      i == Find(pht[s], LAMBDA e : e.signature = <<pc, offset>>) IN
  pht' = IF i = 0 THEN pht ELSE [pht EXCEPT ![s] = Touch(@, i)]

\* buffer_prefetch: what finds no room is dropped.
Buffered(lines) ==
  pref_buffer \o SubSeq(lines, 1, Min({Len(lines), sms_pref_buffer_size - Len(pref_buffer)}))

\* issue_prefetch, at every access.
Issue(buffer) ==
  LET n == Min({Len(buffer), sms_pref_degree}) IN
  /\ issued' = SubSeq(buffer, 1, n)
  /\ pref_buffer' = SubSeq(buffer, n + 1, Len(buffer))

Drain == IF enable_pref_buffer THEN Issue(pref_buffer) ELSE issued' = <<>> /\ UNCHANGED pref_buffer

Seen(page, offset) ==
  /\ clock' = clock + 1
  /\ used' = [used EXCEPT ![page] = clock']
  /\ generation' = [generation EXCEPT ![page].offsets = @ \cup {offset}]

-----------------------------------------------------------------------------
\* invoke_prefetcher, accumulation table hit.
Accumulate(pc, page, offset) ==
  LET i == Held(acc_table, page) IN
  /\ i # 0
  /\ acc_table' = Touch([acc_table EXCEPT ![i].pattern = @ \cup {offset}], i)
  /\ Drain /\ Seen(page, offset)
  /\ UNCHANGED <<filter_table, pht, generation_learned>>

\* invoke_prefetcher, filter table hit.
Promote(pc, page, offset) ==
  LET i == Held(filter_table, page) IN
  /\ Held(acc_table, page) = 0 /\ i # 0
  /\ EvictAcc /\ insert_acc_table(filter_table[i], offset)
  /\ evict_filter_table(i)
  /\ Drain /\ Seen(page, offset)

\* invoke_prefetcher, a new generation.
Begin(pc, page, offset) ==
  LET lines == PredictedLines(pc, page, offset) IN
  /\ Held(acc_table, page) = 0 /\ Held(filter_table, page) = 0
  /\ insert_filter_table(pc, page, offset)
  /\ generate_prefetch(pc, offset)
  /\ IF enable_pref_buffer THEN Issue(Buffered(lines))
     ELSE issued' = lines /\ UNCHANGED pref_buffer
  /\ clock' = clock + 1
  /\ used' = [used EXCEPT ![page] = clock']
  /\ generation' = [generation EXCEPT ![page] = [pc |-> pc, trigger |-> offset, offsets |-> {offset}]]
  /\ UNCHANGED <<acc_table, generation_learned>>

SmsInit ==
  /\ filter_table = <<>> /\ acc_table = <<>> /\ pht = [s \in 0..(pht_sets - 1) |-> <<>>]
  /\ pref_buffer = <<>> /\ issued = <<>> /\ enable_pref_buffer \in BOOLEAN
  /\ clock = 0 /\ used = [p \in Region |-> 0]
  /\ generation = [p \in Region |-> [pc |-> 0, trigger |-> 0, offsets |-> {}]]
  /\ generation_learned = [sig \in Signature |-> {}]

SmsNext ==
  /\ clock < MaxAccess /\ UNCHANGED enable_pref_buffer
  /\ \E pc \in Pc, page \in Region, offset \in Offset :
       Accumulate(pc, page, offset) \/ Promote(pc, page, offset) \/ Begin(pc, page, offset)

SmsSpec == SmsInit /\ [][SmsNext]_smsVars

-----------------------------------------------------------------------------
(***************************************************************************)
(* Properties.                                                             *)
(***************************************************************************)

\* A region is in one table at most, and its entry says how its generation began
\* and exactly which offsets it has accessed since, however entries were moved,
\* evicted and begun again.
GenerationsExact ==
  /\ \A i \in DOMAIN filter_table : LET f == filter_table[i] IN
       /\ Held(acc_table, f.page) = 0 /\ Held(filter_table, f.page) = i
       /\ generation[f.page] = [pc |-> f.pc, trigger |-> f.trigger, offsets |-> {f.trigger}]
  /\ \A i \in DOMAIN acc_table : LET e == acc_table[i] IN
       /\ Held(acc_table, e.page) = i
       /\ generation[e.page] = [pc |-> e.pc, trigger |-> e.trigger, offsets |-> e.pattern]

\* The ages of the accumulation table order its regions by their last access, so
\* that the generation ended for room is the one idle for longest.
OldestIdle ==
  \A i, j \in DOMAIN acc_table :
    used[acc_table[i].page] < used[acc_table[j].page] <=> acc_table[i].age > acc_table[j].age

\* What the history keeps for a signature is the pattern of its last generation,
\* it keeps one pattern for it, and, without the buffer, a generation that begins
\* with it prefetches the rest of that pattern and nothing else.
HistoryCurrent ==
  /\ \A s \in DOMAIN pht : \A i \in DOMAIN pht[s] :
       /\ pht[s][i].pattern = generation_learned[pht[s][i].signature]
       /\ \A j \in DOMAIN pht[s] : pht[s][i].signature = pht[s][j].signature => i = j
  /\ issued # <<>> /\ ~enable_pref_buffer =>
       LET g == generation[issued[1][1]] IN
       {issued[k] : k \in DOMAIN issued}
         = {issued[1][1]} \X (generation_learned[<<g.pc, g.trigger>>] \ {g.trigger})

\* From the first access of a generation to the prefetches of a later one, what is
\* recorded, ended for room and predicted is what was accessed.
HistoryTrue == GenerationsExact /\ OldestIdle /\ HistoryCurrent
=============================================================================
