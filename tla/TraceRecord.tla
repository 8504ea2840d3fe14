---------------------------- MODULE TraceRecord ----------------------------
(***************************************************************************)
(* How one thread in TRACING builds the record of an instruction           *)
(* (src/tracer/champsim_tracer_mt_roi_v3.cpp): insert_full_analysis puts   *)
(* callbacks before and after the instruction, and the callbacks, run one  *)
(* by one around the instruction's own stores, fill the slots of           *)
(* curr_instr until RecordInstrCommit writes it out.                       *)
(*                                                                         *)
(* Operators marked "mutant" are deliberately faulty variants of the       *)
(* definition after them; no specification uses them.                      *)
(***************************************************************************)
EXTENDS Integers, Sequences, SequencesExt

CONSTANTS
  NUM_INSTR_SOURCES,
  NUM_INSTR_DESTINATIONS,
  MAX_WRITE_OPS,
  Address,
  Instr         \* the instructions: registers, operands, and what they are

ASSUME RecordAssumption ==
  /\ {NUM_INSTR_SOURCES, NUM_INSTR_DESTINATIONS, MAX_WRITE_OPS} \subseteq Nat
  /\ Instr \subseteq
       [rregs : Seq(Nat), wregs : Seq(Nat), fall : BOOLEAN, call : BOOLEAN, scattered : BOOLEAN,
        ops : Seq([addr : Address, read : BOOLEAN, written : BOOLEAN, on : BOOLEAN])]
  /\ \A x \in Instr :
       /\ ~(x.call /\ x.fall)
       /\ ~x.scattered => Len(x.ops) <= MAX_WRITE_OPS     \* "PIN allows up to 8"
       /\ x.scattered => \A i \in 1..Len(x.ops) : x.ops[i].read # x.ops[i].written

VARIABLES
  ins,          \* the instruction the thread is at
  values,       \* -values
  memory,       \* what the traced program's memory holds
  fetched,      \* what it held when the instruction began
  before,       \* the calls at IPOINT_BEFORE still to run
  after,        \* the calls at IPOINT_AFTER still to run
  stage,        \* "idle", "before", "after"
  curr_instr,
  pending,      \* pending_store_slot, the slot whose value is still to come
  overflow,     \* g_overflowed_src_memops + g_overflowed_dst_memops
  emitted       \* the record last written

program == <<ins, values, memory, fetched>>
recordVars == <<program, before, after, stage, curr_instr, pending, overflow, emitted>>

Zero == 0                  \* a value slot left as reset_instr made it
Return == 9                \* INS_NextAddress of a call
Value == {1, 2}

Blank == [src_regs |-> <<>>, dst_regs |-> <<>>, src |-> <<>>, dst |-> <<>>, done |-> FALSE]
NoSlots == [i \in 1..MAX_WRITE_OPS |-> 0]

-----------------------------------------------------------------------------
(***************************************************************************)
(* Instrumentation.                                                        *)
(***************************************************************************)

\* c, where b holds.
Opt(b, c) == IF b THEN <<c>> ELSE <<>>

\* A call for every operand that is written.
StoreCalls(x, call) ==
  FlattenSeq([i \in 1..Len(x.ops) |-> Opt(x.ops[i].written, <<call, i>>)])

\* One operand's RecordMemRead and RecordMemWrite, in that order.
OperandCalls(x, i) ==
  Opt(x.ops[i].read, <<"MemRead", i>>) \o Opt(x.ops[i].written, <<"MemWrite", i>>)

HasStore(x) == ~x.scattered /\ \E i \in 1..Len(x.ops) : x.ops[i].written

PostCalls(x) == values /\ x.fall /\ ~x.scattered /\ HasStore(x)

\* mutant: the record is always written before the instruction.
CommitBefore(x) == TRUE

\* RecordInstrCommit runs before the instruction, unless values are still to come.
CommitsBefore(x) == ~PostCalls(x)

\* The calls insert_full_analysis puts at IPOINT_BEFORE, in their order.
BeforeCalls(x) ==
  [k \in 1..Len(x.rregs) |-> <<"RegRead", x.rregs[k]>>]
  \o [k \in 1..Len(x.wregs) |-> <<"RegWrite", x.wregs[k]>>]
  \o (IF x.scattered THEN <<<<"Scattered", 0>>>>
      ELSE FlattenSeq([i \in 1..Len(x.ops) |-> OperandCalls(x, i)]))
  \o (IF x.call /\ values /\ ~x.scattered THEN StoreCalls(x, "CallRetAddr") ELSE <<>>)
  \o Opt(CommitsBefore(x), <<"Commit", 0>>)

\* The calls at IPOINT_AFTER.
AfterCalls(x) ==
  (IF PostCalls(x) THEN StoreCalls(x, "MemWriteValue") ELSE <<>>)
  \o Opt(~CommitsBefore(x), <<"Commit", 0>>)

-----------------------------------------------------------------------------
(***************************************************************************)
(* The callbacks.                                                          *)
(***************************************************************************)

\* The value of a slot that RecordMemRead fills.
LoadValue(a) == IF values THEN memory[a] ELSE Zero

\* RecordRegRead and RecordRegWrite: the first free slot, if there is one.
RecordRegRead(r) ==
  curr_instr' = [curr_instr EXCEPT !.src_regs =
    IF Len(@) < NUM_INSTR_SOURCES THEN Append(@, r) ELSE @]

RecordRegWrite(r) ==
  curr_instr' = [curr_instr EXCEPT !.dst_regs =
    IF Len(@) < NUM_INSTR_DESTINATIONS THEN Append(@, r) ELSE @]

\* RecordMemRead: address and value go to the first free slot.
RecordMemRead(i) ==
  IF Len(curr_instr.src) < NUM_INSTR_SOURCES
  THEN /\ curr_instr' = [curr_instr EXCEPT !.src =
            Append(@, [addr |-> ins.ops[i].addr, value |-> LoadValue(ins.ops[i].addr)])]
       /\ UNCHANGED overflow
  ELSE overflow' = overflow + 1 /\ UNCHANGED curr_instr

\* RecordMemWrite: the value is still to come, into the slot remembered for the
\* operand.
RecordMemWrite(i) ==
  IF Len(curr_instr.dst) < NUM_INSTR_DESTINATIONS
  THEN /\ curr_instr' = [curr_instr EXCEPT !.dst =
            Append(@, [addr |-> ins.ops[i].addr, value |-> Zero])]
       /\ pending' = IF values /\ (ins.fall \/ ins.call) /\ i <= MAX_WRITE_OPS
                     THEN [pending EXCEPT ![i] = Len(curr_instr.dst) + 1] ELSE pending
       /\ UNCHANGED overflow
  ELSE overflow' = overflow + 1 /\ UNCHANGED <<curr_instr, pending>>

\* One lane of RecordScatteredMemAccess; stores get no value.
Lane(s, o) ==
  IF ~o.on THEN s
  ELSE IF o.read
  THEN IF Len(s.curr.src) < NUM_INSTR_SOURCES
       THEN [s EXCEPT !.curr.src = Append(@, [addr |-> o.addr, value |-> LoadValue(o.addr)])]
       ELSE [s EXCEPT !.lost = @ + 1]
  ELSE IF Len(s.curr.dst) < NUM_INSTR_DESTINATIONS
       THEN [s EXCEPT !.curr.dst = Append(@, [addr |-> o.addr, value |-> Zero])]
       ELSE [s EXCEPT !.lost = @ + 1]

RecordScatteredMemAccess ==
  LET s[n \in 0..Len(ins.ops)] ==
        IF n = 0 THEN [curr |-> curr_instr, lost |-> overflow] ELSE Lane(s[n - 1], ins.ops[n])
      end == s[Len(ins.ops)]
  IN curr_instr' = end.curr /\ overflow' = end.lost

\* RecordMemWriteValue and RecordCallRetAddrValue: v goes to the slot remembered.
RecordStoreValue(i, v) ==
  IF i > MAX_WRITE_OPS \/ pending[i] = 0 THEN UNCHANGED <<curr_instr, pending>>
  ELSE /\ curr_instr' = [curr_instr EXCEPT !.dst[pending[i]].value = v]
       /\ pending' = [pending EXCEPT ![i] = 0]

\* reset_instr and reset_pending_stores.
Reset == curr_instr' = Blank /\ pending' = NoSlots

\* RecordInstrCommit writes the record and starts a new one.
CommitRecord == emitted' = [curr_instr EXCEPT !.done = TRUE] /\ Reset

\* Callback c runs; predicated calls only where the predicate holds.
Call(c) ==
  LET i == c[2] IN
  CASE c[1] = "RegRead" -> RecordRegRead(i) /\ UNCHANGED <<pending, overflow, emitted>>
    [] c[1] = "RegWrite" -> RecordRegWrite(i) /\ UNCHANGED <<pending, overflow, emitted>>
    [] c[1] = "Scattered" -> RecordScatteredMemAccess /\ UNCHANGED <<pending, emitted>>
    [] c[1] = "Commit" -> CommitRecord /\ UNCHANGED overflow
    [] c[1] \in {"MemRead", "MemWrite", "CallRetAddr", "MemWriteValue"} /\ ~ins.ops[i].on ->
         UNCHANGED <<curr_instr, pending, overflow, emitted>>
    [] c[1] = "MemRead" /\ ins.ops[i].on -> RecordMemRead(i) /\ UNCHANGED <<pending, emitted>>
    [] c[1] = "MemWrite" /\ ins.ops[i].on -> RecordMemWrite(i) /\ UNCHANGED emitted
    [] c[1] = "CallRetAddr" /\ ins.ops[i].on ->
         RecordStoreValue(i, Return) /\ UNCHANGED <<overflow, emitted>>
    [] c[1] = "MemWriteValue" /\ ins.ops[i].on ->
         RecordStoreValue(i, memory[ins.ops[i].addr]) /\ UNCHANGED <<overflow, emitted>>

CallBefore ==
  /\ stage = "before" /\ before # <<>>
  /\ Call(Head(before)) /\ before' = Tail(before)
  /\ UNCHANGED <<program, after, stage>>

CallAfter ==
  /\ stage = "after" /\ after # <<>>
  /\ Call(Head(after)) /\ after' = Tail(after)
  /\ UNCHANGED <<program, before, stage>>

-----------------------------------------------------------------------------
(***************************************************************************)
(* The traced program.                                                     *)
(***************************************************************************)

\* The thread comes to instruction x.
Fetch(x) ==
  /\ stage = "idle"
  /\ ins' = x /\ fetched' = memory
  /\ before' = BeforeCalls(x) /\ after' = AfterCalls(x) /\ stage' = "before"
  /\ overflow' = 0 /\ emitted' = Blank
  /\ UNCHANGED <<values, memory, curr_instr, pending>>

\* The instruction's own stores.
Execute ==
  /\ stage = "before" /\ before = <<>>
  /\ \E v \in Value :
       memory' = [a \in Address |->
         IF \E i \in 1..Len(ins.ops) : ins.ops[i].addr = a /\ ins.ops[i].written /\ ins.ops[i].on
         THEN IF ins.call THEN Return ELSE v ELSE memory[a]]
  /\ stage' = "after"
  /\ UNCHANGED <<ins, values, fetched, before, after, curr_instr, pending, overflow, emitted>>

\* The instruction is over.
Retired ==
  /\ stage = "after" /\ after = <<>>
  /\ stage' = "idle"
  /\ UNCHANGED <<program, before, after, curr_instr, pending, overflow, emitted>>

RecordInit ==
  /\ ins \in Instr /\ values \in BOOLEAN
  /\ memory = [a \in Address |-> 1] /\ fetched = memory
  /\ before = <<>> /\ after = <<>> /\ stage = "idle"
  /\ curr_instr = Blank /\ pending = NoSlots /\ overflow = 0 /\ emitted = Blank

RecordNext == CallBefore \/ CallAfter \/ (\E x \in Instr : Fetch(x)) \/ Execute \/ Retired

RecordSpec == RecordInit /\ [][RecordNext]_recordVars

-----------------------------------------------------------------------------
(***************************************************************************)
(* Properties.                                                             *)
(***************************************************************************)

Prefix(s, n) == SubSeq(s, 1, IF Len(s) < n THEN Len(s) ELSE n)

\* The operands of x that it does read, and those it does write.
Reads(x) == FlattenSeq([i \in 1..Len(x.ops) |-> Opt(x.ops[i].read /\ x.ops[i].on, i)])
Writes(x) == FlattenSeq([i \in 1..Len(x.ops) |-> Opt(x.ops[i].written /\ x.ops[i].on, i)])

\* What the program found in an operand that was read.
Loaded(o) == [addr |-> o.addr, value |-> IF values THEN fetched[o.addr] ELSE Zero]

\* What the program did with an operand that was written.
Stored(o) ==
  [addr |-> o.addr,
   value |-> IF values /\ ~ins.scattered /\ (ins.fall \/ ins.call) THEN memory[o.addr] ELSE Zero]

\* When an instruction is over, its record has been written, once, and says what
\* the instruction did: its first operands read, with what memory held before it,
\* and its first operands written, with what memory holds after it, or without a
\* value where none can be had.  Nothing of the instruction before is left in it,
\* and what found no slot is counted.
RecordFaithful ==
  LET reads == Reads(ins)
      writes == Writes(ins)
      src == [k \in 1..Len(reads) |-> Loaded(ins.ops[reads[k]])]
      dst == [k \in 1..Len(writes) |-> Stored(ins.ops[writes[k]])]
      nsrc == Len(Prefix(src, NUM_INSTR_SOURCES))
      ndst == Len(Prefix(dst, NUM_INSTR_DESTINATIONS)) IN
  stage = "after" /\ after = <<>> =>
    /\ emitted = [src_regs |-> Prefix(ins.rregs, NUM_INSTR_SOURCES),
                  dst_regs |-> Prefix(ins.wregs, NUM_INSTR_DESTINATIONS),
                  src |-> Prefix(src, NUM_INSTR_SOURCES),
                  dst |-> Prefix(dst, NUM_INSTR_DESTINATIONS), done |-> TRUE]
    /\ overflow = (Len(src) - nsrc) + (Len(dst) - ndst)
    /\ curr_instr = Blank
=============================================================================
