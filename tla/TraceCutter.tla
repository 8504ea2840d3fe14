---------------------------- MODULE TraceCutter ----------------------------
(***************************************************************************)
(* The trace cutter (src/tracer/trace_cutter/trace_cutter.cpp): a zstd     *)
(* trace is decompressed piece by piece, cut into records, and the records *)
(* are handed out to chunks of N.                                          *)
(*                                                                         *)
(* Operators marked "mutant" are deliberately faulty variants of the       *)
(* definition after them; no specification uses them.                      *)
(***************************************************************************)
EXTENDS Codec

CONSTANTS
  CUT_RECORD,       \* RECORD_SIZE
  DEC_BUF,          \* the size of dec_buf
  NUM_INSTR,        \* -n, the records of a chunk
  Input             \* the files to cut, see Codec

ASSUME CutterAssumption ==
  /\ {CUT_RECORD, DEC_BUF, NUM_INSTR} \subseteq Nat \ {0}
  /\ \A f \in Input : IsFile(f)

VARIABLES
  input,
  zin,              \* the decoder, and zin.pos
  piece,            \* what is left of dec_buf to be consumed
  carry,            \* the bytes of a record not yet complete
  chunk,            \* the records of the open chunk, none when it is not open
  chunks,           \* the chunks written
  ended             \* "no", "done" or "error"

cutterVars == <<input, zin, piece, carry, chunk, chunks, ended>>

\* One turn of the decompression loop; frames follow one another.
Decompress ==
  LET r == Decode(input, "zst", zin, Len(input) - zin.in, DEC_BUF) IN
  /\ ended = "no" /\ piece = <<>> /\ zin.in < Len(input)
  /\ IF r.status = "Error"
     THEN ended' = "error" /\ UNCHANGED <<zin, piece>>
     ELSE /\ zin' = [in |-> r.in, out |-> r.out]
          /\ piece' = [i \in 1..(r.out - zin.out) |-> zin.out + i]
          /\ UNCHANGED ended
  /\ UNCHANGED <<input, carry, chunk, chunks>>

\* emit_records, one record: the chunk is opened if need be, and closed when full.
emit_records(record) ==
  LET c == Append(chunk, record) IN
  IF Len(c) = NUM_INSTR
  THEN chunk' = <<>> /\ chunks' = Append(chunks, c)
  ELSE chunk' = c /\ UNCHANGED chunks

\* mutant: what is left of a piece is forgotten.
NothingCarried(bytes) == <<>>

\* A record that is not complete waits for the next piece.
Carried(bytes) == bytes

\* consume_decompressed, up to the end of a record: the one begun in the carry, one
\* within the piece, or the tail that is carried.
consume_decompressed ==
  LET n == Min({CUT_RECORD - Len(carry), Len(piece)})
      record == carry \o SubSeq(piece, 1, n) IN
  /\ piece # <<>>
  /\ piece' = SubSeq(piece, n + 1, Len(piece))
  /\ IF Len(record) = CUT_RECORD
     THEN carry' = <<>> /\ emit_records(record)
     ELSE carry' = Carried(record) /\ UNCHANGED <<chunk, chunks>>
  /\ UNCHANGED <<input, zin, ended>>

\* finalize_current_chunk, if a chunk is open.
finalize_current_chunk ==
  chunks' = IF chunk = <<>> THEN chunks ELSE Append(chunks, chunk)

\* The loop is over; a partial record is discarded with a warning.
Finish ==
  /\ ended = "no" /\ piece = <<>> /\ zin.in = Len(input)
  /\ finalize_current_chunk
  /\ chunk' = <<>> /\ ended' = "done"
  /\ UNCHANGED <<input, zin, piece, carry>>

CutterInit ==
  /\ input \in Input /\ input # <<>>
  /\ zin = Fresh /\ piece = <<>> /\ carry = <<>> /\ chunk = <<>> /\ chunks = <<>>
  /\ ended = "no"

CutterNext == Decompress \/ consume_decompressed \/ Finish

CutterSpec == CutterInit /\ [][CutterNext]_cutterVars

-----------------------------------------------------------------------------
(***************************************************************************)
(* Properties.                                                             *)
(***************************************************************************)

\* The bytes of the k-th record of the input.
RecordAt(k) == [i \in 1..CUT_RECORD |-> (k - 1) * CUT_RECORD + i]

\* The records written, when all chunks but the last are full.
Written ==
  IF chunks = <<>> THEN 0 ELSE (Len(chunks) - 1) * NUM_INSTR + Len(chunks[Len(chunks)])

\* The chunks, one after the other, are the records of the input from the first
\* one on, cut at every NUM_INSTR records; at the end they are all of them,
\* whatever the pieces that the decompression gave and the frames of the input.
ChunksExact ==
  /\ \A k \in 1..Len(chunks) :
       /\ Len(chunks[k]) \in 1..NUM_INSTR
       /\ Len(chunks[k]) = NUM_INSTR \/ (ended = "done" /\ k = Len(chunks))
       /\ \A m \in 1..Len(chunks[k]) : chunks[k][m] = RecordAt((k - 1) * NUM_INSTR + m)
  /\ \A m \in 1..Len(chunk) : chunk[m] = RecordAt(Len(chunks) * NUM_INSTR + m)
  /\ ended = "done" /\ input[Len(input)].last =>
       Written = Yield(input, Len(input)) \div CUT_RECORD
=============================================================================
