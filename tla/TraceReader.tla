---------------------------- MODULE TraceReader ----------------------------
(***************************************************************************)
(* TraceReader (src/src/trace_reader.cc) as the core uses it: records of   *)
(* RECORD_SIZE bytes are read one after the other, and the trace is        *)
(* rewound when a read fails (src/src/ooo_cpu.cc:228).                     *)
(*                                                                         *)
(* Operators marked "mutant" are deliberately faulty variants of the       *)
(* definition after them; no specification uses them.                      *)
(***************************************************************************)
EXTENDS Codec

CONSTANTS
  RECORD_SIZE,
  COMP_BUF_BYTES,
  DECOMP_BUF_BYTES,
  TraceFile         \* the traces: [bytes |-> see Codec, format |-> "gz", "xz" or "zst"]

ASSUME ReaderAssumption ==
  /\ {RECORD_SIZE, COMP_BUF_BYTES, DECOMP_BUF_BYTES} \subseteq Nat \ {0}
  /\ \A t \in TraceFile : IsFile(t.bytes)

VARIABLES
  trace,            \* the file read
  file_offset,      \* bytes read from the descriptor
  comp,             \* comp_size - comp_pos
  decoder,
  decomp,           \* the unread bytes of decomp_buf, by their numbers
  file_eof,
  stream_ended,
  dst,              \* the bytes of the record being read
  reads,            \* records read since the start or the last rewind
  thrown            \* a decode error was thrown

buffers == <<file_offset, comp, decoder, decomp, file_eof, stream_ended>>
readerVars == <<trace, buffers, dst, reads, thrown>>

Started ==
  /\ file_offset' = 0 /\ comp' = 0 /\ decoder' = Fresh /\ decomp' = <<>>
  /\ file_eof' = FALSE /\ stream_ended' = FALSE

\* refill_compressed: read(2) may return less than is asked for.
refill_compressed ==
  /\ decomp = <<>> /\ ~stream_ended /\ comp = 0 /\ ~file_eof /\ ~thrown
  /\ \/ \E n \in 1..Min({COMP_BUF_BYTES, Len(trace.bytes) - file_offset}) :
          file_offset' = file_offset + n /\ comp' = n /\ UNCHANGED file_eof
     \/ file_offset = Len(trace.bytes) /\ file_eof' = TRUE /\ UNCHANGED <<file_offset, comp>>
  /\ UNCHANGED <<trace, decoder, decomp, stream_ended, dst, reads, thrown>>

\* mutant: the stream is over when the file is.
EndsAtEof(st, same, left) == st = "StreamEnd" \/ (left = 0 /\ file_eof)

\* The stream is over: the decoder says so, or it has made no progress and there
\* is nothing left to feed it.
Ends(st, same, left) == st = "StreamEnd" \/ (same /\ left = 0 /\ file_eof)

\* An iteration of refill_decompressed, once it has input or the file has ended.
refill_decompressed ==
  LET r == Decode(trace.bytes, trace.format, decoder, comp, DECOMP_BUF_BYTES)
      left == comp - (r.in - decoder.in) IN
  /\ decomp = <<>> /\ ~stream_ended /\ (comp > 0 \/ file_eof) /\ ~thrown
  /\ IF r.status = "Error"
     THEN thrown' = TRUE /\ UNCHANGED <<comp, decoder, decomp, stream_ended>>
     ELSE /\ comp' = left
          /\ decoder' = [in |-> r.in, out |-> r.out]
          /\ decomp' = [i \in 1..(r.out - decoder.out) |-> decoder.out + i]
          /\ stream_ended' = Ends(r.status, decoder' = decoder, left)
          /\ UNCHANGED thrown
  /\ UNCHANGED <<trace, file_offset, file_eof, dst, reads>>

\* An iteration of read_bytes: as much of the record as decomp_buf holds.
read_bytes ==
  LET n == Min({Len(decomp), RECORD_SIZE - Len(dst)}) IN
  /\ n > 0
  /\ dst' = dst \o SubSeq(decomp, 1, n)
  /\ decomp' = SubSeq(decomp, n + 1, Len(decomp))
  /\ UNCHANGED <<trace, file_offset, comp, decoder, file_eof, stream_ended, reads, thrown>>

\* read returns true, and the core asks for the next record.
ReadOk ==
  /\ Len(dst) = RECORD_SIZE
  /\ dst' = <<>> /\ reads' = reads + 1
  /\ UNCHANGED <<trace, buffers, thrown>>

\* mutant: the end of the stream outlives the rewind.
RewindKeepsEnd ==
  /\ file_offset' = 0 /\ comp' = 0 /\ decoder' = Fresh /\ decomp' = <<>>
  /\ file_eof' = FALSE /\ UNCHANGED stream_ended

\* rewind_state.
rewind_state == Started

\* read returns false, also with part of a record, and the core rewinds.
Rewind ==
  /\ decomp = <<>> /\ stream_ended /\ Len(dst) < RECORD_SIZE
  /\ rewind_state
  /\ dst' = <<>> /\ reads' = 0
  /\ UNCHANGED <<trace, thrown>>

ReaderInit ==
  /\ trace \in TraceFile
  /\ file_offset = 0 /\ comp = 0 /\ decoder = Fresh /\ decomp = <<>>
  /\ file_eof = FALSE /\ stream_ended = FALSE
  /\ dst = <<>> /\ reads = 0 /\ thrown = FALSE

ReaderNext ==
  refill_compressed \/ refill_decompressed \/ read_bytes \/ ReadOk \/ Rewind

ReaderSpec == ReaderInit /\ [][ReaderNext]_readerVars

\* The reader is one thread of control.
ReaderFairness == WF_readerVars(ReaderNext)

-----------------------------------------------------------------------------
(***************************************************************************)
(* Properties.                                                             *)
(***************************************************************************)

\* The records are the bytes of the trace in order, none lost, repeated or mixed
\* at the borders of buffers, reads and decoder calls; and a read fails only when
\* all bytes that can be had are read, but for a piece smaller than a record.
RecordsExact ==
  /\ \A i \in 1..Len(dst) : dst[i] = reads * RECORD_SIZE + i
  /\ stream_ended /\ decomp = <<>> =>
       reads * RECORD_SIZE + Len(dst) = Readable(trace.bytes, trace.format)

\* Once begun, a trace with at least one record goes on giving its records again and
\* again: no read hangs in the loops of refill_decompressed and read_bytes, and a
\* rewound trace starts afresh (trace_reader.cc:384).
TraceRepeats ==
  file_offset > 0 /\ Readable(trace.bytes, trace.format) >= RECORD_SIZE
    ~> reads = 1 \/ thrown
=============================================================================
