------------------------------- MODULE Codec -------------------------------
(***************************************************************************)
(* The streaming decompressors that src/src/trace_reader.cc and            *)
(* src/tracer/trace_cutter/trace_cutter.cpp call: what one call of zlib,   *)
(* liblzma or libzstd takes of its input and gives of its output.          *)
(*                                                                         *)
(* A compressed file is a sequence of bytes [upto, last, bad]: the file up *)
(* to this byte holds upto bytes of output, the byte ends a frame (a gzip  *)
(* member, an xz stream), it cannot be decoded.  The decompressed bytes    *)
(* are numbered from 1.                                                    *)
(***************************************************************************)
EXTENDS Integers, Sequences, FiniteSetsExt

IsFile(f) ==
  /\ f \in Seq([upto : Nat, last : BOOLEAN, bad : BOOLEAN])
  /\ \A i, j \in 1..Len(f) : i <= j => f[i].upto <= f[j].upto

\* The decompressed bytes that the first c bytes of f hold.
Yield(f, c) == IF c = 0 THEN 0 ELSE f[c].upto

\* The last byte of the frame that follows the first c bytes.
FrameEnd(f, c) ==
  LET ends == {e \in (c + 1)..Len(f) : f[e].last} IN
  IF ends = {} THEN Len(f) ELSE Min(ends)

\* The last byte that a call after the first c bytes may take: the streams of an xz
\* file are decoded as one.
LastByte(f, format, c) == IF format = "xz" THEN Len(f) ELSE FrameEnd(f, c)

Fresh == [in |-> 0, out |-> 0]

\* One call with a bytes of input and room for r bytes of output: it goes on until
\* the input is used up, the output is full or a frame ends.  zlib and libzstd keep
\* back the last byte of a frame, or its trailer, until all of its output is out.
Decode(f, format, d, a, r) ==
  LET e == LastByte(f, format, d.in)
      limit == Min({d.in + a, e})
      full == {c \in d.in..limit : Yield(f, c) - d.out >= r}
      c == IF full = {} THEN limit ELSE Min(full)
      out == Min({d.out + r, Max({d.out, Yield(f, c)})})
      ends == format # "xz" /\ c > 0 /\ c = e /\ f[e].last IN
  [in |-> IF ends /\ c > d.in /\ out < Yield(f, e) THEN e - 1 ELSE c,
   out |-> out,
   status |-> IF \E i \in (d.in + 1)..c : f[i].bad THEN "Error"
              ELSE IF ends /\ out = Yield(f, e) THEN "StreamEnd" ELSE "Ok"]

\* The bytes a reader can get: of the first frame only, but for xz.
Readable(f, format) == Yield(f, LastByte(f, format, 0))
=============================================================================
