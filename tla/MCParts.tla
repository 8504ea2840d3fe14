------------------------------ MODULE MCParts ------------------------------
(***************************************************************************)
(* Parts that share nothing, explored one at a time: the DRAM controller   *)
(* and the tools on the way of a trace, which are the phases of the        *)
(* tracer's threads, the record of an instruction, the cutter and the      *)
(* reader.  part is chosen once; the other parts stay at their start.      *)
(***************************************************************************)
EXTENDS DramController, MCTracer, TraceRecord, TraceReader, TraceCutter

CONSTANTS m1, m2

VARIABLE part

parts == <<part, vars, tracerVars, recordVars, readerVars, cutterVars>>

----------------------------------------------------------------------------
(* One rank with two banks of two rows; lines 1 to 3 reach both banks, and *)
(* two rows of one of them.                                                *)

DramLines == 1..3

----------------------------------------------------------------------------
(* Instructions: loads, stores, both, more operands than slots, calls,     *)
(* gathers and scatters.                                                   *)

R(x) == [addr |-> x, read |-> TRUE, written |-> FALSE, on |-> TRUE]
W(x) == [addr |-> x, read |-> FALSE, written |-> TRUE, on |-> TRUE]
RW(x) == [addr |-> x, read |-> TRUE, written |-> TRUE, on |-> TRUE]
Off(o) == [o EXCEPT !.on = FALSE]

Plain(ops) ==
  [rregs |-> <<1, 2>>, wregs |-> <<3>>, ops |-> ops, fall |-> TRUE, call |-> FALSE, scattered |-> FALSE]

Nop == Plain(<<>>)

Instructions ==
  {Nop, Plain(<<R(m1)>>), Plain(<<RW(m1)>>), Plain(<<R(m1), W(m2)>>), Plain(<<W(m2), W(m1), R(m1)>>),
   Plain(<<W(m1), W(m2), W(m1)>>), Plain(<<R(m1), R(m2), R(m1)>>), Plain(<<Off(W(m1)), W(m2)>>),
   [Plain(<<W(m1)>>) EXCEPT !.fall = FALSE],
   [Plain(<<R(m2), W(m1)>>) EXCEPT !.fall = FALSE, !.call = TRUE],
   [Plain(<<R(m1), Off(R(m2)), R(m2), R(m1)>>) EXCEPT !.scattered = TRUE, !.rregs = <<1, 2, 4>>],
   [Plain(<<W(m1), W(m2), W(m1)>>) EXCEPT !.scattered = TRUE]}

----------------------------------------------------------------------------
(* Compressed files: bytes that give no, one or several bytes of output,   *)
(* one frame and two, a partial record, a truncated and a damaged file.    *)

B(n) == [upto |-> n, last |-> FALSE, bad |-> FALSE]
E(n) == [upto |-> n, last |-> TRUE, bad |-> FALSE]

Contents ==
  {<<B(0), B(4), E(4)>>, <<B(3), B(5), E(9)>>, <<B(0), E(7)>>, <<B(3), E(5), B(8), E(9)>>,
   <<B(2), B(7)>>, <<B(4), [upto |-> 4, last |-> FALSE, bad |-> TRUE], E(6)>>}

Traces == [bytes : Contents \cup {<<>>}, format : {"gz", "xz", "zst"}]
OneTrace == [bytes |-> <<E(2)>>, format |-> "zst"]
OneInput == <<E(2)>>

----------------------------------------------------------------------------
PartsInit ==
  /\ Init /\ TracerInit /\ RecordInit /\ ReaderInit /\ CutterInit
  /\ part \in {"dram", "tracer", "record", "reader", "cutter"}
  /\ part # "tracer" => run = Unmarked
  /\ part # "record" => ins = Nop /\ values
  /\ part # "reader" => trace = OneTrace
  /\ part # "cutter" => input = OneInput

PartsNext ==
  /\ UNCHANGED part
  /\ \/ part = "dram" /\ Next /\ UNCHANGED <<tracerVars, recordVars, readerVars, cutterVars>>
     \/ part = "tracer" /\ TracerNext /\ UNCHANGED <<vars, recordVars, readerVars, cutterVars>>
     \/ part = "record" /\ RecordNext /\ UNCHANGED <<vars, tracerVars, readerVars, cutterVars>>
     \/ part = "reader" /\ ReaderNext /\ UNCHANGED <<vars, tracerVars, recordVars, cutterVars>>
     \/ part = "cutter" /\ CutterNext /\ UNCHANGED <<vars, tracerVars, recordVars, readerVars>>

\* The parts' own fairness, for the part that runs.
PartsFairness ==
  /\ WF_vars(part = "dram" /\ EnterWriteMode) /\ WF_vars(part = "dram" /\ LeaveWriteMode)
  /\ \A q \in Queue : /\ WF_vars(part = "dram" /\ schedule(q))
                      /\ WF_vars(part = "dram" /\ process(q))
  /\ \A t \in Thread : WF_tracerVars(part = "tracer" /\ SharedStep(t))
  /\ WF_readerVars(part = "reader" /\ ReaderNext)

PartsSpec == PartsInit /\ [][PartsNext]_parts /\ PartsFairness

----------------------------------------------------------------------------
MCTraces == Traces \cup {OneTrace}
MCInputs == Contents \cup {OneInput}
============================================================================
