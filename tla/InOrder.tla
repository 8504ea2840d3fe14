------------------------------ MODULE InOrder ------------------------------
(***************************************************************************)
(* What a core promises: the instructions of the trace take effect one by  *)
(* one in program order.  A store leaves its instruction number at its     *)
(* addresses and a load sees the number of the last store before it.       *)
(***************************************************************************)
EXTENDS Naturals, Sequences

CONSTANTS Addr,      \* data addresses
          MAX_READ   \* bound: instructions read from the trace

VARIABLES trace,     \* the trace file: a sequence of instructions, repeated
          retired,   \* num_retired
          mem,       \* mem[a]: the last store to a, 0 if there is none
          seen       \* what the loads of the last retired instruction saw

vars == <<trace, retired, mem, seen>>

\* Instruction number n: handle_branch rewinds the trace at its end.
InstrAt(n) == trace[((n - 1) % Len(trace)) + 1]

Init == retired = 0 /\ mem = [a \in Addr |-> 0] /\ seen = <<>>

Step ==
  LET ins == InstrAt(retired + 1) IN
  /\ retired < MAX_READ
  /\ retired' = retired + 1
  /\ seen' = [j \in 1..Len(ins.ld) |-> mem[ins.ld[j]]]
  /\ mem' = [a \in Addr |-> IF \E j \in 1..Len(ins.st) : ins.st[j] = a
                           THEN retired + 1 ELSE mem[a]]
  /\ UNCHANGED trace

Spec == Init /\ [][Step]_vars
=============================================================================
