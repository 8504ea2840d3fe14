----------------------------- MODULE MemoryPort -----------------------------
(***************************************************************************)
(* What the LLC may expect of the memory below it, and all that module     *)
(* CacheHierarchy models of it (dramRQ and dramWQ there): a read that is   *)
(* not answered at once stays in flight until its data returns, exactly    *)
(* once; a write stays until it is performed; neither queue holds more     *)
(* than its size, and a read that finds its line among the writes is       *)
(* answered at once.                                                       *)
(***************************************************************************)
EXTENDS Naturals, FiniteSets

CONSTANTS Line, DRAM_RQ_SIZE, DRAM_WQ_SIZE

VARIABLES
  reading,   \* lines being read
  writing    \* lines to be written

Init == reading = {} /\ writing = {}

Read(a) ==
  /\ a \notin reading \cup writing
  /\ Cardinality(reading) < DRAM_RQ_SIZE
  /\ reading' = reading \cup {a}
  /\ UNCHANGED writing

Write(a) ==
  /\ a \notin writing
  /\ Cardinality(writing) < DRAM_WQ_SIZE
  /\ writing' = writing \cup {a}
  /\ UNCHANGED reading

ReadDone(a) ==
  /\ a \in reading
  /\ reading' = reading \ {a}
  /\ UNCHANGED writing

WriteDone(a) ==
  /\ a \in writing
  /\ writing' = writing \ {a}
  /\ UNCHANGED reading

Next == \E a \in Line : Read(a) \/ Write(a) \/ ReadDone(a) \/ WriteDone(a)

Spec == Init /\ [][Next]_<<reading, writing>>
=============================================================================
