---------------------------- MODULE MCCacheSplit ----------------------------
(* Two first-level caches, "L1I" and "L1D", above one lower cache "L2C",   *)
(* which is above Below.  With Below = DRAM it is the cache hierarchy      *)
(* without its middle level, with Below = WALK it is ITLB and DTLB above   *)
(* STLB.                                                                   *)
EXTENDS CacheHierarchy, TLC

CONSTANTS Below, CodeLine, DataLine, Fetches, Loads, UpperPf, LowerPf

MCCache == {"L1I", "L1D", "L2C"}
MCLower == [c \in MCCache |-> IF c = "L2C" THEN Below ELSE "L2C"]
MCDcache == [c \in MCCache |-> IF c = "L2C" THEN "L1D" ELSE NoCache]
MCLevel == [c \in MCCache |-> IF c = "L2C" THEN 2 ELSE 1]
MCLine == CodeLine \cup DataLine
MCReach == [c \in MCCache |->
              CASE c = "L1I" -> CodeLine [] c = "L1D" -> DataLine
                [] OTHER -> CodeLine \cup DataLine]
MCReq == Fetches \cup Loads
MCPort == [r \in MCReq |-> IF r \in Fetches THEN "L1I" ELSE "L1D"]
One == [c \in MCCache |-> 1]
Two == [c \in MCCache |-> 2]
\* One slot of the lower read queue for each upper MSHR, when they have one each.
TwoBelow == [c \in MCCache |-> IF c = "L2C" THEN 2 ELSE 1]
FourBelow == [c \in MCCache |-> IF c = "L2C" THEN 4 ELSE 1]
MCPfFill == [c \in MCCache |->
              CASE c = "L1D" -> UpperPf [] c = "L2C" -> LowerPf [] OTHER -> {}]
DSymmetry == Permutations(DataLine)
=============================================================================
