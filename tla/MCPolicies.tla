----------------------------- MODULE MCPolicies -----------------------------
(***************************************************************************)
(* The units of a core that keep tables of their own, explored one at a    *)
(* time: replacement, translation, and the prefetchers with what they      *)
(* learn.  unit is chosen once; the other units stay at their start.       *)
(***************************************************************************)
EXTENDS MCScooby, MCVirtualMemory, LruReplacement, Rrip, Sms, Power7, Learning, Bop

VARIABLE unit

units == <<unit, vars, vmVars, lruVars, rripVars, smsVars, power7Vars, learningVars, bopVars>>

-----------------------------------------------------------------------------
\* Two pcs: one walks a page of four lines, the other takes the only tracker away.
Walk == {[pc |-> 1, page |-> 0, offset |-> o] : o \in 0..3} \cup {[pc |-> 2, page |-> 1, offset |-> 0]}

-----------------------------------------------------------------------------
\* The feature "pc" tells the two states apart, "delta" does not.
TwoStates == {"s", "t"}
Tiles == [pc |-> <<[s |-> 0, t |-> 1]>>, delta |-> <<[s |-> 0, t |-> 0]>>]
Rewards == {[value |-> 2, kind |-> "correct"], [value |-> -2, kind |-> "incorrect"],
            [value |-> -1, kind |-> "none"]}

\* As in config/pythia.ini: max pooling, and a fallback that bandwidth may forbid.
PythiaIni ==
  [pooling_type |-> 2, enable_action_fallback |-> TRUE, enable_dyn_action_fallback |-> TRUE,
   selective_update |-> FALSE, enable_dynamic_weight |-> FALSE,
   disable_adjust_weight_all_features_align |-> TRUE]
SumWeighted ==
  [pooling_type |-> 1, enable_action_fallback |-> TRUE, enable_dyn_action_fallback |-> FALSE,
   selective_update |-> FALSE, enable_dynamic_weight |-> TRUE,
   disable_adjust_weight_all_features_align |-> FALSE]
Selective ==
  [pooling_type |-> 2, enable_action_fallback |-> FALSE, enable_dyn_action_fallback |-> FALSE,
   selective_update |-> TRUE, enable_dynamic_weight |-> TRUE,
   disable_adjust_weight_all_features_align |-> TRUE]
Engines == {PythiaIni, SumWeighted, Selective}

Candidates == <<1, 2, -1>>

-----------------------------------------------------------------------------
\* Units that start in one of several ways do so when they are explored.
Pinned ==
  /\ unit # "scooby" => knob = CHOOSE k \in Knobs : TRUE
  /\ unit # "rrip" => policy = "srrip"
  /\ unit # "sms" => ~enable_pref_buffer
  /\ unit # "engine" => engine = PythiaIni
  /\ unit # "bop" => ~bop_buffered

UnitInit ==
  /\ unit \in {"scooby", "vm", "lru", "rrip", "sms", "power7", "engine", "bop"}
  /\ Init /\ VmInit /\ LruInit /\ RripInit /\ SmsInit /\ Power7Init /\ LearningInit /\ BopInit
  /\ Pinned

UnitNext ==
  /\ UNCHANGED unit
  /\ \/ /\ unit = "scooby" /\ Next
        /\ UNCHANGED <<vmVars, lruVars, rripVars, smsVars, power7Vars, learningVars, bopVars>>
     \/ /\ unit = "vm" /\ VmNext
        /\ UNCHANGED <<vars, lruVars, rripVars, smsVars, power7Vars, learningVars, bopVars>>
     \/ /\ unit = "lru" /\ LruNext
        /\ UNCHANGED <<vars, vmVars, rripVars, smsVars, power7Vars, learningVars, bopVars>>
     \/ /\ unit = "rrip" /\ RripNext
        /\ UNCHANGED <<vars, vmVars, lruVars, smsVars, power7Vars, learningVars, bopVars>>
     \/ /\ unit = "sms" /\ SmsNext
        /\ UNCHANGED <<vars, vmVars, lruVars, rripVars, power7Vars, learningVars, bopVars>>
     \/ /\ unit = "power7" /\ Power7Next
        /\ UNCHANGED <<vars, vmVars, lruVars, rripVars, smsVars, learningVars, bopVars>>
     \/ /\ unit = "engine" /\ LearningNext
        /\ UNCHANGED <<vars, vmVars, lruVars, rripVars, smsVars, power7Vars, bopVars>>
     \/ /\ unit = "bop" /\ BopNext
        /\ UNCHANGED <<vars, vmVars, lruVars, rripVars, smsVars, power7Vars, learningVars>>

UnitSpec == UnitInit /\ [][UnitNext]_units

=============================================================================
