--------------------------- MODULE RecencyOrder ---------------------------
(***************************************************************************)
(* What replacement by recency promises for one cache set: an empty way is *)
(* filled first, and with no empty way the victim is the way whose last    *)
(* use lies furthest back.  There are no counters here, only the order in  *)
(* which the ways were used.                                               *)
(***************************************************************************)
CONSTANT Way

VARIABLES
  valid,      \* valid[w]: way w holds a line
  older       \* <<a, b>> \in older: the last use of a is before that of b

vars == <<valid, older>>

Used(w) ==
  older' = {p \in older : p[1] # w /\ p[2] # w} \cup ((Way \ {w}) \X {w})

Oldest(w) == \A a \in Way \ {w} : <<w, a>> \in older

Fill(w) ==
  /\ IF \E a \in Way : ~valid[a] THEN ~valid[w] ELSE Oldest(w)
  /\ valid' = [valid EXCEPT ![w] = TRUE]
  /\ Used(w)

Hit(w) == valid[w] /\ Used(w) /\ UNCHANGED valid

Invalidate(w) == valid[w] /\ valid' = [valid EXCEPT ![w] = FALSE] /\ UNCHANGED older

\* A total order of the ways, before any of them was used.
Init ==
  /\ valid = [w \in Way |-> FALSE]
  /\ older \subseteq Way \X Way
  /\ \A a, b \in Way : a # b => (<<a, b>> \in older <=> <<b, a>> \notin older)
  /\ \A a \in Way : <<a, a>> \notin older
  /\ \A a, b, c \in Way : <<a, b>> \in older /\ <<b, c>> \in older => <<a, c>> \in older

Next == \E w \in Way : Fill(w) \/ Hit(w) \/ Invalidate(w)

Spec == Init /\ [][Next]_vars
=============================================================================
