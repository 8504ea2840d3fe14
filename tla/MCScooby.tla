------------------------------ MODULE MCScooby ------------------------------
EXTENDS Scooby

Near == {-1, 0, 1}

\* A line is tracked once, as in config/pythia.ini; what leaves no prefetch (a
\* tracker hit, an offset outside the page) is tracked and rewarded, or is not.
TrackOnce ==
  {[track_multiple |-> FALSE, reward_all |-> FALSE,
    reward_tracker_hit |-> b, reward_out_of_bounds |-> b] : b \in BOOLEAN}
=============================================================================
