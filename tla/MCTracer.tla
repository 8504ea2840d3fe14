------------------------------ MODULE MCTracer ------------------------------
EXTENDS Tracer, TLC

CONSTANTS master, w, v, loop, work

Threads == {master, w, v}
TwoThreads == {master, w}

Defaults ==
  [use_markers |-> TRUE, i |-> 0, s |-> 0, t |-> 2, n |-> 2, main_only |-> FALSE,
   exit_on_done |-> FALSE, skip_master_tracing |-> FALSE,
   trace_only_registered_workers |-> FALSE,
   threads |-> TwoThreads, markers |-> {"ROI_BEGIN", "ROI_END"}, exits |-> FALSE,
   opens |-> {0}]

Lengths == loop :> 1 @@ work :> 2

Unmarked == [Defaults EXCEPT !.use_markers = FALSE]

\* Samples with and without skips, markers and not, threads that exit.
MCSettings ==
  {[Defaults EXCEPT !.use_markers = FALSE, !.i = 1, !.s = 2, !.t = 1], Unmarked,
   [Defaults EXCEPT !.s = 1, !.t = 1],
   [Defaults EXCEPT !.skip_master_tracing = TRUE, !.trace_only_registered_workers = TRUE,
                    !.markers = Marker, !.t = 1, !.n = 1, !.exit_on_done = TRUE],
   [Defaults EXCEPT !.main_only = TRUE, !.n = 1, !.exits = TRUE, !.opens = {0, NoFile}]}

\* The orchestrating master and two workers of the RocksDB driver.
Orchestrated ==
  {[Defaults EXCEPT !.skip_master_tracing = TRUE, !.exit_on_done = TRUE,
                    !.threads = Threads, !.n = 1, !.markers = {"ROI_BEGIN"}]}

=============================================================================
