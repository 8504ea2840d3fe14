------------------------------- MODULE Tracer -------------------------------
(***************************************************************************)
(* The phases of the threads traced by                                     *)
(* src/tracer/champsim_tracer_mt_roi_v3.cpp.  A thread runs code that PIN  *)
(* has compiled in one of four ways, and the way a piece of code was       *)
(* compiled decides which callbacks run: what a thread records depends on  *)
(* what the cache of compiled code held when the thread entered it.        *)
(*                                                                         *)
(* Each callback is one step up to its first write to a shared counter;    *)
(* what follows (active_tracing_threads, the two counters of               *)
(* -exit_on_done, PIN_RemoveInstrumentation) are steps of their own, kept  *)
(* in todo[t], between which the other threads run.  The compilation of a  *)
(* trace is one step: PIN serialises it with the flushes.                  *)
(*                                                                         *)
(* Operators marked "mutant" are deliberately faulty variants of the       *)
(* definition after them; no specification uses them.                      *)
(***************************************************************************)
EXTENDS Integers, Sequences, SequencesExt, FiniteSets

CONSTANTS
  Thread,
  Code,         \* the pieces of code (PIN traces) of the program
  NumIns,       \* their number of instructions, TRACE_NumIns
  Setting       \* command lines and programs, see SettingType

VARIABLES
  run,          \* the command line and the shape of the program
  ts,           \* thread_states
  disk,         \* the sample files each thread has closed
  registered,   \* ts->is_registered_worker
  started,      \* ts->ever_started_tracing
  reached,      \* ts->ever_reached_done
  loaded,       \* the count of started threads that maybe_exit_on_done has loaded
  todo,         \* the steps left of the callback a thread is in
  at,           \* the code a thread is in: how it was compiled, what is left
  cache,        \* how each piece of code is compiled
  active,       \* active_tracing_threads
  roi_started,
  roi_ended,
  exited,       \* g_exit_triggered, and PIN is in Fini
  main_thread   \* main_thread_id

flags == <<registered, started, reached, loaded>>
roi == <<roi_started, roi_ended>>
tracerVars == <<run, ts, disk, flags, todo, at, cache, active, roi, exited, main_thread>>

NoThread == "invalid"
NoFile == -1
Unborn ==      \* the thread has not started
  [phase |-> "UNBORN", counter |-> 0, samples |-> 0, file |-> NoFile]
NoState ==     \* its entry of thread_states is null
  [phase |-> "NONE", counter |-> 0, samples |-> 0, file |-> NoFile]

Marker == {"ROI_BEGIN", "ROI_END", "REGISTER_WORKER"}
Phase == {"WAITING_FOR_ROI", "INITIAL_SKIP", "TRACING", "INTER_SKIP", "DONE"}

\* The knobs, the threads of the program, the markers it executes, whether threads
\* exit before the end, and what opening a file may give: no records yet, or NoFile.
SettingType ==
  [use_markers : BOOLEAN, i : Nat, s : Nat, t : Nat \ {0}, n : Nat, main_only : BOOLEAN,
   exit_on_done : BOOLEAN, skip_master_tracing : BOOLEAN,
   trace_only_registered_workers : BOOLEAN,
   threads : SUBSET Thread, markers : SUBSET Marker, exits : BOOLEAN,
   opens : SUBSET {0, NoFile}]

ASSUME TracerAssumption ==
  /\ Setting \subseteq SettingType
  /\ NumIns \in [Code -> Nat \ {0}]

-----------------------------------------------------------------------------
(***************************************************************************)
(* A thread's state.                                                       *)
(***************************************************************************)

\* It enters TRACING: phase, counter and open_next_sample, whose file may fail to
\* open, in which case its records are dropped.
Traced(s, f) == [s EXCEPT !.phase = "TRACING", !.counter = run.t, !.file = f]

\* close_sample and force_close: the file is finished with the records it has.
Closed(t, s) ==
  IF s.file = NoFile THEN disk[t]
  ELSE Append(disk[t], [sample |-> s.samples, records |-> s.file])

\* One callback of t ends: its new state, its files, and the shared steps left.
Callback(t, s, files, steps) ==
  /\ ts' = [ts EXCEPT ![t] = s]
  /\ disk' = [disk EXCEPT ![t] = files]
  /\ todo' = [todo EXCEPT ![t] = steps]

\* mutant: the compiled code stays.
EnterKeepsCode == <<"add", "mark">>

\* The shared steps of enter_tracing and of ThreadStart.
EnterTracing == <<"add", "mark", "flush">>

\* mutant: the thread that stops is not taken off the count.
StopUncounted(t, last) ==
  Callback(t, [ts[t] EXCEPT !.phase = "DONE", !.file = NoFile], Closed(t, ts[t]),
           <<"done">> \o last)

\* DONE, from TRACING or from any other phase.
StopTracing(t, last) ==
  Callback(t, [ts[t] EXCEPT !.phase = "DONE", !.file = NoFile], Closed(t, ts[t]),
           (IF ts[t].phase = "TRACING" THEN <<"sub">> ELSE <<>>) \o <<"done">> \o last)

Running(t) == ts[t] # Unborn /\ todo[t] = <<>> /\ ~exited /\ at[t].mode # "gone"

-----------------------------------------------------------------------------
(***************************************************************************)
(* The code cache.                                                         *)
(***************************************************************************)

\* InstrumentTrace: nothing once the ROI has ended, markers only before it has
\* begun, else a phase check and either every instruction or the skip counters.
InstrumentTrace ==
  IF roi_ended THEN "bare"
  ELSE IF run.use_markers /\ ~roi_started THEN "markers"
  ELSE IF active > 0 THEN "full"
  ELSE "fast"

\* A waiting thread that the ROI, once begun, lets into TRACING.
Wakes(t) ==
  /\ ~roi_ended /\ roi_started /\ ts[t].phase = "WAITING_FOR_ROI"
  /\ run.trace_only_registered_workers => registered[t]

\* mutant: as in version 2 of the tracer, the compiled code stays.
CheckKeepsCode(t) ==
  \/ roi_ended /\ StopTracing(t, <<>>)
  \/ Wakes(t) /\ \E f \in run.opens : Callback(t, Traced(ts[t], f), disk[t], <<"add", "mark">>)

\* CheckROITransition of a thread that is not DONE; the code is flushed when the
\* thread is the first to trace.
CheckROITransition(t) ==
  \/ roi_ended /\ StopTracing(t, <<>>)
  \/ Wakes(t) /\ \E f \in run.opens : Callback(t, Traced(ts[t], f), disk[t], <<"add_first", "mark">>)

\* FastForwardInitial and FastForwardInter, at the entry of a trace.
FastForward(t, p, n) ==
  /\ ts[t].phase = p
  /\ IF ts[t].counter > n
     THEN Callback(t, [ts[t] EXCEPT !.counter = @ - n], disk[t], <<>>)
     ELSE \E f \in run.opens : Callback(t, Traced(ts[t], f), disk[t], EnterTracing)

FastForwardInitial(t, n) == FastForward(t, "INITIAL_SKIP", n)
FastForwardInter(t, n) == FastForward(t, "INTER_SKIP", n)

\* The calls inserted at the head of a trace compiled as m, of n instructions.
AtEntry(t, m, n) ==
  LET checks == m \in {"full", "fast"} /\ ts[t].phase \in Phase \ {"DONE"}
                /\ (roi_ended \/ Wakes(t))
      skips == m = "fast" /\ ~checks /\ ts[t].phase \in {"INITIAL_SKIP", "INTER_SKIP"} IN
  \/ checks /\ CheckROITransition(t)
  \/ skips /\ (FastForwardInitial(t, n) \/ FastForwardInter(t, n))
  \/ ~checks /\ ~skips /\ UNCHANGED <<ts, disk, todo>>

\* Thread t enters code c, compiling it if it is not in the cache.
EnterTrace(t, c) ==
  LET m == IF cache[c] = "none" THEN InstrumentTrace ELSE cache[c] IN
  /\ Running(t) /\ at[t].left = 0
  /\ cache' = [cache EXCEPT ![c] = m]
  /\ at' = [at EXCEPT ![t] =
       [mode |-> m, left |-> IF m = "full" THEN NumIns[c]
                             ELSE IF m = "bare" \/ ~run.use_markers THEN 0 ELSE 1]]
  /\ AtEntry(t, m, NumIns[c])
  /\ UNCHANGED <<run, flags, active, roi, exited, main_thread>>

-----------------------------------------------------------------------------
(***************************************************************************)
(* The instructions of a trace.                                            *)
(***************************************************************************)

\* mutant: the counter of the next sample is not set.
finish_keeps_counter(t, s) ==
  LET c == [s EXCEPT !.samples = @ + 1, !.file = NoFile] IN
  IF run.n > 0 /\ c.samples >= run.n
  THEN Callback(t, [c EXCEPT !.phase = "DONE", !.counter = 0], Closed(t, s), <<"done", "sub", "flush">>)
  ELSE IF run.s > 0
  THEN Callback(t, [c EXCEPT !.phase = "INTER_SKIP", !.counter = run.s], Closed(t, s), <<"sub", "flush">>)
  ELSE \E f \in run.opens : Callback(t, [c EXCEPT !.file = f, !.counter = 1], Closed(t, s), <<>>)

\* mutant: a skip begins in the code compiled for tracing.
finish_keeps_code(t, s) ==
  LET c == [s EXCEPT !.samples = @ + 1, !.counter = 0, !.file = NoFile] IN
  IF run.n > 0 /\ c.samples >= run.n
  THEN Callback(t, [c EXCEPT !.phase = "DONE"], Closed(t, s), <<"done", "sub">>)
  ELSE IF run.s > 0
  THEN Callback(t, [c EXCEPT !.phase = "INTER_SKIP", !.counter = run.s], Closed(t, s), <<"sub">>)
  ELSE \E f \in run.opens : Callback(t, Traced(c, f), Closed(t, s), <<>>)

\* finish_sample in leave_tracing: quota reached, a skip, or the next sample.
finish_sample(t, s) ==
  LET c == [s EXCEPT !.samples = @ + 1, !.counter = 0, !.file = NoFile] IN
  IF run.n > 0 /\ c.samples >= run.n
  THEN Callback(t, [c EXCEPT !.phase = "DONE"], Closed(t, s), <<"done", "sub", "flush">>)
  ELSE IF run.s > 0
  THEN Callback(t, [c EXCEPT !.phase = "INTER_SKIP", !.counter = run.s], Closed(t, s), <<"sub", "flush">>)
  ELSE \E f \in run.opens : Callback(t, Traced(c, f), Closed(t, s), <<>>)

\* RecordInstrCommit: a record is written, in TRACING only.
RecordInstrCommit(t) ==
  LET s == [ts[t] EXCEPT !.counter = @ - 1,
                         !.file = IF @ = NoFile THEN NoFile ELSE @ + 1] IN
  IF ts[t].phase # "TRACING" THEN UNCHANGED <<ts, disk, todo>>
  ELSE IF s.counter = 0 THEN finish_sample(t, s)
  ELSE Callback(t, s, disk[t], <<>>)

\* The next instruction of code compiled with every instruction instrumented.
Instruction(t) ==
  /\ Running(t) /\ at[t].mode = "full" /\ at[t].left > 0
  /\ RecordInstrCommit(t)
  /\ at' = [at EXCEPT ![t].left = @ - 1]
  /\ UNCHANGED <<run, flags, cache, active, roi, exited, main_thread>>

\* The end of a trace that has only its markers instrumented.
TraceEnd(t) ==
  /\ Running(t) /\ at[t].mode \in {"markers", "fast"} /\ at[t].left > 0
  /\ at' = [at EXCEPT ![t].left = 0]
  /\ UNCHANGED <<run, ts, disk, flags, todo, cache, active, roi, exited, main_thread>>

\* HandleMarker is called, before the instruction's own record.
MarkerRuns(t, m) ==
  /\ Running(t) /\ at[t].left > 0
  /\ run.use_markers /\ m \in run.markers
  /\ UNCHANGED <<run, started, reached, loaded, at, cache, active, exited, main_thread>>

\* CHAMPSIM_ROI_BEGIN: the first one only.
RoiBegin(t) ==
  /\ MarkerRuns(t, "ROI_BEGIN")
  /\ ~roi_started /\ roi_started' = TRUE
  /\ IF ts[t] = NoState THEN UNCHANGED <<ts, disk, todo>>
     ELSE IF run.skip_master_tracing
     THEN Callback(t, [ts[t] EXCEPT !.phase = "DONE"], disk[t], <<"done">>)
     ELSE IF ts[t].phase \in {"WAITING_FOR_ROI", "INITIAL_SKIP"}
     THEN \E f \in run.opens : Callback(t, Traced(ts[t], f), disk[t], EnterTracing)
     ELSE UNCHANGED <<ts, disk, todo>>
  /\ UNCHANGED <<registered, roi_ended>>

\* CHAMPSIM_REGISTER_WORKER.
RegisterWorker(t) ==
  /\ MarkerRuns(t, "REGISTER_WORKER")
  /\ ts[t] # NoState /\ registered' = [registered EXCEPT ![t] = TRUE]
  /\ UNCHANGED <<ts, disk, todo, roi>>

\* CHAMPSIM_ROI_END: the first one only.
RoiEnd(t) ==
  /\ MarkerRuns(t, "ROI_END")
  /\ ~roi_ended /\ roi_ended' = TRUE
  /\ IF ts[t] = NoState THEN UNCHANGED <<ts, disk, todo>> ELSE StopTracing(t, <<"flush">>)
  /\ UNCHANGED <<registered, roi_started>>

-----------------------------------------------------------------------------
(***************************************************************************)
(* The steps on shared state at the end of a callback.                     *)
(***************************************************************************)

Now(t, step) ==
  /\ todo[t] # <<>> /\ Head(todo[t]) = step /\ ~exited
  /\ UNCHANGED <<run, ts, disk, registered, loaded, at, roi, main_thread>>

Then(t, steps) == todo' = [todo EXCEPT ![t] = steps]

\* active_tracing_threads.fetch_add of enter_tracing and ThreadStart.
AddActive(t) ==
  /\ Now(t, "add")
  /\ active' = active + 1 /\ Then(t, Tail(todo[t]))
  /\ UNCHANGED <<started, reached, cache, exited>>

\* The one of CheckROITransition, which flushes after the first.
AddFirst(t) ==
  /\ Now(t, "add_first")
  /\ active' = active + 1
  /\ Then(t, Tail(todo[t]) \o IF active = 0 THEN <<"flush">> ELSE <<>>)
  /\ UNCHANGED <<started, reached, cache, exited>>

\* active_tracing_threads.fetch_sub.
SubActive(t) ==
  /\ Now(t, "sub")
  /\ active' = active - 1 /\ Then(t, Tail(todo[t]))
  /\ UNCHANGED <<started, reached, cache, exited>>

\* mark_started_tracing.
MarkStarted(t) ==
  /\ Now(t, "mark")
  /\ started' = [started EXCEPT ![t] = TRUE] /\ Then(t, Tail(todo[t]))
  /\ UNCHANGED <<reached, cache, active, exited>>

\* mark_reached_done, which goes on to maybe_exit_on_done the first time.
MarkReachedDone(t) ==
  /\ Now(t, "done")
  /\ reached' = [reached EXCEPT ![t] = TRUE]
  /\ Then(t, (IF reached[t] THEN <<>> ELSE <<"exit">>) \o Tail(todo[t]))
  /\ UNCHANGED <<started, cache, active, exited>>

\* The counters of -exit_on_done: threads that started, threads that are done.
Marked(flag) == Cardinality({t \in Thread : flag[t]})

\* maybe_exit_on_done first loads the count of threads that have started.
LoadStarted(t) ==
  /\ todo[t] # <<>> /\ Head(todo[t]) = "exit" /\ ~exited
  /\ run.exit_on_done /\ Marked(started) > 0
  /\ loaded[t] = 0 /\ loaded' = [loaded EXCEPT ![t] = Marked(started)]
  /\ UNCHANGED <<run, ts, disk, registered, started, reached, todo, at, cache, active, roi,
                 exited, main_thread>>

\* Then it loads the count of threads that are done: PIN_ExitApplication once they
\* are as many as had started.
MaybeExitOnDone(t) ==
  /\ Now(t, "exit")
  /\ loaded[t] > 0 \/ ~run.exit_on_done \/ Marked(started) = 0
  /\ exited' = (loaded[t] > 0 /\ Marked(reached) >= loaded[t])
  /\ Then(t, Tail(todo[t]))
  /\ UNCHANGED <<started, reached, cache, active>>

\* PIN_RemoveInstrumentation: a thread in the middle of a trace runs it to its end.
Flush(t) ==
  /\ Now(t, "flush")
  /\ cache' = [c \in Code |-> "none"] /\ Then(t, Tail(todo[t]))
  /\ UNCHANGED <<started, reached, active, exited>>

-----------------------------------------------------------------------------
(***************************************************************************)
(* Thread lifecycle.                                                       *)
(***************************************************************************)

\* The phase and counter that ThreadStart chooses; the registration of workers is
\* not asked for.
StartingState ==
  IF run.use_markers
  THEN IF roi_started THEN [NoState EXCEPT !.phase = "TRACING"]
                      ELSE [NoState EXCEPT !.phase = "WAITING_FOR_ROI"]
  ELSE IF run.i > 0 THEN [NoState EXCEPT !.phase = "INITIAL_SKIP", !.counter = run.i]
                    ELSE [NoState EXCEPT !.phase = "TRACING"]

ThreadStart(t) ==
  /\ ts[t] = Unborn /\ t \in run.threads /\ ~exited
  /\ main_thread' = IF main_thread = NoThread THEN t ELSE main_thread
  /\ IF run.main_only /\ t # main_thread' THEN Callback(t, NoState, disk[t], <<>>)
     ELSE IF StartingState.phase = "TRACING"
     THEN \E f \in run.opens : Callback(t, Traced(StartingState, f), disk[t], EnterTracing)
     ELSE Callback(t, StartingState, disk[t], <<>>)
  /\ UNCHANGED <<run, flags, at, cache, active, roi, exited>>

\* ThreadFini: a thread that exits while it traces keeps its partial sample; it
\* reaches no DONE and nothing is flushed.
ThreadFini(t) ==
  /\ Running(t) /\ at[t].left = 0 /\ run.exits
  /\ Callback(t, NoState, Closed(t, ts[t]), <<>>)
  /\ at' = [at EXCEPT ![t].mode = "gone"]
  /\ active' = IF ts[t].phase = "TRACING" THEN active - 1 ELSE active
  /\ UNCHANGED <<run, flags, cache, roi, exited, main_thread>>

\* Fini, after PIN_ExitApplication: every thread's file is closed.
Fini ==
  /\ exited /\ \E t \in Thread : ts[t] # NoState
  /\ disk' = [t \in Thread |-> Closed(t, ts[t])]
  /\ ts' = [t \in Thread |-> NoState]
  /\ UNCHANGED <<run, flags, todo, at, cache, active, roi, exited, main_thread>>

-----------------------------------------------------------------------------
TracerInit ==
  /\ run \in Setting
  /\ ts = [t \in Thread |-> Unborn] /\ disk = [t \in Thread |-> <<>>]
  /\ registered = [t \in Thread |-> FALSE]
  /\ started = [t \in Thread |-> FALSE] /\ reached = [t \in Thread |-> FALSE]
  /\ loaded = [t \in Thread |-> 0]
  /\ todo = [t \in Thread |-> <<>>] /\ at = [t \in Thread |-> [mode |-> "bare", left |-> 0]]
  /\ cache = [c \in Code |-> "none"]
  /\ active = 0 /\ roi_started = FALSE /\ roi_ended = FALSE /\ exited = FALSE
  /\ main_thread = NoThread

SharedStep(t) ==
  \/ AddActive(t) \/ AddFirst(t) \/ SubActive(t) \/ MarkStarted(t) \/ MarkReachedDone(t)
  \/ LoadStarted(t) \/ MaybeExitOnDone(t) \/ Flush(t)

\* What a thread does by itself as long as it is scheduled.
ThreadRuns(t) ==
  (\E c \in Code : EnterTrace(t, c)) \/ Instruction(t) \/ TraceEnd(t) \/ SharedStep(t)

TracerNext ==
  \/ \E t \in Thread :
       \/ ThreadRuns(t) \/ ThreadStart(t) \/ ThreadFini(t)
       \/ RoiBegin(t) \/ RegisterWorker(t) \/ RoiEnd(t)
  \/ Fini

TracerSpec == TracerInit /\ [][TracerNext]_tracerVars

\* A callback that has begun ends.  Nothing else is certain: which code a thread
\* runs, whether it meets a marker or exits, and whether it runs at all is the
\* program's; a master that is traced waits in pthread_join, in the middle of a
\* sample (champsim_tracer_mt_roi_v3.cpp:38).
TracerFairness == \A t \in Thread : WF_tracerVars(SharedStep(t))

\* Thread t, for one, is not blocked for ever.
GoesOn(t) == WF_tracerVars(ThreadRuns(t))

-----------------------------------------------------------------------------
(***************************************************************************)
(* Properties.                                                             *)
(***************************************************************************)

\* active_tracing_threads counts the threads in TRACING, whatever ends or restarts
\* their samples: a quota, a skip, the end of the ROI seen by the thread itself or
\* by CheckROITransition, its exit.  InstrumentTrace decides from it alone.
ActiveExact ==
  exited \/
  active = Cardinality({t \in Thread :
    \/ ts[t].phase = "TRACING" /\ ~Contains(todo[t], "add") /\ ~Contains(todo[t], "add_first")
    \/ Contains(todo[t], "sub")})

\* While a thread traces, and unless a flush is about to happen, all compiled code
\* records every instruction, so that the sample has no holes
\* (champsim_tracer_mt_roi_v3.cpp:976).
TracingSeesAll ==
  active > 0 /\ ~roi_ended /\ (\A t \in Thread : ~Contains(todo[t], "flush"))
    => \A c \in Code : cache[c] \in {"none", "full"}

\* The files of a thread are its samples in order, none written twice; each holds
\* exactly -t records, but for the last of a thread that was stopped within it.
SamplesWhole ==
  \A t \in Thread : \A k \in DOMAIN disk[t] :
    /\ disk[t][k].records <= run.t
    /\ disk[t][k].records < run.t =>
         /\ k = Len(disk[t])
         /\ ts[t] = NoState \/ (ts[t].phase = "DONE" /\ ts[t].samples = disk[t][k].sample)
    /\ \A j \in 1..(k - 1) : disk[t][j].sample < disk[t][k].sample

\* -exit_on_done ends the program once every thread that ever entered TRACING has
\* reached DONE (champsim_tracer_mt_roi_v3.cpp:563).
ExitWhenDone == exited => \A t \in Thread : started[t] => reached[t]

Skipping(t) == ts[t].phase \in {"INITIAL_SKIP", "INTER_SKIP"}

\* The skip of a thread that goes on ends, although it is counted only in code
\* compiled while no thread traces: provided that samples are limited in number, that
\* no other thread stays in its sample for ever, as a blocked one does, and that none
\* exits within it.
SkipEnds ==
  \A t \in Thread :
    GoesOn(t) /\ (\A u \in Thread \ {t} : []<>(ts[u].phase # "TRACING"))
      => (Skipping(t) /\ run.n > 0 /\ ~run.exits ~> ~Skipping(t) \/ roi_ended \/ exited)

\* When the master is traced, a waiting thread that may trace and goes on begins to
\* after the start of the ROI, whatever code it was in and whatever the others do
\* (champsim_markers.h:106).
ThreadsWake ==
  \A t \in Thread :
    GoesOn(t) =>
      (roi_started /\ ts[t].phase = "WAITING_FOR_ROI"
       /\ (run.trace_only_registered_workers => registered[t])
       /\ ~run.skip_master_tracing /\ ~run.main_only
         ~> ts[t].phase # "WAITING_FOR_ROI" \/ roi_ended \/ exited)

\* No thread that goes on is left behind in a phase that ought to end.
ThreadsMove == SkipEnds /\ ThreadsWake
=============================================================================
