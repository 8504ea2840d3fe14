---------------------------- MODULE TracerProofs ----------------------------
(***************************************************************************)
(* The counter of tracing threads is exact between any two steps of any    *)
(* threads, code compiled while one traces records every instruction, and  *)
(* the samples on disk are whole, for any number of threads, any program   *)
(* and any command line.  The programs that read traces, the reader and    *)
(* the cutter, neither lose nor repeat a record of any file.  The record   *)
(* of every instruction says what the instruction did.                     *)
(***************************************************************************)
EXTENDS Tracer, TraceRecord, TraceReader, TraceCutter, SequenceTheorems, FiniteSetTheorems,
        NaturalsInduction, WellFoundedInduction, TLAPS

StepSet == {"add", "add_first", "sub", "mark", "done", "exit", "flush"}

\* The steps that change active_tracing_threads.
Counting == {"add", "add_first", "sub"}

CountsOnce(p) == \A i, j \in DOMAIN p : p[i] \in Counting /\ p[j] \in Counting => i = j

\* What a callback leaves to be done: it counts once, and a thread that is counted
\* without asking whether it is the first does so at once and flushes after.
Plan(p) ==
  /\ p \in Seq(StepSet) /\ CountsOnce(p)
  /\ Contains(p, "add") => Head(p) = "add" /\ Contains(p, "flush")

StateT ==
  [phase : Phase \cup {"UNBORN", "NONE"}, counter : Int, samples : Nat, file : Int]

\* The steps left to a thread fit the phase it is in.
Fits(s, p) ==
  /\ Plan(p)
  /\ Contains(p, "add") \/ Contains(p, "add_first") => s.phase = "TRACING"
  /\ Contains(p, "sub") => s.phase # "TRACING"
  /\ s.phase = "UNBORN" => p = <<>>

\* A thread of that state is counted now.
Counted(s, p) ==
  \/ s.phase = "TRACING" /\ ~Contains(p, "add") /\ ~Contains(p, "add_first")
  \/ Contains(p, "sub")

CountedThreads == {t \in Thread : Counted(ts[t], todo[t])}

\* Before the ROI has begun a thread waits, or is done.
Asleep(s, p) == s.phase \in {"UNBORN", "NONE", "WAITING_FOR_ROI", "DONE"} /\ ~Contains(p, "sub")

TracerTypes ==
  /\ run \in Setting
  /\ ts \in [Thread -> StateT] /\ todo \in [Thread -> Seq(StepSet)]

\* The inductive invariant of the counter.
CountInv ==
  /\ TracerTypes
  /\ ~exited =>
       /\ \A t \in Thread : Fits(ts[t], todo[t])
       /\ IsFiniteSet(CountedThreads) /\ active = Cardinality(CountedThreads)
       /\ run.use_markers /\ ~roi_started => \A t \in Thread : Asleep(ts[t], todo[t])

-----------------------------------------------------------------------------
\* The first step is taken off a plan.
LEMMA PlanTail ==
  ASSUME NEW p \in Seq(StepSet), CountsOnce(p), p # <<>>
  PROVE  /\ Head(p) \in StepSet /\ Tail(p) \in Seq(StepSet) /\ CountsOnce(Tail(p))
         /\ \A x : Contains(p, x) <=> Head(p) = x \/ Contains(Tail(p), x)
         /\ Head(p) \in Counting => \A x \in Counting : ~Contains(Tail(p), x)
<1> DEFINE q == Tail(p)
<1>1. /\ Len(p) \in Nat \ {0} /\ DOMAIN p = 1..Len(p) /\ Head(p) = p[1]
      /\ q \in Seq(StepSet) /\ Len(q) = Len(p) - 1 /\ DOMAIN q = 1..(Len(p) - 1)
      /\ \A i \in 1..(Len(p) - 1) : q[i] = p[i + 1]
      /\ p[1] \in StepSet
  <2>1. Len(p) \in Nat \ {0} /\ DOMAIN p = 1..Len(p)
    BY EmptySeq, LenProperties
  <2>2. /\ Head(p) = p[1] /\ q \in Seq(StepSet) /\ Len(q) = Len(p) - 1
        /\ \A i \in 1..Len(q) : q[i] = p[i + 1]
    BY HeadTailProperties
  <2>3. p[1] \in StepSet
    BY <2>1, ElementOfSeq
  <2> HIDE DEF q
  <2>4. DOMAIN q = 1..Len(q)
    BY <2>2, LenProperties
  <2> QED
    BY <2>1, <2>2, <2>3, <2>4
<1> HIDE DEF q
<1>2. CountsOnce(q)
  <2> SUFFICES ASSUME NEW i \in 1..(Len(p) - 1), NEW j \in 1..(Len(p) - 1),
                      q[i] \in Counting, q[j] \in Counting
               PROVE  i = j
    BY <1>1 DEF CountsOnce
  <2>1. /\ i + 1 \in DOMAIN p /\ j + 1 \in DOMAIN p
        /\ p[i + 1] = q[i] /\ p[j + 1] = q[j]
    BY <1>1
  <2>2. i + 1 = j + 1
    BY <2>1 DEF CountsOnce
  <2> QED
    BY <1>1, <2>2
<1>3. ASSUME NEW x PROVE Contains(p, x) <=> p[1] = x \/ Contains(q, x)
  <2>1. ASSUME NEW i \in 1..Len(p), p[i] = x PROVE p[1] = x \/ Contains(q, x)
    <3>1. CASE i = 1
      BY <2>1, <3>1
    <3>2. CASE i # 1
      <4>1. i - 1 \in 1..Len(q) /\ q[i - 1] = x
        BY <1>1, <2>1, <3>2
      <4> QED
        BY <4>1 DEF Contains
    <3> QED
      BY <3>1, <3>2
  <2>2. ASSUME NEW i \in 1..Len(q), q[i] = x PROVE Contains(p, x)
    <3>1. i + 1 \in 1..Len(p) /\ p[i + 1] = x
      BY <1>1, <2>2
    <3> QED
      BY <3>1 DEF Contains
  <2>3. p[1] = x => Contains(p, x)
    BY <1>1 DEF Contains
  <2> QED
    BY <2>1, <2>2, <2>3 DEF Contains
<1>4. ASSUME p[1] \in Counting, NEW x \in Counting PROVE ~Contains(q, x)
  BY <1>1, <1>4, SMTT(30) DEF Contains, CountsOnce
<1> QED
  BY <1>1, <1>2, <1>3, <1>4 DEF q

\* Plans are put together of a part that counts and one that does not.
LEMMA PlanConcat ==
  ASSUME NEW p \in Seq(StepSet), NEW q \in Seq(StepSet), CountsOnce(p), CountsOnce(q),
         (\A x \in Counting : ~Contains(p, x)) \/ (\A x \in Counting : ~Contains(q, x))
  PROVE  /\ p \o q \in Seq(StepSet) /\ CountsOnce(p \o q)
         /\ \A x : Contains(p \o q, x) <=> Contains(p, x) \/ Contains(q, x)
<1> DEFINE r == p \o q
           m == Len(p)
           n == Len(q)
<1>1. /\ m \in Nat /\ n \in Nat /\ DOMAIN p = 1..m /\ DOMAIN q = 1..n
      /\ r \in Seq(StepSet) /\ Len(r) = m + n /\ DOMAIN r = 1..(m + n)
      /\ \A i \in 1..(m + n) : r[i] = IF i <= m THEN p[i] ELSE q[i - m]
  BY ConcatProperties, LenProperties
<1> HIDE DEF r, m, n
<1>2. CountsOnce(r)
  <2> SUFFICES ASSUME NEW i \in 1..(m + n), NEW j \in 1..(m + n),
                      r[i] \in Counting, r[j] \in Counting
               PROVE  i = j
    BY <1>1 DEF CountsOnce
  <2>1. \A k \in 1..(m + n) : k <= m => Contains(p, r[k])
    BY <1>1 DEF Contains, m
  <2>2. \A k \in 1..(m + n) : ~(k <= m) => k - m \in 1..n /\ Contains(q, r[k])
    BY <1>1 DEF Contains, n
  <2>3. CASE i <= m /\ j <= m
    BY <1>1, <2>3 DEF CountsOnce
  <2>4. CASE ~(i <= m) /\ ~(j <= m)
    <3>1. i - m \in DOMAIN q /\ j - m \in DOMAIN q /\ q[i - m] = r[i] /\ q[j - m] = r[j]
      BY <1>1, <2>4
    <3>2. i - m = j - m
      BY <3>1 DEF CountsOnce
    <3> QED
      BY <1>1, <3>2
  <2> QED
    BY <2>1, <2>2, <2>3, <2>4
<1>3. ASSUME NEW x PROVE Contains(r, x) <=> Contains(p, x) \/ Contains(q, x)
  <2>1. ASSUME NEW i \in 1..m, p[i] = x PROVE Contains(r, x)
    <3>1. i \in 1..Len(r) /\ r[i] = x
      BY <1>1, <2>1
    <3> QED
      BY <3>1 DEF Contains
  <2>2. ASSUME NEW i \in 1..n, q[i] = x PROVE Contains(r, x)
    <3>1. i + m \in 1..Len(r) /\ r[i + m] = x
      BY <1>1, <2>2
    <3> QED
      BY <3>1 DEF Contains
  <2>3. ASSUME NEW i \in 1..(m + n), r[i] = x PROVE Contains(p, x) \/ Contains(q, x)
    <3>1. CASE i <= m
      BY <1>1, <2>3, <3>1 DEF Contains, m
    <3>2. CASE ~(i <= m)
      <4>1. i - m \in 1..n /\ q[i - m] = x
        BY <1>1, <2>3, <3>2
      <4> QED
        BY <4>1 DEF Contains, n
    <3> QED
      BY <3>1, <3>2
  <2> QED
    BY <1>1, <2>1, <2>2, <2>3 DEF Contains, m, n
<1> QED
  BY <1>1, <1>2, <1>3 DEF r

\* Plans of up to three steps.
LEMMA NoSteps ==
  <<>> \in Seq(StepSet) /\ CountsOnce(<<>>) /\ \A x : ~Contains(<<>>, x)
<1>1. <<>> \in Seq(StepSet) /\ Len(<<>>) = 0 /\ DOMAIN <<>> = {}
  OBVIOUS
<1> QED
  BY <1>1 DEF CountsOnce, Contains

\* One step.
LEMMA OneStep ==
  ASSUME NEW a \in StepSet
  PROVE  <<a>> \in Seq(StepSet) /\ CountsOnce(<<a>>) /\ \A x : Contains(<<a>>, x) <=> x = a
<1>1. ASSUME NEW x PROVE Contains(<<a>>, x) <=> x = a
  BY DEF Contains
<1>2. <<a>> \in Seq(StepSet) /\ CountsOnce(<<a>>)
  BY DEF CountsOnce
<1> QED
  BY <1>1, <1>2

\* Two steps, one of which may count.
LEMMA TwoSteps ==
  ASSUME NEW a \in StepSet, NEW b \in StepSet, b \notin Counting
  PROVE  /\ <<a, b>> \in Seq(StepSet) /\ CountsOnce(<<a, b>>)
         /\ \A x : Contains(<<a, b>>, x) <=> x \in {a, b}
<1>1. ASSUME NEW x PROVE Contains(<<a, b>>, x) <=> x \in {a, b}
  BY DEF Contains
<1>2. <<a, b>> \in Seq(StepSet) /\ CountsOnce(<<a, b>>)
  BY DEF CountsOnce
<1> QED
  BY <1>1, <1>2

\* Three steps, one of which may count.
LEMMA ThreeSteps ==
  ASSUME NEW a \in StepSet, NEW b \in StepSet, NEW c \in StepSet, c \notin Counting,
         a \notin Counting \/ b \notin Counting
  PROVE  /\ <<a, b, c>> \in Seq(StepSet) /\ CountsOnce(<<a, b, c>>)
         /\ \A x : Contains(<<a, b, c>>, x) <=> x \in {a, b, c}
<1>1. ASSUME NEW x PROVE Contains(<<a, b, c>>, x) <=> x \in {a, b, c}
  BY DEF Contains
<1>2. <<a, b, c>> \in Seq(StepSet) /\ CountsOnce(<<a, b, c>>)
  BY DEF CountsOnce
<1> QED
  BY <1>1, <1>2

-----------------------------------------------------------------------------
One(b) == IF b THEN 1 ELSE 0

\* A step that changes the state and the plan of one thread keeps the count when
\* it changes the counter by as much as the thread's own part.
LEMMA StepCounted ==
  ASSUME CountInv, ~exited, NEW t \in Thread, NEW s \in StateT, NEW p, Fits(s, p),
         ts' = [ts EXCEPT ![t] = s], todo' = [todo EXCEPT ![t] = p], run' = run,
         active' = active + One(Counted(s, p)) - One(Counted(ts[t], todo[t])),
         run.use_markers /\ ~roi_started' => ~roi_started /\ Asleep(s, p)
  PROVE  CountInv'
<1> DEFINE A == CountedThreads
<1>1. /\ run \in Setting /\ ts \in [Thread -> StateT] /\ todo \in [Thread -> Seq(StepSet)]
      /\ \A u \in Thread : Fits(ts[u], todo[u])
      /\ IsFiniteSet(A) /\ active = Cardinality(A) /\ active \in Nat
      /\ run.use_markers /\ ~roi_started => \A u \in Thread : Asleep(ts[u], todo[u])
  BY FS_CardinalityType DEF CountInv, TracerTypes
<1>2. p \in Seq(StepSet)
  BY DEF Fits, Plan
<1>3. /\ ts' \in [Thread -> StateT] /\ todo' \in [Thread -> Seq(StepSet)]
      /\ ts'[t] = s /\ todo'[t] = p
      /\ \A u \in Thread \ {t} : ts'[u] = ts[u] /\ todo'[u] = todo[u]
  BY <1>1, <1>2
<1>4. TracerTypes'
  BY <1>1, <1>3 DEF TracerTypes
<1>5. \A u \in Thread : Fits(ts'[u], todo'[u])
  BY <1>1, <1>3
<1>6. run'.use_markers /\ ~roi_started' => \A u \in Thread : Asleep(ts'[u], todo'[u])
  BY <1>1, <1>3
<1>7. IsFiniteSet(A') /\ active' = Cardinality(A')
  <2>1. A' = {u \in Thread : Counted(ts'[u], todo'[u])}
    BY DEF CountedThreads
  <2>2. \A u \in Thread \ {t} : u \in A' <=> u \in A
    BY <1>3, <2>1 DEF CountedThreads
  <2>3. (t \in A' <=> Counted(s, p)) /\ (t \in A <=> Counted(ts[t], todo[t]))
    BY <1>3, <2>1 DEF CountedThreads
  <2>4. A \subseteq Thread /\ A' \subseteq Thread
    BY <2>1 DEF CountedThreads
  <2> HIDE DEF A
  <2>5. CASE Counted(s, p) /\ ~Counted(ts[t], todo[t])
    <3>1. A' = A \cup {t} /\ t \notin A
      BY <2>2, <2>3, <2>4, <2>5
    <3>2. active' = active + 1
      BY <1>1, <2>5 DEF One
    <3>3. IsFiniteSet(A \cup {t}) /\ Cardinality(A \cup {t}) = Cardinality(A) + 1
      BY <1>1, <3>1, FS_AddElement
    <3> QED
      BY <1>1, <3>1, <3>2, <3>3
  <2>6. CASE ~Counted(s, p) /\ Counted(ts[t], todo[t])
    <3>1. A' = A \ {t} /\ t \in A
      BY <2>2, <2>3, <2>4, <2>6
    <3>2. active' = active - 1
      BY <1>1, <2>6 DEF One
    <3>3. IsFiniteSet(A \ {t}) /\ Cardinality(A \ {t}) = Cardinality(A) - 1
      BY <1>1, <3>1, FS_RemoveElement
    <3> QED
      BY <1>1, <3>1, <3>2, <3>3
  <2>7. CASE Counted(s, p) <=> Counted(ts[t], todo[t])
    <3>1. A' = A
      BY <2>2, <2>3, <2>4, <2>7
    <3>2. active' = active
      BY <1>1, <2>7 DEF One
    <3> QED
      BY <1>1, <3>1, <3>2
  <2> QED
    BY <2>5, <2>6, <2>7
<1> QED
  BY <1>4, <1>5, <1>6, <1>7 DEF CountInv

\* A callback begins with nothing left to do, and leaves the counting to its plan.
LEMMA CallbackCounted ==
  ASSUME CountInv, ~exited, NEW t \in Thread, todo[t] = <<>>,
         NEW s \in StateT, NEW files, NEW p, Callback(t, s, files, p), Fits(s, p),
         Counted(s, p) <=> ts[t].phase = "TRACING", UNCHANGED <<run, active>>,
         run.use_markers /\ ~roi_started' => ~roi_started /\ Asleep(s, p)
  PROVE  CountInv'
<1>1. Counted(ts[t], todo[t]) <=> ts[t].phase = "TRACING"
  BY NoSteps DEF Counted
<1>2. active \in Nat
  BY FS_CardinalityType DEF CountInv
<1>3. active' = active + One(Counted(s, p)) - One(Counted(ts[t], todo[t]))
  BY <1>1, <1>2 DEF One
<1> QED
  BY <1>3, StepCounted DEF Callback

\* Nothing that the count depends on changes.
LEMMA CountUnchanged ==
  ASSUME CountInv, UNCHANGED <<run, ts, todo, active, exited>>, roi_started => roi_started'
  PROVE  CountInv'
BY DEF CountInv, TracerTypes, CountedThreads

\* The plans of callbacks.
LEMMA Plans ==
  /\ Plan(<<>>) /\ Plan(EnterTracing) /\ Plan(<<"add_first", "mark">>)
  /\ Plan(<<"done">>) /\ Plan(<<"done", "sub", "flush">>) /\ Plan(<<"sub", "flush">>)
  /\ \A x \in Counting : ~Contains(<<>>, x) /\ ~Contains(<<"done">>, x)
  /\ Contains(EnterTracing, "add") /\ Contains(<<"add_first", "mark">>, "add_first")
  /\ ~Contains(EnterTracing, "sub") /\ ~Contains(<<"add_first", "mark">>, "sub")
  /\ \A q \in {<<"done", "sub", "flush">>, <<"sub", "flush">>} :
       Contains(q, "sub") /\ ~Contains(q, "add") /\ ~Contains(q, "add_first")
<1>1. Plan(<<>>) /\ \A x \in Counting : ~Contains(<<>>, x)
  BY NoSteps DEF Plan
<1>2. Plan(<<"done">>) /\ \A x \in Counting : ~Contains(<<"done">>, x)
  BY OneStep DEF Plan, StepSet, Counting
<1>3. /\ Plan(EnterTracing) /\ Contains(EnterTracing, "add")
      /\ ~Contains(EnterTracing, "sub")
  <2> DEFINE e == EnterTracing
  <2>1. e \in Seq(StepSet) /\ CountsOnce(e) /\ Head(e) = "add"
        /\ \A x : Contains(e, x) <=> x \in {"add", "mark", "flush"}
    BY ThreeSteps DEF StepSet, Counting, EnterTracing
  <2> QED
    BY <2>1 DEF Plan
<1>4. /\ Plan(<<"add_first", "mark">>) /\ Contains(<<"add_first", "mark">>, "add_first")
      /\ ~Contains(<<"add_first", "mark">>, "sub")
  <2> DEFINE e == <<"add_first", "mark">>
  <2>1. e \in Seq(StepSet) /\ CountsOnce(e)
        /\ \A x : Contains(e, x) <=> x \in {"add_first", "mark"}
    BY TwoSteps DEF StepSet, Counting
  <2> HIDE DEF e
  <2>2. Plan(e) /\ Contains(e, "add_first") /\ ~Contains(e, "sub")
    BY <2>1 DEF Plan
  <2> QED
    BY <2>2 DEF e
<1> DEFINE Leaves(q) ==
      Plan(q) /\ Contains(q, "sub") /\ ~Contains(q, "add") /\ ~Contains(q, "add_first")
<1>5. Leaves(<<"done", "sub", "flush">>)
  <2> DEFINE q == <<"done", "sub", "flush">>
  <2>1. q \in Seq(StepSet) /\ CountsOnce(q)
        /\ \A x : Contains(q, x) <=> x \in {"done", "sub", "flush"}
    BY ThreeSteps DEF StepSet, Counting
  <2> HIDE DEF q
  <2>2. Leaves(q)
    BY <2>1 DEF Plan
  <2> QED
    BY <2>2 DEF q
<1>6. Leaves(<<"sub", "flush">>)
  <2> DEFINE q == <<"sub", "flush">>
  <2>1. q \in Seq(StepSet) /\ CountsOnce(q)
        /\ \A x : Contains(q, x) <=> x \in {"sub", "flush"}
    BY TwoSteps DEF StepSet, Counting
  <2> HIDE DEF q
  <2>2. Leaves(q)
    BY <2>1 DEF Plan
  <2> QED
    BY <2>2 DEF q
<1> QED
  BY <1>1, <1>2, <1>3, <1>4, <1>5, <1>6, Zenon

\* The plan of a thread that stops.
LEMMA StopPlan ==
  ASSUME NEW last \in {<<>>, <<"flush">>}, NEW tracing \in BOOLEAN,
         NEW p, p = (IF tracing THEN <<"sub">> ELSE <<>>) \o <<"done">> \o last
  PROVE  /\ Plan(p) /\ ~Contains(p, "add") /\ ~Contains(p, "add_first")
         /\ Contains(p, "sub") <=> tracing
<1> DEFINE a == IF tracing THEN <<"sub">> ELSE <<>>
           b == a \o <<"done">>
<1>1. /\ a \in Seq(StepSet) /\ CountsOnce(a) /\ \A x : Contains(a, x) <=> tracing /\ x = "sub"
  <2>1. CASE tracing
    BY <2>1, OneStep DEF StepSet
  <2>2. CASE ~tracing
    BY <2>2, NoSteps
  <2> QED
    BY <2>1, <2>2
<1>2. /\ <<"done">> \in Seq(StepSet) /\ CountsOnce(<<"done">>)
      /\ \A x : Contains(<<"done">>, x) <=> x = "done"
  BY OneStep DEF StepSet
<1>3. /\ last \in Seq(StepSet) /\ CountsOnce(last)
      /\ \A x : Contains(last, x) => x = "flush"
  BY NoSteps, OneStep DEF StepSet
<1> HIDE DEF a
<1>4. /\ b \in Seq(StepSet) /\ CountsOnce(b)
      /\ \A x : Contains(b, x) <=> (tracing /\ x = "sub") \/ x = "done"
  BY <1>1, <1>2, PlanConcat DEF Counting
<1> HIDE DEF b
<1>5. /\ b \o last \in Seq(StepSet) /\ CountsOnce(b \o last)
      /\ \A x : Contains(b \o last, x) <=> Contains(b, x) \/ Contains(last, x)
  BY <1>3, <1>4, PlanConcat DEF Counting
<1>6. p = b \o last
  BY DEF a, b
<1>7. p \in Seq(StepSet) /\ CountsOnce(p)
  BY <1>5, <1>6
<1>8. \A x \in Counting : Contains(p, x) <=> tracing /\ x = "sub"
  BY <1>3, <1>4, <1>5, <1>6 DEF Counting
<1> QED
  BY <1>7, <1>8 DEF Plan, Counting

\* The knobs and the program.
LEMMA RunTyped ==
  ASSUME CountInv
  PROVE  /\ run \in SettingType /\ run.t \in Nat \ {0} /\ run.s \in Nat /\ run.i \in Nat
         /\ run.n \in Nat
         /\ run.opens \subseteq {0, NoFile} /\ run.opens \subseteq Int
BY TracerAssumption DEF CountInv, TracerTypes, SettingType, NoFile

\* Entering TRACING changes the phase, the counter and the file.
LEMMA TracedTyped ==
  ASSUME CountInv, NEW s \in StateT, NEW f \in run.opens
  PROVE  /\ Traced(s, f) \in StateT /\ Traced(s, f).phase = "TRACING"
         /\ Traced(s, f).counter = run.t /\ Traced(s, f).file = f
         /\ Traced(s, f).samples = s.samples
<1>1. f \in Int /\ run.t \in Int
  BY RunTyped
<1>2. "TRACING" \in Phase \cup {"UNBORN", "NONE"}
  BY DEF Phase
<1>3. Traced(s, f) \in StateT
  BY <1>1, <1>2 DEF Traced, StateT
<1>4. /\ Traced(s, f).phase = "TRACING" /\ Traced(s, f).samples = s.samples
      /\ Traced(s, f).counter = run.t /\ Traced(s, f).file = f
  BY DEF Traced, StateT
<1> QED
  BY <1>3, <1>4

-----------------------------------------------------------------------------
(***************************************************************************)
(* The callbacks.                                                          *)
(***************************************************************************)

\* A thread that begins to trace is counted by its plan.
LEMMA EnterCounted ==
  ASSUME CountInv, ~exited, NEW t \in Thread, todo[t] = <<>>, ts[t].phase # "TRACING",
         NEW s \in StateT, NEW f \in run.opens, NEW files,
         NEW p \in {EnterTracing, <<"add_first", "mark">>},
         Callback(t, Traced(s, f), files, p), UNCHANGED <<run, active>>,
         run.use_markers => roi_started'
  PROVE  CountInv'
<1>1. Traced(s, f) \in StateT /\ Traced(s, f).phase = "TRACING"
  BY TracedTyped
<1>2. /\ Plan(p) /\ ~Contains(p, "sub")
      /\ Contains(p, "add") \/ Contains(p, "add_first")
  BY Plans
<1>3. Fits(Traced(s, f), p) /\ ~Counted(Traced(s, f), p)
  BY <1>1, <1>2 DEF Fits, Counted
<1> QED
  BY <1>1, <1>3, CallbackCounted

\* A thread that stops is taken off the count if it was on it.
LEMMA StopCounted ==
  ASSUME CountInv, ~exited, NEW t \in Thread, todo[t] = <<>>,
         NEW last \in {<<>>, <<"flush">>}, StopTracing(t, last),
         UNCHANGED <<run, active>>, roi_started' = roi_started
  PROVE  CountInv'
<1> DEFINE s == [ts[t] EXCEPT !.phase = "DONE", !.file = NoFile]
           tracing == ts[t].phase = "TRACING"
           p == (IF tracing THEN <<"sub">> ELSE <<>>) \o <<"done">> \o last
<1>1. Callback(t, s, Closed(t, ts[t]), p)
  BY DEF StopTracing
<1>2. s \in StateT /\ s.phase = "DONE"
  <2>1. ts[t] \in StateT /\ "DONE" \in Phase \cup {"UNBORN", "NONE"} /\ NoFile \in Int
    BY DEF CountInv, TracerTypes, Phase, NoFile
  <2> QED
    BY <2>1 DEF StateT
<1>3. /\ Plan(p) /\ ~Contains(p, "add") /\ ~Contains(p, "add_first")
      /\ Contains(p, "sub") <=> tracing
  BY StopPlan
<1> HIDE DEF p
<1>4. Fits(s, p) /\ (Counted(s, p) <=> tracing)
  BY <1>2, <1>3 DEF Fits, Counted
<1>5. run.use_markers /\ ~roi_started => Asleep(s, p)
  BY <1>2, <1>3 DEF CountInv, Asleep
<1> QED
  BY <1>1, <1>2, <1>4, <1>5, CallbackCounted

\* A callback that only changes a thread's own numbers.
LEMMA PlainCounted ==
  ASSUME CountInv, ~exited, NEW t \in Thread, todo[t] = <<>>,
         NEW s \in StateT, NEW files, Callback(t, s, files, <<>>),
         s.phase = "TRACING" <=> ts[t].phase = "TRACING",
         run.use_markers /\ ~roi_started => Asleep(s, <<>>),
         UNCHANGED <<run, active, roi_started>>
  PROVE  CountInv'
<1>1. Fits(s, <<>>) /\ (Counted(s, <<>>) <=> s.phase = "TRACING")
  BY Plans DEF Fits, Counted, Counting
<1> QED
  BY <1>1, CallbackCounted

\* CheckROITransition.
LEMMA CheckCounted ==
  ASSUME CountInv, ~exited, NEW t \in Thread, todo[t] = <<>>,
         CheckROITransition(t), UNCHANGED <<run, active, roi>>
  PROVE  CountInv'
<1>1. roi_started' = roi_started /\ ts[t] \in StateT
  BY DEF roi, CountInv, TracerTypes
<1>2. CASE StopTracing(t, <<>>)
  BY <1>1, <1>2, StopCounted
<1>3. ASSUME Wakes(t), NEW f \in run.opens,
             Callback(t, Traced(ts[t], f), disk[t], <<"add_first", "mark">>)
      PROVE  CountInv'
  <2>1. roi_started /\ ts[t].phase # "TRACING"
    BY <1>3 DEF Wakes
  <2> QED
    BY <1>1, <1>3, <2>1, EnterCounted
<1> QED
  BY <1>2, <1>3 DEF CheckROITransition

\* FastForwardInitial and FastForwardInter.
LEMMA FastForwardCounted ==
  ASSUME CountInv, ~exited, NEW t \in Thread, todo[t] = <<>>, NEW n \in Nat,
         NEW p \in {"INITIAL_SKIP", "INTER_SKIP"}, FastForward(t, p, n),
         UNCHANGED <<run, active, roi>>
  PROVE  CountInv'
<1>1. /\ ts[t] \in StateT /\ ts[t].phase = p /\ p # "TRACING"
      /\ roi_started' = roi_started
  BY DEF roi, CountInv, TracerTypes, FastForward
<1>2. run.use_markers => roi_started
  BY <1>1 DEF CountInv, Asleep
<1>3. CASE ts[t].counter > n
  <2> DEFINE s == [ts[t] EXCEPT !.counter = @ - n]
  <2>1. s \in StateT /\ s.phase = ts[t].phase
    BY <1>1 DEF StateT
  <2>2. Callback(t, s, disk[t], <<>>)
    BY <1>3 DEF FastForward
  <2> QED
    BY <1>1, <1>2, <2>1, <2>2, PlainCounted
<1>4. CASE ~(ts[t].counter > n)
  <2>1. PICK f \in run.opens : Callback(t, Traced(ts[t], f), disk[t], EnterTracing)
    BY <1>4 DEF FastForward
  <2> QED
    BY <1>1, <1>2, <2>1, EnterCounted
<1> QED
  BY <1>3, <1>4

\* EnterTrace.
LEMMA EnterTraceCounted ==
  ASSUME CountInv, NEW t \in Thread, NEW c \in Code, EnterTrace(t, c)
  PROVE  CountInv'
<1> DEFINE m == IF cache[c] = "none" THEN InstrumentTrace ELSE cache[c]
<1>1. /\ ~exited /\ todo[t] = <<>> /\ AtEntry(t, m, NumIns[c])
      /\ UNCHANGED <<run, active, roi>> /\ exited' = exited
      /\ NumIns[c] \in Nat
  BY TracerAssumption DEF EnterTrace, Running
<1>2. CASE CheckROITransition(t)
  BY <1>1, <1>2, CheckCounted
<1>3. CASE FastForwardInitial(t, NumIns[c]) \/ FastForwardInter(t, NumIns[c])
  BY <1>1, <1>3, FastForwardCounted DEF FastForwardInitial, FastForwardInter
<1>4. CASE UNCHANGED <<ts, disk, todo>>
  BY <1>1, <1>4, CountUnchanged DEF roi
<1> QED
  BY <1>1, <1>2, <1>3, <1>4 DEF AtEntry

\* finish_sample, of a thread that traces.
LEMMA FinishCounted ==
  ASSUME CountInv, ~exited, NEW t \in Thread, todo[t] = <<>>, ts[t].phase = "TRACING",
         NEW s \in StateT, s.phase = "TRACING", finish_sample(t, s), UNCHANGED <<run, active, roi>>
  PROVE  CountInv'
<1> DEFINE c == [s EXCEPT !.samples = @ + 1, !.counter = 0, !.file = NoFile]
<1>1. c \in StateT /\ c.phase = "TRACING" /\ roi_started' = roi_started
  <2> DEFINE n == s.samples + 1
  <2>1. NoFile \in Int /\ n \in Nat /\ 0 \in Int /\ roi_started' = roi_started
    BY DEF NoFile, StateT, roi
  <2> HIDE DEF n
  <2>4. [s EXCEPT !.samples = n, !.counter = 0, !.file = NoFile] \in StateT
    BY <2>1 DEF StateT
  <2>2. c \in StateT
    BY <2>4 DEF n
  <2>3. c.phase = "TRACING"
    BY DEF StateT
  <2> QED
    BY <2>1, <2>2, <2>3
<1>2. run.use_markers => roi_started
  BY DEF CountInv, Asleep
<1>3. /\ "DONE" \in Phase \cup {"UNBORN", "NONE"} /\ "INTER_SKIP" \in Phase \cup {"UNBORN", "NONE"}
      /\ run.s \in Int
  BY RunTyped DEF Phase
<1>4. finish_sample(t, s) <=>
        IF run.n > 0 /\ c.samples >= run.n
        THEN Callback(t, [c EXCEPT !.phase = "DONE"], Closed(t, s), <<"done", "sub", "flush">>)
        ELSE IF run.s > 0
        THEN Callback(t, [c EXCEPT !.phase = "INTER_SKIP", !.counter = run.s], Closed(t, s),
                      <<"sub", "flush">>)
        ELSE \E f \in run.opens : Callback(t, Traced(c, f), Closed(t, s), <<>>)
  BY DEF finish_sample
<1> HIDE DEF c
<1>5. ASSUME NEW d \in StateT, d.phase # "TRACING", d.phase # "UNBORN",
             NEW p \in {<<"done", "sub", "flush">>, <<"sub", "flush">>},
             Callback(t, d, Closed(t, s), p)
      PROVE  CountInv'
  <2>1. Plan(p) /\ Contains(p, "sub") /\ ~Contains(p, "add") /\ ~Contains(p, "add_first")
    BY Plans, Zenon
  <2>2. Fits(d, p) /\ Counted(d, p)
    BY <1>5, <2>1 DEF Fits, Counted
  <2> QED
    BY <1>1, <1>2, <1>5, <2>2, CallbackCounted
<1>6. ASSUME Callback(t, [c EXCEPT !.phase = "DONE"], Closed(t, s), <<"done", "sub", "flush">>)
      PROVE  CountInv'
  <2> DEFINE d == [c EXCEPT !.phase = "DONE"]
  <2>1. d \in StateT /\ d.phase = "DONE"
    BY <1>1, <1>3 DEF StateT
  <2> HIDE DEF d
  <2>2. Callback(t, d, Closed(t, s), <<"done", "sub", "flush">>)
    BY <1>6 DEF d
  <2> QED
    BY <1>5, <2>1, <2>2
<1>7. ASSUME Callback(t, [c EXCEPT !.phase = "INTER_SKIP", !.counter = run.s], Closed(t, s),
                      <<"sub", "flush">>)
      PROVE  CountInv'
  <2> DEFINE d == [c EXCEPT !.phase = "INTER_SKIP", !.counter = run.s]
  <2>1. d \in StateT /\ d.phase = "INTER_SKIP"
    BY <1>1, <1>3 DEF StateT
  <2> HIDE DEF d
  <2>2. Callback(t, d, Closed(t, s), <<"sub", "flush">>)
    BY <1>7 DEF d
  <2> QED
    BY <1>5, <2>1, <2>2
<1>8. ASSUME NEW f \in run.opens, Callback(t, Traced(c, f), Closed(t, s), <<>>)
      PROVE  CountInv'
  <2>1. Traced(c, f) \in StateT /\ Traced(c, f).phase = "TRACING"
    BY <1>1, TracedTyped
  <2> QED
    BY <1>1, <1>2, <1>8, <2>1, PlainCounted
<1> QED
  BY <1>4, <1>6, <1>7, <1>8

\* An instruction of fully instrumented code.
LEMMA InstructionCounted ==
  ASSUME CountInv, NEW t \in Thread, Instruction(t)
  PROVE  CountInv'
<1> DEFINE s == [ts[t] EXCEPT !.counter = @ - 1,
                              !.file = IF @ = NoFile THEN NoFile ELSE @ + 1]
<1>1. /\ ~exited /\ todo[t] = <<>> /\ UNCHANGED <<run, active, roi>> /\ exited' = exited
      /\ roi_started' = roi_started /\ RecordInstrCommit(t) /\ ts[t] \in StateT
  BY DEF Instruction, Running, roi, CountInv, TracerTypes
<1>2. CASE ts[t].phase # "TRACING"
  BY <1>1, <1>2, CountUnchanged DEF RecordInstrCommit
<1>3. CASE ts[t].phase = "TRACING"
  <2>1. s \in StateT /\ s.phase = "TRACING"
    <3> DEFINE n == ts[t].counter - 1
               g == IF ts[t].file = NoFile THEN NoFile ELSE ts[t].file + 1
    <3>1. n \in Int /\ g \in Int
      BY <1>1 DEF NoFile, StateT
    <3> HIDE DEF n, g
    <3>2. [ts[t] EXCEPT !.counter = n, !.file = g] \in StateT
      BY <1>1, <3>1 DEF StateT
    <3>3. s \in StateT
      BY <3>2 DEF n, g
    <3>4. s.phase = "TRACING"
      BY <1>1, <1>3 DEF StateT
    <3> QED
      BY <3>3, <3>4
  <2>2. \/ finish_sample(t, s)
        \/ Callback(t, s, disk[t], <<>>)
    BY <1>1, <1>3 DEF RecordInstrCommit
  <2>3. run.use_markers => roi_started
    BY <1>1, <1>3 DEF CountInv, Asleep
  <2> HIDE DEF s
  <2>4. CASE finish_sample(t, s)
    BY <1>1, <1>3, <2>1, <2>4, FinishCounted
  <2>5. CASE Callback(t, s, disk[t], <<>>)
    BY <1>1, <1>3, <2>1, <2>3, <2>5, PlainCounted
  <2> QED
    BY <2>2, <2>4, <2>5
<1> QED
  BY <1>2, <1>3

\* The markers.
LEMMA MarkersCounted ==
  ASSUME CountInv, NEW t \in Thread, RoiBegin(t) \/ RegisterWorker(t) \/ RoiEnd(t)
  PROVE  CountInv'
<1>1. /\ ~exited /\ todo[t] = <<>> /\ UNCHANGED <<run, active, exited>> /\ ts[t] \in StateT
  BY DEF RoiBegin, RegisterWorker, RoiEnd, MarkerRuns, Running, CountInv, TracerTypes
<1>2. CASE RegisterWorker(t)
  BY <1>1, <1>2, CountUnchanged DEF RegisterWorker, roi
<1>3. CASE RoiEnd(t)
  <2>1. roi_started' = roi_started
    BY <1>3 DEF RoiEnd
  <2>2. CASE UNCHANGED <<ts, disk, todo>>
    BY <1>1, <2>1, <2>2, CountUnchanged
  <2>3. CASE StopTracing(t, <<"flush">>)
    BY <1>1, <2>1, <2>3, StopCounted
  <2> QED
    BY <1>3, <2>2, <2>3 DEF RoiEnd
<1>4. CASE RoiBegin(t)
  <2>1. ~roi_started /\ roi_started' /\ run.use_markers
    BY <1>4 DEF RoiBegin, MarkerRuns
  <2>2. ts[t].phase \notin {"TRACING", "INITIAL_SKIP", "INTER_SKIP"}
    BY <1>1, <2>1 DEF CountInv, Asleep
  <2>3. CASE UNCHANGED <<ts, disk, todo>>
    BY <1>1, <2>1, <2>3, CountUnchanged
  <2>4. CASE Callback(t, [ts[t] EXCEPT !.phase = "DONE"], disk[t], <<"done">>)
    <3> DEFINE s == [ts[t] EXCEPT !.phase = "DONE"]
    <3>1. "DONE" \in Phase \cup {"UNBORN", "NONE"}
      BY DEF Phase
    <3>2. s \in StateT /\ s.phase = "DONE"
      BY <1>1, <3>1 DEF StateT
    <3>3. Fits(s, <<"done">>) /\ ~Counted(s, <<"done">>)
      BY <3>2, Plans DEF Fits, Counted, Counting
    <3> QED
      BY <1>1, <2>1, <2>2, <2>4, <3>2, <3>3, CallbackCounted
  <2>5. ASSUME NEW f \in run.opens, Callback(t, Traced(ts[t], f), disk[t], EnterTracing)
        PROVE  CountInv'
    BY <1>1, <2>1, <2>2, <2>5, EnterCounted
  <2> QED
    BY <1>4, <2>3, <2>4, <2>5 DEF RoiBegin
<1> QED
  BY <1>2, <1>3, <1>4

\* A step of a plan that does not count.
LEMMA OtherStepCounted ==
  ASSUME CountInv, ~exited, NEW t \in Thread, todo[t] # <<>>, Head(todo[t]) \notin Counting,
         NEW p, todo' = [todo EXCEPT ![t] = p], p \in Seq(StepSet), CountsOnce(p),
         \A x \in Counting : Contains(p, x) <=> Contains(todo[t], x),
         UNCHANGED <<run, ts, active, roi>>
  PROVE  CountInv'
<1>1. ts[t] \in StateT /\ Fits(ts[t], todo[t]) /\ roi_started' = roi_started
      /\ active \in Nat
  BY FS_CardinalityType DEF CountInv, TracerTypes, roi
<1>2. Fits(ts[t], p) /\ (Counted(ts[t], p) <=> Counted(ts[t], todo[t]))
  <2>1. ~Contains(todo[t], "add")
    BY <1>1 DEF Fits, Plan, Counting
  <2> QED
    BY <1>1, <2>1 DEF Fits, Plan, Counted, Counting
<1>3. ts' = [ts EXCEPT ![t] = ts[t]]
  BY DEF CountInv, TracerTypes
<1>4. active' = active + One(Counted(ts[t], p)) - One(Counted(ts[t], todo[t]))
  BY <1>1, <1>2 DEF One
<1>5. run.use_markers /\ ~roi_started => Asleep(ts[t], p)
  BY DEF CountInv, Asleep, Counting
<1> QED
  BY <1>1, <1>2, <1>3, <1>4, <1>5, StepCounted

\* The steps of a plan.
LEMMA SharedCounted ==
  ASSUME CountInv, NEW t \in Thread, SharedStep(t)
  PROVE  CountInv'
<1> DEFINE q == todo[t]
           p == Tail(q)
<1>1. /\ ~exited /\ q # <<>> /\ UNCHANGED <<run, ts, roi>> /\ roi_started' = roi_started
  BY DEF SharedStep, Now, AddActive, AddFirst, SubActive, MarkStarted, MarkReachedDone,
         LoadStarted, MaybeExitOnDone, Flush, roi
<1>2. /\ ts[t] \in StateT /\ Fits(ts[t], q) /\ active \in Nat /\ ts' = [ts EXCEPT ![t] = ts[t]]
      /\ run.use_markers /\ ~roi_started => Asleep(ts[t], q)
  BY <1>1, FS_CardinalityType DEF CountInv, TracerTypes
<1>3. /\ q \in Seq(StepSet) /\ CountsOnce(q) /\ Plan(q)
  BY <1>2 DEF Fits, Plan
<1>4. /\ p \in Seq(StepSet) /\ CountsOnce(p)
      /\ \A x : Contains(q, x) <=> Head(q) = x \/ Contains(p, x)
      /\ Head(q) \in Counting => \A x \in Counting : ~Contains(p, x)
  BY <1>1, <1>3, PlanTail
<1> HIDE DEF p
<1>5. ASSUME NEW r, r \in Seq(StepSet), CountsOnce(r), todo' = [todo EXCEPT ![t] = r],
             \A x \in Counting : ~Contains(r, x), Head(q) \in {"add", "add_first"},
             active' = active + 1
      PROVE  CountInv'
  <2>1. Contains(q, Head(q))
    BY <1>4
  <2>2. ts[t].phase = "TRACING" /\ ~Counted(ts[t], q)
    BY <1>2, <1>5, <2>1 DEF Fits, Counted
  <2>3. Fits(ts[t], r) /\ Counted(ts[t], r)
    BY <1>5, <2>2 DEF Fits, Plan, Counted, Counting
  <2>4. active' = active + One(Counted(ts[t], r)) - One(Counted(ts[t], q))
    BY <1>2, <1>5, <2>2, <2>3 DEF One
  <2>5. run.use_markers => roi_started
    BY <1>2, <2>2 DEF Asleep
  <2> QED
    BY <1>1, <1>2, <1>5, <2>3, <2>4, <2>5, StepCounted
<1>6. CASE AddActive(t)
  BY <1>4, <1>5, <1>6 DEF AddActive, Now, Then, Counting, p
<1>7. CASE AddFirst(t)
  <2> DEFINE e == IF active = 0 THEN <<"flush">> ELSE <<>>
  <2>1. e \in Seq(StepSet) /\ CountsOnce(e) /\ \A x \in Counting : ~Contains(e, x)
    <3>1. CASE active = 0
      BY <3>1, OneStep DEF StepSet, Counting
    <3>2. CASE active # 0
      BY <3>2, NoSteps
    <3> QED
      BY <3>1, <3>2
  <2>2. todo' = [todo EXCEPT ![t] = p \o e] /\ Head(q) = "add_first" /\ active' = active + 1
    BY <1>7 DEF AddFirst, Now, Then, p
  <2> HIDE DEF e
  <2>3. \A x \in Counting : ~Contains(p, x)
    BY <1>4, <2>2 DEF Counting
  <2>4. /\ p \o e \in Seq(StepSet) /\ CountsOnce(p \o e)
        /\ \A x \in Counting : ~Contains(p \o e, x)
    BY <1>4, <2>1, <2>3, PlanConcat
  <2> QED
    BY <1>5, <2>2, <2>4
<1>8. CASE SubActive(t)
  <2>1. todo' = [todo EXCEPT ![t] = p] /\ Head(q) = "sub" /\ active' = active - 1
    BY <1>8 DEF SubActive, Now, Then, p
  <2>2. Contains(q, "sub") /\ \A x \in Counting : ~Contains(p, x)
    BY <1>4, <2>1 DEF Counting
  <2>3. ts[t].phase # "TRACING" /\ Counted(ts[t], q)
    BY <1>2, <2>2 DEF Fits, Counted
  <2>4. ts[t].phase # "UNBORN"
    BY <1>1, <1>2 DEF Fits
  <2>5. Fits(ts[t], p) /\ ~Counted(ts[t], p)
    BY <1>4, <2>2, <2>3, <2>4 DEF Fits, Plan, Counted, Counting
  <2>6. active' = active + One(Counted(ts[t], p)) - One(Counted(ts[t], q))
    BY <1>2, <2>1, <2>3, <2>5 DEF One
  <2>7. run.use_markers => roi_started
    BY <1>2, <2>2 DEF Asleep
  <2> QED
    BY <1>1, <1>2, <2>1, <2>5, <2>6, <2>7, StepCounted
<1>9. CASE MarkStarted(t) \/ MaybeExitOnDone(t) \/ Flush(t)
  <2>1. /\ todo' = [todo EXCEPT ![t] = p] /\ Head(q) \notin Counting /\ active' = active
    BY <1>9 DEF MarkStarted, MaybeExitOnDone, Flush, Now, Then, p, Counting
  <2>2. \A x \in Counting : Contains(p, x) <=> Contains(q, x)
    BY <1>4, <2>1
  <2> QED
    BY <1>1, <1>4, <2>1, <2>2, OtherStepCounted
<1>10. CASE MarkReachedDone(t)
  <2> DEFINE e == IF reached[t] THEN <<>> ELSE <<"exit">>
  <2>1. /\ todo' = [todo EXCEPT ![t] = e \o p] /\ Head(q) \notin Counting /\ active' = active
    BY <1>10 DEF MarkReachedDone, Now, Then, p, Counting
  <2>2. e \in Seq(StepSet) /\ CountsOnce(e) /\ \A x \in Counting : ~Contains(e, x)
    <3>1. CASE ~reached[t]
      BY <3>1, OneStep DEF StepSet, Counting
    <3>2. CASE reached[t]
      BY <3>2, NoSteps
    <3> QED
      BY <3>1, <3>2
  <2> HIDE DEF e
  <2>3. /\ e \o p \in Seq(StepSet) /\ CountsOnce(e \o p)
        /\ \A x : Contains(e \o p, x) <=> Contains(e, x) \/ Contains(p, x)
    BY <1>4, <2>2, PlanConcat
  <2>4. \A x \in Counting : Contains(e \o p, x) <=> Contains(q, x)
    BY <1>4, <2>1, <2>2, <2>3
  <2> QED
    BY <1>1, <2>1, <2>3, <2>4, OtherStepCounted
<1>11. CASE LoadStarted(t)
  BY <1>11, CountUnchanged DEF LoadStarted, roi
<1> QED
  BY <1>6, <1>7, <1>8, <1>9, <1>10, <1>11 DEF SharedStep

\* ThreadStart.
LEMMA StartCounted ==
  ASSUME CountInv, NEW t \in Thread, ThreadStart(t)
  PROVE  CountInv'
<1>1. /\ ~exited /\ ts[t] = Unborn /\ UNCHANGED <<run, active, roi>>
      /\ roi_started' = roi_started
  BY DEF ThreadStart, roi
<1>2. ts[t].phase = "UNBORN" /\ todo[t] = <<>>
  BY <1>1 DEF CountInv, Fits, Unborn
<1>3. /\ NoState \in StateT /\ NoState.phase = "NONE"
  BY DEF NoState, NoFile, StateT
<1>4. /\ StartingState \in StateT
      /\ StartingState.phase \in {"TRACING", "WAITING_FOR_ROI", "INITIAL_SKIP"}
      /\ run.use_markers /\ ~roi_started => StartingState.phase = "WAITING_FOR_ROI"
  <2>1. run.i \in Int
    BY RunTyped
  <2>2. {"TRACING", "WAITING_FOR_ROI", "INITIAL_SKIP"} \subseteq Phase
    BY DEF Phase
  <2>3. ASSUME NEW p \in {"TRACING", "WAITING_FOR_ROI", "INITIAL_SKIP"}, NEW n \in Int
        PROVE  /\ [NoState EXCEPT !.phase = p] \in StateT
               /\ [NoState EXCEPT !.phase = p].phase = p
               /\ [NoState EXCEPT !.phase = p, !.counter = n] \in StateT
               /\ [NoState EXCEPT !.phase = p, !.counter = n].phase = p
    BY <1>3, <2>2, <2>3 DEF StateT
  <2> QED
    BY <2>1, <2>3 DEF StartingState
<1>5. ASSUME NEW s \in StateT, s.phase # "TRACING", Callback(t, s, disk[t], <<>>),
             run.use_markers /\ ~roi_started => s.phase \in {"NONE", "WAITING_FOR_ROI"}
      PROVE  CountInv'
  <2>1. run.use_markers /\ ~roi_started => Asleep(s, <<>>)
    BY <1>5, NoSteps DEF Asleep
  <2> QED
    BY <1>1, <1>2, <1>5, <2>1, PlainCounted
<1>6. CASE Callback(t, NoState, disk[t], <<>>)
  BY <1>3, <1>5, <1>6
<1>7. ASSUME StartingState.phase = "TRACING", NEW f \in run.opens,
             Callback(t, Traced(StartingState, f), disk[t], EnterTracing)
      PROVE  CountInv'
  BY <1>1, <1>2, <1>4, <1>7, EnterCounted
<1>8. CASE StartingState.phase # "TRACING" /\ Callback(t, StartingState, disk[t], <<>>)
  BY <1>4, <1>5, <1>8
<1> QED
  BY <1>6, <1>7, <1>8 DEF ThreadStart

\* ThreadFini.
LEMMA EndCounted ==
  ASSUME CountInv, NEW t \in Thread, ThreadFini(t)
  PROVE  CountInv'
<1>1. /\ ~exited /\ todo[t] = <<>> /\ run' = run /\ roi_started' = roi_started
      /\ ts' = [ts EXCEPT ![t] = NoState] /\ todo' = [todo EXCEPT ![t] = <<>>]
      /\ active' = IF ts[t].phase = "TRACING" THEN active - 1 ELSE active
  BY DEF ThreadFini, Running, Callback, roi
<1>2. NoState \in StateT /\ NoState.phase = "NONE" /\ active \in Nat
  BY <1>1, FS_CardinalityType DEF NoState, NoFile, StateT, CountInv
<1>3. Fits(NoState, <<>>) /\ ~Counted(NoState, <<>>) /\ Asleep(NoState, <<>>)
  BY <1>2, NoSteps, Plans DEF Fits, Counted, Asleep
<1>4. Counted(ts[t], todo[t]) <=> ts[t].phase = "TRACING"
  BY <1>1, NoSteps DEF Counted
<1>5. active' = active + One(Counted(NoState, <<>>)) - One(Counted(ts[t], todo[t]))
  BY <1>1, <1>2, <1>3, <1>4 DEF One
<1> QED
  BY <1>1, <1>2, <1>3, <1>5, StepCounted

\* Every step of every thread keeps the count.
LEMMA CountKept ==
  ASSUME CountInv, [TracerNext]_tracerVars
  PROVE  CountInv'
<1>1. ASSUME NEW t \in Thread, NEW c \in Code, EnterTrace(t, c) PROVE CountInv'
  BY <1>1, EnterTraceCounted
<1>2. ASSUME NEW t \in Thread, Instruction(t) PROVE CountInv'
  BY <1>2, InstructionCounted
<1>3. ASSUME NEW t \in Thread, TraceEnd(t) PROVE CountInv'
  BY <1>3, CountUnchanged DEF TraceEnd, roi
<1>4. ASSUME NEW t \in Thread, SharedStep(t) PROVE CountInv'
  BY <1>4, SharedCounted
<1>5. ASSUME NEW t \in Thread, ThreadStart(t) PROVE CountInv'
  BY <1>5, StartCounted
<1>6. ASSUME NEW t \in Thread, ThreadFini(t) PROVE CountInv'
  BY <1>6, EndCounted
<1>7. ASSUME NEW t \in Thread, RoiBegin(t) \/ RegisterWorker(t) \/ RoiEnd(t) PROVE CountInv'
  BY <1>7, MarkersCounted
<1>8. CASE Fini
  <2>1. /\ exited' = exited /\ exited /\ run' = run /\ todo' = todo
        /\ ts' = [t \in Thread |-> NoState]
    BY <1>8 DEF Fini
  <2>2. NoState \in StateT
    BY DEF NoState, NoFile, StateT
  <2> QED
    BY <2>1, <2>2 DEF CountInv, TracerTypes
<1>9. CASE UNCHANGED tracerVars
  BY <1>9, CountUnchanged DEF tracerVars, roi
<1> QED
  BY <1>1, <1>2, <1>3, <1>4, <1>5, <1>6, <1>7, <1>8, <1>9 DEF TracerNext, ThreadRuns

\* Nothing is counted at the start.
LEMMA CountStarts ==
  ASSUME TracerInit
  PROVE  CountInv
<1>1. Unborn \in StateT /\ Unborn.phase = "UNBORN"
  BY DEF Unborn, NoFile, StateT
<1>2. /\ run \in Setting /\ ts = [t \in Thread |-> Unborn] /\ todo = [t \in Thread |-> <<>>]
      /\ active = 0
  BY DEF TracerInit
<1>3. TracerTypes
  BY <1>1, <1>2, NoSteps DEF TracerTypes
<1>4. \A t \in Thread : /\ Fits(ts[t], todo[t]) /\ ~Counted(ts[t], todo[t])
                       /\ Asleep(ts[t], todo[t])
  BY <1>1, <1>2, Plans, NoSteps DEF Fits, Counted, Asleep
<1>5. CountedThreads = {}
  BY <1>4 DEF CountedThreads
<1> QED
  BY <1>2, <1>3, <1>4, <1>5, FS_EmptySet DEF CountInv

\* active_tracing_threads counts the threads in TRACING, for any number of threads
\* and between any two of their steps (champsim_tracer_mt_roi_v3.cpp:552).
THEOREM CounterExact == TracerSpec => []ActiveExact
<1>1. CountInv => ActiveExact
  BY DEF CountInv, CountedThreads, Counted, ActiveExact
<1> QED
  BY <1>1, CountStarts, CountKept, PTL DEF TracerSpec

-----------------------------------------------------------------------------
(***************************************************************************)
(* What compiled code records.                                             *)
(***************************************************************************)

CacheTyped == cache \in [Code -> {"none", "bare", "markers", "full", "fast"}]

SeesInv == CacheTyped /\ TracingSeesAll

\* The code stays, and no flush is forgotten.
LEMMA QuietSees ==
  ASSUME SeesInv, cache' = cache, roi_ended => roi_ended', active' > 0 => active > 0,
         \A u \in Thread : Contains(todo[u], "flush") => Contains(todo'[u], "flush")
  PROVE  SeesInv'
BY DEF SeesInv, CacheTyped, TracingSeesAll

\* A callback of a thread that has nothing left to do forgets no flush.
LEMMA CallbackFlush ==
  ASSUME CountInv, NEW t \in Thread, todo[t] = <<>>,
         UNCHANGED <<ts, disk, todo>> \/ \E s, files, p : Callback(t, s, files, p)
  PROVE  \A u \in Thread : Contains(todo[u], "flush") => Contains(todo'[u], "flush")
<1>1. ASSUME NEW u \in Thread, Contains(todo[u], "flush") PROVE todo'[u] = todo[u]
  <2>1. u # t
    BY <1>1, NoSteps
  <2> QED
    BY <2>1 DEF Callback, CountInv, TracerTypes
<1> QED
  BY <1>1

\* The callbacks change a thread by Callback, or not at all.
LEMMA CallbackShape ==
  ASSUME NEW t \in Thread, NEW n,
         \/ \E m : AtEntry(t, m, n)
         \/ RecordInstrCommit(t)
         \/ RoiBegin(t) \/ RoiEnd(t) \/ ThreadStart(t) \/ ThreadFini(t)
  PROVE  UNCHANGED <<ts, disk, todo>> \/ \E s, files, p : Callback(t, s, files, p)
<1>1. ASSUME NEW last, StopTracing(t, last) PROVE \E s, files, p : Callback(t, s, files, p)
  BY <1>1 DEF StopTracing
<1>2. ASSUME NEW p, FastForward(t, p, n) PROVE \E s, files, q : Callback(t, s, files, q)
  BY <1>2 DEF FastForward
<1>3. ASSUME CheckROITransition(t) PROVE \E s, files, p : Callback(t, s, files, p)
  BY <1>1, <1>3 DEF CheckROITransition
<1>4. ASSUME NEW s, finish_sample(t, s) PROVE \E r, files, p : Callback(t, r, files, p)
  BY <1>4 DEF finish_sample
<1>5. ASSUME NEW m, AtEntry(t, m, n)
      PROVE  UNCHANGED <<ts, disk, todo>> \/ \E s, files, p : Callback(t, s, files, p)
  BY <1>2, <1>3, <1>5 DEF AtEntry, FastForwardInitial, FastForwardInter
<1>6. ASSUME RecordInstrCommit(t)
      PROVE  UNCHANGED <<ts, disk, todo>> \/ \E s, files, p : Callback(t, s, files, p)
  BY <1>4, <1>6 DEF RecordInstrCommit
<1>7. ASSUME RoiBegin(t)
      PROVE  UNCHANGED <<ts, disk, todo>> \/ \E s, files, p : Callback(t, s, files, p)
  BY <1>7 DEF RoiBegin
<1>8. ASSUME RoiEnd(t)
      PROVE  UNCHANGED <<ts, disk, todo>> \/ \E s, files, p : Callback(t, s, files, p)
  BY <1>1, <1>8 DEF RoiEnd
<1>9. ASSUME ThreadStart(t) PROVE \E s, files, p : Callback(t, s, files, p)
  BY <1>9 DEF ThreadStart
<1>10. ASSUME ThreadFini(t) PROVE \E s, files, p : Callback(t, s, files, p)
  BY <1>10 DEF ThreadFini
<1> QED
  BY <1>5, <1>6, <1>7, <1>8, <1>9, <1>10

\* Code compiled while a thread traces has every instruction instrumented.
LEMMA EnterTraceSees ==
  ASSUME CountInv, SeesInv, NEW t \in Thread, NEW c \in Code, EnterTrace(t, c)
  PROVE  SeesInv'
<1> DEFINE m == IF cache[c] = "none" THEN InstrumentTrace ELSE cache[c]
<1>1. /\ ~exited /\ todo[t] = <<>> /\ AtEntry(t, m, NumIns[c])
      /\ UNCHANGED <<active, roi_ended>> /\ cache' = [cache EXCEPT ![c] = m]
  BY DEF EnterTrace, Running, roi
<1>2. m \in {"none", "bare", "markers", "full", "fast"}
  BY DEF SeesInv, CacheTyped, InstrumentTrace
<1>3. \A u \in Thread : Contains(todo[u], "flush") => Contains(todo'[u], "flush")
  BY <1>1, CallbackShape, CallbackFlush
<1>4. ASSUME active > 0 PROVE run.use_markers => roi_started
  <2>1. CountedThreads # {}
    BY <1>1, <1>4, FS_EmptySet DEF CountInv
  <2>2. PICK u \in Thread : Counted(ts[u], todo[u])
    BY <2>1 DEF CountedThreads
  <2> QED
    BY <1>1, <2>2 DEF CountInv, Asleep, Counted
<1>5. ASSUME active > 0, ~roi_ended, \A u \in Thread : ~Contains(todo[u], "flush")
      PROVE  m \in {"none", "full"} /\ \A d \in Code : cache[d] \in {"none", "full"}
  BY <1>4, <1>5 DEF SeesInv, TracingSeesAll, InstrumentTrace
<1> HIDE DEF m
<1>6. CacheTyped'
  BY <1>1, <1>2 DEF SeesInv, CacheTyped
<1>7. TracingSeesAll'
  <2> SUFFICES ASSUME active' > 0, ~roi_ended', \A u \in Thread : ~Contains(todo'[u], "flush"),
                      NEW d \in Code
               PROVE  cache'[d] \in {"none", "full"}
    BY DEF TracingSeesAll
  <2>1. m \in {"none", "full"} /\ cache[d] \in {"none", "full"}
    BY <1>1, <1>3, <1>5
  <2> QED
    BY <1>1, <2>1 DEF SeesInv, CacheTyped
<1> QED
  BY <1>6, <1>7 DEF SeesInv

\* The first thread that is counted has the code flushed.
LEMMA SharedSees ==
  ASSUME CountInv, SeesInv, NEW t \in Thread, SharedStep(t)
  PROVE  SeesInv'
<1> DEFINE q == todo[t]
           p == Tail(q)
<1>1. /\ ~exited /\ q # <<>> /\ roi_ended' = roi_ended
  BY DEF SharedStep, Now, AddActive, AddFirst, SubActive, MarkStarted, MarkReachedDone,
         LoadStarted, MaybeExitOnDone, Flush, roi
<1>2. /\ q \in Seq(StepSet) /\ CountsOnce(q) /\ Plan(q) /\ active \in Nat
      /\ todo \in [Thread -> Seq(StepSet)]
  BY <1>1, FS_CardinalityType DEF CountInv, TracerTypes, Fits, Plan
<1>3. /\ p \in Seq(StepSet) /\ CountsOnce(p)
      /\ \A x : Contains(q, x) <=> Head(q) = x \/ Contains(p, x)
      /\ Head(q) \in Counting => \A x \in Counting : ~Contains(p, x)
  BY <1>1, <1>2, PlanTail
<1> HIDE DEF p
<1>4. ASSUME NEW r, todo' = [todo EXCEPT ![t] = r], Contains(q, "flush") => Contains(r, "flush")
      PROVE  \A u \in Thread : Contains(todo[u], "flush") => Contains(todo'[u], "flush")
  BY <1>2, <1>4
<1>5. ASSUME NEW r, todo' = [todo EXCEPT ![t] = r], Contains(r, "flush"), cache' = cache
      PROVE  SeesInv'
  <2>1. Contains(todo'[t], "flush")
    BY <1>2, <1>5
  <2> QED
    BY <1>5, <2>1 DEF SeesInv, CacheTyped, TracingSeesAll
<1>6. CASE AddActive(t)
  <2>1. todo' = [todo EXCEPT ![t] = p] /\ Head(q) = "add" /\ cache' = cache
    BY <1>6 DEF AddActive, Now, Then, p
  <2>2. Contains(p, "flush")
    BY <1>2, <1>3, <2>1 DEF Plan
  <2> QED
    BY <1>5, <2>1, <2>2
<1>7. CASE AddFirst(t)
  <2>1. /\ todo' = [todo EXCEPT ![t] = p \o IF active = 0 THEN <<"flush">> ELSE <<>>]
        /\ Head(q) = "add_first" /\ cache' = cache
    BY <1>7 DEF AddFirst, Now, Then, p
  <2>2. CASE active = 0
    <3>1. <<"flush">> \in Seq(StepSet) /\ CountsOnce(<<"flush">>)
          /\ \A x : Contains(<<"flush">>, x) <=> x = "flush"
      BY OneStep DEF StepSet
    <3>2. Contains(p \o <<"flush">>, "flush")
      BY <1>3, <3>1, PlanConcat DEF Counting
    <3> QED
      BY <1>5, <2>1, <2>2, <3>2
  <2>3. CASE active # 0
    <3>1. p \o <<>> = p
      BY <1>3, ConcatEmptySeq
    <3>2. todo' = [todo EXCEPT ![t] = p] /\ active > 0
      BY <1>2, <2>1, <2>3, <3>1
    <3>3. Contains(q, "flush") => Contains(p, "flush")
      BY <1>3, <2>1
    <3> QED
      BY <1>1, <1>4, <2>1, <3>2, <3>3, QuietSees
  <2> QED
    BY <2>2, <2>3
<1>8. CASE SubActive(t) \/ MarkStarted(t) \/ MaybeExitOnDone(t)
  <2>1. /\ todo' = [todo EXCEPT ![t] = p] /\ Head(q) # "flush" /\ cache' = cache
        /\ active' = active \/ active' = active - 1
    BY <1>8 DEF SubActive, MarkStarted, MaybeExitOnDone, Now, Then, p
  <2>2. (Contains(q, "flush") => Contains(p, "flush")) /\ (active' > 0 => active > 0)
    BY <1>2, <1>3, <2>1
  <2> QED
    BY <1>1, <1>4, <2>1, <2>2, QuietSees
<1>9. CASE MarkReachedDone(t)
  <2> DEFINE e == IF reached[t] THEN <<>> ELSE <<"exit">>
  <2>1. /\ todo' = [todo EXCEPT ![t] = e \o p] /\ Head(q) # "flush" /\ active' = active
        /\ cache' = cache
    BY <1>9 DEF MarkReachedDone, Now, Then, p
  <2>2. e \in Seq(StepSet) /\ CountsOnce(e) /\ \A x \in Counting : ~Contains(e, x)
    <3>1. CASE ~reached[t]
      BY <3>1, OneStep DEF StepSet, Counting
    <3>2. CASE reached[t]
      BY <3>2, NoSteps
    <3> QED
      BY <3>1, <3>2
  <2> HIDE DEF e
  <2>3. Contains(q, "flush") => Contains(e \o p, "flush")
    BY <1>3, <2>1, <2>2, PlanConcat
  <2> QED
    BY <1>1, <1>4, <2>1, <2>3, QuietSees
<1>10. CASE Flush(t)
  BY <1>10 DEF Flush, SeesInv, CacheTyped, TracingSeesAll
<1>11. CASE LoadStarted(t)
  BY <1>11, QuietSees DEF LoadStarted, roi
<1> QED
  BY <1>6, <1>7, <1>8, <1>9, <1>10, <1>11 DEF SharedStep

\* Every step keeps the code as the tracing threads need it.
LEMMA SeesKept ==
  ASSUME CountInv, SeesInv, [TracerNext]_tracerVars
  PROVE  SeesInv'
<1>1. ASSUME NEW t \in Thread, NEW c \in Code, EnterTrace(t, c) PROVE SeesInv'
  BY <1>1, EnterTraceSees
<1>2. ASSUME NEW t \in Thread, SharedStep(t) PROVE SeesInv'
  BY <1>2, SharedSees
<1>3. ASSUME NEW t \in Thread,
             \/ Instruction(t) \/ RoiBegin(t) \/ RoiEnd(t) \/ ThreadStart(t) \/ ThreadFini(t)
      PROVE  SeesInv'
  <2>1. /\ cache' = cache /\ (roi_ended => roi_ended')
        /\ active' = active \/ active' = active - 1
        /\ ~exited
    BY <1>3 DEF Instruction, RoiBegin, RoiEnd, ThreadStart, ThreadFini, MarkerRuns, Running, roi
  <2>2. todo[t] = <<>>
    <3>1. CASE ThreadStart(t)
      BY <2>1, <3>1 DEF ThreadStart, CountInv, Fits, Unborn
    <3> QED
      BY <1>3, <3>1 DEF Instruction, RoiBegin, RoiEnd, ThreadFini, MarkerRuns, Running
  <2>3. UNCHANGED <<ts, disk, todo>> \/ \E s, files, p : Callback(t, s, files, p)
    <3>1. Instruction(t) => RecordInstrCommit(t)
      BY DEF Instruction
    <3> QED
      BY <1>3, <3>1, CallbackShape
  <2>4. active' > 0 => active > 0
    <3>1. active \in Nat
      BY <2>1, FS_CardinalityType DEF CountInv
    <3> QED
      BY <2>1, <3>1
  <2>5. \A u \in Thread : Contains(todo[u], "flush") => Contains(todo'[u], "flush")
    BY <2>2, <2>3, CallbackFlush
  <2> QED
    BY <2>1, <2>4, <2>5, QuietSees
<1>4. ASSUME NEW t \in Thread, TraceEnd(t) \/ RegisterWorker(t) PROVE SeesInv'
  BY <1>4, QuietSees DEF TraceEnd, RegisterWorker, MarkerRuns, roi
<1>5. CASE Fini
  BY <1>5, QuietSees DEF Fini, roi
<1>6. CASE UNCHANGED tracerVars
  BY <1>6, QuietSees DEF tracerVars, roi
<1> QED
  BY <1>1, <1>2, <1>3, <1>4, <1>5, <1>6 DEF TracerNext, ThreadRuns

\* While a thread traces and no flush is pending, all compiled code records every
\* instruction: no sample has holes (InstrumentTrace, enter_tracing,
\* CheckROITransition).
THEOREM TracingComplete == TracerSpec => []TracingSeesAll
<1>1. TracerInit => SeesInv
  BY DEF TracerInit, SeesInv, CacheTyped, TracingSeesAll
<1>2. SeesInv => TracingSeesAll
  BY DEF SeesInv
<1> QED
  BY <1>1, <1>2, CountStarts, CountKept, SeesKept, PTL DEF TracerSpec

-----------------------------------------------------------------------------
(***************************************************************************)
(* The samples on disk.                                                    *)
(***************************************************************************)

File == [sample : Nat, records : Nat]

Rising(d) == \A j, k \in DOMAIN d : j < k => d[j].sample < d[k].sample

\* Whole samples of n records, all before sample m.
Complete(d, n, m) == \A k \in DOMAIN d : d[k].records = n /\ d[k].sample < m

\* ... but for the last, which is sample m and may have been cut short.
CutShort(d, n, m) ==
  \A k \in DOMAIN d :
    \/ d[k].records = n /\ d[k].sample < m
    \/ k = Len(d) /\ d[k].sample = m

\* A thread of state s that has written the files d, with samples of n records.
WholeFiles(s, d, n) ==
  /\ d \in Seq(File) /\ Rising(d)
  /\ \A k \in DOMAIN d : d[k].records <= n
  /\ s.phase = "TRACING" => s.counter \in 1..n /\ s.file \in {NoFile, n - s.counter}
  /\ s.phase # "TRACING" => s.file = NoFile
  /\ s.phase = "NONE" => s = NoState /\ \A k \in DOMAIN d : d[k].records = n \/ k = Len(d)
  /\ s.phase = "DONE" => CutShort(d, n, s.samples)
  /\ s.phase \notin {"NONE", "DONE"} => Complete(d, n, s.samples)

SampleInv ==
  /\ disk \in [Thread -> Seq(File)]
  /\ \A t \in Thread : WholeFiles(ts[t], disk[t], run.t)

\* One more file.
LEMMA FileAppended ==
  ASSUME NEW d \in Seq(File), Rising(d), NEW n \in Nat, NEW m \in Nat, Complete(d, n, m),
         NEW r \in 0..n, NEW e, e = Append(d, [sample |-> m, records |-> r])
  PROVE  /\ e \in Seq(File) /\ Rising(e) /\ CutShort(e, n, m)
         /\ \A k \in DOMAIN e : e[k].records <= n /\ (e[k].records = n \/ k = Len(e))
         /\ r = n => Complete(e, n, m + 1)
<1> DEFINE x == [sample |-> m, records |-> r]
           l == Len(d)
<1>1. x \in File /\ x.sample = m /\ x.records = r
  BY DEF File
<1> HIDE DEF x
<1>2. /\ e \in Seq(File) /\ Len(e) = l + 1 /\ l \in Nat /\ DOMAIN d = 1..l
      /\ \A k \in 1..l : e[k] = d[k]
      /\ e[l + 1] = x
  <2>1. e = Append(d, x) /\ l \in Nat /\ DOMAIN d = 1..l
    BY LenProperties DEF x
  <2>2. /\ Append(d, x) \in Seq(File) /\ Len(Append(d, x)) = Len(d) + 1
        /\ \A k \in 1..Len(d) : Append(d, x)[k] = d[k]
        /\ Append(d, x)[Len(d) + 1] = x
    BY <1>1, AppendProperties
  <2> QED
    BY <2>1, <2>2
<1>3. DOMAIN e = 1..(l + 1)
  BY <1>2, LenProperties
<1>4. \A k \in DOMAIN e : k \in 1..l \/ (k = l + 1 /\ k = Len(e))
  BY <1>2, <1>3
<1> HIDE DEF l
<1>5. \A k \in 1..l : /\ d[k].records = n /\ d[k].sample < m
                     /\ d[k].sample \in Nat
  <2>1. \A k \in 1..l : d[k] \in File
    BY ElementOfSeq DEF l
  <2> QED
    BY <1>2, <2>1 DEF Complete, File
<1>6. Rising(e)
  <2> SUFFICES ASSUME NEW j \in DOMAIN e, NEW k \in DOMAIN e, j < k
               PROVE  e[j].sample < e[k].sample
    BY DEF Rising
  <2>1. j \in 1..l
    BY <1>2, <1>3
  <2>2. CASE k \in 1..l
    BY <1>2, <2>1, <2>2 DEF Rising
  <2>3. CASE k = l + 1
    BY <1>1, <1>2, <1>5, <2>1, <2>3
  <2> QED
    BY <1>4, <2>2, <2>3
<1>7. CutShort(e, n, m)
  BY <1>1, <1>2, <1>4, <1>5 DEF CutShort
<1>8. \A k \in DOMAIN e : e[k].records <= n /\ (e[k].records = n \/ k = Len(e))
  BY <1>1, <1>2, <1>4, <1>5
<1>9. ASSUME r = n PROVE Complete(e, n, m + 1)
  BY <1>1, <1>2, <1>4, <1>5, <1>9 DEF Complete
<1> QED
  BY <1>2, <1>6, <1>7, <1>8, <1>9

\* A callback writes no file of another thread.
LEMMA CallbackWhole ==
  ASSUME CountInv, SampleInv, NEW t \in Thread, NEW s, NEW files, NEW p,
         Callback(t, s, files, p), WholeFiles(s, files, run.t), run' = run
  PROVE  SampleInv'
<1>1. files \in Seq(File)
  BY DEF WholeFiles
<1>2. ts \in [Thread -> StateT] /\ disk \in [Thread -> Seq(File)]
  BY DEF CountInv, TracerTypes, SampleInv
<1>3. ts' = [ts EXCEPT ![t] = s] /\ disk' = [disk EXCEPT ![t] = files]
  BY DEF Callback
<1>4. disk' \in [Thread -> Seq(File)]
  BY <1>1, <1>2, <1>3
<1>5. ASSUME NEW u \in Thread PROVE WholeFiles(ts'[u], disk'[u], run.t)
  <2>1. CASE u = t
    BY <1>2, <1>3, <2>1
  <2>2. CASE u # t
    BY <1>2, <1>3, <2>2 DEF SampleInv
  <2> QED
    BY <2>1, <2>2
<1> QED
  BY <1>4, <1>5 DEF SampleInv

\* The file a thread is writing is closed with the records it has.
LEMMA ClosedWhole ==
  ASSUME CountInv, SampleInv, NEW t \in Thread, NEW s \in StateT,
         s.phase = "TRACING", s.file = NoFile \/ s.file \in 0..run.t,
         Complete(disk[t], run.t, s.samples),
         NEW e, e = Closed(t, s)
  PROVE  /\ e \in Seq(File) /\ Rising(e) /\ CutShort(e, run.t, s.samples)
         /\ \A k \in DOMAIN e : e[k].records <= run.t /\ (e[k].records = run.t \/ k = Len(e))
         /\ s.file \in {NoFile, run.t} => Complete(e, run.t, s.samples + 1)
<1>1. /\ disk[t] \in Seq(File) /\ Rising(disk[t]) /\ run.t \in Nat \ {0} /\ s.samples \in Nat
  BY RunTyped DEF SampleInv, WholeFiles, StateT
<1>2. CASE s.file = NoFile
  <2>1. e = disk[t]
    BY <1>2 DEF Closed
  <2>2. \A k \in DOMAIN e : e[k].sample \in Nat /\ e[k].sample < s.samples
                           /\ e[k].records = run.t
    <3>1. \A k \in DOMAIN e : e[k] \in File
      <4>1. e \in Seq(File) /\ DOMAIN e = 1..Len(e)
        BY <1>1, <2>1, LenProperties
      <4> QED
        BY <4>1, ElementOfSeq
    <3> QED
      BY <2>1, <3>1 DEF Complete, File
  <2>3. Complete(e, run.t, s.samples + 1) /\ CutShort(e, run.t, s.samples)
    BY <1>1, <2>2 DEF Complete, CutShort
  <2>4. \A k \in DOMAIN e : e[k].records <= run.t /\ (e[k].records = run.t \/ k = Len(e))
    BY <1>1, <2>2
  <2> QED
    BY <1>1, <2>1, <2>3, <2>4
<1>3. CASE s.file # NoFile
  <2>1. e = Append(disk[t], [sample |-> s.samples, records |-> s.file]) /\ s.file \in 0..run.t
    BY <1>3 DEF Closed
  <2> DEFINE d == disk[t]
             n == run.t
             r == s.file
  <2>2. /\ d \in Seq(File) /\ Rising(d) /\ n \in Nat /\ s.samples \in Nat
        /\ Complete(d, n, s.samples) /\ r \in 0..n
        /\ e = Append(d, [sample |-> s.samples, records |-> r])
    BY <1>1, <2>1
  <2>3. r \in {NoFile, n} => r = n
    BY <1>3
  <2> HIDE DEF d, n, r
  <2>4. /\ e \in Seq(File) /\ Rising(e) /\ CutShort(e, n, s.samples)
        /\ \A k \in DOMAIN e : e[k].records <= n /\ (e[k].records = n \/ k = Len(e))
        /\ r = n => Complete(e, n, s.samples + 1)
    BY <2>2, FileAppended, Zenon
  <2> QED
    BY <2>3, <2>4 DEF d, n, r
<1> QED
  BY <1>2, <1>3

\* What is known of a thread and its files.
LEMMA ThreadWhole ==
  ASSUME CountInv, SampleInv, NEW t \in Thread
  PROVE  /\ ts[t] \in StateT /\ WholeFiles(ts[t], disk[t], run.t) /\ run.t \in Nat \ {0}
         /\ ts[t].phase = "TRACING" =>
              /\ Complete(disk[t], run.t, ts[t].samples)
              /\ ts[t].counter \in 1..run.t /\ ts[t].file \in {NoFile, run.t - ts[t].counter}
              /\ ts[t].file = NoFile \/ ts[t].file \in 0..run.t
         /\ ts[t].phase # "TRACING" => Closed(t, ts[t]) = disk[t]
<1>1. ts[t] \in StateT /\ WholeFiles(ts[t], disk[t], run.t) /\ run.t \in Nat \ {0}
  BY RunTyped DEF CountInv, TracerTypes, SampleInv
<1>2. ASSUME ts[t].phase = "TRACING"
      PROVE  /\ Complete(disk[t], run.t, ts[t].samples)
             /\ ts[t].counter \in 1..run.t /\ ts[t].file \in {NoFile, run.t - ts[t].counter}
  BY <1>1, <1>2 DEF WholeFiles
<1>3. ts[t].phase = "TRACING" => ts[t].file = NoFile \/ ts[t].file \in 0..run.t
  BY <1>1, <1>2
<1>4. ts[t].phase # "TRACING" => Closed(t, ts[t]) = disk[t]
  BY <1>1 DEF WholeFiles, Closed
<1> QED
  BY <1>1, <1>2, <1>3, <1>4

\* A thread that stops keeps what it has of its sample.
LEMMA StopWhole ==
  ASSUME CountInv, SampleInv, NEW t \in Thread, NEW last, StopTracing(t, last),
         ts[t].phase # "NONE", run' = run
  PROVE  SampleInv'
<1> DEFINE s == [ts[t] EXCEPT !.phase = "DONE", !.file = NoFile]
           e == Closed(t, ts[t])
<1>1. s.phase = "DONE" /\ s.file = NoFile /\ s.samples = ts[t].samples
  BY ThreadWhole DEF StateT
<1>2. \E p : Callback(t, s, e, p)
  BY DEF StopTracing
<1> HIDE DEF s
<1>3. /\ e \in Seq(File) /\ Rising(e) /\ \A k \in DOMAIN e : e[k].records <= run.t
      /\ CutShort(e, run.t, ts[t].samples)
  <2>1. CASE ts[t].phase = "TRACING"
    BY <2>1, ThreadWhole, ClosedWhole
  <2>2. CASE ts[t].phase # "TRACING"
    <3>1. e = disk[t] /\ WholeFiles(ts[t], disk[t], run.t)
      BY <2>2, ThreadWhole
    <3> QED
      BY <2>2, <3>1 DEF WholeFiles, Complete, CutShort
  <2> QED
    BY <2>1, <2>2
<1>4. WholeFiles(s, e, run.t)
  BY <1>1, <1>3 DEF WholeFiles
<1> QED
  BY <1>2, <1>4, CallbackWhole

\* A new sample has no record yet.
LEMMA EnterWhole ==
  ASSUME CountInv, SampleInv, NEW t \in Thread, NEW s \in StateT, NEW f \in run.opens,
         NEW files, NEW p, Callback(t, Traced(s, f), files, p),
         files \in Seq(File), Rising(files), Complete(files, run.t, s.samples), run' = run
  PROVE  SampleInv'
<1> DEFINE r == Traced(s, f)
<1>1. /\ r.phase = "TRACING" /\ r.counter = run.t /\ r.file = f /\ r.samples = s.samples
      /\ run.t \in Nat \ {0} /\ f \in {0, NoFile}
  BY TracedTyped, RunTyped
<1>2. r.counter \in 1..run.t /\ r.file \in {NoFile, run.t - r.counter}
  BY <1>1
<1> HIDE DEF r
<1>3. \A k \in DOMAIN files : files[k].records <= run.t
  BY <1>1 DEF Complete
<1>4. WholeFiles(r, files, run.t)
  BY <1>1, <1>2, <1>3 DEF WholeFiles
<1> QED
  BY <1>4, CallbackWhole DEF r

\* A thread that waits or skips has only whole samples.
LEMMA WaitingWhole ==
  ASSUME CountInv, SampleInv, NEW t \in Thread, ts[t].phase \notin {"NONE", "DONE"}
  PROVE  disk[t] \in Seq(File) /\ Rising(disk[t]) /\ Complete(disk[t], run.t, ts[t].samples)
BY ThreadWhole DEF WholeFiles

\* FastForward.
LEMMA FastForwardWhole ==
  ASSUME CountInv, SampleInv, NEW t \in Thread, NEW n \in Nat,
         NEW p \in {"INITIAL_SKIP", "INTER_SKIP"}, FastForward(t, p, n), run' = run
  PROVE  SampleInv'
<1>1. ts[t].phase = p /\ ts[t] \in StateT /\ WholeFiles(ts[t], disk[t], run.t)
  BY ThreadWhole DEF FastForward
<1>2. CASE ts[t].counter > n
  <2> DEFINE s == [ts[t] EXCEPT !.counter = @ - n]
  <2>1. s.phase = p /\ s.file = ts[t].file /\ s.samples = ts[t].samples
    BY <1>1 DEF StateT
  <2>2. Callback(t, s, disk[t], <<>>)
    BY <1>2 DEF FastForward
  <2> HIDE DEF s
  <2>3. WholeFiles(s, disk[t], run.t)
    BY <1>1, <2>1 DEF WholeFiles
  <2> QED
    BY <2>2, <2>3, CallbackWhole
<1>3. CASE ~(ts[t].counter > n)
  <2>1. PICK f \in run.opens : Callback(t, Traced(ts[t], f), disk[t], EnterTracing)
    BY <1>3 DEF FastForward
  <2> QED
    BY <1>1, <2>1, WaitingWhole, EnterWhole
<1> QED
  BY <1>2, <1>3

\* The steps at the entry of a trace.
LEMMA EntryWhole ==
  ASSUME CountInv, SampleInv, NEW t \in Thread, NEW m, NEW n \in Nat, AtEntry(t, m, n), run' = run
  PROVE  SampleInv'
<1>1. CASE UNCHANGED <<ts, disk, todo>>
  BY <1>1 DEF SampleInv
<1>2. ASSUME ts[t].phase \in Phase \ {"DONE"}, CheckROITransition(t) PROVE SampleInv'
  <2>1. ts[t].phase # "NONE" /\ ts[t].phase # "DONE"
    BY <1>2 DEF Phase
  <2>2. CASE StopTracing(t, <<>>)
    BY <2>1, <2>2, StopWhole
  <2>3. ASSUME NEW f \in run.opens, Callback(t, Traced(ts[t], f), disk[t], <<"add_first", "mark">>)
        PROVE  SampleInv'
    BY <2>1, <2>3, ThreadWhole, WaitingWhole, EnterWhole
  <2> QED
    BY <1>2, <2>2, <2>3 DEF CheckROITransition
<1>3. CASE FastForwardInitial(t, n) \/ FastForwardInter(t, n)
  BY <1>3, FastForwardWhole DEF FastForwardInitial, FastForwardInter
<1> QED
  BY <1>1, <1>2, <1>3 DEF AtEntry

\* A sample that ends has all its records.
LEMMA FinishWhole ==
  ASSUME CountInv, SampleInv, NEW t \in Thread, NEW s \in StateT, s.phase = "TRACING",
         s.file \in {NoFile, run.t}, Complete(disk[t], run.t, s.samples),
         finish_sample(t, s), run' = run
  PROVE  SampleInv'
<1> DEFINE c == [s EXCEPT !.samples = @ + 1, !.counter = 0, !.file = NoFile]
           e == Closed(t, s)
<1>1. c \in StateT /\ c.samples = s.samples + 1 /\ c.file = NoFile
  <2> DEFINE n == s.samples + 1
  <2>1. NoFile \in Int /\ n \in Nat /\ 0 \in Int
    BY DEF NoFile, StateT
  <2> HIDE DEF n
  <2>2. /\ [s EXCEPT !.samples = n, !.counter = 0, !.file = NoFile] \in StateT
        /\ [s EXCEPT !.samples = n, !.counter = 0, !.file = NoFile].samples = n
        /\ [s EXCEPT !.samples = n, !.counter = 0, !.file = NoFile].file = NoFile
    BY <2>1 DEF StateT
  <2> QED
    BY <2>2 DEF n
<1>2. /\ e \in Seq(File) /\ Rising(e) /\ \A k \in DOMAIN e : e[k].records <= run.t
      /\ Complete(e, run.t, s.samples + 1)
  <2>1. s.file = NoFile \/ s.file \in 0..run.t
    BY RunTyped
  <2> QED
    BY <2>1, ClosedWhole
<1>3. IF run.n > 0 /\ c.samples >= run.n
      THEN Callback(t, [c EXCEPT !.phase = "DONE"], e, <<"done", "sub", "flush">>)
      ELSE IF run.s > 0
      THEN Callback(t, [c EXCEPT !.phase = "INTER_SKIP", !.counter = run.s], e, <<"sub", "flush">>)
      ELSE \E f \in run.opens : Callback(t, Traced(c, f), e, <<>>)
  BY DEF finish_sample
<1> HIDE DEF c, e
<1>4. ASSUME NEW d, NEW p, d.phase \in {"DONE", "INTER_SKIP"}, d.file = NoFile,
             d.samples = s.samples + 1, Callback(t, d, e, p)
      PROVE  SampleInv'
  <2>1. WholeFiles(d, e, run.t)
    BY <1>2, <1>4 DEF WholeFiles, Complete, CutShort
  <2> QED
    BY <1>4, <2>1, CallbackWhole
<1>5. CASE Callback(t, [c EXCEPT !.phase = "DONE"], e, <<"done", "sub", "flush">>)
  <2> DEFINE d == [c EXCEPT !.phase = "DONE"]
  <2>1. d.phase = "DONE" /\ d.file = NoFile /\ d.samples = s.samples + 1
    BY <1>1 DEF StateT
  <2>2. Callback(t, d, e, <<"done", "sub", "flush">>)
    BY <1>5
  <2> HIDE DEF d
  <2> QED
    BY <1>4, <2>1, <2>2
<1>6. CASE Callback(t, [c EXCEPT !.phase = "INTER_SKIP", !.counter = run.s], e, <<"sub", "flush">>)
  <2> DEFINE d == [c EXCEPT !.phase = "INTER_SKIP", !.counter = run.s]
  <2>1. d.phase = "INTER_SKIP" /\ d.file = NoFile /\ d.samples = s.samples + 1
    BY <1>1 DEF StateT
  <2>2. Callback(t, d, e, <<"sub", "flush">>)
    BY <1>6
  <2> HIDE DEF d
  <2> QED
    BY <1>4, <2>1, <2>2
<1>7. ASSUME NEW f \in run.opens, Callback(t, Traced(c, f), e, <<>>) PROVE SampleInv'
  BY <1>1, <1>2, <1>7, EnterWhole
<1> QED
  BY <1>3, <1>5, <1>6, <1>7

\* A record is written.
LEMMA RecordWhole ==
  ASSUME CountInv, SampleInv, NEW t \in Thread, RecordInstrCommit(t), run' = run
  PROVE  SampleInv'
<1>1. CASE ts[t].phase # "TRACING"
  BY <1>1 DEF RecordInstrCommit, SampleInv
<1>2. CASE ts[t].phase = "TRACING"
  <2> DEFINE n == ts[t].counter - 1
             g == IF ts[t].file = NoFile THEN NoFile ELSE ts[t].file + 1
             s == [ts[t] EXCEPT !.counter = n, !.file = g]
  <2>1. /\ ts[t] \in StateT /\ run.t \in Nat \ {0} /\ WholeFiles(ts[t], disk[t], run.t)
        /\ Complete(disk[t], run.t, ts[t].samples)
        /\ ts[t].counter \in 1..run.t /\ ts[t].file \in {NoFile, run.t - ts[t].counter}
    BY <1>2, ThreadWhole
  <2>2. n \in 0..(run.t - 1) /\ g \in {NoFile, run.t - n} /\ n \in Int /\ g \in Int
    BY <2>1 DEF NoFile
  <2>3. \/ n = 0 /\ finish_sample(t, s)
        \/ n # 0 /\ Callback(t, s, disk[t], <<>>)
    <3> DEFINE r == [ts[t] EXCEPT !.counter = @ - 1,
                                  !.file = IF @ = NoFile THEN NoFile ELSE @ + 1]
    <3>1. r = s
      BY DEF n, g
    <3>2. s.counter = n
      BY <2>1 DEF StateT
    <3>3. IF r.counter = 0 THEN finish_sample(t, r) ELSE Callback(t, r, disk[t], <<>>)
      BY <1>2 DEF RecordInstrCommit
    <3> HIDE DEF r, s
    <3> QED
      BY <3>1, <3>2, <3>3
  <2> HIDE DEF n, g
  <2>4. /\ s \in StateT /\ s.phase = "TRACING" /\ s.counter = n /\ s.file = g
        /\ s.samples = ts[t].samples
    BY <1>2, <2>1, <2>2 DEF StateT
  <2> HIDE DEF s
  <2>5. CASE n = 0 /\ finish_sample(t, s)
    BY <2>1, <2>2, <2>4, <2>5, FinishWhole
  <2>6. CASE n # 0 /\ Callback(t, s, disk[t], <<>>)
    <3>1. s.counter \in 1..run.t /\ s.file \in {NoFile, run.t - s.counter}
      BY <2>1, <2>2, <2>4, <2>6
    <3>2. WholeFiles(s, disk[t], run.t)
      BY <2>1, <2>4, <3>1 DEF WholeFiles
    <3> QED
      BY <2>6, <3>2, CallbackWhole
  <2> QED
    BY <2>3, <2>5, <2>6
<1> QED
  BY <1>1, <1>2

\* The markers.
LEMMA MarkersWhole ==
  ASSUME CountInv, SampleInv, NEW t \in Thread, RoiBegin(t) \/ RegisterWorker(t) \/ RoiEnd(t)
  PROVE  SampleInv'
<1>1. /\ ~exited /\ run' = run /\ ts[t] \in StateT /\ WholeFiles(ts[t], disk[t], run.t)
  BY ThreadWhole DEF RoiBegin, RegisterWorker, RoiEnd, MarkerRuns, Running
<1>2. ts[t] # NoState => ts[t].phase # "NONE"
  BY <1>1 DEF WholeFiles
<1>3. CASE UNCHANGED <<ts, disk, todo>>
  BY <1>1, <1>3 DEF SampleInv
<1>4. CASE RegisterWorker(t)
  BY <1>1, <1>4 DEF RegisterWorker, SampleInv
<1>5. CASE RoiEnd(t)
  <2>1. CASE ts[t] # NoState /\ StopTracing(t, <<"flush">>)
    BY <1>1, <1>2, <2>1, StopWhole
  <2> QED
    BY <1>3, <1>5, <2>1 DEF RoiEnd
<1>6. CASE RoiBegin(t)
  <2>1. ts[t].phase \notin {"TRACING", "INITIAL_SKIP", "INTER_SKIP"}
    <3>1. ~roi_started /\ run.use_markers
      BY <1>6 DEF RoiBegin, MarkerRuns
    <3> QED
      BY <1>1, <3>1 DEF CountInv, Asleep
  <2>2. CASE ts[t] # NoState /\ Callback(t, [ts[t] EXCEPT !.phase = "DONE"], disk[t], <<"done">>)
    <3> DEFINE s == [ts[t] EXCEPT !.phase = "DONE"]
    <3>1. s.phase = "DONE" /\ s.file = ts[t].file /\ s.samples = ts[t].samples
      BY <1>1 DEF StateT
    <3>2. Callback(t, s, disk[t], <<"done">>)
      BY <2>2
    <3> HIDE DEF s
    <3>3. WholeFiles(s, disk[t], run.t)
      BY <1>1, <1>2, <2>1, <2>2, <3>1 DEF WholeFiles, Complete, CutShort
    <3> QED
      BY <1>1, <3>2, <3>3, CallbackWhole
  <2>3. ASSUME NEW f \in run.opens, ts[t].phase \in {"WAITING_FOR_ROI", "INITIAL_SKIP"},
               Callback(t, Traced(ts[t], f), disk[t], EnterTracing)
        PROVE  SampleInv'
    BY <1>1, <2>3, WaitingWhole, EnterWhole
  <2> QED
    BY <1>3, <1>6, <2>2, <2>3 DEF RoiBegin
<1> QED
  BY <1>4, <1>5, <1>6

\* ThreadStart.
LEMMA StartWhole ==
  ASSUME CountInv, SampleInv, NEW t \in Thread, ThreadStart(t)
  PROVE  SampleInv'
<1>1. run' = run /\ ts[t].phase = "UNBORN" /\ ts[t].samples = 0
  BY DEF ThreadStart, Unborn
<1>2. disk[t] \in Seq(File) /\ Rising(disk[t]) /\ Complete(disk[t], run.t, 0)
  BY <1>1, WaitingWhole
<1>3. /\ \A k \in DOMAIN disk[t] : disk[t][k].records <= run.t
      /\ \A k \in DOMAIN disk[t] : disk[t][k].records = run.t
  BY <1>2, RunTyped DEF Complete
<1>4. /\ StartingState \in StateT /\ StartingState.samples = 0 /\ StartingState.file = NoFile
      /\ StartingState.phase \in {"TRACING", "WAITING_FOR_ROI", "INITIAL_SKIP"}
  <2>1. run.i \in Int
    BY RunTyped
  <2>2. {"TRACING", "WAITING_FOR_ROI", "INITIAL_SKIP"} \subseteq Phase
    BY DEF Phase
  <2>3. NoState \in StateT /\ NoState.samples = 0 /\ NoState.file = NoFile
    BY DEF NoState, NoFile, StateT
  <2>4. ASSUME NEW p \in {"TRACING", "WAITING_FOR_ROI", "INITIAL_SKIP"}, NEW n \in Int
        PROVE  /\ [NoState EXCEPT !.phase = p] \in StateT
               /\ [NoState EXCEPT !.phase = p].phase = p
               /\ [NoState EXCEPT !.phase = p].samples = 0
               /\ [NoState EXCEPT !.phase = p].file = NoFile
               /\ [NoState EXCEPT !.phase = p, !.counter = n] \in StateT
               /\ [NoState EXCEPT !.phase = p, !.counter = n].phase = p
               /\ [NoState EXCEPT !.phase = p, !.counter = n].samples = 0
               /\ [NoState EXCEPT !.phase = p, !.counter = n].file = NoFile
    BY <2>2, <2>3, <2>4 DEF StateT
  <2> QED
    BY <2>1, <2>4 DEF StartingState
<1>5. CASE Callback(t, NoState, disk[t], <<>>)
  <2>1. WholeFiles(NoState, disk[t], run.t)
    BY <1>2, <1>3 DEF WholeFiles, NoState
  <2> QED
    BY <1>1, <1>5, <2>1, CallbackWhole
<1>6. ASSUME NEW f \in run.opens, Callback(t, Traced(StartingState, f), disk[t], EnterTracing)
      PROVE  SampleInv'
  BY <1>1, <1>2, <1>4, <1>6, EnterWhole
<1>7. CASE StartingState.phase # "TRACING" /\ Callback(t, StartingState, disk[t], <<>>)
  <2>1. WholeFiles(StartingState, disk[t], run.t)
    BY <1>2, <1>3, <1>4, <1>7 DEF WholeFiles
  <2> QED
    BY <1>1, <1>7, <2>1, CallbackWhole
<1> QED
  BY <1>5, <1>6, <1>7 DEF ThreadStart

\* The files of a thread that is gone, or that PIN ends.
LEMMA GoneWhole ==
  ASSUME CountInv, SampleInv, NEW t \in Thread
  PROVE  WholeFiles(NoState, Closed(t, ts[t]), run.t)
<1> DEFINE e == Closed(t, ts[t])
<1>1. /\ e \in Seq(File) /\ Rising(e) /\ \A k \in DOMAIN e : e[k].records <= run.t
      /\ \A k \in DOMAIN e : e[k].records = run.t \/ k = Len(e)
  <2>1. CASE ts[t].phase = "TRACING"
    BY <2>1, ThreadWhole, ClosedWhole
  <2>2. CASE ts[t].phase # "TRACING"
    <3>1. e = disk[t] /\ WholeFiles(ts[t], disk[t], run.t)
      BY <2>2, ThreadWhole
    <3> QED
      BY <2>2, <3>1 DEF WholeFiles, Complete, CutShort
  <2> QED
    BY <2>1, <2>2
<1> HIDE DEF e
<1>2. NoState.phase = "NONE" /\ NoState.file = NoFile
  BY DEF NoState
<1>3. WholeFiles(NoState, e, run.t)
  BY <1>1, <1>2 DEF WholeFiles
<1> QED
  BY <1>3 DEF e

\* Every step leaves the files whole.
LEMMA SamplesKept ==
  ASSUME CountInv, SampleInv, [TracerNext]_tracerVars
  PROVE  SampleInv'
<1>1. ASSUME NEW t \in Thread, NEW c \in Code, EnterTrace(t, c) PROVE SampleInv'
  <2>1. run' = run /\ NumIns[c] \in Nat /\ \E m : AtEntry(t, m, NumIns[c])
    BY <1>1, TracerAssumption DEF EnterTrace
  <2> QED
    BY <2>1, EntryWhole
<1>2. ASSUME NEW t \in Thread, Instruction(t) PROVE SampleInv'
  BY <1>2, RecordWhole DEF Instruction
<1>3. ASSUME NEW t \in Thread, TraceEnd(t) \/ SharedStep(t) PROVE SampleInv'
  <2>1. UNCHANGED <<run, ts, disk>>
    BY <1>3 DEF TraceEnd, SharedStep, Now, AddActive, AddFirst, SubActive, MarkStarted,
                MarkReachedDone, LoadStarted, MaybeExitOnDone, Flush
  <2> QED
    BY <2>1 DEF SampleInv
<1>4. ASSUME NEW t \in Thread, ThreadFini(t) PROVE SampleInv'
  <2>1. Callback(t, NoState, Closed(t, ts[t]), <<>>) /\ run' = run
    BY <1>4 DEF ThreadFini
  <2> QED
    BY <2>1, GoneWhole, CallbackWhole
<1>5. CASE Fini
  <2>1. /\ run' = run /\ ts' = [t \in Thread |-> NoState]
        /\ disk' = [t \in Thread |-> Closed(t, ts[t])]
    BY <1>5 DEF Fini
  <2>2. \A t \in Thread : WholeFiles(NoState, Closed(t, ts[t]), run.t)
    BY GoneWhole
  <2>3. \A t \in Thread : Closed(t, ts[t]) \in Seq(File)
    BY <2>2 DEF WholeFiles
  <2>4. disk' \in [Thread -> Seq(File)]
    BY <2>1, <2>3
  <2>5. \A t \in Thread : WholeFiles(ts'[t], disk'[t], run'.t)
    BY <2>1, <2>2
  <2> QED
    BY <2>4, <2>5 DEF SampleInv
<1>6. CASE UNCHANGED tracerVars
  BY <1>6 DEF tracerVars, SampleInv
<1> QED
  BY <1>1, <1>2, <1>3, <1>4, <1>5, <1>6, MarkersWhole, StartWhole DEF TracerNext, ThreadRuns

\* The files of a thread are its samples in order, none written twice, each with
\* exactly -t records but for the last of a thread stopped within it, whatever the
\* other threads do (open_next_sample, close_sample, finish_sample).
THEOREM SamplesStayWhole == TracerSpec => []SamplesWhole
<1>1. TracerInit => SampleInv
  <2> SUFFICES ASSUME TracerInit PROVE SampleInv
    OBVIOUS
  <2>1. <<>> \in Seq(File) /\ DOMAIN <<>> = {}
    BY EmptySeq
  <2>2. WholeFiles(Unborn, <<>>, run.t)
    BY <2>1 DEF WholeFiles, Unborn, Rising, Complete
  <2> QED
    BY <2>1, <2>2 DEF TracerInit, SampleInv
<1>2. CountInv /\ SampleInv => SamplesWhole
  <2> SUFFICES ASSUME CountInv, SampleInv, NEW t \in Thread, NEW k \in DOMAIN disk[t]
               PROVE  /\ disk[t][k].records <= run.t
                      /\ disk[t][k].records < run.t =>
                           /\ k = Len(disk[t])
                           /\ \/ ts[t] = NoState
                              \/ ts[t].phase = "DONE" /\ ts[t].samples = disk[t][k].sample
                      /\ \A j \in 1..(k - 1) : disk[t][j].sample < disk[t][k].sample
    BY DEF SamplesWhole
  <2>1. disk[t] \in Seq(File) /\ DOMAIN disk[t] = 1..Len(disk[t]) /\ Len(disk[t]) \in Nat
    BY LenProperties DEF SampleInv
  <2>2. disk[t][k].records <= run.t /\ disk[t][k].records \in Nat /\ run.t \in Nat
    <3>1. disk[t][k] \in File
      BY <2>1, ElementOfSeq
    <3> QED
      BY <3>1, RunTyped DEF SampleInv, WholeFiles, File
  <2>3. ASSUME disk[t][k].records < run.t
        PROVE  /\ k = Len(disk[t])
               /\ \/ ts[t] = NoState
                  \/ ts[t].phase = "DONE" /\ ts[t].samples = disk[t][k].sample
    BY <2>2, <2>3 DEF SampleInv, WholeFiles, Complete, CutShort
  <2>4. ASSUME NEW j \in 1..(k - 1) PROVE disk[t][j].sample < disk[t][k].sample
    <3>1. j \in DOMAIN disk[t] /\ j < k
      BY <2>1
    <3> QED
      BY <3>1 DEF SampleInv, WholeFiles, Rising
  <2> QED
    BY <2>2, <2>3, <2>4
<1> QED
  BY <1>1, <1>2, CountStarts, CountKept, SamplesKept, PTL DEF TracerSpec

-----------------------------------------------------------------------------
(***************************************************************************)
(* The files: what a call of a decompressor takes and gives.               *)
(***************************************************************************)

\* The smaller and the larger of two numbers.
LEMMA TwoNumbers ==
  ASSUME NEW a \in Int, NEW b \in Int
  PROVE  /\ Min({a, b}) = IF a <= b THEN a ELSE b
         /\ Max({a, b}) = IF a >= b THEN a ELSE b
<1>1. /\ \E x \in {a, b} : \A y \in {a, b} : x <= y
      /\ \E x \in {a, b} : \A y \in {a, b} : x >= y
  OBVIOUS
<1>2. /\ Min({a, b}) \in {a, b} /\ \A y \in {a, b} : Min({a, b}) <= y
      /\ Max({a, b}) \in {a, b} /\ \A y \in {a, b} : Max({a, b}) >= y
  BY <1>1, Zenon DEF Min, Max
<1> QED
  BY <1>2

\* The least element of a set of natural numbers that is not empty.
LEMMA LeastNatural ==
  ASSUME NEW S \in SUBSET Nat, S # {}
  PROVE  Min(S) \in S /\ \A y \in S : Min(S) <= y
<1> DEFINE L == OpToRel(<, Nat)
<1>1. \A x, y \in Nat : x < y => <<x, y>> \in L
  BY DEF OpToRel
<1>2. IsWellFoundedOn(L, Nat)
  BY NatLessThanWellFounded
<1> HIDE DEF L
<1>3. PICK x \in S : \A y \in S : ~(<<y, x>> \in L)
  BY <1>2, WFMin
<1>4. ASSUME NEW y \in S PROVE x <= y
  <2>1. x \in Nat /\ y \in Nat
    OBVIOUS
  <2>2. ~(y < x)
    BY <1>1, <1>3, <2>1
  <2> QED
    BY <2>1, <2>2
<1>5. \E z \in S : \A y \in S : z <= y
  BY <1>4
<1> QED
  BY <1>5, Zenon DEF Min

\* The frame that follows the first i bytes ends with the first byte that ends one.
LEMMA FrameEnds ==
  ASSUME NEW f, IsFile(f), NEW i \in 0..Len(f)
  PROVE  /\ FrameEnd(f, i) \in i..Len(f)
         /\ \A k \in (i + 1)..Len(f) : k < FrameEnd(f, i) => ~f[k].last
         /\ FrameEnd(f, i) = i => i = Len(f)
         /\ FrameEnd(f, i) < Len(f) => f[FrameEnd(f, i)].last
<1> DEFINE ends == {e \in (i + 1)..Len(f) : f[e].last}
<1>1. Len(f) \in Nat
  BY DEF IsFile
<1>2. FrameEnd(f, i) = IF ends = {} THEN Len(f) ELSE Min(ends)
  BY DEF FrameEnd
<1>3. CASE ends = {}
  BY <1>1, <1>2, <1>3
<1>4. CASE ends # {}
  <2>1. ends \subseteq Nat
    BY <1>1
  <2>2. Min(ends) \in ends /\ \A y \in ends : Min(ends) <= y
    BY <1>4, <2>1, LeastNatural
  <2>3. FrameEnd(f, i) \in ends /\ \A y \in ends : FrameEnd(f, i) <= y
    BY <1>2, <1>4, <2>2
  <2>4. FrameEnd(f, i) \in (i + 1)..Len(f) /\ f[FrameEnd(f, i)].last
    BY <2>3
  <2>5. ASSUME NEW k \in (i + 1)..Len(f), k < FrameEnd(f, i) PROVE ~f[k].last
    <3>1. SUFFICES ASSUME f[k].last PROVE FALSE
      OBVIOUS
    <3>2. k \in ends
      BY <3>1
    <3> QED
      BY <2>3, <2>4, <2>5, <3>2, <1>1
  <2> QED
    BY <1>1, <2>4, <2>5
<1> QED
  BY <1>3, <1>4

\* Frames end one after the other.
LEMMA FramesFollow ==
  ASSUME NEW f, IsFile(f), NEW i \in 0..Len(f), NEW j \in i..Len(f)
  PROVE  /\ FrameEnd(f, i) <= FrameEnd(f, j)
         /\ (\A k \in (i + 1)..j : ~f[k].last) => FrameEnd(f, i) = FrameEnd(f, j)
<1>1. Len(f) \in Nat /\ j \in 0..Len(f)
  BY DEF IsFile
<1> DEFINE a == FrameEnd(f, i)  b == FrameEnd(f, j)
<1>2. /\ a \in i..Len(f)
      /\ \A k \in (i + 1)..Len(f) : k < a => ~f[k].last
      /\ a = i => i = Len(f)
      /\ a < Len(f) => f[a].last
  BY FrameEnds
<1>3. /\ b \in j..Len(f)
      /\ \A k \in (j + 1)..Len(f) : k < b => ~f[k].last
      /\ b = j => j = Len(f)
      /\ b < Len(f) => f[b].last
  BY <1>1, FrameEnds
<1> HIDE DEF a, b
<1>4. a <= b
  <2>1. SUFFICES ASSUME b < a PROVE FALSE
    BY <1>1, <1>2, <1>3
  <2>2. b \in (i + 1)..Len(f)
    BY <1>1, <1>2, <1>3, <2>1
  <2> QED
    BY <1>1, <1>2, <1>3, <2>1, <2>2
<1>5. ASSUME \A k \in (i + 1)..j : ~f[k].last PROVE a = b
  <2>1. SUFFICES ASSUME a < b PROVE FALSE
    BY <1>1, <1>2, <1>3, <1>4
  <2>2. a > i /\ a < Len(f)
    BY <1>1, <1>2, <1>3, <2>1
  <2>3. a > j
    BY <1>1, <1>2, <1>5, <2>2
  <2> QED
    BY <1>1, <1>2, <1>3, <2>1, <2>2, <2>3
<1> QED
  BY <1>4, <1>5 DEF a, b

\* The output grows with the input.
LEMMA Yields ==
  ASSUME NEW f, IsFile(f), NEW i \in 0..Len(f), NEW j \in i..Len(f)
  PROVE  Yield(f, i) \in Nat /\ Yield(f, j) \in Nat /\ Yield(f, i) <= Yield(f, j)
<1>1. \A k \in 1..Len(f) : f[k].upto \in Nat
  <2> DEFINE T == [upto : Nat, last : BOOLEAN, bad : BOOLEAN]
  <2>1. f \in Seq(T)
    BY Zenon DEF IsFile
  <2>2. \A t \in T : t.upto \in Nat
    OBVIOUS
  <2> HIDE DEF T
  <2> QED
    BY <2>1, <2>2
<1>2. Len(f) \in Nat
  BY DEF IsFile
<1>3. CASE i = 0
  BY <1>1, <1>2, <1>3 DEF Yield
<1>4. CASE i # 0
  <2>1. i \in 1..Len(f) /\ j \in 1..Len(f) /\ i <= j /\ j # 0
    BY <1>2, <1>4
  <2>2. f[i].upto <= f[j].upto
    BY <2>1 DEF IsFile
  <2> QED
    BY <1>1, <1>4, <2>1, <2>2 DEF Yield
<1> QED
  BY <1>3, <1>4

\* What one call may do with i bytes taken, o bytes given and a more bytes to take:
\* never past the end of the frame; a call that does not end the stream stops before
\* its last byte; the stream ends when all its output is out; and without input, at
\* the end of the file, a call that gives nothing has nothing left to give.
LEMMA Decodes ==
  ASSUME NEW f, IsFile(f), NEW format, NEW i \in 0..Len(f), NEW a \in 0..(Len(f) - i),
         NEW R \in Nat \ {0}, NEW o \in Nat, o <= Yield(f, LastByte(f, format, i))
  PROVE  LET r == Decode(f, format, [in |-> i, out |-> o], a, R)
             e == LastByte(f, format, i) IN
         /\ r.in \in i..(i + a) /\ r.in <= e
         /\ r.out \in Nat /\ r.out >= o /\ r.out <= Yield(f, e)
         /\ r.status = "StreamEnd" =>
              format # "xz" /\ e \in 1..Len(f) /\ f[e].last /\ r.out = Yield(f, e)
         /\ r.status = "Ok" /\ format # "xz" /\ r.in = e /\ e > i /\ f[e].last => FALSE
         /\ r.in = e /\ e > i /\ format # "xz" /\ f[e].last => r.out = Yield(f, e)
         /\ i = Len(f) /\ r.out = o => o = Yield(f, e)
<1> DEFINE d == [in |-> i, out |-> o]
           e == LastByte(f, format, i)
           limit == Min({d.in + a, e})
           full == {c \in d.in..limit : Yield(f, c) - d.out >= R}
           c == IF full = {} THEN limit ELSE Min(full)
           out == Min({d.out + R, Max({d.out, Yield(f, c)})})
           ends == format # "xz" /\ c > 0 /\ c = e /\ f[e].last
           taken == IF ends /\ c > d.in /\ out < Yield(f, e) THEN e - 1 ELSE c
           st == IF \E k \in (d.in + 1)..c : f[k].bad THEN "Error"
                 ELSE IF ends /\ out = Yield(f, e) THEN "StreamEnd" ELSE "Ok"
           r == Decode(f, format, d, a, R)
<1>1. r = [in |-> taken, out |-> out, status |-> st]
  BY DEF Decode
<1>2. Len(f) \in Nat /\ d.in = i /\ d.out = o
  BY DEF IsFile
<1>3. e \in i..Len(f)
  BY <1>2, FrameEnds DEF LastByte
<1>4. limit = IF i + a <= e THEN i + a ELSE e
  BY <1>2, <1>3, TwoNumbers
<1>5. limit \in i..e /\ limit <= i + a
  BY <1>2, <1>3, <1>4
<1> HIDE DEF limit, e
<1>6. c \in i..limit
  <2>1. CASE full = {}
    BY <1>2, <1>3, <1>5, <2>1
  <2>2. CASE full # {}
    <3>1. full \subseteq i..limit /\ full \subseteq Nat
      BY <1>2, <1>3, <1>5
    <3> HIDE DEF full
    <3> QED
      BY <2>2, <3>1, LeastNatural
  <2> QED
    BY <2>1, <2>2
<1> HIDE DEF c
<1>7. c \in 0..Len(f) /\ e \in c..Len(f) /\ e \in 0..Len(f)
  BY <1>2, <1>3, <1>5, <1>6
<1>8. Yield(f, c) \in Nat /\ Yield(f, e) \in Nat /\ Yield(f, c) <= Yield(f, e)
  BY <1>7, Yields
<1>9. o <= Yield(f, e)
  BY DEF e
<1> DEFINE Y == Yield(f, c)  M == Max({o, Y})
<1>10. M = IF o >= Y THEN o ELSE Y
  <2>1. o \in Int /\ Y \in Int
    BY <1>8
  <2> HIDE DEF Y
  <2> QED
    BY <2>1, TwoNumbers
<1>11. M \in Nat /\ o <= M /\ M <= Yield(f, e) /\ Yield(f, c) <= M
  BY <1>8, <1>9, <1>10
<1>12. out = IF o + R <= M THEN o + R ELSE M
  <2>1. out = Min({o + R, M})
    BY <1>2
  <2>2. o + R \in Int /\ M \in Int
    BY <1>11
  <2> HIDE DEF out, M
  <2> QED
    BY <2>1, <2>2, TwoNumbers
<1> HIDE DEF M, out
<1>13. out \in Nat /\ out >= o /\ out <= Yield(f, e) /\ (out = o => M = o)
  BY <1>8, <1>11, <1>12
<1>14. taken \in i..(i + a) /\ taken <= e
  BY <1>2, <1>3, <1>5, <1>6, <1>7
<1>15. st = "StreamEnd" => format # "xz" /\ e \in 1..Len(f) /\ f[e].last /\ out = Yield(f, e)
  BY <1>7
<1>16. ASSUME taken = e, e > i, format # "xz", f[e].last PROVE out = Yield(f, e) /\ st # "Ok"
  <2>1. c = e
    BY <1>7, <1>16
  <2>2. ends /\ c > d.in
    BY <1>2, <1>3, <1>16, <2>1
  <2>3. ~(out < Yield(f, e))
    BY <1>2, <1>3, <1>7, <1>16, <2>2
  <2>4. out = Yield(f, e)
    BY <1>8, <1>13, <2>3
  <2> QED
    BY <2>2, <2>4
<1>17. ASSUME i = Len(f), out = o PROVE o = Yield(f, e)
  <2>1. c = e
    BY <1>2, <1>3, <1>5, <1>6, <1>17
  <2>2. Yield(f, e) <= M
    BY <1>11, <2>1
  <2> QED
    BY <1>8, <1>9, <1>13, <1>17, <2>2
<1> HIDE DEF taken, st
<1>18. r.in = taken /\ r.out = out /\ r.status = st
  BY <1>1
<1> HIDE DEF r
<1>19. /\ r.in \in i..(i + a) /\ r.in <= e
       /\ r.out \in Nat /\ r.out >= o /\ r.out <= Yield(f, e)
       /\ r.status = "StreamEnd" =>
            format # "xz" /\ e \in 1..Len(f) /\ f[e].last /\ r.out = Yield(f, e)
       /\ r.status = "Ok" /\ format # "xz" /\ r.in = e /\ e > i /\ f[e].last => FALSE
       /\ r.in = e /\ e > i /\ format # "xz" /\ f[e].last => r.out = Yield(f, e)
       /\ i = Len(f) /\ r.out = o => o = Yield(f, e)
  BY <1>13, <1>14, <1>15, <1>16, <1>17, <1>18
<1> QED
  BY <1>19, Zenon DEF r, e

-----------------------------------------------------------------------------
(***************************************************************************)
(* The reader.  What was decoded is what was read, what is being read and  *)
(* what waits in decomp_buf, one byte after the other; what was taken of   *)
(* the file is what the decoder used and what waits in comp_buf; and the   *)
(* decoder is within the first frame until the stream ends.                *)
(***************************************************************************)

\* The decoder is before the end of the first frame.
FirstFrame(f, format, i) == format # "xz" => \A k \in 1..i : ~f[k].last

SourceKept ==
  /\ trace \in TraceFile /\ file_offset \in 0..Len(trace.bytes)
  /\ comp \in Nat /\ decoder \in [in : Nat, out : Nat] /\ decoder.in + comp = file_offset
  /\ file_eof => file_offset = Len(trace.bytes)
  /\ decoder.out <= Yield(trace.bytes, LastByte(trace.bytes, trace.format, decoder.in))
  /\ ~stream_ended => FirstFrame(trace.bytes, trace.format, decoder.in)
  /\ stream_ended => decoder.out = Readable(trace.bytes, trace.format)

BytesKept ==
  /\ reads \in Nat /\ dst \in Seq(Nat) /\ decomp \in Seq(Nat) /\ Len(dst) <= RECORD_SIZE
  /\ \A i \in 1..Len(dst) : dst[i] = reads * RECORD_SIZE + i
  /\ \A i \in 1..Len(decomp) : decomp[i] = reads * RECORD_SIZE + Len(dst) + i
  /\ decoder.out = reads * RECORD_SIZE + Len(dst) + Len(decomp)

ReaderInv == SourceKept /\ BytesKept

\* The first frame of a file ends where the frame after a part of it ends.
LEMMA SameFrame ==
  ASSUME NEW f, IsFile(f), NEW format, NEW i \in 0..Len(f), FirstFrame(f, format, i)
  PROVE  LastByte(f, format, i) = LastByte(f, format, 0)
<1>1. Len(f) \in Nat
  BY DEF IsFile
<1>2. 0 \in 0..Len(f) /\ i \in 0..Len(f)
  BY <1>1
<1>3. CASE format = "xz"
  BY <1>3 DEF LastByte
<1>4. CASE format # "xz"
  <2>1. \A k \in (0 + 1)..i : ~f[k].last
    BY <1>4 DEF FirstFrame
  <2>2. FrameEnd(f, 0) = FrameEnd(f, i)
    BY <1>2, <2>1, FramesFollow
  <2> QED
    BY <1>4, <2>2 DEF LastByte
<1> QED
  BY <1>3, <1>4

\* A byte lies within its frame.
LEMMA LastBytes ==
  ASSUME NEW f, IsFile(f), NEW format, NEW i \in 0..Len(f), NEW j \in i..Len(f)
  PROVE  /\ LastByte(f, format, i) \in i..Len(f)
         /\ LastByte(f, format, i) <= LastByte(f, format, j)
<1>1. Len(f) \in Nat
  BY DEF IsFile
<1>2. FrameEnd(f, i) \in i..Len(f) /\ FrameEnd(f, i) <= FrameEnd(f, j)
  BY FrameEnds, FramesFollow
<1> QED
  BY <1>1, <1>2 DEF LastByte

\* One call of the decoder within a stream that goes on.
LEMMA DecoderKeeps ==
  ASSUME ReaderInv, ~stream_ended, refill_decompressed,
         Decode(trace.bytes, trace.format, decoder, comp, DECOMP_BUF_BYTES).status # "Error"
  PROVE  ReaderInv'
<1> DEFINE f == trace.bytes  format == trace.format  i == decoder.in  o == decoder.out
           d == [in |-> i, out |-> o]
           r == Decode(f, format, d, comp, DECOMP_BUF_BYTES)
           e == LastByte(f, format, i)
           left == comp - (r.in - i)
<1>1. IsFile(f) /\ DECOMP_BUF_BYTES \in Nat \ {0} /\ RECORD_SIZE \in Nat \ {0}
  BY ReaderAssumption DEF ReaderInv, SourceKept
<1>2. Len(f) \in Nat
  BY <1>1 DEF IsFile
<1>3. i \in Nat /\ o \in Nat /\ decoder = d
  BY DEF ReaderInv, SourceKept
<1>4. i \in 0..Len(f) /\ comp \in 0..(Len(f) - i) /\ i + comp = file_offset
  BY <1>2, <1>3 DEF ReaderInv, SourceKept
<1>5. o <= Yield(f, e)
  BY DEF ReaderInv, SourceKept
<1>6. /\ decomp = <<>> /\ decomp' = [k \in 1..(r.out - o) |-> o + k]
      /\ comp' = left /\ decoder' = [in |-> r.in, out |-> r.out]
      /\ stream_ended' = Ends(r.status, decoder' = decoder, left)
      /\ UNCHANGED <<trace, file_offset, file_eof, dst, reads, thrown>>
  BY <1>3, Zenon DEF refill_decompressed
<1>7. r.status \in {"Ok", "StreamEnd"}
  <2>1. r.status # "Error"
    BY <1>3
  <2> QED
    BY <2>1 DEF Decode
<1>8. /\ r.in \in i..(i + comp) /\ r.in <= e
      /\ r.out \in Nat /\ r.out >= o /\ r.out <= Yield(f, e)
      /\ r.status = "StreamEnd" =>
           format # "xz" /\ e \in 1..Len(f) /\ f[e].last /\ r.out = Yield(f, e)
      /\ r.status = "Ok" /\ format # "xz" /\ r.in = e /\ e > i /\ f[e].last => FALSE
      /\ i = Len(f) /\ r.out = o => o = Yield(f, e)
  <2> HIDE DEF f, format, i, o
  <2> QED
    BY <1>1, <1>3, <1>4, <1>5, Decodes, SMTT(30)
<1> HIDE DEF r
<1>9. r.in \in i..Len(f) /\ r.in \in Nat
  BY <1>2, <1>4, <1>8
<1>10. /\ e \in i..Len(f) /\ e <= LastByte(f, format, r.in)
       /\ LastByte(f, format, r.in) \in r.in..Len(f)
  <2> HIDE DEF f, format, i, o
  <2>1. r.in \in 0..Len(f) /\ r.in \in r.in..Len(f)
    BY <1>2, <1>4, <1>9
  <2> QED
    BY <1>1, <1>4, <1>9, <2>1, LastBytes
<1>11. r.out <= Yield(f, LastByte(f, format, r.in))
  <2> HIDE DEF f, format, i, o, e
  <2> DEFINE b == LastByte(f, format, r.in)
  <2>1. e \in 0..Len(f) /\ b \in e..Len(f)
    BY <1>2, <1>4, <1>9, <1>10
  <2> HIDE DEF b
  <2>2. Yield(f, e) \in Nat /\ Yield(f, b) \in Nat /\ Yield(f, e) <= Yield(f, b)
    BY <1>1, <2>1, Yields
  <2>3. r.out <= Yield(f, b)
    BY <1>8, <2>2
  <2> QED
    BY <2>3 DEF b
<1>12. FirstFrame(f, format, i) /\ e = LastByte(f, format, 0)
  <2>1. FirstFrame(f, format, i)
    BY DEF ReaderInv, SourceKept
  <2> HIDE DEF f, format, i, o
  <2> QED
    BY <1>1, <1>4, <2>1, SameFrame
<1>13. ASSUME r.status = "Ok" PROVE FirstFrame(f, format, r.in)
  <2> SUFFICES ASSUME format # "xz", NEW k \in 1..r.in PROVE ~f[k].last
    BY DEF FirstFrame
  <2>1. CASE k <= i
    BY <1>3, <1>9, <1>12, <2>1 DEF FirstFrame
  <2>2. CASE k > i /\ k < e
    <3>1. e = FrameEnd(f, i)
      BY DEF LastByte
    <3>2. \A m \in (i + 1)..Len(f) : m < e => ~f[m].last
      <4> HIDE DEF f, format, i, o, e
      <4> QED
        BY <1>1, <1>4, <3>1, FrameEnds
    <3>3. k \in (i + 1)..Len(f)
      BY <1>2, <1>3, <1>9, <2>2
    <3> QED
      BY <2>2, <3>2, <3>3
  <2>3. CASE k > i /\ k >= e
    <3>1. k = e /\ r.in = e /\ e > i
      BY <1>3, <1>8, <1>9, <1>10, <2>3
    <3> QED
      BY <1>8, <1>13, <3>1
  <2> QED
    BY <1>3, <1>9, <1>10, <2>1, <2>2, <2>3
<1>14. ASSUME Ends(r.status, decoder' = decoder, left)
       PROVE  r.out = Yield(f, LastByte(f, format, 0))
  <2>1. CASE r.status = "StreamEnd"
    BY <1>8, <1>12, <2>1
  <2>2. CASE decoder' = decoder /\ left = 0 /\ file_eof
    <3>1. r.in = i /\ r.out = o
      BY <1>3, <1>6, <2>2
    <3>2. comp = 0 /\ i = Len(f)
      <4>1. file_offset = Len(f)
        BY <2>2, Zenon DEF ReaderInv, SourceKept
      <4>2. comp - (i - i) = 0
        BY <2>2, <3>1
      <4> HIDE DEF f, i
      <4> QED
        BY <1>2, <1>3, <1>4, <4>1, <4>2
    <3> QED
      BY <1>8, <1>12, <3>1, <3>2
  <2> QED
    BY <1>14, <2>1, <2>2 DEF Ends
<1>15. r.status # "StreamEnd" => r.status = "Ok"
  BY <1>7
<1>16. SourceKept'
  <2>1. /\ trace' \in TraceFile /\ file_offset' \in 0..Len(trace'.bytes)
        /\ file_eof' => file_offset' = Len(trace'.bytes)
    BY <1>6 DEF ReaderInv, SourceKept
  <2>2. comp' \in Nat /\ decoder' \in [in : Nat, out : Nat] /\ decoder'.in + comp' = file_offset'
    BY <1>3, <1>4, <1>6, <1>8, <1>9
  <2>3. decoder'.out <= Yield(trace'.bytes, LastByte(trace'.bytes, trace'.format, decoder'.in))
    BY <1>6, <1>11
  <2>4. ~stream_ended' => FirstFrame(trace'.bytes, trace'.format, decoder'.in)
    BY <1>6, <1>13, <1>15 DEF Ends
  <2>5. stream_ended' => decoder'.out = Readable(trace'.bytes, trace'.format)
    BY <1>6, <1>14 DEF Readable
  <2> QED
    BY <2>1, <2>2, <2>3, <2>4, <2>5 DEF SourceKept
<1>17. BytesKept'
  <2> DEFINE n == r.out - o
  <2>1. n \in Nat /\ decoder'.out = o + n
    BY <1>3, <1>6, <1>8
  <2>2. decomp' \in Seq(Nat) /\ Len(decomp') = n /\ \A k \in 1..n : decomp'[k] = o + k
    <3>1. decomp' = [k \in 1..n |-> o + k]
      BY <1>6
    <3> HIDE DEF n, o
    <3> QED
      BY <1>3, <2>1, <3>1
  <2>3. o = reads * RECORD_SIZE + Len(dst) /\ Len(decomp) = 0
    BY <1>1, <1>6 DEF ReaderInv, BytesKept
  <2> HIDE DEF n, o
  <2> QED
    BY <1>6, <2>1, <2>2, <2>3 DEF ReaderInv, BytesKept
<1> QED
  BY <1>16, <1>17 DEF ReaderInv

\* Bytes after bytes.
LEMMA BytesJoined ==
  ASSUME NEW x \in Seq(Nat), NEW y \in Seq(Nat)
  PROVE  /\ x \o y \in Seq(Nat) /\ Len(x \o y) = Len(x) + Len(y)
         /\ \A i \in 1..Len(x) : (x \o y)[i] = x[i]
         /\ \A i \in 1..Len(y) : (x \o y)[Len(x) + i] = y[i]
OBVIOUS

\* What is left of bytes when the first n are taken.
LEMMA BytesLeft ==
  ASSUME NEW x \in Seq(Nat), NEW n \in 1..Len(x)
  PROVE  /\ SubSeq(x, n + 1, Len(x)) \in Seq(Nat)
         /\ Len(SubSeq(x, n + 1, Len(x))) = Len(x) - n
         /\ \A i \in 1..(Len(x) - n) : SubSeq(x, n + 1, Len(x))[i] = x[n + i]
OBVIOUS

\* One copy of read_bytes.
LEMMA CopyKeeps ==
  ASSUME ReaderInv, read_bytes
  PROVE  ReaderInv'
<1> DEFINE n == Min({Len(decomp), RECORD_SIZE - Len(dst)})
           front == SubSeq(decomp, 1, n)
<1>1. /\ n > 0 /\ dst' = dst \o front
      /\ decomp' = SubSeq(decomp, n + 1, Len(decomp))
      /\ UNCHANGED <<trace, file_offset, comp, decoder, file_eof, stream_ended, reads, thrown>>
  BY DEF read_bytes
<1>2. /\ RECORD_SIZE \in Nat \ {0} /\ Len(dst) \in Nat /\ Len(decomp) \in Nat
      /\ reads \in Nat /\ dst \in Seq(Nat) /\ decomp \in Seq(Nat) /\ Len(dst) <= RECORD_SIZE
  BY ReaderAssumption DEF ReaderInv, BytesKept
<1>3. /\ \A i \in 1..Len(dst) : dst[i] = reads * RECORD_SIZE + i
      /\ \A i \in 1..Len(decomp) : decomp[i] = reads * RECORD_SIZE + Len(dst) + i
      /\ decoder.out = reads * RECORD_SIZE + Len(dst) + Len(decomp)
  BY DEF ReaderInv, BytesKept
<1>4. n = IF Len(decomp) <= RECORD_SIZE - Len(dst) THEN Len(decomp) ELSE RECORD_SIZE - Len(dst)
  BY <1>2, TwoNumbers
<1>5. n \in 1..Len(decomp) /\ n <= RECORD_SIZE - Len(dst)
  BY <1>1, <1>2, <1>4, SMTT(30)
<1> DEFINE b == reads * RECORD_SIZE
<1>6. b \in Nat
  BY <1>2
<1> HIDE DEF n, b
<1>7. front \in Seq(Nat) /\ Len(front) = n /\ \A i \in 1..n : front[i] = decomp[i]
  BY <1>2, <1>5
<1>8. /\ decomp' \in Seq(Nat) /\ Len(decomp') = Len(decomp) - n
      /\ \A i \in 1..(Len(decomp) - n) : decomp'[i] = decomp[n + i]
  BY <1>1, <1>2, <1>5, BytesLeft, Zenon
<1> HIDE DEF front
<1>9. /\ dst' \in Seq(Nat) /\ Len(dst') = Len(dst) + n
      /\ \A i \in 1..Len(dst) : dst'[i] = dst[i]
      /\ \A i \in 1..n : dst'[Len(dst) + i] = front[i]
  BY <1>1, <1>2, <1>7, BytesJoined, Zenon
<1>10. \A i \in 1..Len(dst') : dst'[i] = b + i
  <2> SUFFICES ASSUME NEW i \in 1..Len(dst') PROVE dst'[i] = b + i
    OBVIOUS
  <2>1. CASE i <= Len(dst)
    BY <1>2, <1>3, <1>9, <2>1 DEF b
  <2>2. CASE i > Len(dst)
    <3> DEFINE j == i - Len(dst)
    <3>1. j \in 1..n /\ i = Len(dst) + j
      BY <1>2, <1>5, <1>9, <2>2
    <3> HIDE DEF j
    <3>2. dst'[i] = decomp[j] /\ j \in 1..Len(decomp)
      <4>1. j \in 1..Len(decomp)
        BY <1>2, <1>5, <3>1
      <4>2. dst'[Len(dst) + j] = front[j] /\ front[j] = decomp[j]
        BY <1>7, <1>9, <3>1
      <4> QED
        BY <3>1, <4>1, <4>2
    <3>3. decomp[j] = b + Len(dst) + j
      BY <1>3, <3>2 DEF b
    <3> QED
      BY <1>2, <1>5, <1>6, <3>1, <3>2, <3>3
  <2> QED
    BY <1>2, <1>5, <1>9, <2>1, <2>2
<1>11. \A i \in 1..Len(decomp') : decomp'[i] = b + Len(dst') + i
  <2> SUFFICES ASSUME NEW i \in 1..Len(decomp') PROVE decomp'[i] = b + Len(dst') + i
    OBVIOUS
  <2>1. n + i \in 1..Len(decomp) /\ decomp'[i] = decomp[n + i]
    <3>1. PICK c, d \in Nat : c = Len(decomp) /\ d = Len(decomp')
      BY <1>2, <1>8, LenProperties
    <3>2. n \in 1..c /\ d = c - n /\ i \in 1..d
      BY <1>5, <1>8, <3>1, Zenon
    <3>3. n + i \in 1..c /\ i \in 1..(c - n)
      BY <3>1, <3>2
    <3> QED
      BY <1>8, <3>1, <3>3, Zenon
  <2>2. decomp[n + i] = b + Len(dst) + (n + i)
    BY <1>3, <2>1 DEF b
  <2> QED
    BY <1>2, <1>5, <1>6, <1>8, <1>9, <2>1, <2>2
<1>12. decoder'.out = b + Len(dst') + Len(decomp')
  <2>1. decoder.out = b + Len(dst) + Len(decomp) /\ decoder' = decoder
    BY <1>1, <1>3 DEF b
  <2> QED
    BY <1>2, <1>5, <1>6, <1>8, <1>9, <2>1
<1>13. BytesKept'
  <2>1. Len(dst') <= RECORD_SIZE
    BY <1>2, <1>5, <1>9
  <2>2. reads' \in Nat /\ reads' * RECORD_SIZE = b
    BY <1>1, <1>2 DEF b
  <2> QED
    BY <1>8, <1>9, <1>10, <1>11, <1>12, <2>1, <2>2 DEF BytesKept
<1>14. SourceKept'
  BY <1>1 DEF ReaderInv, SourceKept
<1> QED
  BY <1>13, <1>14 DEF ReaderInv

\* The state after open_file and rewind_state.
LEMMA ReaderStarts ==
  ASSUME NEW t \in TraceFile
  PROVE  /\ Len(t.bytes) \in Nat /\ 0 \in 0..Len(t.bytes)
         /\ Fresh \in [in : Nat, out : Nat] /\ Fresh.in = 0 /\ Fresh.out = 0
         /\ 0 <= Yield(t.bytes, LastByte(t.bytes, t.format, 0))
         /\ FirstFrame(t.bytes, t.format, 0)
<1> DEFINE f == t.bytes
<1>1. IsFile(f)
  BY ReaderAssumption
<1>2. Len(f) \in Nat
  BY <1>1 DEF IsFile
<1>3. 0 \in 0..Len(f)
  BY <1>2
<1>4. LastByte(f, t.format, 0) \in 0..Len(f)
  <2> HIDE DEF f
  <2> QED
    BY <1>1, <1>3, LastBytes
<1>5. Yield(f, LastByte(f, t.format, 0)) \in Nat
  <2> DEFINE b == LastByte(f, t.format, 0)
  <2>1. b \in 0..Len(f) /\ b \in b..Len(f)
    BY <1>2, <1>4
  <2> HIDE DEF f, b
  <2>2. Yield(f, b) \in Nat
    BY <1>1, <2>1, Yields
  <2> QED
    BY <2>2 DEF b
<1> QED
  BY <1>2, <1>3, <1>5 DEF Fresh, FirstFrame

\* For every file, whatever each read(2) returns and however the decoder cuts its
\* output, the records are the bytes of the trace in order, and a read fails only when
\* all that can be had is read (TraceReader::Impl::refill_decompressed, read_bytes).
THEOREM RecordsStayExact == ReaderSpec => []RecordsExact
<1>1. ReaderInit => ReaderInv
  <2> SUFFICES ASSUME ReaderInit PROVE ReaderInv
    OBVIOUS
  <2>1. trace \in TraceFile
    BY DEF ReaderInit
  <2>2. /\ Len(trace.bytes) \in Nat /\ 0 \in 0..Len(trace.bytes)
        /\ Fresh \in [in : Nat, out : Nat] /\ Fresh.in = 0 /\ Fresh.out = 0
        /\ 0 <= Yield(trace.bytes, LastByte(trace.bytes, trace.format, 0))
        /\ FirstFrame(trace.bytes, trace.format, 0)
    BY <2>1, ReaderStarts
  <2>3. SourceKept
    BY <2>1, <2>2 DEF ReaderInit, SourceKept
  <2>4. BytesKept
    BY <2>2, ReaderAssumption DEF ReaderInit, BytesKept
  <2> QED
    BY <2>3, <2>4 DEF ReaderInv
<1>2. ReaderInv /\ [ReaderNext]_readerVars => ReaderInv'
  <2> SUFFICES ASSUME ReaderInv, [ReaderNext]_readerVars PROVE ReaderInv'
    OBVIOUS
  <2>1. CASE refill_compressed
    <3>1. UNCHANGED <<trace, decoder, decomp, stream_ended, dst, reads>> /\ comp = 0
      BY <2>1 DEF refill_compressed
    <3>2. BytesKept'
      BY <3>1 DEF ReaderInv, BytesKept
    <3>3. IsFile(trace.bytes)
      BY ReaderAssumption DEF ReaderInv, SourceKept
    <3>4. Len(trace.bytes) \in Nat /\ COMP_BUF_BYTES \in Nat
      BY <3>3, ReaderAssumption DEF IsFile
    <3>5. /\ file_offset' \in 0..Len(trace.bytes) /\ comp' \in Nat
          /\ decoder.in + comp' = file_offset'
          /\ file_eof' => file_offset' = Len(trace.bytes)
      <4>1. /\ file_offset \in 0..Len(trace.bytes) /\ decoder.in \in Nat
            /\ decoder.in + comp = file_offset
        BY DEF ReaderInv, SourceKept
      <4>2. ASSUME NEW n \in 1..Min({COMP_BUF_BYTES, Len(trace.bytes) - file_offset}),
                   file_offset' = file_offset + n, comp' = n, UNCHANGED file_eof, ~file_eof
            PROVE  file_offset' \in 0..Len(trace.bytes) /\ comp' \in Nat
                     /\ decoder.in + comp' = file_offset' /\ ~file_eof'
        <5> DEFINE m == Len(trace.bytes) - file_offset
        <5>1. m \in Int
          BY <3>4, <4>1
        <5>2. Min({COMP_BUF_BYTES, m}) = IF COMP_BUF_BYTES <= m THEN COMP_BUF_BYTES ELSE m
          <6> HIDE DEF m
          <6> QED
            BY <3>4, <5>1, TwoNumbers
        <5>3. n \in Nat /\ n <= m
          BY <3>4, <4>2, <5>1, <5>2
        <5> QED
          BY <3>1, <3>4, <4>1, <4>2, <5>3
      <4>3. ASSUME file_offset = Len(trace.bytes), UNCHANGED <<file_offset, comp>>
            PROVE  file_offset' \in 0..Len(trace.bytes) /\ comp' \in Nat
                     /\ decoder.in + comp' = file_offset' /\ file_offset' = Len(trace.bytes)
        BY <3>1, <3>4, <4>1, <4>3
      <4> QED
        BY <2>1, <4>2, <4>3 DEF refill_compressed
    <3> QED
      BY <3>1, <3>2, <3>5 DEF ReaderInv, SourceKept
  <2>2. CASE refill_decompressed
    <3>1. CASE Decode(trace.bytes, trace.format, decoder, comp, DECOMP_BUF_BYTES).status = "Error"
      <4>1. UNCHANGED <<trace, file_offset, file_eof, dst, reads, comp, decoder, decomp,
                        stream_ended>>
        BY <2>2, <3>1 DEF refill_decompressed
      <4> QED
        BY <4>1 DEF ReaderInv, SourceKept, BytesKept
    <3>2. CASE Decode(trace.bytes, trace.format, decoder, comp, DECOMP_BUF_BYTES).status # "Error"
      <4>1. ~stream_ended
        BY <2>2 DEF refill_decompressed
      <4> QED
        BY <2>2, <3>2, <4>1, DecoderKeeps
    <3> QED
      BY <3>1, <3>2
  <2>3. CASE read_bytes
    BY <2>3, CopyKeeps
  <2>4. CASE ReadOk
    <3>1. /\ Len(dst) = RECORD_SIZE /\ dst' = <<>> /\ reads' = reads + 1
          /\ UNCHANGED <<trace, file_offset, comp, decoder, decomp, file_eof, stream_ended>>
      BY <2>4 DEF ReadOk, buffers
    <3>2. RECORD_SIZE \in Nat \ {0} /\ reads \in Nat /\ Len(decomp) \in Nat
      BY ReaderAssumption DEF ReaderInv, BytesKept
    <3>3. /\ reads' \in Nat /\ dst' \in Seq(Nat) /\ Len(dst') = 0
          /\ reads' * RECORD_SIZE = reads * RECORD_SIZE + RECORD_SIZE
      BY <3>1, <3>2
    <3>4. BytesKept'
      <4> DEFINE b == reads * RECORD_SIZE
      <4>1. b \in Nat /\ reads' * RECORD_SIZE = b + RECORD_SIZE
        <5>1. b \in Nat
          BY <3>2
        <5> QED
          BY <3>3, <5>1
      <4>2. /\ \A i \in 1..Len(decomp) : decomp[i] = b + RECORD_SIZE + i
            /\ decoder.out = b + RECORD_SIZE + Len(decomp)
        BY <3>1 DEF ReaderInv, BytesKept
      <4> HIDE DEF b
      <4> QED
        BY <3>1, <3>2, <3>3, <4>1, <4>2 DEF ReaderInv, BytesKept
    <3> QED
      BY <3>1, <3>4 DEF ReaderInv, SourceKept
  <2>5. CASE Rewind
    <3>1. /\ file_offset' = 0 /\ comp' = 0 /\ decoder' = Fresh /\ decomp' = <<>>
          /\ file_eof' = FALSE /\ stream_ended' = FALSE /\ dst' = <<>> /\ reads' = 0
          /\ trace' = trace
      BY <2>5 DEF Rewind, rewind_state, Started
    <3>2. trace \in TraceFile
      BY DEF ReaderInv, SourceKept
    <3>3. /\ Len(trace.bytes) \in Nat /\ 0 \in 0..Len(trace.bytes)
          /\ Fresh \in [in : Nat, out : Nat] /\ Fresh.in = 0 /\ Fresh.out = 0
          /\ 0 <= Yield(trace.bytes, LastByte(trace.bytes, trace.format, 0))
          /\ FirstFrame(trace.bytes, trace.format, 0)
      BY <3>2, ReaderStarts
    <3>4. SourceKept'
      BY <3>1, <3>2, <3>3 DEF SourceKept
    <3>5. BytesKept'
      BY <3>1, <3>3, ReaderAssumption DEF BytesKept
    <3> QED
      BY <3>4, <3>5 DEF ReaderInv
  <2>6. CASE UNCHANGED readerVars
    BY <2>6 DEF readerVars, buffers, ReaderInv, SourceKept, BytesKept
  <2> QED
    BY <2>1, <2>2, <2>3, <2>4, <2>5, <2>6 DEF ReaderNext
<1>3. ReaderInv => RecordsExact
  <2> SUFFICES ASSUME ReaderInv PROVE RecordsExact
    OBVIOUS
  <2>1. reads \in Nat /\ RECORD_SIZE \in Nat /\ Len(dst) \in Nat
    BY ReaderAssumption DEF ReaderInv, BytesKept
  <2>2. decomp = <<>> => decoder.out = reads * RECORD_SIZE + Len(dst)
    <3>1. decoder.out = reads * RECORD_SIZE + Len(dst) + Len(decomp)
      BY DEF ReaderInv, BytesKept
    <3>2. reads * RECORD_SIZE \in Nat
      BY <2>1
    <3> QED
      BY <2>1, <3>1, <3>2
  <2> QED
    BY <2>2 DEF ReaderInv, SourceKept, BytesKept, RecordsExact
<1> QED
  BY <1>1, <1>2, <1>3, PTL DEF ReaderSpec

-----------------------------------------------------------------------------
(***************************************************************************)
(* The cutter.  What was decoded is the records handed out, the carry and  *)
(* what is left of the piece, one byte after the other; all chunks written *)
(* before the end are full.                                                *)
(***************************************************************************)

\* The number of records in n full chunks and m records of another.
LEMMA Products ==
  ASSUME NEW n \in Nat, NEW m \in Nat
  PROVE  n * m \in Nat /\ (n + 1) * m = n * m + m
OBVIOUS

\* Division leaves the remainder.
LEMMA Divided ==
  ASSUME NEW n \in Nat, NEW c \in Nat \ {0}, NEW r \in 0..(c - 1)
  PROVE  (n * c + r) \div c = n
OBVIOUS

\* The records handed out.
Emitted == Len(chunks) * NUM_INSTR + Len(chunk)

InputKept ==
  /\ input \in Input /\ input # <<>>
  /\ zin \in [in : Nat, out : Nat] /\ zin.in <= Len(input)
  /\ zin.out <= Yield(input, LastByte(input, "zst", zin.in))
  /\ zin.in = Len(input) /\ input[Len(input)].last => zin.out = Yield(input, Len(input))

Consumed ==
  /\ carry \in Seq(Nat) /\ piece \in Seq(Nat) /\ Len(carry) < CUT_RECORD
  /\ \A i \in 1..Len(carry) : carry[i] = Emitted * CUT_RECORD + i
  /\ \A i \in 1..Len(piece) : piece[i] = Emitted * CUT_RECORD + Len(carry) + i
  /\ zin.out = Emitted * CUT_RECORD + Len(carry) + Len(piece)

ChunksTyped ==
  /\ chunk \in Seq(Seq(Nat)) /\ Len(chunk) < NUM_INSTR
  /\ chunks \in Seq(Seq(Seq(Nat)))
  /\ ended \in {"no", "done", "error"}

CutterInv ==
  /\ InputKept /\ ChunksTyped /\ ChunksExact
  /\ ended = "no" => Consumed
  /\ ended # "no" => piece = <<>>

\* The constants of the cutter.
LEMMA CutterSizes ==
  /\ CUT_RECORD \in Nat \ {0} /\ DEC_BUF \in Nat \ {0} /\ NUM_INSTR \in Nat \ {0}
  /\ \A f \in Input : IsFile(f)
BY CutterAssumption

\* The records handed out and their bytes are numbers.
LEMMA EmittedCount ==
  ASSUME ChunksTyped
  PROVE  /\ Emitted \in Nat /\ Emitted * CUT_RECORD \in Nat
         /\ Len(chunks) \in Nat /\ Len(chunk) \in Nat
<1>1. Len(chunks) \in Nat /\ Len(chunk) \in Nat
  BY DEF ChunksTyped
<1>2. Len(chunks) * NUM_INSTR \in Nat
  BY <1>1, CutterSizes
<1>3. Emitted \in Nat
  BY <1>1, <1>2 DEF Emitted
<1> QED
  BY <1>1, <1>3, CutterSizes

\* One call of the decoder.
LEMMA CutterDecodes ==
  ASSUME CutterInv, Decompress
  PROVE  CutterInv'
<1> DEFINE i == zin.in  o == zin.out
           d == [in |-> i, out |-> o]
           r == Decode(input, "zst", d, Len(input) - i, DEC_BUF)
           e == LastByte(input, "zst", i)
<1>1. /\ ended = "no" /\ piece = <<>> /\ i < Len(input)
      /\ UNCHANGED <<input, carry, chunk, chunks>>
  BY DEF Decompress
<1>2. IsFile(input) /\ DEC_BUF \in Nat \ {0}
  BY CutterSizes DEF CutterInv, InputKept
<1>3. Len(input) \in Nat
  BY <1>2 DEF IsFile
<1>4. i \in Nat /\ o \in Nat /\ zin = d
  BY DEF CutterInv, InputKept
<1>5. CASE r.status = "Error"
  <2>1. ended' = "error" /\ UNCHANGED <<zin, piece>>
    BY <1>4, <1>5 DEF Decompress
  <2>2. ChunksExact'
    BY <1>1, <2>1 DEF CutterInv, ChunksExact, RecordAt
  <2> QED
    BY <1>1, <2>1, <2>2 DEF CutterInv, InputKept, ChunksTyped
<1>6. CASE r.status # "Error"
  <2>1. /\ zin' = [in |-> r.in, out |-> r.out]
        /\ piece' = [k \in 1..(r.out - o) |-> o + k]
        /\ ended' = "no"
    BY <1>1, <1>4, <1>6, Zenon DEF Decompress
  <2>2. i \in 0..Len(input) /\ Len(input) - i \in 0..(Len(input) - i)
    BY <1>1, <1>3, <1>4
  <2>3. o <= Yield(input, e)
    BY DEF CutterInv, InputKept
  <2>4. /\ r.in \in i..(i + (Len(input) - i)) /\ r.in <= e
        /\ r.out \in Nat /\ r.out >= o /\ r.out <= Yield(input, e)
        /\ r.in = e /\ e > i /\ "zst" # "xz" /\ input[e].last => r.out = Yield(input, e)
    <3> HIDE DEF i, o
    <3> QED
      BY <1>2, <1>4, <2>2, <2>3, Decodes
  <2> HIDE DEF r
  <2>5. r.in \in i..Len(input) /\ r.in \in Nat
    <3> HIDE DEF i, o
    <3>1. i + (Len(input) - i) = Len(input)
      BY <1>3, <1>4
    <3> QED
      BY <1>3, <1>4, <2>4, <3>1
  <2> DEFINE b == LastByte(input, "zst", r.in)
  <2>6. e \in i..Len(input) /\ e <= b /\ b \in r.in..Len(input)
    <3>1. r.in \in 0..Len(input) /\ r.in \in r.in..Len(input)
      BY <1>3, <1>4, <2>5
    <3> HIDE DEF i, o
    <3> QED
      BY <1>2, <2>2, <2>5, <3>1, LastBytes
  <2> HIDE DEF b
  <2>7. r.out <= Yield(input, b)
    <3> HIDE DEF i, o, e
    <3>1. e \in 0..Len(input) /\ b \in e..Len(input)
      BY <1>3, <1>4, <2>5, <2>6
    <3>2. Yield(input, e) \in Nat /\ Yield(input, b) \in Nat /\ Yield(input, e) <= Yield(input, b)
      BY <1>2, <3>1, Yields
    <3> QED
      BY <2>4, <3>2
  <2>8. r.in = Len(input) /\ input[Len(input)].last => r.out = Yield(input, Len(input))
    <3> SUFFICES ASSUME r.in = Len(input), input[Len(input)].last
                 PROVE  r.out = Yield(input, Len(input))
      OBVIOUS
    <3>1. e = Len(input)
      BY <1>3, <1>4, <2>4, <2>6
    <3> HIDE DEF i, o, e
    <3> QED
      BY <1>1, <2>4, <3>1
  <2>9. InputKept'
    BY <1>1, <2>1, <2>4, <2>5, <2>7, <2>8 DEF CutterInv, InputKept, b
  <2>10. Consumed'
    <3> DEFINE n == r.out - o
               t == Emitted * CUT_RECORD
    <3>1. n \in Nat /\ r.out = o + n
      BY <1>4, <2>4
    <3>2. piece' \in Seq(Nat) /\ Len(piece') = n /\ \A k \in 1..n : piece'[k] = o + k
      <4>1. piece' = [k \in 1..n |-> o + k]
        BY <2>1
      <4> HIDE DEF n, o
      <4> QED
        BY <1>4, <3>1, <4>1
    <3>3. /\ carry \in Seq(Nat) /\ Len(carry) < CUT_RECORD
          /\ \A k \in 1..Len(carry) : carry[k] = t + k
          /\ o = t + Len(carry) + Len(piece)
      BY <1>1 DEF CutterInv, Consumed
    <3>4. Len(piece) = 0 /\ Len(carry) \in Nat
      BY <1>1, <3>3
    <3>5. Emitted' = Emitted
      BY <1>1 DEF Emitted
    <3>6. t \in Nat
      BY EmittedCount DEF CutterInv
    <3>7. zin'.out = o + n
      BY <2>1, <3>1
    <3>8. o = t + Len(carry)
      BY <3>3, <3>4, <3>6
    <3>9. Emitted' * CUT_RECORD = t
      BY <3>5
    <3> HIDE DEF n, o, t
    <3> QED
      BY <1>1, <3>1, <3>2, <3>3, <3>4, <3>6, <3>7, <3>8, <3>9 DEF Consumed
  <2>11. ChunksExact'
    BY <1>1, <2>1 DEF CutterInv, ChunksExact, RecordAt
  <2> QED
    BY <1>1, <2>1, <2>9, <2>10, <2>11 DEF CutterInv, ChunksTyped
<1> QED
  BY <1>5, <1>6

\* A record is handed out: it is the next one, and the chunks keep their order.
LEMMA EmitKeeps ==
  ASSUME ChunksTyped, ChunksExact, ended = "no", UNCHANGED <<ended, input>>, NEW rec \in Seq(Nat),
         rec = RecordAt(Emitted + 1), emit_records(rec)
  PROVE  ChunksTyped' /\ ChunksExact' /\ Emitted' = Emitted + 1
<1> DEFINE c == Append(chunk, rec)
           n == Len(chunks)
           b == n * NUM_INSTR
<1>1. /\ n \in Nat /\ Len(chunk) \in Nat /\ NUM_INSTR \in Nat \ {0} /\ b \in Nat
      /\ (n + 1) * NUM_INSTR = b + NUM_INSTR
  BY EmittedCount, CutterSizes, Products
<1>2. /\ chunk \in Seq(Seq(Nat)) /\ Len(chunk) < NUM_INSTR /\ chunks \in Seq(Seq(Seq(Nat)))
  BY DEF ChunksTyped
<1>3. /\ c \in Seq(Seq(Nat)) /\ Len(c) = Len(chunk) + 1
      /\ \A m \in 1..Len(chunk) : c[m] = chunk[m]
      /\ c[Len(chunk) + 1] = rec
  BY <1>2
<1>4. Emitted = b + Len(chunk)
  BY DEF Emitted
<1>5. \A m \in 1..Len(c) : c[m] = RecordAt(b + m)
  <2> SUFFICES ASSUME NEW m \in 1..Len(c) PROVE c[m] = RecordAt(b + m)
    OBVIOUS
  <2>1. CASE m <= Len(chunk)
    <3>1. chunk[m] = RecordAt(b + m)
      <4>1. m \in 1..Len(chunk)
        BY <1>1, <1>3, <2>1
      <4> QED
        BY <4>1, Zenon DEF ChunksExact
    <3> QED
      BY <1>1, <1>3, <2>1, <3>1
  <2>2. CASE m > Len(chunk)
    <3>1. m = Len(chunk) + 1
      BY <1>1, <1>3, <2>2
    <3>2. Emitted + 1 = b + m
      BY <1>1, <1>4, <3>1
    <3> QED
      BY <1>3, <3>1, <3>2
  <2> QED
    BY <1>1, <1>3, <2>1, <2>2
<1>6. \A k \in 1..n : /\ Len(chunks[k]) = NUM_INSTR
                      /\ \A m \in 1..NUM_INSTR : chunks[k][m] = RecordAt((k - 1) * NUM_INSTR + m)
  BY DEF ChunksExact
<1> HIDE DEF c, b
<1>7. CASE Len(c) = NUM_INSTR
  <2>1. chunk' = <<>> /\ chunks' = Append(chunks, c)
    BY <1>7 DEF emit_records, c
  <2>2. /\ chunks' \in Seq(Seq(Seq(Nat))) /\ Len(chunks') = n + 1
        /\ \A k \in 1..n : chunks'[k] = chunks[k]
        /\ chunks'[n + 1] = c
    BY <1>2, <1>3, <2>1
  <2>3. ChunksTyped'
    BY <1>1, <2>1, <2>2 DEF ChunksTyped
  <2>4. ASSUME NEW k \in 1..(n + 1)
        PROVE  /\ Len(chunks'[k]) = NUM_INSTR
               /\ \A m \in 1..NUM_INSTR : chunks'[k][m] = RecordAt((k - 1) * NUM_INSTR + m)
    <3>1. CASE k \in 1..n
      BY <1>6, <2>2, <3>1
    <3>2. CASE k \notin 1..n
      <4>1. k = n + 1 /\ k - 1 = n
        BY <1>1, <3>2
      <4> QED
        BY <1>5, <1>7, <2>2, <4>1 DEF b
    <3> QED
      BY <3>1, <3>2
  <2>5. ChunksExact'
    <3>1. Len(chunk') = 0 /\ \A m \in Nat : RecordAt(m)' = RecordAt(m)
      BY <2>1 DEF RecordAt
    <3>2. NUM_INSTR \in 1..NUM_INSTR
      BY <1>1
    <3> HIDE DEF n
    <3>3. \A k \in 1..Len(chunks') :
            /\ Len(chunks'[k]) \in 1..NUM_INSTR
            /\ Len(chunks'[k]) = NUM_INSTR
            /\ \A m \in 1..Len(chunks'[k]) : chunks'[k][m] = RecordAt((k - 1) * NUM_INSTR + m)
      BY <2>2, <2>4, <3>2
    <3> QED
      BY <3>1, <3>3 DEF ChunksExact, RecordAt
  <2>6. Emitted' = Emitted + 1
    <3>1. Emitted' = (n + 1) * NUM_INSTR + 0
      BY <2>1, <2>2 DEF Emitted
    <3>2. Emitted' = b + NUM_INSTR
      BY <1>1, <3>1
    <3>3. NUM_INSTR = Len(chunk) + 1
      BY <1>3, <1>7
    <3> HIDE DEF n
    <3> QED
      BY <1>1, <1>4, <3>2, <3>3
  <2> QED
    BY <2>3, <2>5, <2>6
<1>8. CASE Len(c) # NUM_INSTR
  <2>1. chunk' = c /\ chunks' = chunks
    BY <1>8 DEF emit_records, c
  <2>2. ChunksTyped'
    BY <1>1, <1>2, <1>3, <1>8, <2>1 DEF ChunksTyped
  <2>3. ChunksExact'
    BY <1>5, <2>1 DEF ChunksExact, RecordAt, b
  <2>4. Emitted' = Emitted + 1
    <3>1. Emitted' = b + Len(c)
      BY <2>1 DEF Emitted, b
    <3> QED
      BY <1>1, <1>3, <1>4, <3>1
  <2> QED
    BY <2>2, <2>3, <2>4
<1> QED
  BY <1>7, <1>8

\* One record's worth of consume_decompressed.
LEMMA CutterConsumes ==
  ASSUME CutterInv, consume_decompressed
  PROVE  CutterInv'
<1> DEFINE n == Min({CUT_RECORD - Len(carry), Len(piece)})
           front == SubSeq(piece, 1, n)
           rec == carry \o front
           t == Emitted * CUT_RECORD
<1>1. piece # <<>> /\ ended = "no" /\ UNCHANGED <<input, zin, ended>>
  BY DEF consume_decompressed, CutterInv
<1>2. /\ carry \in Seq(Nat) /\ piece \in Seq(Nat) /\ Len(carry) < CUT_RECORD
      /\ \A i \in 1..Len(carry) : carry[i] = t + i
      /\ \A i \in 1..Len(piece) : piece[i] = t + Len(carry) + i
      /\ zin.out = t + Len(carry) + Len(piece)
  BY <1>1 DEF CutterInv, Consumed
<1>3. /\ CUT_RECORD \in Nat \ {0} /\ Len(carry) \in Nat /\ Len(piece) \in Nat \ {0}
      /\ Emitted \in Nat /\ t \in Nat
  BY <1>1, <1>2, EmittedCount, CutterSizes DEF CutterInv
<1>4. n = IF CUT_RECORD - Len(carry) <= Len(piece) THEN CUT_RECORD - Len(carry) ELSE Len(piece)
  BY <1>3, TwoNumbers
<1>5. n \in 1..Len(piece) /\ n <= CUT_RECORD - Len(carry)
  BY <1>2, <1>3, <1>4
<1>6. piece' = SubSeq(piece, n + 1, Len(piece))
  BY DEF consume_decompressed
<1>7. IF Len(rec) = CUT_RECORD THEN carry' = <<>> /\ emit_records(rec)
      ELSE carry' = rec /\ UNCHANGED <<chunk, chunks>>
  BY DEF consume_decompressed, Carried
<1> HIDE DEF n, t
<1>8. front \in Seq(Nat) /\ Len(front) = n /\ \A i \in 1..n : front[i] = piece[i]
  BY <1>2, <1>3, <1>5
<1>9. /\ piece' \in Seq(Nat) /\ Len(piece') = Len(piece) - n
      /\ \A i \in 1..(Len(piece) - n) : piece'[i] = piece[n + i]
  BY <1>2, <1>5, <1>6, BytesLeft, Zenon
<1> HIDE DEF front
<1>10. /\ rec \in Seq(Nat) /\ Len(rec) = Len(carry) + n
       /\ \A i \in 1..Len(carry) : rec[i] = carry[i]
       /\ \A i \in 1..n : rec[Len(carry) + i] = front[i]
  BY <1>2, <1>8, BytesJoined, Zenon
<1> HIDE DEF rec
<1>11. \A i \in 1..Len(rec) : rec[i] = t + i
  <2> SUFFICES ASSUME NEW i \in 1..Len(rec) PROVE rec[i] = t + i
    OBVIOUS
  <2>1. CASE i <= Len(carry)
    BY <1>2, <1>3, <1>10, <2>1
  <2>2. CASE i > Len(carry)
    <3> DEFINE j == i - Len(carry)
    <3>1. j \in 1..n /\ i = Len(carry) + j /\ j \in 1..Len(piece)
      BY <1>3, <1>5, <1>10, <2>2
    <3> HIDE DEF j
    <3>2. rec[Len(carry) + j] = front[j] /\ front[j] = piece[j] /\ piece[j] = t + Len(carry) + j
      BY <1>2, <1>8, <1>10, <3>1
    <3> QED
      BY <1>3, <3>1, <3>2
  <2> QED
    BY <1>3, <1>5, <1>10, <2>1, <2>2
<1>12. \A i \in 1..Len(piece') : piece'[i] = t + Len(rec) + i
  <2> SUFFICES ASSUME NEW i \in 1..Len(piece') PROVE piece'[i] = t + Len(rec) + i
    OBVIOUS
  <2>1. n + i \in 1..Len(piece) /\ piece'[i] = piece[n + i]
    BY <1>3, <1>5, <1>9
  <2>2. piece[n + i] = t + Len(carry) + (n + i)
    BY <1>2, <2>1
  <2> QED
    BY <1>3, <1>5, <1>9, <1>10, <2>1, <2>2
<1>13. zin'.out = t + Len(rec) + Len(piece')
  BY <1>1, <1>2, <1>3, <1>5, <1>9, <1>10
<1>14. InputKept'
  BY <1>1 DEF CutterInv, InputKept
<1>15. CASE Len(rec) = CUT_RECORD
  <2>1. carry' = <<>> /\ emit_records(rec)
    BY <1>7, <1>15
  <2>2. rec = RecordAt(Emitted + 1)
    <3>1. (Emitted + 1) - 1 = Emitted
      BY <1>3
    <3>2. rec = [i \in 1..CUT_RECORD |-> t + i]
      BY <1>10, <1>11, <1>15
    <3> QED
      BY <3>1, <3>2 DEF RecordAt, t
  <2>3. ChunksTyped' /\ ChunksExact' /\ Emitted' = Emitted + 1
    BY <1>1, <1>10, <2>1, <2>2, EmitKeeps DEF CutterInv
  <2>4. Emitted' * CUT_RECORD = t + CUT_RECORD
    BY <1>3, <2>3, Products DEF t
  <2>5. carry' \in Seq(Nat) /\ Len(carry') = 0
    BY <2>1
  <2>6. Consumed'
    BY <1>3, <1>9, <1>12, <1>13, <1>15, <2>4, <2>5 DEF Consumed
  <2> QED
    BY <1>1, <1>14, <2>3, <2>6 DEF CutterInv
<1>16. CASE Len(rec) # CUT_RECORD
  <2>1. carry' = rec /\ UNCHANGED <<chunk, chunks>>
    BY <1>7, <1>16
  <2>2. Emitted' * CUT_RECORD = t
    BY <2>1 DEF Emitted, t
  <2>3. Len(rec) < CUT_RECORD
    BY <1>3, <1>5, <1>10, <1>16
  <2>4. Consumed'
    BY <1>9, <1>10, <1>11, <1>12, <1>13, <2>1, <2>2, <2>3 DEF Consumed
  <2>5. ChunksTyped' /\ ChunksExact'
    BY <1>1, <2>1 DEF CutterInv, ChunksTyped, ChunksExact, RecordAt
  <2> QED
    BY <1>1, <1>14, <2>4, <2>5 DEF CutterInv
<1> QED
  BY <1>15, <1>16

\* The end: the open chunk, if there is one, is written.
LEMMA CutterFinishes ==
  ASSUME CutterInv, Finish
  PROVE  CutterInv'
<1> DEFINE n == Len(chunks)
           b == n * NUM_INSTR
<1>1. /\ ended = "no" /\ piece = <<>> /\ zin.in = Len(input) /\ chunk' = <<>> /\ ended' = "done"
      /\ UNCHANGED <<input, zin, piece, carry>>
      /\ chunks' = IF chunk = <<>> THEN chunks ELSE Append(chunks, chunk)
  BY DEF Finish, finalize_current_chunk
<1>2. /\ n \in Nat /\ Len(chunk) \in Nat /\ NUM_INSTR \in Nat \ {0} /\ b \in Nat
      /\ CUT_RECORD \in Nat \ {0} /\ Emitted \in Nat /\ Emitted * CUT_RECORD \in Nat
  BY EmittedCount, CutterSizes, Products DEF CutterInv
<1>3. /\ chunk \in Seq(Seq(Nat)) /\ Len(chunk) < NUM_INSTR /\ chunks \in Seq(Seq(Seq(Nat)))
  BY DEF CutterInv, ChunksTyped
<1>4. Emitted = b + Len(chunk)
  BY DEF Emitted
<1>5. \A k \in 1..n : /\ Len(chunks[k]) = NUM_INSTR
                      /\ \A m \in 1..NUM_INSTR : chunks[k][m] = RecordAt((k - 1) * NUM_INSTR + m)
  BY <1>1 DEF CutterInv, ChunksExact
<1>6. \A m \in 1..Len(chunk) : chunk[m] = RecordAt(b + m)
  BY DEF CutterInv, ChunksExact
<1>7. input[Len(input)].last => Yield(input, Len(input)) \div CUT_RECORD = Emitted
  <2> SUFFICES ASSUME input[Len(input)].last
               PROVE  Yield(input, Len(input)) \div CUT_RECORD = Emitted
    OBVIOUS
  <2>1. Yield(input, Len(input)) = zin.out
    BY <1>1 DEF CutterInv, InputKept
  <2>2. Len(carry) \in Nat /\ Len(carry) < CUT_RECORD /\ Len(piece) = 0
        /\ zin.out = Emitted * CUT_RECORD + Len(carry) + Len(piece)
    BY <1>1 DEF CutterInv, Consumed
  <2>3. Len(carry) \in 0..(CUT_RECORD - 1)
    BY <1>2, <2>2
  <2>4. zin.out = Emitted * CUT_RECORD + Len(carry)
    BY <1>2, <2>2
  <2>5. (Emitted * CUT_RECORD + Len(carry)) \div CUT_RECORD = Emitted
    BY <1>2, <2>3, Divided
  <2> QED
    BY <2>1, <2>4, <2>5
<1> HIDE DEF b
<1>8. /\ chunks' \in Seq(Seq(Seq(Nat)))
      /\ \A k \in 1..Len(chunks') :
           /\ Len(chunks'[k]) \in 1..NUM_INSTR
           /\ \A m \in 1..Len(chunks'[k]) : chunks'[k][m] = RecordAt((k - 1) * NUM_INSTR + m)
           /\ Len(chunks'[k]) = NUM_INSTR \/ k = Len(chunks')
      /\ Written' = Emitted
  <2>1. CASE chunk = <<>>
    <3>1. chunks' = chunks /\ Len(chunk) = 0
      BY <1>1, <2>1
    <3>2. NUM_INSTR \in 1..NUM_INSTR
      BY <1>2
    <3>3. Written' = Emitted
      <4>1. CASE chunks = <<>>
        <5>1. n = 0
          BY <4>1
        <5>2. b = 0
          BY <1>2, <5>1 DEF b
        <5> QED
          BY <1>4, <3>1, <4>1, <5>2 DEF Written
      <4>2. CASE chunks # <<>>
        <5>1. n \in 1..n /\ n - 1 \in Nat
          BY <1>2, <1>3, <4>2
        <5>2. Written' = (n - 1) * NUM_INSTR + NUM_INSTR
          BY <1>5, <3>1, <4>2, <5>1 DEF Written
        <5>3. ((n - 1) + 1) * NUM_INSTR = (n - 1) * NUM_INSTR + NUM_INSTR
          BY <1>2, <5>1, Products
        <5>4. (n - 1) + 1 = n
          BY <1>2
        <5> QED
          BY <1>2, <1>4, <3>1, <5>2, <5>3, <5>4 DEF b
      <4> QED
        BY <4>1, <4>2
    <3> QED
      BY <1>3, <1>5, <3>1, <3>2, <3>3, SMTT(30)
  <2>2. CASE chunk # <<>>
    <3>1. /\ chunks' \in Seq(Seq(Seq(Nat))) /\ Len(chunks') = n + 1
          /\ \A k \in 1..n : chunks'[k] = chunks[k]
          /\ chunks'[n + 1] = chunk
      BY <1>1, <1>3, <2>2
    <3>2. Len(chunk) \in 1..NUM_INSTR /\ NUM_INSTR \in 1..NUM_INSTR
      BY <1>2, <1>3, <2>2
    <3>3. ASSUME NEW k \in 1..(n + 1)
          PROVE  /\ Len(chunks'[k]) \in 1..NUM_INSTR
                 /\ \A m \in 1..Len(chunks'[k]) : chunks'[k][m] = RecordAt((k - 1) * NUM_INSTR + m)
                 /\ Len(chunks'[k]) = NUM_INSTR \/ k = n + 1
      <4>1. CASE k \in 1..n
        BY <1>5, <3>1, <3>2, <4>1
      <4>2. CASE k \notin 1..n
        <5>1. k = n + 1 /\ k - 1 = n
          BY <1>2, <4>2
        <5> QED
          BY <1>6, <3>1, <3>2, <5>1 DEF b
      <4> QED
        BY <4>1, <4>2
    <3>4. Written' = Emitted
      <4>1. chunks' # <<>>
        BY <1>2, <3>1
      <4>2. (n + 1) - 1 = n
        BY <1>2
      <4>3. Written' = b + Len(chunk)
        BY <3>1, <4>1, <4>2 DEF Written, b
      <4> QED
        BY <1>4, <4>3
    <3> QED
      BY <3>1, <3>3, <3>4
  <2> QED
    BY <2>1, <2>2
<1>9. ChunksTyped'
  BY <1>1, <1>2, <1>8 DEF ChunksTyped
<1>10. ChunksExact'
  <2>1. Len(chunk') = 0
    BY <1>1
  <2>2. ended' = "done" /\ input' = input
    BY <1>1
  <2>3. (input[Len(input)].last)' => Written' = (Yield(input, Len(input)) \div CUT_RECORD)'
    BY <1>7, <1>8, <2>2
  <2> QED
    BY <1>8, <2>1, <2>2, <2>3 DEF ChunksExact, RecordAt
<1>11. InputKept'
  BY <1>1 DEF CutterInv, InputKept
<1> QED
  BY <1>1, <1>9, <1>10, <1>11 DEF CutterInv

\* For every input, any sizes and however the decoder cuts its output, the chunks are
\* the records of the input in order, cut at every NUM_INSTR, and none is left out
\* (consume_decompressed, emit_records, finalize_current_chunk).
THEOREM ChunksStayExact == CutterSpec => []ChunksExact
<1>1. CutterInit => CutterInv
  <2> SUFFICES ASSUME CutterInit PROVE CutterInv
    OBVIOUS
  <2>1. /\ input \in Input /\ input # <<>> /\ zin = Fresh /\ piece = <<>> /\ carry = <<>>
        /\ chunk = <<>> /\ chunks = <<>> /\ ended = "no"
    BY DEF CutterInit
  <2>2. IsFile(input)
    BY <2>1, CutterSizes
  <2>3. Len(input) \in Nat \ {0}
    BY <2>1, <2>2 DEF IsFile
  <2>4. 0 <= Yield(input, LastByte(input, "zst", 0))
    <3> DEFINE b == LastByte(input, "zst", 0)
    <3>1. b \in 0..Len(input)
      BY <2>2, <2>3, LastBytes
    <3>2. b \in b..Len(input)
      BY <2>3, <3>1
    <3> HIDE DEF b
    <3>3. Yield(input, b) \in Nat
      BY <2>2, <3>1, <3>2, Yields
    <3> QED
      BY <3>3 DEF b
  <2>5. InputKept
    BY <2>1, <2>3, <2>4 DEF InputKept, Fresh
  <2>6. ChunksTyped /\ ChunksExact
    BY <2>1, CutterSizes DEF ChunksTyped, ChunksExact
  <2>7. Consumed
    <3>1. Emitted = 0 /\ Emitted * CUT_RECORD = 0
      BY <2>1, CutterSizes DEF Emitted
    <3> QED
      BY <2>1, <3>1, CutterSizes DEF Consumed, Fresh
  <2> QED
    BY <2>1, <2>5, <2>6, <2>7 DEF CutterInv
<1>2. CutterInv /\ [CutterNext]_cutterVars => CutterInv'
  <2> SUFFICES ASSUME CutterInv, [CutterNext]_cutterVars PROVE CutterInv'
    OBVIOUS
  <2>1. CASE UNCHANGED cutterVars
    BY <2>1, SMTT(30) DEF cutterVars, CutterInv, InputKept, ChunksTyped, ChunksExact, Consumed, Emitted,
                Written, RecordAt
  <2> QED
    BY <2>1, CutterDecodes, CutterConsumes, CutterFinishes DEF CutterNext
<1>3. CutterInv => ChunksExact
  BY DEF CutterInv
<1> QED
  BY <1>1, <1>2, <1>3, PTL DEF CutterSpec

-----------------------------------------------------------------------------
(***************************************************************************)
(* What one thread writes of an instruction (TraceRecord).  First, the     *)
(* sequences that FlattenSeq joins: what members of a sequence give, taken *)
(* together.                                                               *)
(***************************************************************************)

\* A set of natural numbers that holds 0 and every successor is all of them.
LEMMA Upward ==
  ASSUME NEW T \in SUBSET Nat, 0 \in T, \A n \in T : n + 1 \in T
  PROVE  T = Nat
<1> DEFINE U == Nat \ T
<1> SUFFICES ASSUME U # {} PROVE FALSE
  OBVIOUS
<1>1. PICK n \in U : \A y \in U : n <= y
  <2>1. U \in SUBSET Nat
    OBVIOUS
  <2> HIDE DEF U
  <2> QED
    BY <2>1, LeastNatural
<1>2. n \in Nat /\ n # 0
  OBVIOUS
<1>3. n - 1 \in Nat /\ ~(n <= n - 1)
  BY <1>2
<1>4. n - 1 \in T
  BY <1>1, <1>3
<1>5. (n - 1) + 1 \in T
  BY <1>4
<1> QED
  BY <1>2, <1>5

\* f joins the first n sequences of s, one at a time.
Joins(f, s, n) == \A i \in 1..n : f[i] = IF i = 1 THEN s[1] ELSE f[i - 1] \o s[i]

\* There is such a function.
LEMMA JoinsExists ==
  ASSUME NEW S, NEW s \in Seq(Seq(S))
  PROVE  \E f \in [1..Len(s) -> Seq(S)] : Joins(f, s, Len(s))
<1> DEFINE T == {n \in Nat : n <= Len(s) => \E f \in [1..n -> Seq(S)] : Joins(f, s, n)}
<1>1. 0 \in T
  <2> DEFINE f == [i \in 1..0 |-> <<>>]
  <2>1. f \in [1..0 -> Seq(S)] /\ Joins(f, s, 0)
    <3>1. 1..0 = {}
      OBVIOUS
    <3> QED
      BY <3>1 DEF Joins
  <2> HIDE DEF f
  <2> QED
    BY <2>1
<1>2. ASSUME NEW n \in T PROVE n + 1 \in T
  <2>1. SUFFICES ASSUME n + 1 <= Len(s) PROVE \E f \in [1..(n + 1) -> Seq(S)] : Joins(f, s, n + 1)
    OBVIOUS
  <2>2. PICK f \in [1..n -> Seq(S)] : Joins(f, s, n)
    <3>1. n <= Len(s) /\ n \in Nat
      BY <2>1, LenProperties
    <3>2. n <= Len(s) => \E f \in [1..n -> Seq(S)] : Joins(f, s, n)
      OBVIOUS
    <3> QED
      BY <3>1, <3>2
  <2> DEFINE h == [i \in 1..(n + 1) |->
                     IF i = n + 1 THEN IF n = 0 THEN s[1] ELSE f[n] \o s[n + 1] ELSE f[i]]
  <2>3. s[n + 1] \in Seq(S) /\ s[1] \in Seq(S)
    BY <2>1, ElementOfSeq
  <2>4. n # 0 => f[n] \o s[n + 1] \in Seq(S)
    <3>1. n # 0 => f[n] \in Seq(S)
      OBVIOUS
    <3> QED
      BY <3>1, <2>3, ConcatProperties
  <2>5. h \in [1..(n + 1) -> Seq(S)]
    BY <2>3, <2>4
  <2>6. ASSUME NEW i \in 1..(n + 1) PROVE h[i] = IF i = 1 THEN s[1] ELSE h[i - 1] \o s[i]
    <3>1. CASE i = n + 1
      <4>1. h[i] = IF n = 0 THEN s[1] ELSE f[n] \o s[n + 1]
        BY <3>1
      <4>2. n # 0 => i - 1 \in 1..n /\ i - 1 = n /\ h[i - 1] = f[n]
        BY <3>1
      <4> QED
        BY <3>1, <4>1, <4>2
    <3>2. CASE i # n + 1
      <4>1. i \in 1..n /\ h[i] = f[i]
        BY <3>2
      <4>2. i # 1 => i - 1 \in 1..n /\ h[i - 1] = f[i - 1]
        BY <4>1
      <4> QED
        BY <4>1, <4>2, <2>2 DEF Joins
    <3> QED
      BY <3>1, <3>2
  <2>7. Joins(h, s, n + 1)
    BY <2>6 DEF Joins
  <2> HIDE DEF h
  <2> QED
    BY <2>5, <2>7
<1>3. T = Nat
  <2>1. T \in SUBSET Nat
    OBVIOUS
  <2> HIDE DEF T
  <2> QED
    BY <1>1, <1>2, <2>1, Upward
<1>4. Len(s) \in Nat
  BY LenProperties
<1> QED
  BY <1>3, <1>4

\* FlattenSeq gives the last value of any such function.
LEMMA FlattenIs ==
  ASSUME NEW S, NEW s \in Seq(Seq(S)), s # <<>>, NEW f \in [1..Len(s) -> Seq(S)], Joins(f, s, Len(s))
  PROVE  FlattenSeq(s) = f[Len(s)]
<1> DEFINE n == Len(s)
           G(g) == [i \in 1..Len(s) |-> IF i = 1 THEN s[i] ELSE g[i - 1] \o s[i]]
           c == CHOOSE g : g = G(g)
<1>1. n \in Nat /\ n # 0
  BY EmptySeq
<1>2. f = G(f)
  BY DEF Joins
<1>3. c = G(c)
  <2> HIDE DEF G
  <2> QED
    BY <1>2
<1>4. FlattenSeq(s) = c[n]
  BY <1>1, Zenon DEF FlattenSeq
<1> DEFINE T == {k \in Nat : k + 1 \in 1..n => c[k + 1] = f[k + 1]}
<1>5. \A i \in 1..n : c[i] = IF i = 1 THEN s[i] ELSE c[i - 1] \o s[i]
  <2> HIDE DEF c
  <2> QED
    BY <1>3
<1> HIDE DEF c, G
<1>6. 0 \in T
  <2>1. 1 \in 1..n /\ 0 + 1 = 1
    BY <1>1
  <2>2. c[1] = s[1] /\ f[1] = s[1]
    BY <2>1, <1>5 DEF Joins
  <2> QED
    BY <2>1, <2>2
<1>7. ASSUME NEW k \in T PROVE k + 1 \in T
  <2>1. SUFFICES ASSUME k + 2 \in 1..n PROVE c[k + 2] = f[k + 2]
    OBVIOUS
  <2>2. k + 1 \in 1..n /\ (k + 2) - 1 = k + 1 /\ k + 2 # 1
    BY <2>1, <1>1
  <2>3. c[k + 1] = f[k + 1]
    BY <2>2
  <2>4. c[k + 2] = c[k + 1] \o s[k + 2]
    BY <2>1, <2>2, <1>5
  <2>5. f[k + 2] = f[k + 1] \o s[k + 2]
    BY <2>1, <2>2 DEF Joins
  <2> QED
    BY <2>3, <2>4, <2>5
<1>8. T = Nat
  <2>1. T \in SUBSET Nat
    OBVIOUS
  <2> HIDE DEF T
  <2> QED
    BY <1>6, <1>7, <2>1, Upward
<1>9. c[n] = f[n]
  <2>1. n - 1 \in Nat /\ (n - 1) + 1 = n /\ n \in 1..n
    BY <1>1
  <2>2. (n - 1) + 1 \in 1..n => c[(n - 1) + 1] = f[(n - 1) + 1]
    <3>1. n - 1 \in T
      <4> HIDE DEF T
      <4> QED
        BY <2>1, <1>8
    <3> QED
      BY <3>1
  <2> QED
    BY <2>1, <2>2
<1> QED
  BY <1>4, <1>9

\* FlattenSeq one sequence at a time.
LEMMA FlattenStep ==
  ASSUME NEW S, NEW s \in Seq(Seq(S)), NEW e \in Seq(S)
  PROVE  /\ FlattenSeq(<<>>) = <<>>
         /\ FlattenSeq(s) \in Seq(S)
         /\ FlattenSeq(Append(s, e)) = FlattenSeq(s) \o e
<1> DEFINE t == Append(s, e)
<1>1. FlattenSeq(<<>>) = <<>>
  <2>1. Len(<<>>) = 0
    OBVIOUS
  <2> QED
    BY <2>1, Zenon DEF FlattenSeq
<1>2. /\ t \in Seq(Seq(S)) /\ t # <<>> /\ Len(t) = Len(s) + 1 /\ Len(s) \in Nat
      /\ t[Len(s) + 1] = e /\ \A i \in 1..Len(s) : t[i] = s[i]
  BY AppendProperties, LenProperties
<1>3. PICK f \in [1..Len(s) -> Seq(S)] : Joins(f, s, Len(s))
  BY JoinsExists
<1>4. s # <<>> => FlattenSeq(s) = f[Len(s)] /\ Len(s) \in 1..Len(s)
  BY <1>3, FlattenIs, EmptySeq, <1>2
<1>5. FlattenSeq(s) \in Seq(S)
  BY <1>1, <1>4, EmptySeq
<1> DEFINE h == [i \in 1..Len(t) |-> IF i = Len(t) THEN FlattenSeq(s) \o e ELSE f[i]]
<1>6. h \in [1..Len(t) -> Seq(S)]
  BY <1>2, <1>5, ConcatProperties
<1>7. h[Len(t)] = FlattenSeq(s) \o e /\ \A i \in 1..Len(s) : h[i] = f[i]
  BY <1>2
<1> HIDE DEF h, t
<1>8. ASSUME NEW i \in 1..Len(t) PROVE h[i] = IF i = 1 THEN t[1] ELSE h[i - 1] \o t[i]
  <2>1. CASE i = Len(t) /\ s = <<>>
    <3>1. Len(t) = 1 /\ i = 1 /\ t[1] = e
      BY <2>1, <1>2
    <3>2. <<>> \o e = e
      BY ConcatEmptySeq
    <3> QED
      BY <2>1, <3>1, <3>2, <1>1, <1>7
  <2>2. CASE i = Len(t) /\ s # <<>>
    <3>1. i # 1 /\ i - 1 = Len(s) /\ i - 1 \in 1..Len(s)
      BY <2>2, <1>2, <1>4
    <3>2. h[i - 1] = FlattenSeq(s) /\ h[i] = FlattenSeq(s) \o e /\ t[i] = e
      BY <2>2, <3>1, <1>2, <1>4, <1>7
    <3> QED
      BY <3>1, <3>2
  <2>3. CASE i # Len(t)
    <3>1. i \in 1..Len(s) /\ h[i] = f[i] /\ t[i] = s[i] /\ (i = 1 => t[1] = s[1])
      BY <2>3, <1>2, <1>7
    <3>2. i # 1 => i - 1 \in 1..Len(s) /\ h[i - 1] = f[i - 1]
      BY <3>1, <1>2, <1>7
    <3> QED
      BY <3>1, <3>2, <1>3 DEF Joins
  <2> QED
    BY <2>1, <2>2, <2>3
<1>9. Joins(h, t, Len(t))
  BY <1>8 DEF Joins
<1>10. FlattenSeq(t) = h[Len(t)]
  BY <1>2, <1>6, <1>9, FlattenIs
<1> QED
  BY <1>1, <1>5, <1>7, <1>10 DEF t

\* g picks a sequence over S from each member of C.
Picks(g, C, S) == g \in [C -> Seq(S)]

\* What g picks of the members of c, joined.
Picked(g, c) == FlattenSeq([q \in 1..Len(c) |-> g[c[q]]])

\* One member more.
LEMMA PickedStep ==
  ASSUME NEW C, NEW S, NEW g, Picks(g, C, S), NEW c \in Seq(C), NEW a \in C
  PROVE  /\ Picked(g, <<>>) = <<>>
         /\ Picked(g, c) \in Seq(S)
         /\ Picked(g, Append(c, a)) = Picked(g, c) \o g[a]
<1> DEFINE s == [q \in 1..Len(c) |-> g[c[q]]]
           t == [q \in 1..Len(Append(c, a)) |-> g[Append(c, a)[q]]]
<1>1. /\ Len(c) \in Nat /\ \A q \in 1..Len(c) : c[q] \in C
      /\ Append(c, a) \in Seq(C) /\ Len(Append(c, a)) = Len(c) + 1
      /\ Append(c, a)[Len(c) + 1] = a /\ \A q \in 1..Len(c) : Append(c, a)[q] = c[q]
  BY LenProperties, ElementOfSeq, AppendProperties
<1>10. g \in [C -> Seq(S)]
  BY DEF Picks
<1>2. s \in Seq(Seq(S)) /\ Len(s) = Len(c)
  <2>1. s \in [1..Len(c) -> Seq(S)]
    BY <1>1, <1>10
  <2> QED
    BY <2>1, <1>1, SeqDef
<1>3. t \in Seq(Seq(S)) /\ Len(t) = Len(c) + 1
  <2>1. \A q \in 1..(Len(c) + 1) : Append(c, a)[q] \in C
    BY <1>1, ElementOfSeq
  <2>2. t \in [1..(Len(c) + 1) -> Seq(S)]
    BY <1>1, <1>10, <2>1
  <2>3. Len(c) + 1 \in Nat
    BY <1>1
  <2> QED
    BY <2>2, <2>3, SeqDef
<1>4. g[a] \in Seq(S)
  BY <1>10
<1>5. /\ Append(s, g[a]) \in Seq(Seq(S)) /\ Len(Append(s, g[a])) = Len(c) + 1
      /\ Append(s, g[a])[Len(c) + 1] = g[a]
      /\ \A q \in 1..Len(c) : Append(s, g[a])[q] = s[q]
  <2> HIDE DEF s
  <2> QED
    BY <1>2, <1>4, AppendProperties
<1>6. ASSUME NEW q \in 1..(Len(c) + 1) PROVE t[q] = Append(s, g[a])[q]
  <2>1. CASE q = Len(c) + 1
    BY <2>1, <1>1, <1>5
  <2>2. CASE q # Len(c) + 1
    <3>1. q \in 1..Len(c)
      BY <2>2, <1>1
    <3>2. t[q] = g[c[q]] /\ s[q] = g[c[q]]
      BY <3>1, <1>1
    <3> QED
      BY <3>1, <3>2, <1>5
  <2> QED
    BY <2>1, <2>2
<1>7. t = Append(s, g[a])
  <2> HIDE DEF t, s
  <2> QED
    BY <1>3, <1>5, <1>6, SeqEqual
<1>8. /\ FlattenSeq(<<>>) = <<>> /\ FlattenSeq(s) \in Seq(S)
      /\ FlattenSeq(Append(s, g[a])) = FlattenSeq(s) \o g[a]
  <2> HIDE DEF s
  <2> QED
    BY <1>2, <1>4, FlattenStep
<1>9. Picked(g, <<>>) = <<>>
  <2>1. [q \in 1..Len(<<>>) |-> g[<<>>[q]]] = <<>>
    OBVIOUS
  <2> QED
    BY <2>1, <1>8 DEF Picked
<1> QED
  BY <1>7, <1>8, <1>9 DEF Picked

\* What is picked of two sequences joined.
LEMMA PickedConcat ==
  ASSUME NEW C, NEW S, NEW g, Picks(g, C, S), NEW c \in Seq(C), NEW d \in Seq(C)
  PROVE  Picked(g, c \o d) = Picked(g, c) \o Picked(g, d)
<1>5. \A x \in Seq(C), y \in C :
        /\ Picked(g, x) \in Seq(S) /\ g[y] \in Seq(S)
        /\ Picked(g, Append(x, y)) = Picked(g, x) \o g[y]
  <2>1. SUFFICES ASSUME NEW x \in Seq(C), NEW y \in C
                 PROVE  /\ Picked(g, x) \in Seq(S) /\ g[y] \in Seq(S)
                        /\ Picked(g, Append(x, y)) = Picked(g, x) \o g[y]
    OBVIOUS
  <2>2. g[y] \in Seq(S)
    BY DEF Picks
  <2>3. /\ Picked(g, <<>>) = <<>>
        /\ Picked(g, x) \in Seq(S)
        /\ Picked(g, Append(x, y)) = Picked(g, x) \o g[y]
    BY PickedStep
  <2> QED
    BY <2>2, <2>3
<1>6. \A x, y, z \in Seq(S) : (x \o y) \o z = x \o (y \o z)
  BY ConcatAssociative
<1>7. \A x, y \in Seq(C), z \in C :
        /\ x \o y \in Seq(C) /\ x \o Append(y, z) = Append(x \o y, z)
  <2>1. SUFFICES ASSUME NEW x \in Seq(C), NEW y \in Seq(C), NEW z \in C
                 PROVE  x \o y \in Seq(C) /\ x \o Append(y, z) = Append(x \o y, z)
    OBVIOUS
  <2>2. <<z>> \in Seq(C) /\ x \o y \in Seq(C)
    BY ConcatProperties
  <2>3. Append(y, z) = y \o <<z>>
    BY AppendIsConcat
  <2>4. Append(x \o y, z) = (x \o y) \o <<z>>
    BY <2>2, AppendIsConcat
  <2>5. (x \o y) \o <<z>> = x \o (y \o <<z>>)
    BY <2>2, ConcatAssociative
  <2> QED
    BY <2>2, <2>3, <2>4, <2>5
<1> DEFINE T == {n \in Nat : \A b \in Seq(C) : Len(b) = n =>
                              Picked(g, c \o b) = Picked(g, c) \o Picked(g, b)}
<1>1. 0 \in T
  <2>1. SUFFICES ASSUME NEW b \in Seq(C), Len(b) = 0
                 PROVE  Picked(g, c \o b) = Picked(g, c) \o Picked(g, b)
    OBVIOUS
  <2>2. b = <<>>
    BY <2>1, EmptySeq
  <2>3. b \in Seq(C) /\ c \o <<>> = c
    BY ConcatEmptySeq
  <2>4. CASE C = {}
    <3>1. c = <<>>
      <4>1. ~(1 \in 1..Len(c))
        BY <2>4, ElementOfSeq
      <4> QED
        BY <4>1, EmptySeq
    <3>2. [q \in 1..Len(<<>>) |-> g[<<>>[q]]] = <<>> /\ <<>> \in Seq(S) /\ <<>> \in Seq(Seq(S))
      BY EmptySeq
    <3>3. Picked(g, <<>>) = <<>>
      BY <3>2, FlattenStep DEF Picked
    <3> QED
      BY <2>2, <2>3, <3>1, <3>2, <3>3, ConcatEmptySeq
  <2>5. CASE C # {}
    <3>1. PICK a \in C : TRUE
      BY <2>5
    <3>2. Picked(g, <<>>) = <<>> /\ Picked(g, c) \in Seq(S)
      BY <3>1, PickedStep
    <3> QED
      BY <2>2, <2>3, <3>2, ConcatEmptySeq
  <2> QED
    BY <2>4, <2>5
<1>9. T \in SUBSET Nat
  OBVIOUS
<1> HIDE DEF T
<1>2. ASSUME NEW n \in T PROVE n + 1 \in T
  <2>1. SUFFICES ASSUME NEW b \in Seq(C), Len(b) = n + 1
                 PROVE  Picked(g, c \o b) = Picked(g, c) \o Picked(g, b)
    BY <1>9 DEF T
  <2>2. b # <<>> /\ n \in Nat
    BY <2>1, EmptySeq, <1>9
  <2>3. PICK e \in Seq(C), a \in C : b = Append(e, a)
    BY <2>2, SequenceEmptyOrAppend
  <2>4. Len(e) = n
    <3>1. Len(b) = Len(e) + 1 /\ Len(e) \in Nat
      BY <2>3, AppendProperties, LenProperties
    <3> QED
      BY <3>1, <2>1, <2>2
  <2>5. Picked(g, c \o e) = Picked(g, c) \o Picked(g, e)
    BY <2>4 DEF T
  <2>6. c \o b = Append(c \o e, a) /\ c \o e \in Seq(C)
    BY <2>3, <1>7
  <2>7. /\ Picked(g, b) = Picked(g, e) \o g[a]
        /\ Picked(g, c \o b) = Picked(g, c \o e) \o g[a]
    BY <2>3, <2>6, <1>5, Zenon
  <2>8. (Picked(g, c) \o Picked(g, e)) \o g[a] = Picked(g, c) \o (Picked(g, e) \o g[a])
    BY <1>5, <1>6, Zenon
  <2> QED
    BY <2>5, <2>7, <2>8, Zenon
<1>3. T = Nat
  BY <1>1, <1>2, <1>9, Upward
<1>4. Len(d) \in Nat
  BY LenProperties
<1> QED
  BY <1>3, <1>4 DEF T

\* What is picked of sequences joined is what is picked of each, joined.
LEMMA PickedFlatten ==
  ASSUME NEW C, NEW S, NEW g, Picks(g, C, S), NEW o \in Seq(Seq(C))
  PROVE  /\ FlattenSeq(o) \in Seq(C)
         /\ Picked(g, FlattenSeq(o)) = FlattenSeq([i \in 1..Len(o) |-> Picked(g, o[i])])
<1> DEFINE P == [c \in Seq(C) |-> Picked(g, c)]
           T == {n \in Nat : \A b \in Seq(Seq(C)) : Len(b) = n =>
                              Picked(g, FlattenSeq(b)) = Picked(P, b)}
<1>1. <<>> \in Seq(C) /\ <<>> \in Seq(S) /\ <<>> \in Seq(Seq(C)) /\ <<>> \in Seq(Seq(S))
  BY EmptySeq
<1>2. FlattenSeq(o) \in Seq(C)
  BY <1>1, FlattenStep
<1>3. P \in [Seq(C) -> Seq(S)]
  <2>1. ASSUME NEW c \in Seq(C) PROVE Picked(g, c) \in Seq(S)
    <3> DEFINE s == [q \in 1..Len(c) |-> g[c[q]]]
    <3>1. Len(c) \in Nat /\ \A q \in 1..Len(c) : c[q] \in C
      BY LenProperties, ElementOfSeq
    <3>2. s \in [1..Len(c) -> Seq(S)]
      BY <3>1 DEF Picks
    <3>3. s \in Seq(Seq(S))
      BY <3>1, <3>2, SeqDef
    <3> HIDE DEF s
    <3>4. FlattenSeq(s) \in Seq(S)
      BY <1>1, <3>3, FlattenStep
    <3> QED
      BY <3>4 DEF Picked, s
  <2> QED
    BY <2>1
<1> HIDE DEF P
<1>13. Picks(P, Seq(C), S)
  BY <1>3 DEF Picks
<1>11. \A x \in Seq(Seq(C)), y \in Seq(C) : Picked(P, Append(x, y)) = Picked(P, x) \o P[y]
  <2>1. SUFFICES ASSUME NEW x \in Seq(Seq(C)), NEW y \in Seq(C)
                 PROVE  Picked(P, Append(x, y)) = Picked(P, x) \o P[y]
    OBVIOUS
  <2>2. /\ Picked(P, <<>>) = <<>>
        /\ Picked(P, x) \in Seq(S)
        /\ Picked(P, Append(x, y)) = Picked(P, x) \o P[y]
    BY <1>13, PickedStep
  <2> QED
    BY <2>2
<1>12. \A x, y \in Seq(C) : Picked(g, x \o y) = Picked(g, x) \o Picked(g, y)
  <2>1. SUFFICES ASSUME NEW x \in Seq(C), NEW y \in Seq(C)
                 PROVE  Picked(g, x \o y) = Picked(g, x) \o Picked(g, y)
    OBVIOUS
  <2> QED
    BY PickedConcat
<1>4. 0 \in T
  <2>1. SUFFICES ASSUME NEW b \in Seq(Seq(C)), Len(b) = 0
                 PROVE  Picked(g, FlattenSeq(b)) = Picked(P, b)
    OBVIOUS
  <2>2. b = <<>>
    BY <2>1, EmptySeq
  <2>3. /\ [q \in 1..Len(<<>>) |-> g[<<>>[q]]] = <<>>
        /\ [q \in 1..Len(<<>>) |-> P[<<>>[q]]] = <<>>
    OBVIOUS
  <2>4. FlattenSeq(<<>>) = <<>>
    BY <1>1, FlattenStep
  <2> QED
    BY <2>2, <2>3, <2>4 DEF Picked
<1>10. T \in SUBSET Nat
  OBVIOUS
<1> HIDE DEF T
<1>5. ASSUME NEW n \in T PROVE n + 1 \in T
  <2>1. SUFFICES ASSUME NEW b \in Seq(Seq(C)), Len(b) = n + 1
                 PROVE  Picked(g, FlattenSeq(b)) = Picked(P, b)
    BY <1>10 DEF T
  <2>2. b # <<>> /\ n \in Nat
    BY <2>1, EmptySeq, <1>10
  <2>3. PICK e \in Seq(Seq(C)), a \in Seq(C) : b = Append(e, a)
    BY <2>2, SequenceEmptyOrAppend
  <2>4. Len(e) = n
    <3>1. Len(b) = Len(e) + 1 /\ Len(e) \in Nat
      BY <2>3, AppendProperties, LenProperties
    <3> QED
      BY <3>1, <2>1, <2>2
  <2>5. Picked(g, FlattenSeq(e)) = Picked(P, e)
    BY <2>4 DEF T
  <2>6. FlattenSeq(b) = FlattenSeq(e) \o a /\ FlattenSeq(e) \in Seq(C)
    BY <2>3, FlattenStep
  <2>7. Picked(g, FlattenSeq(b)) = Picked(g, FlattenSeq(e)) \o Picked(g, a)
    BY <2>6, <1>12, Zenon
  <2>8. Picked(P, b) = Picked(P, e) \o P[a]
    BY <2>3, <1>11, Zenon
  <2>9. P[a] = Picked(g, a)
    BY DEF P
  <2> QED
    BY <2>5, <2>7, <2>8, <2>9
<1>6. T = Nat
  BY <1>4, <1>5, <1>10, Upward
<1>7. Len(o) \in Nat /\ \A i \in 1..Len(o) : o[i] \in Seq(C)
  BY LenProperties, ElementOfSeq
<1>8. Picked(g, FlattenSeq(o)) = Picked(P, o)
  BY <1>6, <1>7 DEF T
<1>9. [i \in 1..Len(o) |-> Picked(g, o[i])] = [q \in 1..Len(o) |-> P[o[q]]]
  BY <1>7 DEF P
<1> QED
  BY <1>2, <1>8, <1>9 DEF Picked

\* y is a member of the sequence s.
Holds(s, y) == \E q \in 1..Len(s) : s[q] = y

\* What joined sequences hold is what each of them holds.
LEMMA FlattenHolds ==
  ASSUME NEW S, NEW s \in Seq(Seq(S)), NEW y
  PROVE  Holds(FlattenSeq(s), y) <=> \E i \in 1..Len(s) : Holds(s[i], y)
<1> DEFINE Has(b) == Holds(b, y)
           T == {n \in Nat : \A b \in Seq(Seq(S)) : Len(b) = n =>
                              (Has(FlattenSeq(b)) <=> \E i \in 1..Len(b) : Has(b[i]))}
<1>1. <<>> \in Seq(S) /\ <<>> \in Seq(Seq(S))
  BY EmptySeq
<1>2. 0 \in T
  <2>1. SUFFICES ASSUME NEW b \in Seq(Seq(S)), Len(b) = 0
                 PROVE  Has(FlattenSeq(b)) <=> \E i \in 1..Len(b) : Has(b[i])
    OBVIOUS
  <2>2. b = <<>> /\ FlattenSeq(<<>>) = <<>>
    BY <2>1, EmptySeq, <1>1, FlattenStep
  <2> QED
    BY <2>2 DEF Holds
<1>9. T \in SUBSET Nat
  OBVIOUS
<1> HIDE DEF T
<1>3. ASSUME NEW n \in T PROVE n + 1 \in T
  <2>1. SUFFICES ASSUME NEW b \in Seq(Seq(S)), Len(b) = n + 1
                 PROVE  Has(FlattenSeq(b)) <=> \E i \in 1..Len(b) : Has(b[i])
    BY <1>9 DEF T
  <2>2. b # <<>> /\ n \in Nat
    BY <2>1, EmptySeq, <1>9
  <2>3. PICK e \in Seq(Seq(S)), a \in Seq(S) : b = Append(e, a)
    BY <2>2, SequenceEmptyOrAppend
  <2>4. /\ Len(b) = Len(e) + 1 /\ Len(e) \in Nat /\ b[Len(e) + 1] = a
        /\ \A i \in 1..Len(e) : b[i] = e[i]
    BY <2>3, AppendProperties, LenProperties
  <2>5. Has(FlattenSeq(e)) <=> \E i \in 1..Len(e) : Has(e[i])
    <3>1. Len(e) = n
      BY <2>1, <2>2, <2>4
    <3> QED
      BY <3>1 DEF T
  <2>6. FlattenSeq(b) = FlattenSeq(e) \o a /\ FlattenSeq(e) \in Seq(S)
    BY <2>3, FlattenStep
  <2>7. Has(FlattenSeq(b)) <=> Has(FlattenSeq(e)) \/ Has(a)
    <3> DEFINE f == FlattenSeq(e)
    <3> HIDE DEF f
    <3>1. f \in Seq(S) /\ FlattenSeq(b) = f \o a
      BY <2>6 DEF f
    <3>2. /\ Len(f \o a) = Len(f) + Len(a) /\ Len(f) \in Nat /\ Len(a) \in Nat
          /\ \A i \in 1..(Len(f) + Len(a)) : (f \o a)[i] = IF i <= Len(f) THEN f[i] ELSE a[i - Len(f)]
      BY <3>1, ConcatProperties, LenProperties
    <3>3. ASSUME Has(f \o a) PROVE Has(f) \/ Has(a)
      <4>1. PICK i \in 1..(Len(f) + Len(a)) : (f \o a)[i] = y
        BY <3>2, <3>3 DEF Holds
      <4>2. CASE i <= Len(f)
        BY <4>1, <4>2, <3>2 DEF Holds
      <4>3. CASE ~(i <= Len(f))
        <5>1. i - Len(f) \in 1..Len(a) /\ a[i - Len(f)] = y
          BY <4>1, <4>3, <3>2
        <5> QED
          BY <5>1 DEF Holds
      <4> QED
        BY <4>2, <4>3
    <3>4. ASSUME Has(f) PROVE Has(f \o a)
      <4>1. PICK i \in 1..Len(f) : f[i] = y
        BY <3>4 DEF Holds
      <4>2. i \in 1..(Len(f) + Len(a)) /\ (f \o a)[i] = y
        BY <4>1, <3>2
      <4> QED
        BY <4>2, <3>2 DEF Holds
    <3>5. ASSUME Has(a) PROVE Has(f \o a)
      <4>1. PICK i \in 1..Len(a) : a[i] = y
        BY <3>5 DEF Holds
      <4>2. /\ i + Len(f) \in 1..(Len(f) + Len(a)) /\ ~(i + Len(f) <= Len(f))
            /\ (i + Len(f)) - Len(f) = i
        BY <3>2
      <4>3. (f \o a)[i + Len(f)] = y
        BY <4>1, <4>2, <3>2
      <4> QED
        BY <4>2, <4>3, <3>2 DEF Holds
    <3> HIDE DEF Has
    <3> QED
      BY <3>1, <3>3, <3>4, <3>5 DEF f
  <2>8. (\E i \in 1..Len(b) : Has(b[i])) <=> (\E i \in 1..Len(e) : Has(e[i])) \/ Has(a)
    <3> HIDE DEF Has
    <3>1. \A i : i \in 1..Len(b) <=> i \in 1..Len(e) \/ i = Len(e) + 1
      BY <2>4
    <3> QED
      BY <3>1, <2>4
  <2> HIDE DEF Has
  <2> QED
    BY <2>5, <2>7, <2>8
<1>4. T = Nat
  BY <1>2, <1>3, <1>9, Upward
<1>5. Len(s) \in Nat
  BY LenProperties
<1> QED
  BY <1>4, <1>5 DEF T

\* The first k sequences of s, joined.
Upto(s, k) == FlattenSeq([i \in 1..k |-> s[i]])

\* They grow by one sequence at a time, up to all of s joined.
LEMMA UptoStep ==
  ASSUME NEW S, NEW s \in Seq(Seq(S)), NEW k \in 0..Len(s)
  PROVE  /\ Upto(s, 0) = <<>>
         /\ Upto(s, k) \in Seq(S)
         /\ k # Len(s) => Upto(s, k + 1) = Upto(s, k) \o s[k + 1]
         /\ Upto(s, Len(s)) = FlattenSeq(s)
<1>1. /\ Len(s) \in Nat /\ k \in Nat /\ \A i \in 1..Len(s) : s[i] \in Seq(S)
      /\ <<>> \in Seq(S)
  BY LenProperties, ElementOfSeq, EmptySeq
<1> DEFINE f == [i \in 1..k |-> s[i]]
           h == [i \in 1..(k + 1) |-> s[i]]
<1>2. f \in Seq(Seq(S)) /\ Len(f) = k
  <2>1. f \in [1..k -> Seq(S)]
    BY <1>1
  <2> QED
    BY <2>1, <1>1, SeqDef
<1>3. Upto(s, 0) = <<>>
  <2>1. [i \in 1..0 |-> s[i]] = <<>>
    OBVIOUS
  <2>2. FlattenSeq(<<>>) = <<>>
    BY <1>1, FlattenStep
  <2> QED
    BY <2>1, <2>2 DEF Upto
<1>4. Upto(s, k) \in Seq(S)
  <2>1. FlattenSeq(f) \in Seq(S)
    <3> HIDE DEF f
    <3> QED
      BY <1>1, <1>2, FlattenStep
  <2> QED
    BY <2>1 DEF Upto
<1>5. ASSUME k # Len(s) PROVE Upto(s, k + 1) = Upto(s, k) \o s[k + 1]
  <2>1. k + 1 \in 1..Len(s) /\ s[k + 1] \in Seq(S)
    BY <1>1, <1>5
  <2>2. h \in Seq(Seq(S)) /\ Len(h) = k + 1
    <3>1. h \in [1..(k + 1) -> Seq(S)] /\ k + 1 \in Nat
      BY <1>1, <2>1
    <3> QED
      BY <3>1, SeqDef
  <2>3. /\ Append(f, s[k + 1]) \in Seq(Seq(S)) /\ Len(Append(f, s[k + 1])) = k + 1
        /\ Append(f, s[k + 1])[k + 1] = s[k + 1]
        /\ \A i \in 1..k : Append(f, s[k + 1])[i] = f[i]
    <3> HIDE DEF f
    <3> QED
      BY <1>2, <2>1, AppendProperties
  <2>4. ASSUME NEW i \in 1..(k + 1) PROVE h[i] = Append(f, s[k + 1])[i]
    <3>1. CASE i = k + 1
      BY <3>1, <2>3
    <3>2. CASE i # k + 1
      <4>1. i \in 1..k /\ h[i] = s[i] /\ f[i] = s[i]
        BY <3>2, <1>1
      <4> QED
        BY <4>1, <2>3
    <3> QED
      BY <3>1, <3>2
  <2>5. h = Append(f, s[k + 1])
    <3> HIDE DEF f, h
    <3> QED
      BY <2>2, <2>3, <2>4, SeqEqual
  <2>6. FlattenSeq(Append(f, s[k + 1])) = FlattenSeq(f) \o s[k + 1]
    <3> HIDE DEF f
    <3> QED
      BY <1>2, <2>1, FlattenStep
  <2> QED
    BY <2>5, <2>6, Zenon DEF Upto
<1>6. Upto(s, Len(s)) = FlattenSeq(s)
  <2>1. [i \in 1..Len(s) |-> s[i]] = s
    BY LenProperties
  <2> QED
    BY <2>1 DEF Upto
<1> QED
  BY <1>3, <1>4, <1>5, <1>6

\* The numbers chosen by b come in order, each once.
LEMMA Chosen ==
  ASSUME NEW n \in Nat, NEW b \in [1..n -> BOOLEAN], NEW w,
         w = FlattenSeq([i \in 1..n |-> Opt(b[i], i)])
  PROVE  /\ w \in Seq(1..n)
         /\ \A p, q \in 1..Len(w) : p < q => w[p] < w[q]
         /\ \A i : Holds(w, i) <=> i \in 1..n /\ b[i]
<1> DEFINE s == [i \in 1..n |-> Opt(b[i], i)]
           Rises(u, k) == /\ u \in Seq(1..k)
                          /\ \A p, q \in 1..Len(u) : p < q => u[p] < u[q]
           T == {k \in Nat : k <= n => Rises(Upto(s, k), k)}
<1>1. ASSUME NEW i \in 1..n
      PROVE  s[i] = (IF b[i] THEN <<i>> ELSE <<>>) /\ s[i] \in Seq(1..n)
  <2>1. s[i] = IF b[i] THEN <<i>> ELSE <<>>
    BY DEF Opt
  <2>2. <<i>> \in Seq(1..n) /\ <<>> \in Seq(1..n)
    OBVIOUS
  <2> QED
    BY <2>1, <2>2
<1>2. s \in Seq(Seq(1..n)) /\ Len(s) = n /\ s \in Seq(Seq(Nat))
  <2>1. s \in [1..n -> Seq(1..n)]
    BY <1>1
  <2>2. s \in [1..n -> Seq(Nat)]
    <3>1. \A i \in 1..n : s[i] \in Seq(Nat)
      BY <1>1
    <3> QED
      BY <3>1
  <2> HIDE DEF s
  <2> QED
    BY <2>1, <2>2, SeqDef
<1> HIDE DEF s
<1>3. 0 \in T
  <2>1. Upto(s, 0) = <<>>
    BY <1>2, UptoStep
  <2>2. <<>> \in Seq(1..0) /\ Len(<<>>) = 0 /\ 1..0 = {}
    BY EmptySeq
  <2>3. Rises(<<>>, 0)
    BY <2>2
  <2> HIDE DEF Rises
  <2> QED
    BY <2>1, <2>3
<1>4. T \in SUBSET Nat
  OBVIOUS
<1>5. ASSUME NEW k \in T PROVE k + 1 \in T
  <2>1. SUFFICES ASSUME k + 1 <= n PROVE Rises(Upto(s, k + 1), k + 1)
    <3> HIDE DEF Rises
    <3> QED
      BY <1>4
  <2>2. k \in Nat /\ k \in 0..n /\ k # n /\ k + 1 \in 1..n
    BY <2>1, <1>4
  <2> DEFINE u == Upto(s, k)
  <2>3. Rises(u, k)
    BY <2>2
  <2>4. Upto(s, k + 1) = u \o s[k + 1]
    BY <1>2, <2>2, UptoStep
  <2> HIDE DEF u
  <2>5. u \in Seq(Nat) /\ (\A q \in 1..Len(u) : u[q] \in 1..k) /\ Len(u) \in Nat
    BY <2>3, <2>2, LenProperties, ElementOfSeq
  <2>6. CASE b[k + 1]
    <3>1. s[k + 1] = <<k + 1>> /\ Upto(s, k + 1) = Append(u, k + 1)
      <4>1. s[k + 1] = <<k + 1>>
        BY <2>2, <2>6, <1>1
      <4>2. Append(u, k + 1) = u \o <<k + 1>>
        BY <2>2, <2>5, AppendIsConcat
      <4> QED
        BY <4>1, <4>2, <2>4
    <3> DEFINE v == Append(u, k + 1)
    <3>2. Len(v) = Len(u) + 1 /\ v[Len(u) + 1] = k + 1 /\ \A q \in 1..Len(u) : v[q] = u[q]
      BY <2>2, <2>5, AppendProperties
    <3>3. v \in Seq(Nat)
      BY <2>2, <2>5, AppendProperties
    <3> HIDE DEF v
    <3>4. ASSUME NEW q \in 1..Len(v) PROVE v[q] \in 1..(k + 1)
      <4>1. CASE q = Len(u) + 1
        BY <4>1, <3>2, <2>2
      <4>2. CASE q # Len(u) + 1
        <5>1. q \in 1..Len(u)
          BY <4>2, <3>2, <2>5
        <5>2. v[q] \in 1..k
          BY <5>1, <3>2, <2>5
        <5> QED
          BY <5>2, <2>2
      <4> QED
        BY <4>1, <4>2
    <3>5. v \in Seq(1..(k + 1))
      <4>1. v \in [1..Len(v) -> Nat] /\ Len(v) \in Nat
        BY <3>3, LenProperties
      <4>2. v \in [1..Len(v) -> 1..(k + 1)]
        BY <4>1, <3>4
      <4> QED
        BY <4>1, <4>2, SeqDef
    <3>6. ASSUME NEW p \in 1..Len(v), NEW q \in 1..Len(v), p < q PROVE v[p] < v[q]
      <4>1. p \in 1..Len(u) /\ v[p] = u[p] /\ v[p] \in 1..k
        BY <3>6, <3>2, <2>5
      <4>2. CASE q = Len(u) + 1
        BY <4>1, <4>2, <3>2, <2>2
      <4>3. CASE q # Len(u) + 1
        <5>1. q \in 1..Len(u) /\ v[q] = u[q]
          BY <4>3, <3>2, <2>5
        <5> QED
          BY <4>1, <5>1, <3>6, <2>3
      <4> QED
        BY <4>2, <4>3
    <3> QED
      BY <3>1, <3>5, <3>6 DEF v
  <2>7. CASE ~b[k + 1]
    <3>1. s[k + 1] = <<>>
      BY <2>2, <2>7, <1>1
    <3>2. Upto(s, k + 1) = u
      BY <3>1, <2>4, <2>5, ConcatEmptySeq
    <3>3. u \in Seq(1..(k + 1))
      <4>1. 1..k \subseteq 1..(k + 1) /\ u \in Seq(1..k)
        BY <2>2, <2>3
      <4> QED
        BY <4>1, SeqMonotonic
    <3> QED
      BY <3>2, <3>3, <2>3
  <2> QED
    BY <2>6, <2>7
<1>6. T = Nat
  <2> HIDE DEF T
  <2> QED
    BY <1>3, <1>4, <1>5, Upward
<1>7. w = Upto(s, n)
  <2>1. Upto(s, Len(s)) = FlattenSeq(s)
    <3>1. 0 \in 0..Len(s)
      BY <1>2
    <3> QED
      BY <1>2, <3>1, UptoStep
  <2> QED
    BY <2>1, <1>2 DEF s
<1>8. Rises(w, n)
  <2>1. Rises(Upto(s, n), n)
    BY <1>6
  <2> QED
    BY <2>1, <1>7
<1>9. ASSUME NEW i PROVE Holds(w, i) <=> i \in 1..n /\ b[i]
  <2>1. Holds(w, i) <=> \E j \in 1..Len(s) : Holds(s[j], i)
    <3>1. w = FlattenSeq(s)
      BY DEF s
    <3> QED
      BY <3>1, <1>2, FlattenHolds
  <2>2. ASSUME NEW j \in 1..n PROVE Holds(s[j], i) <=> b[j] /\ i = j
    <3>1. CASE b[j]
      <4>1. s[j] = <<j>>
        BY <3>1, <1>1
      <4> QED
        BY <4>1, <3>1 DEF Holds
    <3>2. CASE ~b[j]
      <4>1. s[j] = <<>>
        BY <3>2, <1>1
      <4> QED
        BY <4>1, <3>2 DEF Holds
    <3> QED
      BY <3>1, <3>2
  <2> QED
    BY <2>1, <2>2, <1>2
<1> QED
  BY <1>8, <1>9

\* No member of c gives anything.
Silent(g, c) == \A q \in 1..Len(c) : g[c[q]] = <<>>

\* Nothing is picked where no member gives anything.
LEMMA PickedNothing ==
  ASSUME NEW C, NEW S, NEW g, Picks(g, C, S), NEW c \in Seq(C), Silent(g, c)
  PROVE  Picked(g, c) = <<>>
<1> DEFINE s == [q \in 1..Len(c) |-> g[c[q]]]
<1>1. Len(c) \in Nat /\ <<>> \in Seq(S)
  BY LenProperties, EmptySeq
<1>2. s \in [1..Len(c) -> Seq(S)] /\ \A q \in 1..Len(c) : s[q] = <<>>
  BY <1>1 DEF Silent
<1>3. s \in Seq(Seq(S)) /\ Len(s) = Len(c)
  <2>1. s \in [1..Len(c) -> Seq(S)]
    BY <1>2
  <2> QED
    BY <1>1, <2>1, SeqDef
<1> HIDE DEF s
<1>4. FlattenSeq(s) \in Seq(S)
  BY <1>1, <1>3, FlattenStep
<1>5. ~Holds(FlattenSeq(s), FlattenSeq(s)[1])
  <2>1. \A i \in 1..Len(s) : Len(s[i]) = 0
    BY <1>2, <1>3
  <2>2. \A i \in 1..Len(s) : ~Holds(s[i], FlattenSeq(s)[1])
    BY <2>1 DEF Holds
  <2> QED
    BY <2>2, <1>3, FlattenHolds
<1>6. ~(1 \in 1..Len(FlattenSeq(s)))
  BY <1>5 DEF Holds
<1>7. FlattenSeq(s) = <<>>
  <2>1. Len(FlattenSeq(s)) \in Nat /\ ~(Len(FlattenSeq(s)) \in Nat \ {0})
    BY <1>4, <1>6, LenProperties
  <2> QED
    BY <2>1, <1>4, EmptySeq
<1> QED
  BY <1>7 DEF Picked, s

\* Sequences of one member each, joined.
LEMMA Singles ==
  ASSUME NEW S, NEW r \in Seq(S)
  PROVE  FlattenSeq([k \in 1..Len(r) |-> <<r[k]>>]) = r
<1> DEFINE g == [e \in S |-> <<e>>]
           T == {n \in Nat : \A c \in Seq(S) : Len(c) = n => Picked(g, c) = c}
<1>1. Picks(g, S, S) /\ \A e \in S : g[e] = <<e>>
  BY DEF Picks
<1> HIDE DEF g
<1>2. T \in SUBSET Nat
  OBVIOUS
<1> HIDE DEF T
<1>3. 0 \in T
  <2>1. SUFFICES ASSUME NEW c \in Seq(S), Len(c) = 0 PROVE Picked(g, c) = c
    BY DEF T
  <2>2. c = <<>>
    BY <2>1, EmptySeq
  <2>3. Silent(g, c)
    BY <2>2 DEF Silent
  <2>4. Picked(g, c) = <<>>
    BY <1>1, <2>3, PickedNothing
  <2> QED
    BY <2>2, <2>4
<1>4. ASSUME NEW n \in T PROVE n + 1 \in T
  <2>1. SUFFICES ASSUME NEW c \in Seq(S), Len(c) = n + 1 PROVE Picked(g, c) = c
    BY <1>2 DEF T
  <2>2. c # <<>> /\ n \in Nat
    BY <2>1, EmptySeq, <1>2
  <2>3. PICK e \in Seq(S), a \in S : c = Append(e, a)
    BY <2>2, SequenceEmptyOrAppend
  <2>4. Len(e) = n
    <3>1. Len(c) = Len(e) + 1 /\ Len(e) \in Nat
      BY <2>3, AppendProperties, LenProperties
    <3> QED
      BY <3>1, <2>1, <2>2
  <2>5. Picked(g, e) = e
    BY <2>4 DEF T
  <2>6. Picked(g, Append(e, a)) = Picked(g, e) \o g[a]
    BY <1>1, PickedStep
  <2>7. Append(e, a) = e \o <<a>>
    BY AppendIsConcat
  <2> QED
    BY <2>3, <2>5, <2>6, <2>7, <1>1
<1>5. T = Nat
  BY <1>2, <1>3, <1>4, Upward
<1>6. Picked(g, r) = r
  BY <1>5, LenProperties DEF T
<1>7. [k \in 1..Len(r) |-> <<r[k]>>] = [q \in 1..Len(r) |-> g[r[q]]]
  BY <1>1, ElementOfSeq
<1> QED
  BY <1>6, <1>7 DEF Picked

-----------------------------------------------------------------------------
(***************************************************************************)
(* The calls around an instruction, and what they give its record.         *)
(***************************************************************************)

Operand == [addr : Address, read : BOOLEAN, written : BOOLEAN, on : BOOLEAN]

\* What an instruction is.
LEMMA InstrTyped ==
  ASSUME NEW x \in Instr
  PROVE  /\ x.rregs \in Seq(Nat) /\ x.wregs \in Seq(Nat) /\ x.ops \in Seq(Operand)
         /\ x.fall \in BOOLEAN /\ x.call \in BOOLEAN /\ x.scattered \in BOOLEAN
         /\ Len(x.ops) \in Nat /\ Len(x.rregs) \in Nat /\ Len(x.wregs) \in Nat
         /\ \A i \in 1..Len(x.ops) : /\ x.ops[i].addr \in Address /\ x.ops[i].read \in BOOLEAN
                                     /\ x.ops[i].written \in BOOLEAN /\ x.ops[i].on \in BOOLEAN
         /\ ~(x.call /\ x.fall)
         /\ ~x.scattered => Len(x.ops) <= MAX_WRITE_OPS
         /\ x.scattered => \A i \in 1..Len(x.ops) : x.ops[i].read # x.ops[i].written
<1>1. x \in [rregs : Seq(Nat), wregs : Seq(Nat), fall : BOOLEAN, call : BOOLEAN,
             scattered : BOOLEAN, ops : Seq(Operand)]
  BY RecordAssumption, Zenon DEF Operand
<1>2. /\ x.rregs \in Seq(Nat) /\ x.wregs \in Seq(Nat) /\ x.ops \in Seq(Operand)
      /\ x.fall \in BOOLEAN /\ x.call \in BOOLEAN /\ x.scattered \in BOOLEAN
  BY <1>1
<1>3. Len(x.ops) \in Nat /\ Len(x.rregs) \in Nat /\ Len(x.wregs) \in Nat
  BY <1>2, LenProperties
<1>4. ASSUME NEW i \in 1..Len(x.ops)
      PROVE  /\ x.ops[i].addr \in Address /\ x.ops[i].read \in BOOLEAN
             /\ x.ops[i].written \in BOOLEAN /\ x.ops[i].on \in BOOLEAN
  <2>1. x.ops[i] \in Operand
    BY <1>2, ElementOfSeq
  <2> QED
    BY <2>1 DEF Operand
<1>5. /\ ~(x.call /\ x.fall)
      /\ ~x.scattered => Len(x.ops) <= MAX_WRITE_OPS
      /\ x.scattered => \A i \in 1..Len(x.ops) : x.ops[i].read # x.ops[i].written
  BY RecordAssumption, Zenon
<1> QED
  BY <1>2, <1>3, <1>4, <1>5

\* The operands read and those written come in order, each once.
LEMMA Accesses ==
  ASSUME NEW x \in Instr
  PROVE  /\ Reads(x) \in Seq(1..Len(x.ops)) /\ Writes(x) \in Seq(1..Len(x.ops))
         /\ \A p, q \in 1..Len(Writes(x)) : p < q => Writes(x)[p] < Writes(x)[q]
         /\ \A i : Holds(Writes(x), i) <=>
                     i \in 1..Len(x.ops) /\ x.ops[i].written /\ x.ops[i].on
<1> DEFINE n == Len(x.ops)
           r == [i \in 1..n |-> x.ops[i].read /\ x.ops[i].on]
           b == [i \in 1..n |-> x.ops[i].written /\ x.ops[i].on]
<1>1. n \in Nat /\ r \in [1..n -> BOOLEAN] /\ b \in [1..n -> BOOLEAN]
  BY InstrTyped
<1>2. /\ Reads(x) = FlattenSeq([i \in 1..n |-> Opt(r[i], i)])
      /\ Writes(x) = FlattenSeq([i \in 1..n |-> Opt(b[i], i)])
  <2>1. [i \in 1..n |-> Opt(r[i], i)] = [i \in 1..n |-> Opt(x.ops[i].read /\ x.ops[i].on, i)]
    OBVIOUS
  <2>2. [i \in 1..n |-> Opt(b[i], i)] = [i \in 1..n |-> Opt(x.ops[i].written /\ x.ops[i].on, i)]
    OBVIOUS
  <2> QED
    BY <2>1, <2>2 DEF Reads, Writes
<1>3. \A i \in 1..n : b[i] <=> x.ops[i].written /\ x.ops[i].on
  OBVIOUS
<1> HIDE DEF r, b
<1>4. Reads(x) \in Seq(1..n)
  BY <1>1, <1>2, Chosen
<1>5. /\ Writes(x) \in Seq(1..n)
      /\ \A p, q \in 1..Len(Writes(x)) : p < q => Writes(x)[p] < Writes(x)[q]
      /\ \A i : Holds(Writes(x), i) <=> i \in 1..n /\ b[i]
  BY <1>1, <1>2, Chosen
<1> QED
  BY <1>3, <1>4, <1>5

\* The calls there can be around x.
Calls(x) ==
  ({"RegRead", "RegWrite"} \X Nat)
  \cup {<<"Scattered", 0>>, <<"Commit", 0>>}
  \cup ({"MemRead", "MemWrite", "CallRetAddr", "MemWriteValue"} \X (1..Len(x.ops)))

\* What each of them gives the record: registers, operands read and written.
RegsRead(x) == [c \in Calls(x) |-> Opt(c[1] = "RegRead", c[2])]
RegsWritten(x) == [c \in Calls(x) |-> Opt(c[1] = "RegWrite", c[2])]
OpsRead(x) ==
  [c \in Calls(x) |-> IF c[1] = "Scattered" THEN Reads(x)
                      ELSE Opt(c[1] = "MemRead" /\ x.ops[c[2]].on, c[2])]
OpsWritten(x) ==
  [c \in Calls(x) |-> IF c[1] = "Scattered" THEN Writes(x)
                      ELSE Opt(c[1] = "MemWrite" /\ x.ops[c[2]].on, c[2])]

\* What a call looks like.
LEMMA CallShape ==
  ASSUME NEW x, NEW c \in Calls(x)
  PROVE  /\ c = <<c[1], c[2]>>
         /\ \/ c[1] \in {"RegRead", "RegWrite"} /\ c[2] \in Nat
            \/ c = <<"Scattered", 0>> /\ c[1] = "Scattered"
            \/ c = <<"Commit", 0>> /\ c[1] = "Commit"
            \/ /\ c[1] \in {"MemRead", "MemWrite", "CallRetAddr", "MemWriteValue"}
               /\ c[2] \in 1..Len(x.ops)
  BY DEF Calls

\* All four are sequences of registers, or of operands of x.
LEMMA Picking ==
  ASSUME NEW x \in Instr
  PROVE  /\ Picks(RegsRead(x), Calls(x), Nat) /\ Picks(RegsWritten(x), Calls(x), Nat)
         /\ Picks(OpsRead(x), Calls(x), 1..Len(x.ops))
         /\ Picks(OpsWritten(x), Calls(x), 1..Len(x.ops))
<1>1. ASSUME NEW c \in Calls(x)
      PROVE  /\ Opt(c[1] = "RegRead", c[2]) \in Seq(Nat)
             /\ Opt(c[1] = "RegWrite", c[2]) \in Seq(Nat)
  BY CallShape DEF Opt
<1>2. ASSUME NEW c \in Calls(x), c[1] # "Scattered"
      PROVE  /\ Opt(c[1] = "MemRead" /\ x.ops[c[2]].on, c[2]) \in Seq(1..Len(x.ops))
             /\ Opt(c[1] = "MemWrite" /\ x.ops[c[2]].on, c[2]) \in Seq(1..Len(x.ops))
  <2>1. <<>> \in Seq(1..Len(x.ops))
    BY EmptySeq
  <2>2. c[1] \in {"MemRead", "MemWrite"} => c[2] \in 1..Len(x.ops)
    BY CallShape
  <2>3. c[2] \in 1..Len(x.ops) => <<c[2]>> \in Seq(1..Len(x.ops))
    OBVIOUS
  <2> QED
    BY <2>1, <2>2, <2>3 DEF Opt
<1>3. Reads(x) \in Seq(1..Len(x.ops)) /\ Writes(x) \in Seq(1..Len(x.ops))
  BY Accesses
<1>4. Picks(RegsRead(x), Calls(x), Nat)
  BY <1>1 DEF Picks, RegsRead
<1>5. Picks(RegsWritten(x), Calls(x), Nat)
  BY <1>1 DEF Picks, RegsWritten
<1>6. Picks(OpsRead(x), Calls(x), 1..Len(x.ops))
  BY <1>2, <1>3 DEF Picks, OpsRead
<1>7. Picks(OpsWritten(x), Calls(x), 1..Len(x.ops))
  BY <1>2, <1>3 DEF Picks, OpsWritten
<1> QED
  BY <1>4, <1>5, <1>6, <1>7

\* What one call gives.
LEMMA Gives ==
  ASSUME NEW x \in Instr, NEW c \in Calls(x)
  PROVE  /\ RegsRead(x)[c] = IF c[1] = "RegRead" THEN <<c[2]>> ELSE <<>>
         /\ RegsWritten(x)[c] = IF c[1] = "RegWrite" THEN <<c[2]>> ELSE <<>>
         /\ OpsRead(x)[c] = IF c[1] = "Scattered" THEN Reads(x)
                            ELSE IF c[1] = "MemRead" /\ x.ops[c[2]].on THEN <<c[2]>> ELSE <<>>
         /\ OpsWritten(x)[c] = IF c[1] = "Scattered" THEN Writes(x)
                               ELSE IF c[1] = "MemWrite" /\ x.ops[c[2]].on THEN <<c[2]>> ELSE <<>>
<1>1. RegsRead(x)[c] = IF c[1] = "RegRead" THEN <<c[2]>> ELSE <<>>
  BY DEF RegsRead, Opt
<1>2. RegsWritten(x)[c] = IF c[1] = "RegWrite" THEN <<c[2]>> ELSE <<>>
  BY DEF RegsWritten, Opt
<1>3. OpsRead(x)[c] = IF c[1] = "Scattered" THEN Reads(x)
                      ELSE IF c[1] = "MemRead" /\ x.ops[c[2]].on THEN <<c[2]>> ELSE <<>>
  BY DEF OpsRead, Opt
<1>4. OpsWritten(x)[c] = IF c[1] = "Scattered" THEN Writes(x)
                         ELSE IF c[1] = "MemWrite" /\ x.ops[c[2]].on THEN <<c[2]>> ELSE <<>>
  BY DEF OpsWritten, Opt
<1> QED
  BY <1>1, <1>2, <1>3, <1>4

\* The calls that fill slots, and those that bring the values of stores.
FillCalls(x) ==
  {c \in Calls(x) : /\ c[1] \in {"RegRead", "RegWrite", "Scattered", "MemRead", "MemWrite"}
                    /\ c[1] = "Scattered" => x.scattered
                    /\ c[1] = "MemWrite" => ~x.scattered}

\* Stores get their values after them.
Due(x, v) == v /\ (x.fall \/ x.call) /\ ~x.scattered

ValueCall(x, i) == <<IF x.call THEN "CallRetAddr" ELSE "MemWriteValue", i>>

ValueCalls(x, v) == {c \in Calls(x) : Due(x, v) /\ c = ValueCall(x, c[2]) /\ c[2] \in 1..Len(x.ops)}

\* A function on 1..n is a sequence of sequences, and can be joined.
LEMMA FlattenTyped ==
  ASSUME NEW S, NEW n \in Nat, NEW s, DOMAIN s = 1..n, s = [i \in 1..n |-> s[i]],
         \A i \in 1..n : s[i] \in Seq(S)
  PROVE  s \in Seq(Seq(S)) /\ Len(s) = n /\ FlattenSeq(s) \in Seq(S)
<1>1. s \in Seq(Seq(S)) /\ Len(s) = n
  <2>1. s \in [1..n -> Seq(S)]
    OBVIOUS
  <2> QED
    BY <2>1, SeqDef
<1>2. <<>> \in Seq(S)
  BY EmptySeq
<1> QED
  BY <1>1, <1>2, FlattenStep

\* What is picked of one member.
LEMMA PickedOne ==
  ASSUME NEW C, NEW S, NEW g, Picks(g, C, S), NEW c \in C
  PROVE  Picked(g, <<c>>) = g[c] /\ Picked(g, <<>>) = <<>> /\ <<c>> \in Seq(C)
<1>1. <<>> \in Seq(C) /\ Append(<<>>, c) = <<c>> /\ <<c>> \in Seq(C)
  OBVIOUS
<1>2. Picked(g, <<>>) = <<>> /\ Picked(g, Append(<<>>, c)) = Picked(g, <<>>) \o g[c]
  <2>1. ASSUME NEW e \in Seq(C)
        PROVE  Picked(g, <<>>) = <<>> /\ Picked(g, Append(e, c)) = Picked(g, e) \o g[c]
    BY PickedStep
  <2> QED
    BY <1>1, <2>1
<1>3. g[c] \in Seq(S)
  BY DEF Picks
<1>4. <<>> \o g[c] = g[c]
  BY <1>3, ConcatEmptySeq
<1> QED
  BY <1>1, <1>2, <1>4

\* The four things that are picked, of two sequences joined.
LEMMA PickedBoth ==
  ASSUME NEW x \in Instr, NEW c \in Seq(Calls(x)), NEW d \in Seq(Calls(x)),
         NEW g \in {RegsRead(x), RegsWritten(x), OpsRead(x), OpsWritten(x)}
  PROVE  Picked(g, c \o d) = Picked(g, c) \o Picked(g, d)
<1>1. Picks(g, Calls(x), Nat) \/ Picks(g, Calls(x), 1..Len(x.ops))
  BY Picking
<1> QED
  BY <1>1, PickedConcat

\* Calls that give nothing of a kind.
LEMMA SilentCalls ==
  ASSUME NEW x \in Instr, NEW c \in Seq(Calls(x))
  PROVE  /\ (\A q \in 1..Len(c) : c[q][1] # "RegRead") => Picked(RegsRead(x), c) = <<>>
         /\ (\A q \in 1..Len(c) : c[q][1] # "RegWrite") => Picked(RegsWritten(x), c) = <<>>
         /\ (\A q \in 1..Len(c) : c[q][1] \notin {"Scattered", "MemRead"}) =>
              Picked(OpsRead(x), c) = <<>>
         /\ (\A q \in 1..Len(c) : c[q][1] \notin {"Scattered", "MemWrite"}) =>
              Picked(OpsWritten(x), c) = <<>>
<1>1. \A q \in 1..Len(c) : c[q] \in Calls(x)
  BY ElementOfSeq
<1>2. ASSUME \A q \in 1..Len(c) : c[q][1] # "RegRead" PROVE Picked(RegsRead(x), c) = <<>>
  <2>1. Silent(RegsRead(x), c)
    BY <1>1, <1>2, Gives DEF Silent
  <2> QED
    BY <2>1, Picking, PickedNothing
<1>3. ASSUME \A q \in 1..Len(c) : c[q][1] # "RegWrite" PROVE Picked(RegsWritten(x), c) = <<>>
  <2>1. Silent(RegsWritten(x), c)
    BY <1>1, <1>3, Gives DEF Silent
  <2> QED
    BY <2>1, Picking, PickedNothing
<1>4. ASSUME \A q \in 1..Len(c) : c[q][1] \notin {"Scattered", "MemRead"}
      PROVE  Picked(OpsRead(x), c) = <<>>
  <2>1. Silent(OpsRead(x), c)
    BY <1>1, <1>4, Gives DEF Silent
  <2> QED
    BY <2>1, Picking, PickedNothing
<1>5. ASSUME \A q \in 1..Len(c) : c[q][1] \notin {"Scattered", "MemWrite"}
      PROVE  Picked(OpsWritten(x), c) = <<>>
  <2>1. Silent(OpsWritten(x), c)
    BY <1>1, <1>5, Gives DEF Silent
  <2> QED
    BY <2>1, Picking, PickedNothing
<1> QED
  BY <1>2, <1>3, <1>4, <1>5

\* A function on 1..n is a sequence.
LEMMA MadeSeq ==
  ASSUME NEW S, NEW n \in Nat, NEW s \in [1..n -> S]
  PROVE  s \in Seq(S) /\ Len(s) = n
  BY SeqDef

\* The calls for the registers.
RegCalls(name, r) == [k \in 1..Len(r) |-> <<name, r[k]>>]

\* They give the record their registers, in order, and nothing else.
LEMMA RegCallsAre ==
  ASSUME NEW x \in Instr, NEW name \in {"RegRead", "RegWrite"}, NEW r \in Seq(Nat),
         NEW c, c = RegCalls(name, r)
  PROVE  /\ c \in Seq(FillCalls(x))
         /\ Picked(RegsRead(x), c) = IF name = "RegRead" THEN r ELSE <<>>
         /\ Picked(RegsWritten(x), c) = IF name = "RegWrite" THEN r ELSE <<>>
         /\ Picked(OpsRead(x), c) = <<>> /\ Picked(OpsWritten(x), c) = <<>>
<1>1. Len(r) \in Nat /\ \A k \in 1..Len(r) : r[k] \in Nat
  BY LenProperties, ElementOfSeq
<1>2. \A k \in 1..Len(r) : <<name, r[k]>> \in FillCalls(x)
  BY <1>1 DEF FillCalls, Calls
<1>3. c \in Seq(FillCalls(x)) /\ Len(c) = Len(r)
  <2>1. c \in [1..Len(r) -> FillCalls(x)]
    BY <1>2 DEF RegCalls
  <2> QED
    BY <2>1, <1>1, MadeSeq, Zenon
<1>4. c \in Seq(Calls(x))
  BY <1>3, SeqMonotonic DEF FillCalls
<1>5. \A q \in 1..Len(c) : c[q] = <<name, r[q]>> /\ c[q][1] = name /\ c[q] \in Calls(x)
  BY <1>3, <1>4, ElementOfSeq DEF RegCalls
<1>6. Picked(OpsRead(x), c) = <<>> /\ Picked(OpsWritten(x), c) = <<>>
  BY <1>4, <1>5, SilentCalls
<1>7. Picked(RegsRead(x), c) = IF name = "RegRead" THEN r ELSE <<>>
  <2>1. CASE name = "RegRead"
    <3>1. ASSUME NEW q \in 1..Len(r) PROVE RegsRead(x)[c[q]] = <<r[q]>>
      <4>1. c[q] \in Calls(x) /\ c[q][1] = "RegRead" /\ c[q][2] = r[q]
        BY <1>3, <1>5, <2>1
      <4> QED
        BY <4>1, Gives
    <3>2. [q \in 1..Len(c) |-> RegsRead(x)[c[q]]] = [k \in 1..Len(r) |-> <<r[k]>>]
      BY <1>3, <3>1
    <3> QED
      BY <2>1, <3>2, Singles DEF Picked
  <2>2. CASE name # "RegRead"
    BY <2>2, <1>4, <1>5, SilentCalls
  <2> QED
    BY <2>1, <2>2
<1>8. Picked(RegsWritten(x), c) = IF name = "RegWrite" THEN r ELSE <<>>
  <2>1. CASE name = "RegWrite"
    <3>1. ASSUME NEW q \in 1..Len(r) PROVE RegsWritten(x)[c[q]] = <<r[q]>>
      <4>1. c[q] \in Calls(x) /\ c[q][1] = "RegWrite" /\ c[q][2] = r[q]
        BY <1>3, <1>5, <2>1
      <4> QED
        BY <4>1, Gives
    <3>2. [q \in 1..Len(c) |-> RegsWritten(x)[c[q]]] = [k \in 1..Len(r) |-> <<r[k]>>]
      BY <1>3, <3>1
    <3> QED
      BY <2>1, <3>2, Singles DEF Picked
  <2>2. CASE name # "RegWrite"
    BY <2>2, <1>4, <1>5, SilentCalls
  <2> QED
    BY <2>1, <2>2
<1> QED
  BY <1>3, <1>6, <1>7, <1>8

\* The calls for one operand.
LEMMA OneOperand ==
  ASSUME NEW x \in Instr, ~x.scattered, NEW i \in 1..Len(x.ops)
  PROVE  /\ OperandCalls(x, i) \in Seq(FillCalls(x)) /\ OperandCalls(x, i) \in Seq(Calls(x))
         /\ \A q \in 1..Len(OperandCalls(x, i)) : OperandCalls(x, i)[q][1] \in {"MemRead", "MemWrite"}
         /\ Picked(OpsRead(x), OperandCalls(x, i)) = Opt(x.ops[i].read /\ x.ops[i].on, i)
         /\ Picked(OpsWritten(x), OperandCalls(x, i)) = Opt(x.ops[i].written /\ x.ops[i].on, i)
<1> DEFINE c == <<"MemRead", i>>
           d == <<"MemWrite", i>>
           a == Opt(x.ops[i].read, c)
           b == Opt(x.ops[i].written, d)
<1>1. c \in FillCalls(x) /\ d \in FillCalls(x) /\ c \in Calls(x) /\ d \in Calls(x)
  BY DEF FillCalls, Calls
<1>2. c[1] = "MemRead" /\ c[2] = i /\ d[1] = "MemWrite" /\ d[2] = i
  OBVIOUS
<1>3. /\ OpsRead(x)[c] = Opt(x.ops[i].on, i) /\ OpsRead(x)[d] = <<>>
      /\ OpsWritten(x)[d] = Opt(x.ops[i].on, i) /\ OpsWritten(x)[c] = <<>>
  <2> HIDE DEF c, d
  <2> QED
    BY <1>1, <1>2, Gives DEF Opt
<1>4. x.ops[i].read \in BOOLEAN /\ x.ops[i].written \in BOOLEAN /\ x.ops[i].on \in BOOLEAN
  BY InstrTyped
<1> HIDE DEF c, d
<1>5. /\ a = (IF x.ops[i].read THEN <<c>> ELSE <<>>) /\ b = (IF x.ops[i].written THEN <<d>> ELSE <<>>)
      /\ a \in Seq(FillCalls(x)) /\ b \in Seq(FillCalls(x))
      /\ a \in Seq(Calls(x)) /\ b \in Seq(Calls(x))
  BY <1>1 DEF Opt
<1>6. OperandCalls(x, i) = a \o b
  BY DEF OperandCalls, c, d
<1>7. \A q \in 1..Len(a \o b) : (a \o b)[q][1] \in {"MemRead", "MemWrite"}
  BY <1>2, <1>5
<1> HIDE DEF a, b
<1>8. a \o b \in Seq(FillCalls(x)) /\ a \o b \in Seq(Calls(x))
  BY <1>5, ConcatProperties
<1>9. Picks(OpsRead(x), Calls(x), 1..Len(x.ops)) /\ Picks(OpsWritten(x), Calls(x), 1..Len(x.ops))
  BY Picking
<1>10. /\ Picked(OpsRead(x), <<>>) = <<>> /\ Picked(OpsWritten(x), <<>>) = <<>>
       /\ Picked(OpsRead(x), <<c>>) = OpsRead(x)[c] /\ Picked(OpsRead(x), <<d>>) = OpsRead(x)[d]
       /\ Picked(OpsWritten(x), <<c>>) = OpsWritten(x)[c] /\ Picked(OpsWritten(x), <<d>>) = OpsWritten(x)[d]
  BY <1>1, <1>9, PickedOne
<1>11. /\ Picked(OpsRead(x), a \o b) = Picked(OpsRead(x), a) \o Picked(OpsRead(x), b)
       /\ Picked(OpsWritten(x), a \o b) = Picked(OpsWritten(x), a) \o Picked(OpsWritten(x), b)
  BY <1>5, PickedBoth
<1>12. /\ Picked(OpsRead(x), a) = Opt(x.ops[i].read /\ x.ops[i].on, i) /\ Picked(OpsRead(x), b) = <<>>
       /\ Picked(OpsWritten(x), b) = Opt(x.ops[i].written /\ x.ops[i].on, i) /\ Picked(OpsWritten(x), a) = <<>>
  BY <1>3, <1>4, <1>5, <1>10 DEF Opt
<1>13. /\ Opt(x.ops[i].read /\ x.ops[i].on, i) \in Seq(1..Len(x.ops))
       /\ Opt(x.ops[i].written /\ x.ops[i].on, i) \in Seq(1..Len(x.ops))
  <2>1. <<i>> \in Seq(1..Len(x.ops)) /\ <<>> \in Seq(1..Len(x.ops))
    OBVIOUS
  <2> QED
    BY <2>1, Zenon DEF Opt
<1>14. /\ Picked(OpsRead(x), a) \o <<>> = Picked(OpsRead(x), a)
       /\ <<>> \o Picked(OpsWritten(x), b) = Picked(OpsWritten(x), b)
  <2>1. Picked(OpsRead(x), a) \in Seq(1..Len(x.ops)) /\ Picked(OpsWritten(x), b) \in Seq(1..Len(x.ops))
    BY <1>4, <1>12, <1>13
  <2> QED
    BY <2>1, ConcatEmptySeq
<1> QED
  BY <1>6, <1>7, <1>8, <1>11, <1>12, <1>14

\* The calls for the operands, or the one for all of them.
MemCalls(x) ==
  IF x.scattered THEN <<<<"Scattered", 0>>>>
  ELSE FlattenSeq([i \in 1..Len(x.ops) |-> OperandCalls(x, i)])

\* They give the operands read and those written.
LEMMA MemCallsAre ==
  ASSUME NEW x \in Instr
  PROVE  /\ MemCalls(x) \in Seq(FillCalls(x))
         /\ Picked(RegsRead(x), MemCalls(x)) = <<>> /\ Picked(RegsWritten(x), MemCalls(x)) = <<>>
         /\ Picked(OpsRead(x), MemCalls(x)) = Reads(x)
         /\ Picked(OpsWritten(x), MemCalls(x)) = Writes(x)
<1>1. CASE x.scattered
  <2> DEFINE c == <<"Scattered", 0>>
  <2>1. MemCalls(x) = <<c>>
    BY <1>1 DEF MemCalls
  <2>2. c \in FillCalls(x) /\ c \in Calls(x) /\ c[1] = "Scattered"
    BY <1>1 DEF FillCalls, Calls
  <2> HIDE DEF c
  <2>3. /\ Picked(RegsRead(x), <<c>>) = RegsRead(x)[c] /\ Picked(RegsWritten(x), <<c>>) = RegsWritten(x)[c]
        /\ Picked(OpsRead(x), <<c>>) = OpsRead(x)[c] /\ Picked(OpsWritten(x), <<c>>) = OpsWritten(x)[c]
    BY <2>2, Picking, PickedOne
  <2>4. /\ RegsRead(x)[c] = <<>> /\ RegsWritten(x)[c] = <<>>
        /\ OpsRead(x)[c] = Reads(x) /\ OpsWritten(x)[c] = Writes(x)
    BY <2>2, Gives
  <2> QED
    BY <2>1, <2>2, <2>3, <2>4
<1>2. CASE ~x.scattered
  <2> DEFINE n == Len(x.ops)
             s == [i \in 1..n |-> OperandCalls(x, i)]
  <2>1. n \in Nat
    BY InstrTyped
  <2>2. \A i \in 1..n : s[i] \in Seq(FillCalls(x)) /\ s[i] \in Seq(Calls(x)) /\ s[i] = OperandCalls(x, i)
    BY <1>2, OneOperand
  <2>3. DOMAIN s = 1..n /\ s = [i \in 1..n |-> s[i]]
    OBVIOUS
  <2>4. MemCalls(x) = FlattenSeq(s)
    BY <1>2 DEF MemCalls
  <2> HIDE DEF s, n
  <2>5. s \in Seq(Seq(FillCalls(x))) /\ Len(s) = n /\ FlattenSeq(s) \in Seq(FillCalls(x))
    BY <2>1, <2>2, <2>3, FlattenTyped
  <2>6. s \in Seq(Seq(Calls(x))) /\ FlattenSeq(s) \in Seq(Calls(x))
    BY <2>1, <2>2, <2>3, FlattenTyped
  <2>7. ASSUME NEW q \in 1..Len(FlattenSeq(s)) PROVE FlattenSeq(s)[q][1] \in {"MemRead", "MemWrite"}
    <3>1. Holds(FlattenSeq(s), FlattenSeq(s)[q])
      BY DEF Holds
    <3>2. PICK i \in 1..n : Holds(s[i], FlattenSeq(s)[q])
      BY <3>1, <2>5, FlattenHolds
    <3> QED
      BY <3>2, <2>2, <1>2, OneOperand DEF Holds, n
  <2>8. Picked(RegsRead(x), FlattenSeq(s)) = <<>> /\ Picked(RegsWritten(x), FlattenSeq(s)) = <<>>
    <3> DEFINE c == FlattenSeq(s)
    <3> HIDE DEF c
    <3>1. c \in Seq(Calls(x)) /\ \A q \in 1..Len(c) : c[q][1] # "RegRead" /\ c[q][1] # "RegWrite"
      BY <2>6, <2>7 DEF c
    <3>2. Picked(RegsRead(x), c) = <<>> /\ Picked(RegsWritten(x), c) = <<>>
      BY <3>1, SilentCalls
    <3> QED
      BY <3>2 DEF c
  <2>9. /\ Picked(OpsRead(x), FlattenSeq(s)) = FlattenSeq([i \in 1..Len(s) |-> Picked(OpsRead(x), s[i])])
        /\ Picked(OpsWritten(x), FlattenSeq(s)) = FlattenSeq([i \in 1..Len(s) |-> Picked(OpsWritten(x), s[i])])
    BY <2>6, Picking, PickedFlatten
  <2>10. [i \in 1..Len(s) |-> Picked(OpsRead(x), s[i])]
           = [i \in 1..Len(x.ops) |-> Opt(x.ops[i].read /\ x.ops[i].on, i)]
    BY <2>2, <2>5, <1>2, OneOperand DEF n
  <2>11. [i \in 1..Len(s) |-> Picked(OpsWritten(x), s[i])]
           = [i \in 1..Len(x.ops) |-> Opt(x.ops[i].written /\ x.ops[i].on, i)]
    BY <2>2, <2>5, <1>2, OneOperand DEF n
  <2> QED
    BY <2>4, <2>5, <2>8, <2>9, <2>10, <2>11 DEF Reads, Writes
<1> QED
  BY <1>1, <1>2, InstrTyped

\* The calls that bring values.
LEMMA StoreCallsAre ==
  ASSUME NEW x \in Instr, NEW name
  PROVE  /\ StoreCalls(x, name) \in Seq({name} \X (1..Len(x.ops)))
         /\ \A i \in 1..Len(x.ops) : x.ops[i].written => Holds(StoreCalls(x, name), <<name, i>>)
         /\ (\A i \in 1..Len(x.ops) : ~x.ops[i].written) => StoreCalls(x, name) = <<>>
<1> DEFINE n == Len(x.ops)
           S == {name} \X (1..n)
           s == [i \in 1..n |-> Opt(x.ops[i].written, <<name, i>>)]
<1>1. n \in Nat /\ \A i \in 1..n : x.ops[i].written \in BOOLEAN
  BY InstrTyped
<1>2. \A i \in 1..n : s[i] = (IF x.ops[i].written THEN <<<<name, i>>>> ELSE <<>>) /\ s[i] \in Seq(S)
  <2>1. SUFFICES ASSUME NEW i \in 1..n
                 PROVE  s[i] = (IF x.ops[i].written THEN <<<<name, i>>>> ELSE <<>>) /\ s[i] \in Seq(S)
    OBVIOUS
  <2>2. s[i] = IF x.ops[i].written THEN <<<<name, i>>>> ELSE <<>>
    BY DEF Opt
  <2>3. <<name, i>> \in S
    OBVIOUS
  <2> HIDE DEF S
  <2>4. <<<<name, i>>>> \in Seq(S) /\ <<>> \in Seq(S)
    BY <2>3
  <2> QED
    BY <2>2, <2>4
<1>3. DOMAIN s = 1..n /\ s = [i \in 1..n |-> s[i]] /\ StoreCalls(x, name) = FlattenSeq(s)
  BY DEF StoreCalls
<1> HIDE DEF s, S
<1>4. s \in Seq(Seq(S)) /\ Len(s) = n /\ FlattenSeq(s) \in Seq(S)
  BY <1>1, <1>2, <1>3, FlattenTyped
<1>5. ASSUME NEW i \in 1..n, x.ops[i].written PROVE Holds(FlattenSeq(s), <<name, i>>)
  <2>1. s[i] = <<<<name, i>>>>
    BY <1>2, <1>5
  <2>2. Holds(s[i], <<name, i>>)
    BY <2>1 DEF Holds
  <2> QED
    BY <2>2, <1>4, FlattenHolds
<1>6. ASSUME \A i \in 1..n : ~x.ops[i].written PROVE FlattenSeq(s) = <<>>
  <2>1. \A i \in 1..n : s[i] = <<>>
    BY <1>2, <1>6
  <2>2. \A y : \A i \in 1..n : ~Holds(s[i], y)
    BY <2>1 DEF Holds
  <2>3. ~Holds(FlattenSeq(s), FlattenSeq(s)[1])
    BY <2>2, <1>4, FlattenHolds
  <2>4. ~(1 \in 1..Len(FlattenSeq(s)))
    BY <2>3 DEF Holds
  <2>5. Len(FlattenSeq(s)) \in Nat /\ ~(Len(FlattenSeq(s)) \in Nat \ {0})
    BY <2>4, <1>4, LenProperties
  <2> QED
    BY <2>5, <1>4, EmptySeq
<1> QED
  BY <1>3, <1>4, <1>5, <1>6 DEF S

CommitCall == <<"Commit", 0>>

\* The calls that fill slots, in their order.
Fills(x) ==
  RegCalls("RegRead", x.rregs) \o RegCalls("RegWrite", x.wregs) \o MemCalls(x)

\* They give the record all it should hold.
LEMMA FillsAre ==
  ASSUME NEW x \in Instr
  PROVE  /\ Fills(x) \in Seq(FillCalls(x))
         /\ Picked(RegsRead(x), Fills(x)) = x.rregs /\ Picked(RegsWritten(x), Fills(x)) = x.wregs
         /\ Picked(OpsRead(x), Fills(x)) = Reads(x) /\ Picked(OpsWritten(x), Fills(x)) = Writes(x)
<1> DEFINE a == RegCalls("RegRead", x.rregs)
           b == RegCalls("RegWrite", x.wregs)
           m == MemCalls(x)
<1>1. x.rregs \in Seq(Nat) /\ x.wregs \in Seq(Nat)
  BY InstrTyped
<1>2. /\ a \in Seq(FillCalls(x))
      /\ Picked(RegsRead(x), a) = x.rregs /\ Picked(RegsWritten(x), a) = <<>>
      /\ Picked(OpsRead(x), a) = <<>> /\ Picked(OpsWritten(x), a) = <<>>
  BY <1>1, RegCallsAre
<1>3. /\ b \in Seq(FillCalls(x))
      /\ Picked(RegsRead(x), b) = <<>> /\ Picked(RegsWritten(x), b) = x.wregs
      /\ Picked(OpsRead(x), b) = <<>> /\ Picked(OpsWritten(x), b) = <<>>
  BY <1>1, RegCallsAre
<1>4. /\ m \in Seq(FillCalls(x))
      /\ Picked(RegsRead(x), m) = <<>> /\ Picked(RegsWritten(x), m) = <<>>
      /\ Picked(OpsRead(x), m) = Reads(x) /\ Picked(OpsWritten(x), m) = Writes(x)
  BY MemCallsAre
<1>5. Fills(x) = (a \o b) \o m
  BY DEF Fills
<1> HIDE DEF a, b, m
<1>6. a \o b \in Seq(FillCalls(x)) /\ (a \o b) \o m \in Seq(FillCalls(x))
  BY <1>2, <1>3, <1>4, ConcatProperties
<1>7. /\ a \in Seq(Calls(x)) /\ b \in Seq(Calls(x)) /\ m \in Seq(Calls(x)) /\ a \o b \in Seq(Calls(x))
  BY <1>2, <1>3, <1>4, <1>6, SeqMonotonic DEF FillCalls
<1>8. \A g \in {RegsRead(x), RegsWritten(x), OpsRead(x), OpsWritten(x)} :
        Picked(g, (a \o b) \o m) = (Picked(g, a) \o Picked(g, b)) \o Picked(g, m)
  <2>1. SUFFICES ASSUME NEW g \in {RegsRead(x), RegsWritten(x), OpsRead(x), OpsWritten(x)}
                 PROVE  Picked(g, (a \o b) \o m) = (Picked(g, a) \o Picked(g, b)) \o Picked(g, m)
    OBVIOUS
  <2>2. Picked(g, a \o b) = Picked(g, a) \o Picked(g, b)
    BY <1>7, PickedBoth
  <2>3. Picked(g, (a \o b) \o m) = Picked(g, a \o b) \o Picked(g, m)
    <3> DEFINE ab == a \o b
    <3> HIDE DEF ab
    <3>1. ab \in Seq(Calls(x))
      BY <1>7 DEF ab
    <3>2. Picked(g, ab \o m) = Picked(g, ab) \o Picked(g, m)
      BY <1>7, <3>1, PickedBoth
    <3> QED
      BY <3>2 DEF ab
  <2> QED
    BY <2>2, <2>3
<1>9. <<>> \in Seq(Nat) /\ Reads(x) \in Seq(1..Len(x.ops)) /\ Writes(x) \in Seq(1..Len(x.ops))
  BY EmptySeq, Accesses
<1>10. /\ (x.rregs \o <<>>) \o <<>> = x.rregs /\ (<<>> \o x.wregs) \o <<>> = x.wregs
       /\ (<<>> \o <<>>) \o Reads(x) = Reads(x) /\ (<<>> \o <<>>) \o Writes(x) = Writes(x)
  <2>1. x.rregs \o <<>> = x.rregs /\ <<>> \o x.wregs = x.wregs /\ x.wregs \o <<>> = x.wregs
    BY <1>1, ConcatEmptySeq
  <2>2. <<>> \o <<>> = <<>>
    BY <1>9, ConcatEmptySeq
  <2>3. <<>> \o Reads(x) = Reads(x) /\ <<>> \o Writes(x) = Writes(x)
    BY <1>9, ConcatEmptySeq
  <2> QED
    BY <2>1, <2>2, <2>3, Zenon
<1>11. Picked(RegsRead(x), (a \o b) \o m) = x.rregs
  <2>1. Picked(RegsRead(x), (a \o b) \o m)
          = (Picked(RegsRead(x), a) \o Picked(RegsRead(x), b)) \o Picked(RegsRead(x), m)
    BY <1>8, Zenon
  <2> QED
    BY <2>1, <1>2, <1>3, <1>4, <1>10, Zenon
<1>12. Picked(RegsWritten(x), (a \o b) \o m) = x.wregs
  <2>1. Picked(RegsWritten(x), (a \o b) \o m)
          = (Picked(RegsWritten(x), a) \o Picked(RegsWritten(x), b)) \o Picked(RegsWritten(x), m)
    BY <1>8, Zenon
  <2> QED
    BY <2>1, <1>2, <1>3, <1>4, <1>10, Zenon
<1>13. Picked(OpsRead(x), (a \o b) \o m) = Reads(x)
  <2>1. Picked(OpsRead(x), (a \o b) \o m)
          = (Picked(OpsRead(x), a) \o Picked(OpsRead(x), b)) \o Picked(OpsRead(x), m)
    BY <1>8, Zenon
  <2> QED
    BY <2>1, <1>2, <1>3, <1>4, <1>10, Zenon
<1>14. Picked(OpsWritten(x), (a \o b) \o m) = Writes(x)
  <2>1. Picked(OpsWritten(x), (a \o b) \o m)
          = (Picked(OpsWritten(x), a) \o Picked(OpsWritten(x), b)) \o Picked(OpsWritten(x), m)
    BY <1>8, Zenon
  <2> QED
    BY <2>1, <1>2, <1>3, <1>4, <1>10, Zenon
<1> QED
  BY <1>5, <1>6, <1>11, <1>12, <1>13, <1>14, Zenon

\* Every call around x: those that fill slots, those that bring values, the commit.
IsAll(x, v, all) ==
  \E vals \in Seq(ValueCalls(x, v)) :
    /\ all = (Fills(x) \o vals) \o <<CommitCall>>
    /\ Due(x, v) => \A i \in 1..Len(x.ops) : x.ops[i].written => Holds(vals, ValueCall(x, i))

BeforeKind(x) == {c \in Calls(x) : c[1] # "MemWriteValue"}
AfterKind(x) == {c \in Calls(x) : c[1] \in {"MemWriteValue", "Commit"}}

\* What insert_full_analysis inserts before and after x.
LEMMA CallsAre ==
  ASSUME NEW x \in Instr, values \in BOOLEAN
  PROVE  /\ BeforeCalls(x) \in Seq(BeforeKind(x)) /\ AfterCalls(x) \in Seq(AfterKind(x))
         /\ IsAll(x, values, BeforeCalls(x) \o AfterCalls(x))
<1> DEFINE f == Fills(x)
           ret == IF x.call /\ values /\ ~x.scattered THEN StoreCalls(x, "CallRetAddr") ELSE <<>>
           val == IF PostCalls(x) THEN StoreCalls(x, "MemWriteValue") ELSE <<>>
           o1 == Opt(CommitsBefore(x), CommitCall)
           o2 == Opt(~CommitsBefore(x), CommitCall)
           V == ValueCalls(x, values)
<1>1. BeforeCalls(x) = (f \o ret) \o o1 /\ AfterCalls(x) = val \o o2
  BY DEF BeforeCalls, AfterCalls, Fills, RegCalls, MemCalls, CommitCall
<1>2. /\ x.call \in BOOLEAN /\ x.fall \in BOOLEAN /\ x.scattered \in BOOLEAN /\ ~(x.call /\ x.fall)
      /\ \A i \in 1..Len(x.ops) : x.ops[i].written \in BOOLEAN
  BY InstrTyped
<1>3. PostCalls(x) \in BOOLEAN /\ CommitsBefore(x) = ~PostCalls(x)
  BY DEF PostCalls, CommitsBefore
<1>4. PostCalls(x) => /\ values /\ x.fall /\ ~x.scattered /\ ~x.call
  BY <1>2 DEF PostCalls
<1>5. ~PostCalls(x) /\ values /\ x.fall /\ ~x.scattered => \A i \in 1..Len(x.ops) : ~x.ops[i].written
  BY DEF PostCalls, HasStore
<1>6. \A name : /\ StoreCalls(x, name) \in Seq({name} \X (1..Len(x.ops)))
                /\ \A i \in 1..Len(x.ops) : x.ops[i].written => Holds(StoreCalls(x, name), <<name, i>>)
  BY StoreCallsAre
<1>7. /\ x.call /\ values /\ ~x.scattered => {"CallRetAddr"} \X (1..Len(x.ops)) \subseteq V
      /\ PostCalls(x) => {"MemWriteValue"} \X (1..Len(x.ops)) \subseteq V
      /\ {"CallRetAddr"} \X (1..Len(x.ops)) \subseteq BeforeKind(x)
      /\ {"MemWriteValue"} \X (1..Len(x.ops)) \subseteq AfterKind(x)
  BY <1>4 DEF ValueCalls, ValueCall, Due, Calls, BeforeKind, AfterKind
<1>8. f \in Seq(FillCalls(x))
  BY FillsAre
<1>9. FillCalls(x) \subseteq BeforeKind(x) /\ CommitCall \in BeforeKind(x) /\ CommitCall \in AfterKind(x)
  BY DEF FillCalls, BeforeKind, AfterKind, Calls, CommitCall
<1>10. <<>> \in Seq(V) /\ <<>> \in Seq(BeforeKind(x)) /\ <<>> \in Seq(AfterKind(x))
  BY EmptySeq
<1>11. ret \in Seq(V) /\ ret \in Seq(BeforeKind(x))
  <2>1. StoreCalls(x, "CallRetAddr") \in Seq({"CallRetAddr"} \X (1..Len(x.ops)))
    BY <1>6
  <2>2. StoreCalls(x, "CallRetAddr") \in Seq(BeforeKind(x))
    BY <2>1, <1>7, SeqMonotonic
  <2>3. x.call /\ values /\ ~x.scattered => StoreCalls(x, "CallRetAddr") \in Seq(V)
    BY <2>1, <1>7, SeqMonotonic
  <2> HIDE DEF V
  <2> QED
    BY <2>2, <2>3, <1>10
<1>12. val \in Seq(V) /\ val \in Seq(AfterKind(x))
  <2>1. StoreCalls(x, "MemWriteValue") \in Seq({"MemWriteValue"} \X (1..Len(x.ops)))
    BY <1>6
  <2>2. StoreCalls(x, "MemWriteValue") \in Seq(AfterKind(x))
    BY <2>1, <1>7, SeqMonotonic
  <2>3. PostCalls(x) => StoreCalls(x, "MemWriteValue") \in Seq(V)
    BY <2>1, <1>7, SeqMonotonic
  <2> HIDE DEF V
  <2> QED
    BY <2>2, <2>3, <1>10
<1>13. o1 \in Seq(BeforeKind(x)) /\ o2 \in Seq(AfterKind(x))
  <2>1. <<CommitCall>> \in Seq(BeforeKind(x)) /\ <<CommitCall>> \in Seq(AfterKind(x))
    BY <1>9
  <2> QED
    BY <2>1, <1>10, Zenon DEF Opt
<1>16. BeforeCalls(x) \in Seq(BeforeKind(x)) /\ AfterCalls(x) \in Seq(AfterKind(x))
  <2> HIDE DEF f, ret, val, o1, o2
  <2>1. f \in Seq(BeforeKind(x))
    BY <1>8, <1>9, SeqMonotonic
  <2>2. f \o ret \in Seq(BeforeKind(x))
    BY <2>1, <1>11, ConcatProperties
  <2>3. (f \o ret) \o o1 \in Seq(BeforeKind(x))
    BY <2>2, <1>13, ConcatProperties
  <2>4. val \o o2 \in Seq(AfterKind(x))
    BY <1>12, <1>13, ConcatProperties
  <2> QED
    BY <1>1, <2>3, <2>4
<1>14. CASE CommitsBefore(x)
  <2>1. val = <<>> /\ o1 = <<CommitCall>> /\ o2 = <<>>
    BY <1>14, <1>3 DEF Opt
  <2>2. Due(x, values) => \A i \in 1..Len(x.ops) : x.ops[i].written => Holds(ret, ValueCall(x, i))
    BY <1>2, <1>3, <1>5, <1>6, <1>14 DEF Due, ValueCall
  <2>3. BeforeCalls(x) \o AfterCalls(x) = (f \o ret) \o <<CommitCall>>
    <3>1. AfterCalls(x) = <<>> \o <<>> /\ BeforeCalls(x) = (f \o ret) \o <<CommitCall>>
      BY <1>1, <2>1, Zenon
    <3> HIDE DEF f, ret, val, o1, o2
    <3>2. f \in Seq(BeforeKind(x)) /\ <<CommitCall>> \in Seq(BeforeKind(x)) /\ <<>> \o <<>> = <<>>
      BY <1>8, <1>9, SeqMonotonic
    <3>3. f \o ret \in Seq(BeforeKind(x))
      BY <1>11, <3>2, ConcatProperties
    <3>4. (f \o ret) \o <<CommitCall>> \in Seq(BeforeKind(x))
      BY <3>2, <3>3, ConcatProperties
    <3>5. ((f \o ret) \o <<CommitCall>>) \o <<>> = (f \o ret) \o <<CommitCall>>
      BY <3>4, ConcatEmptySeq
    <3> QED
      BY <3>1, <3>2, <3>5, Zenon
  <2> HIDE DEF f, ret, val, o1, o2, V
  <2> QED
    BY <1>11, <1>16, <2>2, <2>3 DEF IsAll, f, V
<1>15. CASE ~CommitsBefore(x)
  <2>1. ret = <<>> /\ o1 = <<>> /\ o2 = <<CommitCall>>
    BY <1>15, <1>3, <1>4 DEF Opt
  <2>2. Due(x, values) => \A i \in 1..Len(x.ops) : x.ops[i].written => Holds(val, ValueCall(x, i))
    BY <1>3, <1>4, <1>6, <1>15 DEF ValueCall
  <2>3. BeforeCalls(x) \o AfterCalls(x) = (f \o val) \o <<CommitCall>>
    <3> HIDE DEF f, ret, val, o1, o2
    <3>1. /\ f \in Seq(Calls(x)) /\ val \in Seq(Calls(x)) /\ <<CommitCall>> \in Seq(Calls(x))
      <4>1. CommitCall \in Calls(x)
        BY DEF CommitCall, Calls
      <4>2. f \in Seq(Calls(x))
        BY <1>8, SeqMonotonic DEF FillCalls
      <4>3. val \in Seq(Calls(x))
        BY <1>12, SeqMonotonic DEF AfterKind
      <4> QED
        BY <4>1, <4>2, <4>3
    <3>2. (f \o <<>>) \o <<>> = f
      BY <3>1, ConcatEmptySeq
    <3>3. f \o (val \o <<CommitCall>>) = (f \o val) \o <<CommitCall>>
      BY <3>1, ConcatAssociative
    <3> QED
      BY <1>1, <2>1, <3>2, <3>3, Zenon
  <2> HIDE DEF f, ret, val, o1, o2, V
  <2> QED
    BY <1>12, <1>16, <2>2, <2>3 DEF IsAll, f, V
<1> QED
  BY <1>3, <1>14, <1>15

-----------------------------------------------------------------------------
(***************************************************************************)
(* Slots: what goes into them, at most so many.                            *)
(***************************************************************************)

Cap(n, k) == IF n < k THEN n ELSE k

\* What h gives for the members of s, in at most k slots.
Lim(h, s, k) == [n \in 1..Cap(Len(s), k) |-> h[s[n]]]

\* h gives a member of T for every member of S.
Maps(h, S, T) == \A y \in S : h[y] \in T

\* A member more goes into a slot more, where there is one.
LEMMA LimStep ==
  ASSUME NEW S, NEW T, NEW h, Maps(h, S, T), NEW s \in Seq(S), NEW e \in S, NEW k \in Nat
  PROVE  /\ Lim(h, s, k) \in Seq(T) /\ Len(Lim(h, s, k)) = Cap(Len(s), k)
         /\ Lim(h, Append(s, e), k) =
              IF Len(s) < k THEN Append(Lim(h, s, k), h[e]) ELSE Lim(h, s, k)
         /\ Cap(Len(s), k) \in Nat /\ Cap(Len(s), k) <= Len(s)
<1>0. \A y \in S : h[y] \in T
  BY DEF Maps
<1> DEFINE l == Lim(h, s, k)
           t == Append(s, e)
           m == Lim(h, t, k)
<1>1. /\ Len(s) \in Nat /\ \A n \in 1..Len(s) : s[n] \in S
      /\ Len(t) = Len(s) + 1 /\ t[Len(s) + 1] = e /\ \A n \in 1..Len(s) : t[n] = s[n]
  BY LenProperties, ElementOfSeq, AppendProperties
<1>2. /\ Cap(Len(s), k) \in Nat /\ Cap(Len(s), k) <= Len(s)
      /\ Cap(Len(t), k) \in Nat /\ Cap(Len(t), k) <= Len(t)
      /\ Cap(Len(t), k) = IF Len(s) < k THEN Len(s) + 1 ELSE Cap(Len(s), k)
      /\ Len(s) < k => Cap(Len(s), k) = Len(s)
  BY <1>1 DEF Cap
<1>3. l \in Seq(T) /\ Len(l) = Cap(Len(s), k) /\ \A n \in 1..Cap(Len(s), k) : l[n] = h[s[n]]
  <2>1. l \in [1..Cap(Len(s), k) -> T] /\ \A n \in 1..Cap(Len(s), k) : l[n] = h[s[n]]
    BY <1>0, <1>1, <1>2 DEF Lim
  <2> HIDE DEF l
  <2> QED
    BY <2>1, <1>2, MadeSeq
<1>4. m \in Seq(T) /\ Len(m) = Cap(Len(t), k) /\ \A n \in 1..Cap(Len(t), k) : m[n] = h[t[n]]
  <2> HIDE DEF t
  <2>1. \A n \in 1..Len(t) : t[n] \in S
    BY <1>1
  <2>2. m \in [1..Cap(Len(t), k) -> T] /\ \A n \in 1..Cap(Len(t), k) : m[n] = h[t[n]]
    BY <1>0, <1>2, <2>1 DEF Lim
  <2> HIDE DEF m
  <2> QED
    BY <2>2, <1>2, MadeSeq
<1> HIDE DEF l, t, m
<1>5. CASE Len(s) < k
  <2>1. /\ Append(l, h[e]) \in Seq(T) /\ Len(Append(l, h[e])) = Len(l) + 1
        /\ Append(l, h[e])[Len(l) + 1] = h[e] /\ \A n \in 1..Len(l) : Append(l, h[e])[n] = l[n]
    BY <1>0, <1>3, AppendProperties
  <2>2. Len(l) = Len(s) /\ Len(m) = Len(s) + 1
    BY <1>2, <1>3, <1>4, <1>5
  <2>3. ASSUME NEW n \in 1..Len(m) PROVE m[n] = Append(l, h[e])[n]
    <3>1. CASE n = Len(s) + 1
      BY <3>1, <2>1, <2>2, <1>1, <1>4
    <3>2. CASE n # Len(s) + 1
      <4>1. n \in 1..Len(s)
        BY <3>2, <2>2, <1>1
      <4> QED
        BY <4>1, <2>1, <2>2, <1>1, <1>3, <1>4
    <3> QED
      BY <3>1, <3>2
  <2>4. m = Append(l, h[e])
    BY <1>4, <2>1, <2>2, <2>3, SeqEqual
  <2> QED
    BY <1>2, <1>3, <1>5, <2>4 DEF l, m, t
<1>6. CASE ~(Len(s) < k)
  <2>1. Len(m) = Len(l)
    BY <1>2, <1>3, <1>4, <1>6
  <2>2. ASSUME NEW n \in 1..Len(m) PROVE m[n] = l[n]
    <3>1. n \in 1..Len(s) /\ n \in 1..Cap(Len(s), k) /\ n \in 1..Cap(Len(t), k)
      BY <2>1, <1>1, <1>2, <1>3, <1>4
    <3> QED
      BY <3>1, <1>1, <1>3, <1>4
  <2>3. m = l
    BY <1>3, <1>4, <2>1, <2>2, SeqEqual
  <2> QED
    BY <1>2, <1>3, <1>6, <2>3 DEF l, m, t
<1> QED
  BY <1>5, <1>6, <1>1

\* The prefix of what h gives.
LEMMA PrefixIs ==
  ASSUME NEW S, NEW T, NEW h, Maps(h, S, T), NEW s \in Seq(S), NEW k \in Nat,
         NEW t, t = [n \in 1..Len(s) |-> h[s[n]]]
  PROVE  /\ Prefix(t, k) = Lim(h, s, k)
         /\ Len(Prefix(t, k)) = Cap(Len(s), k) /\ Len(t) = Len(s)
<1>0. \A y \in S : h[y] \in T
  BY DEF Maps
<1>1. Len(s) \in Nat /\ \A n \in 1..Len(s) : s[n] \in S
  BY LenProperties, ElementOfSeq
<1>2. t \in [1..Len(s) -> T] /\ \A n \in 1..Len(s) : t[n] = h[s[n]]
  BY <1>0, <1>1
<1>3. PICK u : u = t
  OBVIOUS
<1>4. u \in Seq(T) /\ Len(u) = Len(s)
  <2>1. u \in [1..Len(s) -> T]
    BY <1>2, <1>3
  <2> QED
    BY <2>1, <1>1, MadeSeq, Zenon
<1>5. Cap(Len(s), k) \in Nat /\ Cap(Len(s), k) <= Len(s)
  BY <1>1 DEF Cap
<1> DEFINE c == Cap(Len(s), k)
           l == Lim(h, s, k)
<1>6. Prefix(u, k) = SubSeq(u, 1, c)
  BY <1>4 DEF Prefix, Cap
<1>7. l \in Seq(T) /\ Len(l) = c /\ \A n \in 1..c : l[n] = h[s[n]]
  <2>1. l \in [1..c -> T] /\ \A n \in 1..c : l[n] = h[s[n]]
    BY <1>0, <1>1, <1>5 DEF Lim
  <2> HIDE DEF l
  <2> QED
    BY <2>1, <1>5, MadeSeq
<1>8. \A n \in 1..c : u[n] = h[s[n]] /\ u[n] \in T
  BY <1>1, <1>2, <1>3, <1>5
<1> HIDE DEF c, l
<1>9. c \in Nat
  BY <1>5 DEF c
<1>10. /\ SubSeq(u, 1, c) \in Seq(T) /\ Len(SubSeq(u, 1, c)) = c
       /\ \A n \in 1..c : SubSeq(u, 1, c)[n] = u[n]
  <2>1. /\ SubSeq(u, 1, c) \in Seq(T) /\ Len(SubSeq(u, 1, c)) = IF 1 <= c THEN c - 1 + 1 ELSE 0
        /\ \A n \in 1..(c - 1 + 1) : SubSeq(u, 1, c)[n] = u[1 + n - 1]
    BY <1>8, <1>9, SubSeqProperties
  <2>2. c - 1 + 1 = c /\ \A n \in 1..c : 1 + n - 1 = n
    BY <1>9
  <2> QED
    BY <2>1, <2>2, <1>9
<1>11. SubSeq(u, 1, c) = l
  BY <1>7, <1>8, <1>10, SeqEqual
<1> QED
  BY <1>3, <1>4, <1>6, <1>10, <1>11 DEF c, l

-----------------------------------------------------------------------------
(***************************************************************************)
(* All calls around an instruction, in order, and what the first n of them *)
(* give.                                                                   *)
(***************************************************************************)

\* The first n members of s, and the others.
First(s, n) == [q \in 1..n |-> s[q]]
Rest(s, n) == [q \in 1..(Len(s) - n) |-> s[q + n]]

\* First and rest make up s, and the first grow by one.
LEMMA FirstStep ==
  ASSUME NEW S, NEW s \in Seq(S), NEW n \in 0..Len(s)
  PROVE  /\ First(s, 0) = <<>> /\ First(s, n) \in Seq(S) /\ Rest(s, n) \in Seq(S)
         /\ Len(First(s, n)) = n /\ Len(Rest(s, n)) = Len(s) - n
         /\ s = First(s, n) \o Rest(s, n)
         /\ n # Len(s) => First(s, n + 1) = Append(First(s, n), s[n + 1])
<1> DEFINE f == First(s, n)
           r == Rest(s, n)
<1>1. Len(s) \in Nat /\ n \in Nat /\ \A q \in 1..Len(s) : s[q] \in S
  BY LenProperties, ElementOfSeq
<1>2. First(s, 0) = <<>>
  BY DEF First
<1>3. f \in Seq(S) /\ Len(f) = n /\ \A q \in 1..n : f[q] = s[q]
  <2>1. f \in [1..n -> S] /\ \A q \in 1..n : f[q] = s[q]
    BY <1>1 DEF First
  <2> HIDE DEF f
  <2> QED
    BY <1>1, <2>1, MadeSeq
<1>4. r \in Seq(S) /\ Len(r) = Len(s) - n /\ \A q \in 1..(Len(s) - n) : r[q] = s[q + n]
  <2>1. r \in [1..(Len(s) - n) -> S] /\ \A q \in 1..(Len(s) - n) : r[q] = s[q + n]
    BY <1>1 DEF Rest
  <2>2. Len(s) - n \in Nat
    BY <1>1
  <2> HIDE DEF r
  <2> QED
    BY <2>1, <2>2, MadeSeq
<1> HIDE DEF f, r
<1>5. s = f \o r
  <2>1. /\ f \o r \in Seq(S) /\ Len(f \o r) = Len(s)
        /\ \A q \in 1..Len(s) : (f \o r)[q] = IF q <= n THEN f[q] ELSE r[q - n]
    <3>1. /\ f \o r \in Seq(S) /\ Len(f \o r) = Len(f) + Len(r)
          /\ \A q \in 1..(Len(f) + Len(r)) : (f \o r)[q] = IF q <= Len(f) THEN f[q] ELSE r[q - Len(f)]
      BY <1>3, <1>4, ConcatProperties
    <3>2. n + (Len(s) - n) = Len(s)
      BY <1>1
    <3> QED
      BY <3>1, <3>2, <1>3, <1>4
  <2>2. ASSUME NEW q \in 1..Len(s) PROVE s[q] = (f \o r)[q]
    <3>1. CASE q <= n
      BY <3>1, <2>1, <1>1, <1>3
    <3>2. CASE ~(q <= n)
      <4>1. q - n \in 1..(Len(s) - n) /\ (q - n) + n = q
        BY <3>2, <1>1
      <4> QED
        BY <3>2, <4>1, <2>1, <1>4
    <3> QED
      BY <3>1, <3>2
  <2> QED
    BY <2>1, <2>2, SeqEqual
<1>6. ASSUME n # Len(s) PROVE First(s, n + 1) = Append(f, s[n + 1])
  <2> DEFINE t == First(s, n + 1)
  <2>1. n + 1 \in Nat /\ n + 1 \in 1..Len(s)
    BY <1>1, <1>6
  <2>2. t \in Seq(S) /\ Len(t) = n + 1 /\ \A q \in 1..(n + 1) : t[q] = s[q]
    <3>1. t \in [1..(n + 1) -> S] /\ \A q \in 1..(n + 1) : t[q] = s[q]
      BY <1>1, <2>1 DEF First
    <3> HIDE DEF t
    <3> QED
      BY <2>1, <3>1, MadeSeq
  <2> HIDE DEF t
  <2>3. /\ Append(f, s[n + 1]) \in Seq(S) /\ Len(Append(f, s[n + 1])) = n + 1
        /\ Append(f, s[n + 1])[n + 1] = s[n + 1]
        /\ \A q \in 1..n : Append(f, s[n + 1])[q] = f[q]
    BY <1>1, <1>3, <2>1, AppendProperties
  <2>4. ASSUME NEW q \in 1..(n + 1) PROVE t[q] = Append(f, s[n + 1])[q]
    <3>1. q = n + 1 \/ q \in 1..n
      BY <1>1
    <3> QED
      BY <3>1, <2>2, <2>3, <1>3
  <2>5. t = Append(f, s[n + 1])
    BY <2>2, <2>3, <2>4, SeqEqual
  <2> QED
    BY <2>5 DEF t
<1> QED
  BY <1>2, <1>3, <1>4, <1>5, <1>6 DEF f, r

\* Every call around x, before it and after it.
All(x) == BeforeCalls(x) \o AfterCalls(x)

\* How the calls come: f that fill slots, then those that bring values, the commit
\* last; b of them before the instruction.
Shaped(x, v, all, f, b) ==
  /\ all \in Seq(Calls(x)) /\ Len(all) \in Nat /\ f \in Nat /\ f < Len(all) /\ b \in Nat /\ b <= Len(all)
  /\ \A q \in 1..f : all[q] \in FillCalls(x)
  /\ \A q \in 1..(Len(all) - 1) : f < q => all[q] \in ValueCalls(x, v)
  /\ all[Len(all)] = CommitCall
  /\ Due(x, v) => \A i \in 1..Len(x.ops) : x.ops[i].written =>
                    \E q \in 1..(Len(all) - 1) : all[q] = ValueCall(x, i)
  /\ \A q \in 1..b : all[q] \in BeforeKind(x)
  /\ \A q \in 1..Len(all) : b < q => all[q] \in AfterKind(x)
  /\ First(all, f) = Fills(x)

\* The calls around an instruction come so.
LEMMA AllShaped ==
  ASSUME NEW x \in Instr, values \in BOOLEAN
  PROVE  Shaped(x, values, All(x), Len(Fills(x)), Len(BeforeCalls(x)))
<1> DEFINE all == All(x)
           bc == BeforeCalls(x)
           ac == AfterCalls(x)
           f == Len(Fills(x))
           b == Len(bc)
           N == Len(all)
<1>1. bc \in Seq(BeforeKind(x)) /\ ac \in Seq(AfterKind(x)) /\ IsAll(x, values, all)
  BY CallsAre DEF All
<1>2. BeforeKind(x) \subseteq Calls(x) /\ AfterKind(x) \subseteq Calls(x) /\ FillCalls(x) \subseteq Calls(x)
      /\ ValueCalls(x, values) \subseteq Calls(x)
  BY DEF BeforeKind, AfterKind, FillCalls, ValueCalls
<1>3. bc \in Seq(Calls(x)) /\ ac \in Seq(Calls(x))
  BY <1>1, <1>2, SeqMonotonic
<1>4. all = bc \o ac
  BY DEF All
<1>5. Fills(x) \in Seq(FillCalls(x))
  BY FillsAre
<1> HIDE DEF all, bc, ac
<1>6. /\ all \in Seq(Calls(x)) /\ N = b + Len(ac) /\ b \in Nat /\ Len(ac) \in Nat /\ N \in Nat
      /\ \A q \in 1..N : all[q] = IF q <= b THEN bc[q] ELSE ac[q - b]
  BY <1>3, <1>4, ConcatProperties, LenProperties
<1>7. \A q \in 1..b : all[q] \in BeforeKind(x)
  <2>1. \A q \in 1..b : bc[q] \in BeforeKind(x)
    BY <1>1, ElementOfSeq
  <2> QED
    BY <2>1, <1>6
<1>8. \A q \in 1..N : b < q => all[q] \in AfterKind(x)
  <2>1. \A q \in 1..Len(ac) : ac[q] \in AfterKind(x)
    BY <1>1, ElementOfSeq
  <2>2. \A q \in 1..N : b < q => q - b \in 1..Len(ac) /\ all[q] = ac[q - b]
    BY <1>6
  <2> QED
    BY <2>1, <2>2
<1>9. PICK vals \in Seq(ValueCalls(x, values)) :
        /\ all = (Fills(x) \o vals) \o <<CommitCall>>
        /\ Due(x, values) => \A i \in 1..Len(x.ops) : x.ops[i].written => Holds(vals, ValueCall(x, i))
  BY <1>1 DEF IsAll
<1>10. /\ Fills(x) \in Seq(Calls(x)) /\ vals \in Seq(Calls(x)) /\ CommitCall \in Calls(x)
       /\ <<CommitCall>> \in Seq(Calls(x)) /\ Len(<<CommitCall>>) = 1 /\ <<CommitCall>>[1] = CommitCall
  <2>1. Fills(x) \in Seq(Calls(x)) /\ vals \in Seq(Calls(x))
    BY <1>2, <1>5, <1>9, SeqMonotonic
  <2>2. CommitCall \in Calls(x)
    BY DEF CommitCall, Calls
  <2> QED
    BY <2>1, <2>2
<1>11. PICK fv : fv = Fills(x) \o vals
  OBVIOUS
<1>12. /\ fv \in Seq(Calls(x)) /\ Len(fv) = f + Len(vals) /\ f \in Nat /\ Len(vals) \in Nat
       /\ \A q \in 1..Len(fv) : fv[q] = IF q <= f THEN Fills(x)[q] ELSE vals[q - f]
  BY <1>10, <1>11, ConcatProperties, LenProperties
<1>13. /\ N = Len(fv) + 1 /\ all[N] = CommitCall
       /\ \A q \in 1..(N - 1) : all[q] = IF q <= f THEN Fills(x)[q] ELSE vals[q - f]
  <2>1. /\ N = Len(fv) + 1
        /\ \A q \in 1..N : all[q] = IF q <= Len(fv) THEN fv[q] ELSE <<CommitCall>>[q - Len(fv)]
    <3>1. all = fv \o <<CommitCall>>
      BY <1>9, <1>11
    <3> QED
      <4>1. PICK e : e = <<CommitCall>>
        OBVIOUS
      <4>2. /\ Len(fv \o e) = Len(fv) + Len(e)
            /\ \A q \in 1..(Len(fv) + Len(e)) :
                 (fv \o e)[q] = IF q <= Len(fv) THEN fv[q] ELSE e[q - Len(fv)]
        BY <4>1, <1>10, <1>12, ConcatProperties
      <4> QED
        BY <3>1, <4>1, <4>2, <1>10, Zenon
  <2>2. N \in 1..N /\ N - Len(fv) = 1 /\ ~(N <= Len(fv)) /\ Len(fv) \in Nat
    BY <2>1, <1>12
  <2> QED
    BY <2>1, <2>2, <1>10, <1>12
<1>14. \A q \in 1..f : all[q] = Fills(x)[q] /\ all[q] \in FillCalls(x)
  <2>1. \A q \in 1..f : Fills(x)[q] \in FillCalls(x)
    BY <1>5, ElementOfSeq
  <2>2. \A q \in 1..f : q \in 1..(N - 1) /\ q <= f
    BY <1>12, <1>13
  <2> QED
    BY <2>1, <2>2, <1>13
<1>15. \A q \in 1..(N - 1) : f < q => all[q] \in ValueCalls(x, values)
  <2>1. \A q \in 1..Len(vals) : vals[q] \in ValueCalls(x, values)
    BY <1>9, ElementOfSeq
  <2>2. \A q \in 1..(N - 1) : f < q => q - f \in 1..Len(vals) /\ ~(q <= f)
    BY <1>12, <1>13
  <2> QED
    BY <2>1, <2>2, <1>13
<1>16. ASSUME Due(x, values), NEW i \in 1..Len(x.ops), x.ops[i].written
       PROVE  \E q \in 1..(N - 1) : all[q] = ValueCall(x, i)
  <2>1. PICK q \in 1..Len(vals) : vals[q] = ValueCall(x, i)
    BY <1>9, <1>16 DEF Holds
  <2>2. q + f \in 1..(N - 1) /\ ~(q + f <= f) /\ (q + f) - f = q
    BY <1>12, <1>13
  <2> QED
    BY <2>1, <2>2, <1>13
<1>17. First(all, f) = Fills(x)
  <2>1. First(all, f) \in Seq(Calls(x)) /\ Len(First(all, f)) = f
    <3>1. f \in 0..N
      BY <1>12, <1>13
    <3> QED
      BY <1>6, <3>1, FirstStep
  <2>2. \A q \in 1..f : First(all, f)[q] = Fills(x)[q]
    BY <1>14 DEF First
  <2> QED
    BY <2>1, <2>2, <1>10, SeqEqual
<1>18. f < N /\ b <= N
  BY <1>6, <1>12, <1>13
<1> HIDE DEF f, N, b
<1>19. Shaped(x, values, all, f, b)
  BY <1>6, <1>7, <1>8, <1>12, <1>13, <1>14, <1>15, <1>16, <1>17, <1>18 DEF Shaped, N
<1> QED
  BY <1>19 DEF all, f, b, bc

\* What the first n calls give the record.
RegsIn(x, all, n) == Picked(RegsRead(x), First(all, n))
RegsOut(x, all, n) == Picked(RegsWritten(x), First(all, n))
OpsIn(x, all, n) == Picked(OpsRead(x), First(all, n))
OpsOut(x, all, n) == Picked(OpsWritten(x), First(all, n))

\* One of the four is typed, and grows by what the next call gives.
LEMMA PickedFirst ==
  ASSUME NEW x \in Instr, NEW all \in Seq(Calls(x)), NEW n \in 0..Len(all),
         NEW S, NEW g, Picks(g, Calls(x), S)
  PROVE  /\ Picked(g, First(all, 0)) = <<>>
         /\ Picked(g, First(all, n)) \in Seq(S) /\ Picked(g, Rest(all, n)) \in Seq(S)
         /\ Picked(g, all) = Picked(g, First(all, n)) \o Picked(g, Rest(all, n))
         /\ n # Len(all) => Picked(g, First(all, n + 1)) = Picked(g, First(all, n)) \o g[all[n + 1]]
<1>1. /\ First(all, 0) = <<>> /\ First(all, n) \in Seq(Calls(x)) /\ Rest(all, n) \in Seq(Calls(x))
      /\ all = First(all, n) \o Rest(all, n)
      /\ n # Len(all) => First(all, n + 1) = Append(First(all, n), all[n + 1])
  BY FirstStep
<1>2. ASSUME NEW c \in Seq(Calls(x)), NEW a \in Calls(x)
      PROVE  /\ Picked(g, <<>>) = <<>> /\ Picked(g, c) \in Seq(S)
             /\ Picked(g, Append(c, a)) = Picked(g, c) \o g[a]
  BY PickedStep
<1>3. <<"Commit", 0>> \in Calls(x)
  BY DEF Calls
<1>4. Picked(g, <<>>) = <<>> /\ Picked(g, First(all, n)) \in Seq(S) /\ Picked(g, Rest(all, n)) \in Seq(S)
  BY <1>1, <1>2, <1>3
<1>5. Picked(g, First(all, n) \o Rest(all, n)) = Picked(g, First(all, n)) \o Picked(g, Rest(all, n))
  BY <1>1, PickedConcat
<1>6. n # Len(all) => all[n + 1] \in Calls(x)
  <2>1. n # Len(all) => n + 1 \in 1..Len(all)
    BY LenProperties
  <2> QED
    BY <2>1, ElementOfSeq
<1>7. n # Len(all) => Picked(g, First(all, n + 1)) = Picked(g, First(all, n)) \o g[all[n + 1]]
  BY <1>1, <1>2, <1>6
<1>8. Picked(g, all) = Picked(g, First(all, n)) \o Picked(g, Rest(all, n))
  BY <1>1, <1>5, Zenon
<1> QED
  BY <1>1, <1>4, <1>7, <1>8

\* After the calls that fill slots nothing more is given.
LEMMA RestSilent ==
  ASSUME NEW x \in Instr, NEW v, NEW all, NEW f, NEW b, Shaped(x, v, all, f, b),
         NEW n \in 0..Len(all), f <= n,
         NEW g \in {RegsRead(x), RegsWritten(x), OpsRead(x), OpsWritten(x)}
  PROVE  Picked(g, Rest(all, n)) = <<>>
<1>1. /\ all \in Seq(Calls(x)) /\ Len(all) \in Nat /\ f \in Nat
      /\ \A q \in 1..(Len(all) - 1) : f < q => all[q] \in ValueCalls(x, v)
      /\ all[Len(all)] = CommitCall
  BY DEF Shaped
<1>2. Rest(all, n) \in Seq(Calls(x)) /\ Len(Rest(all, n)) = Len(all) - n
  BY <1>1, FirstStep
<1>3. ASSUME NEW q \in 1..Len(Rest(all, n))
      PROVE  Rest(all, n)[q][1] \in {"CallRetAddr", "MemWriteValue", "Commit"}
  <2>1. /\ Rest(all, n)[q] = all[q + n] /\ q + n \in 1..Len(all) /\ f < q + n
    BY <1>1, <1>2 DEF Rest
  <2>2. CASE q + n = Len(all)
    BY <1>1, <2>1, <2>2 DEF CommitCall
  <2>3. CASE q + n # Len(all)
    <3>1. all[q + n] \in ValueCalls(x, v)
      BY <1>1, <2>1, <2>3
    <3> QED
      BY <2>1, <3>1 DEF ValueCalls, ValueCall
  <2> QED
    BY <2>2, <2>3
<1>4. \A q \in 1..Len(Rest(all, n)) :
        Rest(all, n)[q][1] \notin {"RegRead", "RegWrite", "Scattered", "MemRead", "MemWrite"}
  BY <1>3
<1> QED
  BY <1>2, <1>4, SilentCalls

\* The next call adds what it gives.
Grows(x, all, n) ==
  /\ RegsIn(x, all, n + 1) = RegsIn(x, all, n) \o RegsRead(x)[all[n + 1]]
  /\ RegsOut(x, all, n + 1) = RegsOut(x, all, n) \o RegsWritten(x)[all[n + 1]]
  /\ OpsIn(x, all, n + 1) = OpsIn(x, all, n) \o OpsRead(x)[all[n + 1]]
  /\ OpsOut(x, all, n + 1) = OpsOut(x, all, n) \o OpsWritten(x)[all[n + 1]]

\* What the calls give is typed, grows call by call, and is everything once the f calls
\* that fill slots have run.
LEMMA GotStep ==
  ASSUME NEW x \in Instr, NEW v, NEW all, NEW f, NEW b, Shaped(x, v, all, f, b), NEW n \in 0..Len(all)
  PROVE  /\ RegsIn(x, all, n) \in Seq(Nat) /\ RegsOut(x, all, n) \in Seq(Nat)
         /\ OpsIn(x, all, n) \in Seq(1..Len(x.ops)) /\ OpsOut(x, all, n) \in Seq(1..Len(x.ops))
         /\ RegsIn(x, all, 0) = <<>> /\ RegsOut(x, all, 0) = <<>>
         /\ OpsIn(x, all, 0) = <<>> /\ OpsOut(x, all, 0) = <<>>
         /\ n # Len(all) => Grows(x, all, n)
         /\ f <= n =>
              /\ RegsIn(x, all, n) = x.rregs /\ RegsOut(x, all, n) = x.wregs
              /\ OpsIn(x, all, n) = Reads(x) /\ OpsOut(x, all, n) = Writes(x)
         /\ \A p, q \in 1..Len(OpsOut(x, all, n)) :
              p < q => OpsOut(x, all, n)[p] < OpsOut(x, all, n)[q]
<1>1. all \in Seq(Calls(x)) /\ Len(all) \in Nat /\ f \in Nat /\ f < Len(all) /\ First(all, f) = Fills(x)
  BY DEF Shaped
<1>2. /\ Picks(RegsRead(x), Calls(x), Nat) /\ Picks(RegsWritten(x), Calls(x), Nat)
      /\ Picks(OpsRead(x), Calls(x), 1..Len(x.ops)) /\ Picks(OpsWritten(x), Calls(x), 1..Len(x.ops))
  BY Picking
<1>3. ASSUME NEW S, NEW g, Picks(g, Calls(x), S),
             g \in {RegsRead(x), RegsWritten(x), OpsRead(x), OpsWritten(x)}, NEW k \in 0..Len(all), f <= k
      PROVE  Picked(g, First(all, k)) = Picked(g, all)
  <2>1. /\ Picked(g, First(all, k)) \in Seq(S)
        /\ Picked(g, all) = Picked(g, First(all, k)) \o Picked(g, Rest(all, k))
    BY <1>1, <1>3, PickedFirst
  <2>2. Picked(g, Rest(all, k)) = <<>>
    BY <1>3, RestSilent
  <2>3. Picked(g, First(all, k)) \o <<>> = Picked(g, First(all, k))
    BY <2>1, ConcatEmptySeq
  <2> QED
    BY <2>1, <2>2, <2>3, Zenon
<1>4. f \in 0..Len(all) /\ f <= f
  BY <1>1
<1>5. ASSUME NEW S, NEW g, Picks(g, Calls(x), S),
             g \in {RegsRead(x), RegsWritten(x), OpsRead(x), OpsWritten(x)}, f <= n
      PROVE  Picked(g, First(all, n)) = Picked(g, Fills(x))
  <2>1. Picked(g, First(all, n)) = Picked(g, all)
    BY <1>3, <1>5
  <2>2. Picked(g, First(all, f)) = Picked(g, all)
    BY <1>3, <1>4, <1>5
  <2> QED
    BY <2>1, <2>2, <1>1, Zenon
<1>6. f <= n =>
        /\ RegsIn(x, all, n) = x.rregs /\ RegsOut(x, all, n) = x.wregs
        /\ OpsIn(x, all, n) = Reads(x) /\ OpsOut(x, all, n) = Writes(x)
  <2>1. SUFFICES ASSUME f <= n
                 PROVE  /\ RegsIn(x, all, n) = x.rregs /\ RegsOut(x, all, n) = x.wregs
                        /\ OpsIn(x, all, n) = Reads(x) /\ OpsOut(x, all, n) = Writes(x)
    OBVIOUS
  <2>2. /\ Picked(RegsRead(x), Fills(x)) = x.rregs /\ Picked(RegsWritten(x), Fills(x)) = x.wregs
        /\ Picked(OpsRead(x), Fills(x)) = Reads(x) /\ Picked(OpsWritten(x), Fills(x)) = Writes(x)
    BY FillsAre
  <2>3. Picked(RegsRead(x), First(all, n)) = Picked(RegsRead(x), Fills(x))
    BY <1>2, <1>5, <2>1
  <2>4. Picked(RegsWritten(x), First(all, n)) = Picked(RegsWritten(x), Fills(x))
    BY <1>2, <1>5, <2>1
  <2>5. Picked(OpsRead(x), First(all, n)) = Picked(OpsRead(x), Fills(x))
    BY <1>2, <1>5, <2>1
  <2>6. Picked(OpsWritten(x), First(all, n)) = Picked(OpsWritten(x), Fills(x))
    BY <1>2, <1>5, <2>1
  <2> QED
    BY <2>2, <2>3, <2>4, <2>5, <2>6, Zenon DEF RegsIn, RegsOut, OpsIn, OpsOut
<1>12. ASSUME NEW S, NEW g, Picks(g, Calls(x), S)
       PROVE  /\ Picked(g, First(all, n)) \in Seq(S) /\ Picked(g, First(all, 0)) = <<>>
              /\ n # Len(all) => Picked(g, First(all, n + 1)) = Picked(g, First(all, n)) \o g[all[n + 1]]
  BY <1>1, <1>12, PickedFirst
<1>7. /\ RegsIn(x, all, n) \in Seq(Nat) /\ RegsIn(x, all, 0) = <<>>
      /\ n # Len(all) => RegsIn(x, all, n + 1) = RegsIn(x, all, n) \o RegsRead(x)[all[n + 1]]
  BY <1>2, <1>12, Zenon DEF RegsIn
<1>8. /\ RegsOut(x, all, n) \in Seq(Nat) /\ RegsOut(x, all, 0) = <<>>
      /\ n # Len(all) => RegsOut(x, all, n + 1) = RegsOut(x, all, n) \o RegsWritten(x)[all[n + 1]]
  BY <1>2, <1>12, Zenon DEF RegsOut
<1>9. /\ OpsIn(x, all, n) \in Seq(1..Len(x.ops)) /\ OpsIn(x, all, 0) = <<>>
      /\ n # Len(all) => OpsIn(x, all, n + 1) = OpsIn(x, all, n) \o OpsRead(x)[all[n + 1]]
  BY <1>2, <1>12, Zenon DEF OpsIn
<1>10. /\ OpsOut(x, all, n) \in Seq(1..Len(x.ops)) /\ OpsOut(x, all, 0) = <<>>
       /\ n # Len(all) => OpsOut(x, all, n + 1) = OpsOut(x, all, n) \o OpsWritten(x)[all[n + 1]]
  BY <1>2, <1>12, Zenon DEF OpsOut
<1>11. \A p, q \in 1..Len(OpsOut(x, all, n)) :
         p < q => OpsOut(x, all, n)[p] < OpsOut(x, all, n)[q]
  <2>1. PICK w, t \in Seq(1..Len(x.ops)) : w = OpsOut(x, all, n) /\ Picked(OpsWritten(x), all) = w \o t
    <3>1. /\ Picked(OpsWritten(x), Rest(all, n)) \in Seq(1..Len(x.ops))
          /\ Picked(OpsWritten(x), all) = OpsOut(x, all, n) \o Picked(OpsWritten(x), Rest(all, n))
      BY <1>1, <1>2, PickedFirst DEF OpsOut
    <3> QED
      BY <3>1, <1>10
  <2>2. Picked(OpsWritten(x), all) = Writes(x)
    <3>1. Picked(OpsWritten(x), First(all, f)) = Picked(OpsWritten(x), all)
      BY <1>2, <1>3, <1>4
    <3>2. Picked(OpsWritten(x), Fills(x)) = Writes(x)
      BY FillsAre
    <3> QED
      BY <3>1, <3>2, <1>1, Zenon
  <2>3. /\ w \in Seq(1..Len(x.ops)) /\ Len(w) \in Nat /\ Len(t) \in Nat /\ Len(w \o t) = Len(w) + Len(t)
        /\ \A q \in 1..(Len(w) + Len(t)) : (w \o t)[q] = IF q <= Len(w) THEN w[q] ELSE t[q - Len(w)]
    BY <2>1, <1>10, ConcatProperties, LenProperties
  <2>4. \A q \in 1..Len(w) : q \in 1..Len(w \o t) /\ (w \o t)[q] = w[q]
    BY <2>3
  <2>5. \A p, q \in 1..Len(w \o t) : p < q => (w \o t)[p] < (w \o t)[q]
    BY <2>1, <2>2, Accesses
  <2>6. \A p, q \in 1..Len(w) : p < q => w[p] < w[q]
    BY <2>4, <2>5
  <2> QED
    BY <2>1, <2>6
<1>13. n # Len(all) => Grows(x, all, n)
  BY <1>7, <1>8, <1>9, <1>10, Zenon DEF Grows
<1> QED
  BY <1>6, <1>7, <1>8, <1>9, <1>10, <1>11, <1>13

-----------------------------------------------------------------------------
(***************************************************************************)
(* The record of some registers and operands, and one more of each.        *)
(***************************************************************************)

\* What a slot holds, for an operand read or written; V the operands that have
\* their value.
Mem(m) == m \in [Address -> Nat]
Slot == [addr : Address, value : Nat]
Id == [r \in Nat |-> r]
Loads(x, v, m) ==
  [i \in 1..Len(x.ops) |-> [addr |-> x.ops[i].addr, value |-> IF v THEN m[x.ops[i].addr] ELSE Zero]]
Stores(x, m, V) ==
  [i \in 1..Len(x.ops) |->
     [addr |-> x.ops[i].addr,
      value |-> IF i \in V THEN IF x.call THEN Return ELSE m[x.ops[i].addr] ELSE Zero]]

Record(a, b, c, d, f) == [src_regs |-> a, dst_regs |-> b, src |-> c, dst |-> d, done |-> f]

\* The record of registers rr and rw and operands R and W, and what found no slot.
Made(L, S, rr, rw, R, W) ==
  Record(Lim(Id, rr, NUM_INSTR_SOURCES), Lim(Id, rw, NUM_INSTR_DESTINATIONS),
         Lim(L, R, NUM_INSTR_SOURCES), Lim(S, W, NUM_INSTR_DESTINATIONS), FALSE)
Lost(R, W) ==
  (Len(R) - Cap(Len(R), NUM_INSTR_SOURCES)) + (Len(W) - Cap(Len(W), NUM_INSTR_DESTINATIONS))

\* Both are slots, for every operand.
LEMMA SlotsFit ==
  ASSUME NEW x \in Instr, NEW v, NEW m, Mem(m), NEW V
  PROVE  /\ Maps(Loads(x, v, m), 1..Len(x.ops), Slot) /\ Maps(Stores(x, m, V), 1..Len(x.ops), Slot)
         /\ \A i \in 1..Len(x.ops) :
              /\ Loads(x, v, m)[i] =
                   [addr |-> x.ops[i].addr, value |-> IF v THEN m[x.ops[i].addr] ELSE Zero]
              /\ Stores(x, m, V)[i] =
                   [addr |-> x.ops[i].addr,
                    value |-> IF i \in V THEN IF x.call THEN Return ELSE m[x.ops[i].addr] ELSE Zero]
<1>1. \A i \in 1..Len(x.ops) : x.ops[i].addr \in Address /\ m[x.ops[i].addr] \in Nat
  BY InstrTyped DEF Mem
<1>2. Zero \in Nat /\ Return \in Nat
  BY DEF Zero, Return
<1>3. /\ \A i \in 1..Len(x.ops) :
            Loads(x, v, m)[i] =
              [addr |-> x.ops[i].addr, value |-> IF v THEN m[x.ops[i].addr] ELSE Zero]
  BY DEF Loads
<1>4. \A i \in 1..Len(x.ops) :
        Stores(x, m, V)[i] =
          [addr |-> x.ops[i].addr,
           value |-> IF i \in V THEN IF x.call THEN Return ELSE m[x.ops[i].addr] ELSE Zero]
  BY DEF Stores
<1>5. Maps(Loads(x, v, m), 1..Len(x.ops), Slot)
  <2>1. ASSUME NEW i \in 1..Len(x.ops) PROVE Loads(x, v, m)[i] \in Slot
    <3>1. PICK a \in Address, w \in Nat : Loads(x, v, m)[i] = [addr |-> a, value |-> w]
      BY <1>1, <1>2, <1>3
    <3> QED
      BY <3>1 DEF Slot
  <2> QED
    BY <2>1 DEF Maps
<1>6. Maps(Stores(x, m, V), 1..Len(x.ops), Slot)
  <2>1. ASSUME NEW i \in 1..Len(x.ops) PROVE Stores(x, m, V)[i] \in Slot
    <3>1. PICK a \in Address, w \in Nat : Stores(x, m, V)[i] = [addr |-> a, value |-> w]
      BY <1>1, <1>2, <1>4
    <3> QED
      BY <3>1 DEF Slot
  <2> QED
    BY <2>1 DEF Maps
<1> QED
  BY <1>3, <1>4, <1>5, <1>6

\* One field of the record changes.
LEMMA Update ==
  ASSUME NEW a, NEW b, NEW c, NEW d, NEW e, NEW f, NEW k, k = Record(a, b, c, d, f)
  PROVE  /\ [k EXCEPT !.src_regs = e] = Record(e, b, c, d, f)
         /\ [k EXCEPT !.dst_regs = e] = Record(a, e, c, d, f)
         /\ [k EXCEPT !.src = e] = Record(a, b, e, d, f)
         /\ [k EXCEPT !.dst = e] = Record(a, b, c, e, f)
         /\ [k EXCEPT !.done = e] = Record(a, b, c, d, e)
         /\ k.src_regs = a /\ k.dst_regs = b /\ k.src = c /\ k.dst = d
  BY DEF Record

\* A register more, where there is room.
PutSrcReg(k, r) == [k EXCEPT !.src_regs = IF Len(@) < NUM_INSTR_SOURCES THEN Append(@, r) ELSE @]
PutDstReg(k, r) == [k EXCEPT !.dst_regs = IF Len(@) < NUM_INSTR_DESTINATIONS THEN Append(@, r) ELSE @]

\* It is the record of a register more.
LEMMA TakeReg ==
  ASSUME NEW L, NEW S, NEW rr \in Seq(Nat), NEW rw \in Seq(Nat), NEW R, NEW W,
         NEW r \in Nat, NEW k, k = Made(L, S, rr, rw, R, W)
  PROVE  /\ Made(L, S, Append(rr, r), rw, R, W) = PutSrcReg(k, r)
         /\ Made(L, S, rr, Append(rw, r), R, W) = PutDstReg(k, r)
<1>1. NUM_INSTR_SOURCES \in Nat /\ NUM_INSTR_DESTINATIONS \in Nat
  BY RecordAssumption
<1>2. Maps(Id, Nat, Nat) /\ Id[r] = r
  BY DEF Id, Maps
<1>3. ASSUME NEW s \in Seq(Nat), NEW c \in Nat
      PROVE  Lim(Id, Append(s, r), c) = IF Len(Lim(Id, s, c)) < c THEN Append(Lim(Id, s, c), r) ELSE Lim(Id, s, c)
  <2>1. /\ Len(Lim(Id, s, c)) = Cap(Len(s), c) /\ Id[r] = r
        /\ Lim(Id, Append(s, r), c) =
             IF Len(s) < c THEN Append(Lim(Id, s, c), Id[r]) ELSE Lim(Id, s, c)
    <3>1. PICK I : I = Nat
      OBVIOUS
    <3>2. Maps(Id, I, I) /\ s \in Seq(I) /\ r \in I
      BY <1>2, <3>1, Zenon
    <3> QED
      BY <1>2, <3>2, LimStep
  <2>2. Cap(Len(s), c) < c <=> Len(s) < c
    BY LenProperties DEF Cap
  <2> QED
    BY <2>1, <2>2
<1> DEFINE a == Lim(Id, rr, NUM_INSTR_SOURCES)
           b == Lim(Id, rw, NUM_INSTR_DESTINATIONS)
           c == Lim(L, R, NUM_INSTR_SOURCES)
           d == Lim(S, W, NUM_INSTR_DESTINATIONS)
           e == IF Len(a) < NUM_INSTR_SOURCES THEN Append(a, r) ELSE a
           g == IF Len(b) < NUM_INSTR_DESTINATIONS THEN Append(b, r) ELSE b
<1>4. k = Record(a, b, c, d, FALSE)
  BY DEF Made
<1>5. Lim(Id, Append(rr, r), NUM_INSTR_SOURCES) = e /\ Lim(Id, Append(rw, r), NUM_INSTR_DESTINATIONS) = g
  BY <1>1, <1>3
<1>6. Made(L, S, Append(rr, r), rw, R, W) =
        Record(e, b, c, d, FALSE)
  BY <1>5, Zenon DEF Made
<1>7. Made(L, S, rr, Append(rw, r), R, W) =
        Record(a, g, c, d, FALSE)
  BY <1>5, Zenon DEF Made
<1>8. /\ [k EXCEPT !.src_regs = e] = Record(e, b, c, d, FALSE)
      /\ [k EXCEPT !.dst_regs = g] = Record(a, g, c, d, FALSE)
      /\ k.src_regs = a /\ k.dst_regs = b
  <2> HIDE DEF a, b, c, d, e, g
  <2>1. PICK f : f = FALSE
    OBVIOUS
  <2>2. k = Record(a, b, c, d, f)
    BY <1>4, <2>1, Zenon
  <2>3. \A y : /\ [k EXCEPT !.src_regs = y] = Record(y, b, c, d, f)
               /\ [k EXCEPT !.dst_regs = y] = Record(a, y, c, d, f)
               /\ k.src_regs = a /\ k.dst_regs = b
    BY <2>2, Update
  <2> QED
    BY <2>1, <2>3, Zenon
<1> QED
  BY <1>6, <1>7, <1>8, Zenon DEF PutSrcReg, PutDstReg

\* A slot more, where there is room.
PutSrc(k, e) == IF Len(k.src) < NUM_INSTR_SOURCES THEN [k EXCEPT !.src = Append(@, e)] ELSE k
PutDst(k, e) == IF Len(k.dst) < NUM_INSTR_DESTINATIONS THEN [k EXCEPT !.dst = Append(@, e)] ELSE k

\* An operand more, read or written.
LEMMA TakeOp ==
  ASSUME NEW I, NEW L, NEW S, Maps(L, I, Slot), Maps(S, I, Slot), NEW rr, NEW rw,
         NEW R \in Seq(I), NEW W \in Seq(I), NEW i \in I,
         NEW k, k = Made(L, S, rr, rw, R, W)
  PROVE  /\ Made(L, S, rr, rw, Append(R, i), W) = PutSrc(k, L[i])
         /\ Lost(Append(R, i), W) =
              IF Len(k.src) < NUM_INSTR_SOURCES THEN Lost(R, W) ELSE Lost(R, W) + 1
         /\ Made(L, S, rr, rw, R, Append(W, i)) = PutDst(k, S[i])
         /\ Lost(R, Append(W, i)) =
              IF Len(k.dst) < NUM_INSTR_DESTINATIONS THEN Lost(R, W) ELSE Lost(R, W) + 1
         /\ Len(k.src) = Cap(Len(R), NUM_INSTR_SOURCES) /\ Len(k.dst) = Cap(Len(W), NUM_INSTR_DESTINATIONS)
         /\ Lost(R, W) \in Nat
<1>1. NUM_INSTR_SOURCES \in Nat /\ NUM_INSTR_DESTINATIONS \in Nat
  BY RecordAssumption
<1>2. ASSUME NEW h, Maps(h, I, Slot), NEW s \in Seq(I), NEW c \in Nat
      PROVE  /\ Lim(h, Append(s, i), c) =
                  IF Len(Lim(h, s, c)) < c THEN Append(Lim(h, s, c), h[i]) ELSE Lim(h, s, c)
             /\ Len(Lim(h, s, c)) = Cap(Len(s), c)
             /\ Len(Append(s, i)) = Len(s) + 1 /\ Len(s) \in Nat
             /\ Cap(Len(s), c) < c <=> Len(s) < c
  <2>2. /\ Len(Lim(h, s, c)) = Cap(Len(s), c)
        /\ Lim(h, Append(s, i), c) =
             IF Len(s) < c THEN Append(Lim(h, s, c), h[i]) ELSE Lim(h, s, c)
    BY <1>2, LimStep
  <2>3. Cap(Len(s), c) < c <=> Len(s) < c
    BY LenProperties DEF Cap
  <2>4. Len(Append(s, i)) = Len(s) + 1 /\ Len(s) \in Nat
    BY LenProperties, AppendProperties
  <2> QED
    BY <2>2, <2>3, <2>4
<1> DEFINE a == Lim(Id, rr, NUM_INSTR_SOURCES)
           b == Lim(Id, rw, NUM_INSTR_DESTINATIONS)
           c == Lim(L, R, NUM_INSTR_SOURCES)
           d == Lim(S, W, NUM_INSTR_DESTINATIONS)
           e == Append(c, L[i])
           g == Append(d, S[i])
<1>3. k = Record(a, b, c, d, FALSE)
  BY DEF Made
<1>11. /\ [k EXCEPT !.src = e] = Record(a, b, e, d, FALSE)
       /\ [k EXCEPT !.dst = g] = Record(a, b, c, g, FALSE)
       /\ k.src = c /\ k.dst = d
  <2> HIDE DEF a, b, c, d, e, g
  <2>1. PICK f : f = FALSE
    OBVIOUS
  <2>2. k = Record(a, b, c, d, f)
    BY <1>3, <2>1, Zenon
  <2>3. \A y : /\ [k EXCEPT !.src = y] = Record(a, b, y, d, f)
               /\ [k EXCEPT !.dst = y] = Record(a, b, c, y, f)
               /\ k.src = c /\ k.dst = d
    BY <2>2, Update
  <2> QED
    BY <2>1, <2>3, Zenon
<1>4. /\ Lim(L, Append(R, i), NUM_INSTR_SOURCES) = IF Len(k.src) < NUM_INSTR_SOURCES THEN e ELSE c
      /\ Len(k.src) = Cap(Len(R), NUM_INSTR_SOURCES) /\ Len(Append(R, i)) = Len(R) + 1 /\ Len(R) \in Nat
  <2>1. /\ Lim(L, Append(R, i), NUM_INSTR_SOURCES) = IF Len(c) < NUM_INSTR_SOURCES THEN e ELSE c
        /\ Len(c) = Cap(Len(R), NUM_INSTR_SOURCES) /\ Len(Append(R, i)) = Len(R) + 1 /\ Len(R) \in Nat
    BY <1>1, <1>2
  <2> QED
    BY <1>11, <2>1, Zenon
<1>5. /\ Lim(S, Append(W, i), NUM_INSTR_DESTINATIONS) = IF Len(k.dst) < NUM_INSTR_DESTINATIONS THEN g ELSE d
      /\ Len(k.dst) = Cap(Len(W), NUM_INSTR_DESTINATIONS) /\ Len(Append(W, i)) = Len(W) + 1 /\ Len(W) \in Nat
  <2>1. /\ Lim(S, Append(W, i), NUM_INSTR_DESTINATIONS) = IF Len(d) < NUM_INSTR_DESTINATIONS THEN g ELSE d
        /\ Len(d) = Cap(Len(W), NUM_INSTR_DESTINATIONS) /\ Len(Append(W, i)) = Len(W) + 1 /\ Len(W) \in Nat
    BY <1>1, <1>2
  <2> QED
    BY <1>11, <2>1, Zenon
<1>6. Made(L, S, rr, rw, Append(R, i), W) =
        Record(a, b, IF Len(k.src) < NUM_INSTR_SOURCES THEN e ELSE c, d, FALSE)
  BY <1>4, Zenon DEF Made
<1>7. Made(L, S, rr, rw, R, Append(W, i)) =
        Record(a, b, c, IF Len(k.dst) < NUM_INSTR_DESTINATIONS THEN g ELSE d, FALSE)
  BY <1>5, Zenon DEF Made
<1>8. Made(L, S, rr, rw, Append(R, i), W) =
        IF Len(k.src) < NUM_INSTR_SOURCES THEN [k EXCEPT !.src = Append(@, L[i])] ELSE k
  <2> HIDE DEF a, b, c, d
  <2> QED
    BY <1>3, <1>6, <1>11, Zenon
<1>9. Made(L, S, rr, rw, R, Append(W, i)) =
        IF Len(k.dst) < NUM_INSTR_DESTINATIONS THEN [k EXCEPT !.dst = Append(@, S[i])] ELSE k
  <2> HIDE DEF a, b, c, d
  <2> QED
    BY <1>3, <1>7, <1>11, Zenon
<1> HIDE DEF a, b, c, d, e, g
<1>12. /\ Made(L, S, rr, rw, Append(R, i), W) = PutSrc(k, L[i])
       /\ Made(L, S, rr, rw, R, Append(W, i)) = PutDst(k, S[i])
  BY <1>8, <1>9, Zenon DEF PutSrc, PutDst
<1>10. /\ Lost(Append(R, i), W) = IF Len(k.src) < NUM_INSTR_SOURCES THEN Lost(R, W) ELSE Lost(R, W) + 1
       /\ Lost(R, Append(W, i)) = IF Len(k.dst) < NUM_INSTR_DESTINATIONS THEN Lost(R, W) ELSE Lost(R, W) + 1
       /\ Lost(R, W) \in Nat
  <2>1. ASSUME NEW u \in Nat, NEW z \in Nat
        PROVE  /\ Cap(u, z) \in Nat /\ Cap(u, z) <= u
               /\ Cap(u + 1, z) = IF Cap(u, z) < z THEN Cap(u, z) + 1 ELSE Cap(u, z)
    BY DEF Cap
  <2>2. PICK p, q : p = Cap(Len(R), NUM_INSTR_SOURCES) /\ q = Cap(Len(W), NUM_INSTR_DESTINATIONS)
    OBVIOUS
  <2>3. /\ p \in Nat /\ q \in Nat /\ p <= Len(R) /\ q <= Len(W)
        /\ Cap(Len(R) + 1, NUM_INSTR_SOURCES) = IF p < NUM_INSTR_SOURCES THEN p + 1 ELSE p
        /\ Cap(Len(W) + 1, NUM_INSTR_DESTINATIONS) = IF q < NUM_INSTR_DESTINATIONS THEN q + 1 ELSE q
    BY <1>1, <1>4, <1>5, <2>1, <2>2
  <2>4. /\ Lost(R, W) = (Len(R) - p) + (Len(W) - q)
        /\ Lost(Append(R, i), W) = ((Len(R) + 1) - Cap(Len(R) + 1, NUM_INSTR_SOURCES)) + (Len(W) - q)
        /\ Lost(R, Append(W, i)) = (Len(R) - p) + ((Len(W) + 1) - Cap(Len(W) + 1, NUM_INSTR_DESTINATIONS))
    BY <1>4, <1>5, <2>2, Zenon DEF Lost
  <2>5. PICK r, w \in Nat : r = Len(R) /\ w = Len(W)
    BY <1>4, <1>5
  <2>6. /\ Lost(Append(R, i), W) = IF p < NUM_INSTR_SOURCES THEN (r - p) + (w - q) ELSE ((r - p) + (w - q)) + 1
        /\ Lost(R, Append(W, i)) = IF q < NUM_INSTR_DESTINATIONS THEN (r - p) + (w - q) ELSE ((r - p) + (w - q)) + 1
        /\ (r - p) + (w - q) \in Nat
    <3>1. /\ p \in Nat /\ q \in Nat /\ p <= r /\ q <= w
          /\ Lost(Append(R, i), W) = ((r + 1) - (IF p < NUM_INSTR_SOURCES THEN p + 1 ELSE p)) + (w - q)
          /\ Lost(R, Append(W, i)) = (r - p) + ((w + 1) - (IF q < NUM_INSTR_DESTINATIONS THEN q + 1 ELSE q))
      BY <2>3, <2>4, <2>5, Zenon
    <3> QED
      BY <3>1, <1>1
  <2>7. Len(k.src) = p /\ Len(k.dst) = q /\ Lost(R, W) = (r - p) + (w - q)
    BY <1>4, <1>5, <2>2, <2>4, <2>5, Zenon
  <2> QED
    BY <2>6, <2>7, Zenon
<1> QED
  BY <1>4, <1>5, <1>10, <1>12

-----------------------------------------------------------------------------
(***************************************************************************)
(* RecordScatteredMemAccess, lane by lane.                                 *)
(***************************************************************************)

\* A record on its way through the lanes.
Pair(k, l) == [curr |-> k, lost |-> l]

\* Operand o is the i-th, and its slot has value v.
Gets(h, i, o, v) == h[i] = [addr |-> o.addr, value |-> v]

\* What operand o, the i-th, adds to those read and to those written.
Reading(o, i) == Opt(o.read /\ o.on, i)
Writing(o, i) == Opt(o.written /\ o.on, i)

Join(t, r, u) == t = r \o u

\* Operand o is read or written, and L and S say what goes to its slot.
Laned(L, S, I, i, o) ==
  /\ Maps(L, I, Slot) /\ Maps(S, I, Slot) /\ i \in I
  /\ o.read \in BOOLEAN /\ o.written \in BOOLEAN /\ o.on \in BOOLEAN /\ o.read # o.written
  /\ Gets(L, i, o, LoadValue(o.addr)) /\ Gets(S, i, o, Zero)

\* One lane takes one operand.
LEMMA LaneStep ==
  ASSUME NEW I, NEW L, NEW S, NEW i, NEW o, Laned(L, S, I, i, o), NEW rr, NEW rw,
         NEW R \in Seq(I), NEW W \in Seq(I),
         NEW R1, Join(R1, R, Reading(o, i)), NEW W1, Join(W1, W, Writing(o, i))
  PROVE  Lane(Pair(Made(L, S, rr, rw, R, W), Lost(R, W)), o)
           = Pair(Made(L, S, rr, rw, R1, W1), Lost(R1, W1))
<1>1. Maps(L, I, Slot) /\ Maps(S, I, Slot) /\ i \in I
  BY DEF Laned
<1>2. Gets(L, i, o, LoadValue(o.addr)) /\ Gets(S, i, o, Zero)
  BY DEF Laned
<1>3. o.read \in BOOLEAN /\ o.written \in BOOLEAN /\ o.on \in BOOLEAN /\ o.read # o.written
  BY DEF Laned
<1> DEFINE k == Made(L, S, rr, rw, R, W)
           s == Pair(k, Lost(R, W))
<1>5. /\ Made(L, S, rr, rw, Append(R, i), W) =
           IF Len(k.src) < NUM_INSTR_SOURCES THEN [k EXCEPT !.src = Append(k.src, L[i])] ELSE k
      /\ Lost(Append(R, i), W) =
           IF Len(k.src) < NUM_INSTR_SOURCES THEN Lost(R, W) ELSE Lost(R, W) + 1
      /\ Made(L, S, rr, rw, R, Append(W, i)) =
           IF Len(k.dst) < NUM_INSTR_DESTINATIONS THEN [k EXCEPT !.dst = Append(k.dst, S[i])] ELSE k
      /\ Lost(R, Append(W, i)) =
           IF Len(k.dst) < NUM_INSTR_DESTINATIONS THEN Lost(R, W) ELSE Lost(R, W) + 1
  <2> HIDE DEF k
  <2>2. k = Made(L, S, rr, rw, R, W)
    BY DEF k
  <2> QED
    <3>1. /\ Made(L, S, rr, rw, Append(R, i), W) = PutSrc(k, L[i])
          /\ Made(L, S, rr, rw, R, Append(W, i)) = PutDst(k, S[i])
          /\ Lost(Append(R, i), W) =
               IF Len(k.src) < NUM_INSTR_SOURCES THEN Lost(R, W) ELSE Lost(R, W) + 1
          /\ Lost(R, Append(W, i)) =
               IF Len(k.dst) < NUM_INSTR_DESTINATIONS THEN Lost(R, W) ELSE Lost(R, W) + 1
      BY <1>1, <2>2, TakeOp
    <3> QED
      BY <3>1, Zenon DEF PutSrc, PutDst
<1>6. /\ R \o <<>> = R /\ W \o <<>> = W /\ R \o <<i>> = Append(R, i) /\ W \o <<i>> = Append(W, i)
  <2>1. R \o <<>> = R /\ W \o <<>> = W
    BY ConcatEmptySeq
  <2>2. \A T : \A w \in Seq(T), y \in T : w \o <<y>> = Append(w, y)
    OBVIOUS
  <2>3. R \o <<i>> = Append(R, i) /\ W \o <<i>> = Append(W, i)
    BY <1>1, <2>2, Zenon
  <2> QED
    BY <2>1, <2>3
<1>7. \A e : /\ [s EXCEPT !.curr.src = e] = Pair([k EXCEPT !.src = e], Lost(R, W))
             /\ [s EXCEPT !.curr.dst = e] = Pair([k EXCEPT !.dst = e], Lost(R, W))
             /\ [s EXCEPT !.lost = e] = Pair(k, e)
             /\ s.curr = k /\ s.lost = Lost(R, W)
  <2> HIDE DEF k
  <2>1. PICK t : t = s
    OBVIOUS
  <2>2. t = Pair(k, Lost(R, W))
    BY <2>1
  <2> HIDE DEF s
  <2>3. \A e : /\ [t EXCEPT !.curr.src = e] = Pair([k EXCEPT !.src = e], Lost(R, W))
               /\ [t EXCEPT !.curr.dst = e] = Pair([k EXCEPT !.dst = e], Lost(R, W))
               /\ [t EXCEPT !.lost = e] = Pair(k, e)
               /\ t.curr = k /\ t.lost = Lost(R, W)
    <3>1. PICK l : l = Lost(R, W)
      OBVIOUS
    <3>2. t = Pair(k, l)
      BY <2>2, <3>1
    <3>3. t.curr = k /\ t.lost = l /\ \A y : [t EXCEPT !.curr = y] = Pair(y, l) /\ [t EXCEPT !.lost = y] = Pair(k, y)
      BY <3>2 DEF Pair
    <3> QED
      BY <3>1, <3>3, Zenon
  <2> QED
    BY <2>1, <2>3, Zenon
<1> HIDE DEF k, s
<1>8. CASE ~o.on
  <2>1. R1 = R /\ W1 = W
    BY <1>6, <1>8, Zenon DEF Opt, Reading, Writing, Join
  <2>2. Lane(s, o) = s
    BY <1>8 DEF Lane
  <2> QED
    BY <2>1, <2>2, Zenon DEF s, k
<1>9. CASE o.on /\ o.read
  <2>1. R1 = Append(R, i) /\ W1 = W
    BY <1>3, <1>6, <1>9 DEF Opt, Reading, Writing, Join
  <2>2. Lane(s, o) = IF Len(s.curr.src) < NUM_INSTR_SOURCES
                     THEN [s EXCEPT !.curr.src = Append(s.curr.src, L[i])]
                     ELSE [s EXCEPT !.lost = s.lost + 1]
    BY <1>2, <1>9, Zenon DEF Lane, Gets
  <2>3. Lane(s, o) = IF Len(k.src) < NUM_INSTR_SOURCES
                     THEN Pair([k EXCEPT !.src = Append(k.src, L[i])], Lost(R, W))
                     ELSE Pair(k, Lost(R, W) + 1)
    BY <2>2, <1>7, Zenon
  <2>4. Lane(s, o) = Pair(Made(L, S, rr, rw, Append(R, i), W), Lost(Append(R, i), W))
    BY <2>3, <1>5, Zenon
  <2> QED
    BY <2>1, <2>4, Zenon DEF s, k
<1>10. CASE o.on /\ ~o.read
  <2>1. R1 = R /\ W1 = Append(W, i)
    BY <1>3, <1>6, <1>10 DEF Opt, Reading, Writing, Join
  <2>2. Lane(s, o) = IF Len(s.curr.dst) < NUM_INSTR_DESTINATIONS
                     THEN [s EXCEPT !.curr.dst = Append(s.curr.dst, S[i])]
                     ELSE [s EXCEPT !.lost = s.lost + 1]
    BY <1>2, <1>10, Zenon DEF Lane, Gets
  <2>3. Lane(s, o) = IF Len(k.dst) < NUM_INSTR_DESTINATIONS
                     THEN Pair([k EXCEPT !.dst = Append(k.dst, S[i])], Lost(R, W))
                     ELSE Pair(k, Lost(R, W) + 1)
    BY <2>2, <1>7, Zenon
  <2>4. Lane(s, o) = Pair(Made(L, S, rr, rw, R, Append(W, i)), Lost(R, Append(W, i)))
    BY <2>3, <1>5, Zenon
  <2> QED
    BY <2>1, <2>4, Zenon DEF s, k
<1> QED
  BY <1>3, <1>8, <1>9, <1>10

\* h takes the lanes one by one, and the function the loop is.
Runs(h, N, ops, a) ==
  h = [n \in 0..N |-> IF n = 0 THEN a ELSE Lane(h[n - 1], ops[n])]
Loop(N, ops, a) ==
  CHOOSE s : s = [n \in 0..N |-> IF n = 0 THEN a ELSE Lane(s[n - 1], ops[n])]

\* The recursive function of RecordScatteredMemAccess is any function that runs so.
LEMMA LaneLoop ==
  ASSUME NEW N \in Nat, NEW ops, NEW a, NEW h, Runs(h, N, ops, a)
  PROVE  Loop(N, ops, a)[N] = h[N]
<1>1. PICK c : c = Loop(N, ops, a)
  OBVIOUS
<1>2. Runs(c, N, ops, a)
  <2>1. Loop(N, ops, a) = CHOOSE s : Runs(s, N, ops, a)
    BY DEF Loop, Runs
  <2> QED
    BY <1>1, <2>1
<1>3. ASSUME NEW g, Runs(g, N, ops, a)
      PROVE  \A n \in 0..N : g[n] = IF n = 0 THEN a ELSE Lane(g[n - 1], ops[n])
  <2>1. g = [n \in 0..N |-> IF n = 0 THEN a ELSE Lane(g[n - 1], ops[n])]
    BY <1>3 DEF Runs
  <2>2. PICK f : f = [n \in 0..N |-> IF n = 0 THEN a ELSE Lane(g[n - 1], ops[n])]
    OBVIOUS
  <2>3. \A n \in 0..N : f[n] = IF n = 0 THEN a ELSE Lane(g[n - 1], ops[n])
    BY <2>2
  <2>4. g = f
    BY <2>1, <2>2, Zenon
  <2> QED
    BY <2>3, <2>4, Zenon
<1>7. \A n \in 0..N : c[n] = IF n = 0 THEN a ELSE Lane(c[n - 1], ops[n])
  BY <1>2, <1>3
<1>8. \A n \in 0..N : h[n] = IF n = 0 THEN a ELSE Lane(h[n - 1], ops[n])
  BY <1>3
<1> DEFINE T == {n \in Nat : n <= N => c[n] = h[n]}
<1>4. 0 \in T
  <2>1. 0 \in 0..N
    OBVIOUS
  <2> QED
    BY <1>7, <1>8, <2>1
<1>5. ASSUME NEW n \in T PROVE n + 1 \in T
  <2>1. SUFFICES ASSUME n + 1 <= N PROVE c[n + 1] = h[n + 1]
    OBVIOUS
  <2>2. n \in Nat /\ n <= N /\ n + 1 \in 0..N /\ n + 1 # 0 /\ (n + 1) - 1 = n
    BY <2>1
  <2>3. c[n] = h[n]
    BY <2>2
  <2>4. c[n + 1] = Lane(c[n], ops[n + 1]) /\ h[n + 1] = Lane(h[n], ops[n + 1])
    BY <2>2, <1>7, <1>8
  <2> QED
    BY <2>3, <2>4
<1>6. T = Nat
  <2>1. T \in SUBSET Nat
    OBVIOUS
  <2> HIDE DEF T
  <2> QED
    BY <1>4, <1>5, <2>1, Upward
<1>9. N \in T
  <2> HIDE DEF T
  <2> QED
    BY <1>6
<1>10. N <= N => c[N] = h[N]
  BY <1>9
<1> QED
  BY <1>1, <1>10

\* What the lanes take, and where it goes.
LEMMA LanesAre ==
  ASSUME NEW x \in Instr, x.scattered, Mem(memory), NEW I, I = 1..Len(x.ops),
         NEW L, L = Loads(x, values, memory), NEW S, S = Stores(x, memory, {})
  PROVE  \A i \in I : Laned(L, S, I, i, x.ops[i])
<1>1. \A V : Maps(Loads(x, values, memory), 1..Len(x.ops), Slot) /\ Maps(Stores(x, memory, V), 1..Len(x.ops), Slot)
  BY SlotsFit
<1>2. Maps(L, I, Slot) /\ Maps(S, I, Slot)
  BY <1>1, Zenon
<1>3. SUFFICES ASSUME NEW i \in I PROVE Laned(L, S, I, i, x.ops[i])
  OBVIOUS
<1>4. i \in 1..Len(x.ops)
  BY Zenon
<1>5. /\ x.ops[i].read \in BOOLEAN /\ x.ops[i].written \in BOOLEAN /\ x.ops[i].on \in BOOLEAN
      /\ x.ops[i].read # x.ops[i].written
  BY <1>4, InstrTyped
<1>6. /\ L[i] = [addr |-> x.ops[i].addr, value |-> IF values THEN memory[x.ops[i].addr] ELSE Zero]
      /\ S[i] = [addr |-> x.ops[i].addr,
                 value |-> IF i \in {} THEN IF x.call THEN Return ELSE memory[x.ops[i].addr] ELSE Zero]
  BY <1>4, Zenon DEF Loads, Stores
<1>7. Gets(L, i, x.ops[i], LoadValue(x.ops[i].addr)) /\ Gets(S, i, x.ops[i], Zero)
  BY <1>6, Zenon DEF Gets, LoadValue
<1> QED
  BY <1>2, <1>5, <1>7 DEF Laned

\* RecordScatteredMemAccess takes every operand that is on.
LEMMA Scattering ==
  ASSUME ins \in Instr, ins.scattered, Mem(memory),
         NEW L, L = Loads(ins, values, memory), NEW S, S = Stores(ins, memory, {}),
         NEW rr, NEW rw, NEW R \in Seq(1..Len(ins.ops)), NEW W \in Seq(1..Len(ins.ops)),
         curr_instr = Made(L, S, rr, rw, R, W), overflow = Lost(R, W), RecordScatteredMemAccess
  PROVE  /\ curr_instr' = Made(L, S, rr, rw, R \o Reads(ins), W \o Writes(ins))
         /\ overflow' = Lost(R \o Reads(ins), W \o Writes(ins))
<1>1. PICK x : x = ins
  OBVIOUS
<1>2. PICK N : N = Len(x.ops)
  OBVIOUS
<1>3. PICK I : I = 1..N
  OBVIOUS
<1>4. x \in Instr /\ N \in Nat /\ R \in Seq(I) /\ W \in Seq(I)
  <2>1. R \in Seq(I) /\ W \in Seq(I) /\ x \in Instr
    BY <1>1, <1>2, <1>3, Zenon
  <2>2. N \in Nat
    BY <2>1, <1>2, InstrTyped
  <2> QED
    BY <2>1, <2>2
<1>6. \A i \in I : Laned(L, S, I, i, x.ops[i])
  <2>1. x.scattered /\ I = 1..Len(x.ops) /\ L = Loads(x, values, memory) /\ S = Stores(x, memory, {})
    BY <1>1, <1>2, <1>3, Zenon
  <2> QED
    BY <1>4, <2>1, LanesAre
<1> DEFINE rs == [i \in 1..N |-> Reading(x.ops[i], i)]
           ws == [i \in 1..N |-> Writing(x.ops[i], i)]
<1>7. /\ rs \in Seq(Seq(I)) /\ Len(rs) = N /\ ws \in Seq(Seq(I)) /\ Len(ws) = N
      /\ \A i \in 1..N : /\ rs[i] = Reading(x.ops[i], i)
                         /\ ws[i] = Writing(x.ops[i], i)
  <2>1. \A y : \A i \in 1..N : Opt(y, i) \in Seq(I)
    <3>1. SUFFICES ASSUME NEW y, NEW i \in 1..N PROVE Opt(y, i) \in Seq(I)
      OBVIOUS
    <3>2. i \in I
      BY <1>3, Zenon
    <3>3. <<>> \in Seq(I) /\ <<i>> \in Seq(I)
      BY <3>2
    <3> QED
      BY <3>3, Zenon DEF Opt
  <2>2. rs \in [1..N -> Seq(I)] /\ ws \in [1..N -> Seq(I)]
    BY <2>1 DEF Reading, Writing
  <2>3. /\ \A i \in 1..N : /\ rs[i] = Reading(x.ops[i], i)
                           /\ ws[i] = Writing(x.ops[i], i)
    OBVIOUS
  <2> HIDE DEF rs, ws
  <2>4. rs \in Seq(Seq(I)) /\ Len(rs) = N
    BY <2>2, <1>4, MadeSeq
  <2>5. ws \in Seq(Seq(I)) /\ Len(ws) = N
    BY <2>2, <1>4, MadeSeq
  <2> QED
    BY <2>3, <2>4, <2>5
<1>8. Reads(ins) = FlattenSeq(rs) /\ Writes(ins) = FlattenSeq(ws)
  BY <1>1, <1>2, Zenon DEF Reads, Writes, Reading, Writing
<1> HIDE DEF rs, ws
<1> DEFINE RA(n) == R \o Upto(rs, n)
           WA(n) == W \o Upto(ws, n)
           At(n) == Pair(Made(L, S, rr, rw, RA(n), WA(n)), Lost(RA(n), WA(n)))
           h == [n \in 0..N |-> At(n)]
<1>9. \A n \in 0..N : /\ Upto(rs, 0) = <<>> /\ Upto(rs, n) \in Seq(I)
                      /\ n # N => Upto(rs, n + 1) = Upto(rs, n) \o rs[n + 1]
                      /\ Upto(rs, N) = FlattenSeq(rs)
                      /\ Upto(ws, 0) = <<>> /\ Upto(ws, n) \in Seq(I)
                      /\ n # N => Upto(ws, n + 1) = Upto(ws, n) \o ws[n + 1]
                      /\ Upto(ws, N) = FlattenSeq(ws)
  <2>1. SUFFICES ASSUME NEW n \in 0..N
                 PROVE  /\ Upto(rs, 0) = <<>> /\ Upto(rs, n) \in Seq(I)
                        /\ n # N => Upto(rs, n + 1) = Upto(rs, n) \o rs[n + 1]
                        /\ Upto(rs, N) = FlattenSeq(rs)
                        /\ Upto(ws, 0) = <<>> /\ Upto(ws, n) \in Seq(I)
                        /\ n # N => Upto(ws, n + 1) = Upto(ws, n) \o ws[n + 1]
                        /\ Upto(ws, N) = FlattenSeq(ws)
    OBVIOUS
  <2>2. /\ Upto(rs, 0) = <<>> /\ Upto(rs, n) \in Seq(I)
        /\ n # N => Upto(rs, n + 1) = Upto(rs, n) \o rs[n + 1]
        /\ Upto(rs, N) = FlattenSeq(rs)
    BY <1>7, UptoStep
  <2>3. /\ Upto(ws, 0) = <<>> /\ Upto(ws, n) \in Seq(I)
        /\ n # N => Upto(ws, n + 1) = Upto(ws, n) \o ws[n + 1]
        /\ Upto(ws, N) = FlattenSeq(ws)
    BY <1>7, UptoStep
  <2> QED
    BY <2>2, <2>3
<1>10. 0 \in 0..N /\ N \in 0..N
  BY <1>4
<1>11. At(0) = Pair(curr_instr, overflow)
  <2>1. R \o <<>> = R /\ W \o <<>> = W
    BY <1>4, ConcatEmptySeq
  <2> QED
    BY <1>9, <1>10, <2>1, Zenon
<1>12. ASSUME NEW n \in 1..N PROVE At(n) = Lane(At(n - 1), x.ops[n])
  <2>1. PICK p : p = n - 1
    OBVIOUS
  <2>2. p \in 0..N /\ p # N /\ p + 1 = n /\ n \in I
    BY <1>3, <1>4, <2>1
  <2>3. Upto(rs, n) = Upto(rs, p) \o rs[n] /\ Upto(ws, n) = Upto(ws, p) \o ws[n]
        /\ Upto(rs, p) \in Seq(I) /\ Upto(ws, p) \in Seq(I)
    BY <1>9, <2>2
  <2>4. rs[n] \in Seq(I) /\ ws[n] \in Seq(I)
    BY <1>7, ElementOfSeq
  <2>5. RA(n) = RA(p) \o rs[n] /\ WA(n) = WA(p) \o ws[n] /\ RA(p) \in Seq(I) /\ WA(p) \in Seq(I)
    <3>1. R \o (Upto(rs, p) \o rs[n]) = (R \o Upto(rs, p)) \o rs[n]
      <4>1. PICK y, u, e : y = R /\ u = Upto(rs, p) /\ e = rs[n]
        OBVIOUS
      <4>2. y \in Seq(I) /\ u \in Seq(I) /\ e \in Seq(I)
        BY <1>4, <2>3, <2>4, <4>1
      <4>3. (y \o u) \o e = y \o (u \o e)
        BY <4>2, ConcatAssociative
      <4> QED
        BY <4>1, <4>3, Zenon
    <3>2. W \o (Upto(ws, p) \o ws[n]) = (W \o Upto(ws, p)) \o ws[n]
      <4>1. PICK y, u, e : y = W /\ u = Upto(ws, p) /\ e = ws[n]
        OBVIOUS
      <4>2. y \in Seq(I) /\ u \in Seq(I) /\ e \in Seq(I)
        BY <1>4, <2>3, <2>4, <4>1
      <4>3. (y \o u) \o e = y \o (u \o e)
        BY <4>2, ConcatAssociative
      <4> QED
        BY <4>1, <4>3, Zenon
    <3>3. R \o Upto(rs, p) \in Seq(I) /\ W \o Upto(ws, p) \in Seq(I)
      BY <1>4, <2>3, ConcatProperties
    <3> QED
      BY <2>3, <3>1, <3>2, <3>3, Zenon
  <2>6. PICK R0, W0, R1, W1, o : R0 = RA(p) /\ W0 = WA(p) /\ R1 = RA(n) /\ W1 = WA(n) /\ o = x.ops[n]
    OBVIOUS
  <2>7. /\ R0 \in Seq(I) /\ W0 \in Seq(I) /\ Join(R1, R0, Reading(o, n)) /\ Join(W1, W0, Writing(o, n))
    <3>1. rs[n] = Reading(o, n) /\ ws[n] = Writing(o, n)
      BY <1>7, <2>6, Zenon
    <3> QED
      BY <2>5, <2>6, <3>1, Zenon DEF Join
  <2>8. Laned(L, S, I, n, o)
    BY <1>6, <2>2, <2>6, Zenon
  <2> HIDE DEF RA, WA
  <2>9. Lane(Pair(Made(L, S, rr, rw, R0, W0), Lost(R0, W0)), o) = Pair(Made(L, S, rr, rw, R1, W1), Lost(R1, W1))
    BY <2>7, <2>8, LaneStep
  <2> QED
    BY <2>1, <2>6, <2>9, Zenon
<1> HIDE DEF RA, WA
<1>13. Runs(h, N, x.ops, Pair(curr_instr, overflow)) /\ h[N] = At(N)
  <2> HIDE DEF At
  <2>1. ASSUME NEW n \in 0..N
        PROVE  At(n) = IF n = 0 THEN Pair(curr_instr, overflow) ELSE Lane(h[n - 1], x.ops[n])
    <3>1. n # 0 => n \in 1..N /\ n - 1 \in 0..N /\ h[n - 1] = At(n - 1)
      BY <1>4
    <3> QED
      BY <3>1, <1>11, <1>12, Zenon
  <2>2. h[N] = At(N)
    BY <1>10
  <2>3. h = [n \in 0..N |-> IF n = 0 THEN Pair(curr_instr, overflow) ELSE Lane(h[n - 1], x.ops[n])]
    BY <2>1, Zenon
  <2> QED
    BY <2>2, <2>3 DEF Runs
<1> HIDE DEF At, h
<1>14. PICK c : c = Loop(N, x.ops, Pair(curr_instr, overflow))
  OBVIOUS
<1>15. c[N] = h[N]
  BY <1>4, <1>13, <1>14, LaneLoop
<1>16. curr_instr' = c[N].curr /\ overflow' = c[N].lost
  BY <1>1, <1>2, <1>14, Zenon DEF RecordScatteredMemAccess, Pair, Loop
<1>17. At(N) = Pair(Made(L, S, rr, rw, RA(N), WA(N)), Lost(RA(N), WA(N)))
  BY DEF At
<1>18. \A k, l : Pair(k, l).curr = k /\ Pair(k, l).lost = l
  BY DEF Pair
<1>19. RA(N) = R \o Reads(ins) /\ WA(N) = W \o Writes(ins)
  BY <1>8, <1>9, <1>10, Zenon DEF RA, WA
<1>20. PICK k, l : k = Made(L, S, rr, rw, RA(N), WA(N)) /\ l = Lost(RA(N), WA(N))
  OBVIOUS
<1>21. c[N] = Pair(k, l)
  BY <1>13, <1>15, <1>17, <1>20, Zenon
<1>22. curr_instr' = k /\ overflow' = l
  BY <1>16, <1>18, <1>21
<1> QED
  BY <1>19, <1>20, <1>22, Zenon

-----------------------------------------------------------------------------
(***************************************************************************)
(* The next call: what it is, what it gives, which values it brings.       *)
(***************************************************************************)

\* The operands whose value the first n calls brought.
Valued(x, all, n) ==
  {i \in 1..Len(x.ops) : x.ops[i].on /\ \E q \in 1..n : all[q] = ValueCall(x, i)}

\* What the call after the first n can be.
LEMMA NextCall ==
  ASSUME NEW x \in Instr, NEW v, NEW all, NEW f, NEW b, Shaped(x, v, all, f, b),
         NEW n \in Nat, n < Len(all), NEW c, c = all[n + 1]
  PROVE  /\ c \in Calls(x)
         /\ c[1] = "Commit" <=> n + 1 = Len(all)
         /\ c[1] = "Scattered" => x.scattered
         /\ c[1] = "MemWrite" => ~x.scattered /\ n + 1 <= f
         /\ c[1] = "CallRetAddr" => Due(x, v) /\ x.call /\ f <= n
         /\ c[1] = "MemWriteValue" => Due(x, v) /\ ~x.call /\ f <= n
         /\ c[1] \in {"CallRetAddr", "MemWriteValue"} => c = ValueCall(x, c[2]) /\ c[2] \in 1..Len(x.ops)
         /\ c[1] \in {"MemWriteValue"} => b < n + 1
         /\ c[1] \notin {"MemWriteValue", "Commit"} => n + 1 <= b
<1>1. n + 1 \in 1..Len(all) /\ Len(all) \in Nat /\ f \in Nat /\ f < Len(all) /\ b \in Nat
      /\ all \in Seq(Calls(x))
  BY DEF Shaped
<1>2. c \in Calls(x)
  BY <1>1, ElementOfSeq
<1>3. n + 1 <= b => c[1] # "MemWriteValue"
  <2>1. n + 1 <= b => all[n + 1] \in BeforeKind(x)
    BY <1>1 DEF Shaped
  <2> QED
    BY <2>1 DEF BeforeKind
<1>4. ~(n + 1 <= b) => c[1] \in {"MemWriteValue", "Commit"}
  <2>1. ~(n + 1 <= b) => all[n + 1] \in AfterKind(x)
    BY <1>1 DEF Shaped
  <2> QED
    BY <2>1 DEF AfterKind
<1>5. CASE n + 1 <= f
  <2>1. c \in FillCalls(x)
    BY <1>1, <1>5 DEF Shaped
  <2>2. /\ c[1] \in {"RegRead", "RegWrite", "Scattered", "MemRead", "MemWrite"}
        /\ c[1] = "Scattered" => x.scattered
        /\ c[1] = "MemWrite" => ~x.scattered
    BY <2>1 DEF FillCalls
  <2>3. n + 1 # Len(all)
    BY <1>1, <1>5
  <2> QED
    BY <1>1, <1>2, <1>3, <1>4, <1>5, <2>2, <2>3
<1>6. CASE ~(n + 1 <= f) /\ n + 1 # Len(all)
  <2>1. c \in ValueCalls(x, v)
    <3>1. n + 1 \in 1..(Len(all) - 1) /\ f < n + 1
      BY <1>1, <1>6
    <3> QED
      BY <3>1 DEF Shaped
  <2>2. Due(x, v) /\ c = ValueCall(x, c[2]) /\ c[2] \in 1..Len(x.ops)
    BY <2>1 DEF ValueCalls
  <2>3. c[1] = IF x.call THEN "CallRetAddr" ELSE "MemWriteValue"
    <3>1. ValueCall(x, c[2])[1] = IF x.call THEN "CallRetAddr" ELSE "MemWriteValue"
      BY DEF ValueCall
    <3> QED
      BY <2>2, <3>1, Zenon
  <2>4. f <= n
    BY <1>1, <1>6
  <2>5. x.call \in BOOLEAN
    BY InstrTyped
  <2> QED
    BY <1>1, <1>2, <1>3, <1>4, <1>6, <2>2, <2>3, <2>4, <2>5
<1>7. CASE n + 1 = Len(all)
  <2>1. c = CommitCall
    BY <1>7 DEF Shaped
  <2>2. c[1] = "Commit"
    BY <2>1 DEF CommitCall
  <2> QED
    BY <1>2, <1>7, <2>2
<1> QED
  BY <1>5, <1>6, <1>7

\* What it gives.
LEMMA NextGives ==
  ASSUME NEW x \in Instr, NEW v, NEW all, NEW f, NEW b, Shaped(x, v, all, f, b),
         NEW n \in Nat, n < Len(all), NEW c, c = all[n + 1]
  PROVE  /\ RegsIn(x, all, n + 1) =
              IF c[1] = "RegRead" THEN Append(RegsIn(x, all, n), c[2]) ELSE RegsIn(x, all, n)
         /\ RegsOut(x, all, n + 1) =
              IF c[1] = "RegWrite" THEN Append(RegsOut(x, all, n), c[2]) ELSE RegsOut(x, all, n)
         /\ OpsIn(x, all, n + 1) =
              IF c[1] = "Scattered" THEN OpsIn(x, all, n) \o Reads(x)
              ELSE IF c[1] = "MemRead" /\ x.ops[c[2]].on THEN Append(OpsIn(x, all, n), c[2])
              ELSE OpsIn(x, all, n)
         /\ OpsOut(x, all, n + 1) =
              IF c[1] = "Scattered" THEN OpsOut(x, all, n) \o Writes(x)
              ELSE IF c[1] = "MemWrite" /\ x.ops[c[2]].on THEN Append(OpsOut(x, all, n), c[2])
              ELSE OpsOut(x, all, n)
<1>1. n \in 0..Len(all) /\ n # Len(all)
  BY DEF Shaped
<1>2. c \in Calls(x)
  BY NextCall
<1>3. PICK A, B, C, D : A = RegsIn(x, all, n) /\ B = RegsOut(x, all, n) /\ C = OpsIn(x, all, n) /\ D = OpsOut(x, all, n)
  OBVIOUS
<1>4. /\ A \in Seq(Nat) /\ B \in Seq(Nat) /\ C \in Seq(1..Len(x.ops)) /\ D \in Seq(1..Len(x.ops))
      /\ RegsIn(x, all, n + 1) = A \o RegsRead(x)[c]
      /\ RegsOut(x, all, n + 1) = B \o RegsWritten(x)[c]
      /\ OpsIn(x, all, n + 1) = C \o OpsRead(x)[c]
      /\ OpsOut(x, all, n + 1) = D \o OpsWritten(x)[c]
  <2>1. /\ RegsIn(x, all, n) \in Seq(Nat) /\ RegsOut(x, all, n) \in Seq(Nat)
        /\ OpsIn(x, all, n) \in Seq(1..Len(x.ops)) /\ OpsOut(x, all, n) \in Seq(1..Len(x.ops))
        /\ Grows(x, all, n)
    BY <1>1, GotStep
  <2> QED
    BY <1>1, <1>3, <2>1, Zenon DEF Grows
<1>5. /\ RegsRead(x)[c] = IF c[1] = "RegRead" THEN <<c[2]>> ELSE <<>>
      /\ RegsWritten(x)[c] = IF c[1] = "RegWrite" THEN <<c[2]>> ELSE <<>>
      /\ OpsRead(x)[c] = IF c[1] = "Scattered" THEN Reads(x)
                         ELSE IF c[1] = "MemRead" /\ x.ops[c[2]].on THEN <<c[2]>> ELSE <<>>
      /\ OpsWritten(x)[c] = IF c[1] = "Scattered" THEN Writes(x)
                            ELSE IF c[1] = "MemWrite" /\ x.ops[c[2]].on THEN <<c[2]>> ELSE <<>>
  BY <1>2, Gives
<1>6. \A T, s, e : s \in Seq(T) => s \o <<e>> = Append(s, e) /\ s \o <<>> = s
  OBVIOUS
<1>7. /\ \A e : A \o <<e>> = Append(A, e) /\ B \o <<e>> = Append(B, e)
                /\ C \o <<e>> = Append(C, e) /\ D \o <<e>> = Append(D, e)
      /\ A \o <<>> = A /\ B \o <<>> = B /\ C \o <<>> = C /\ D \o <<>> = D
  <2>1. ASSUME NEW T, NEW s \in Seq(T)
        PROVE  (\A e : s \o <<e>> = Append(s, e)) /\ s \o <<>> = s
    BY <1>6
  <2> QED
    BY <1>4, <2>1, Zenon
<1>8. RegsIn(x, all, n + 1) = IF c[1] = "RegRead" THEN Append(A, c[2]) ELSE A
  BY <1>4, <1>5, <1>7, Zenon
<1>9. RegsOut(x, all, n + 1) = IF c[1] = "RegWrite" THEN Append(B, c[2]) ELSE B
  BY <1>4, <1>5, <1>7, Zenon
<1>10. OpsIn(x, all, n + 1) = IF c[1] = "Scattered" THEN C \o Reads(x)
                              ELSE IF c[1] = "MemRead" /\ x.ops[c[2]].on THEN Append(C, c[2]) ELSE C
  BY <1>4, <1>5, <1>7, Zenon
<1>11. OpsOut(x, all, n + 1) = IF c[1] = "Scattered" THEN D \o Writes(x)
                               ELSE IF c[1] = "MemWrite" /\ x.ops[c[2]].on THEN Append(D, c[2]) ELSE D
  BY <1>4, <1>5, <1>7, Zenon
<1> QED
  BY <1>3, <1>8, <1>9, <1>10, <1>11, Zenon

\* The values it brings.
Brings(x, all, n, c) ==
  Valued(x, all, n + 1) =
    IF c[1] \in {"CallRetAddr", "MemWriteValue"} /\ x.ops[c[2]].on
    THEN Valued(x, all, n) \cup {c[2]} ELSE Valued(x, all, n)

\* Only the calls after those that fill slots bring values, and only where they are due.
LEMMA NextValues ==
  ASSUME NEW x \in Instr, NEW v, NEW all, NEW f, NEW b, Shaped(x, v, all, f, b),
         NEW n \in Nat, n < Len(all), NEW c, c = all[n + 1]
  PROVE  /\ Brings(x, all, n, c)
         /\ n + 1 <= f => Valued(x, all, n) = {}
         /\ ~Due(x, v) => Valued(x, all, n) = {}
         /\ n <= b => Valued(x, all, n) = {} \/ x.call
<1>1. /\ c \in Calls(x)
      /\ c[1] \in {"CallRetAddr", "MemWriteValue"} => c = ValueCall(x, c[2]) /\ c[2] \in 1..Len(x.ops)
  BY NextCall
<1>2. \A i, j : /\ ValueCall(x, i)[1] \in {"CallRetAddr", "MemWriteValue"}
                /\ ValueCall(x, i)[2] = i
                /\ ValueCall(x, i)[1] = "CallRetAddr" => x.call
  BY DEF ValueCall
<1>3. ASSUME NEW i \in 1..Len(x.ops)
      PROVE  c = ValueCall(x, i) <=> c[1] \in {"CallRetAddr", "MemWriteValue"} /\ c[2] = i
  BY <1>1, <1>2
<1>4. ASSUME NEW i \in 1..Len(x.ops)
      PROVE  (\E q \in 1..(n + 1) : all[q] = ValueCall(x, i)) <=>
             (\E q \in 1..n : all[q] = ValueCall(x, i)) \/ c = ValueCall(x, i)
  <2>1. \A q : q \in 1..(n + 1) <=> q \in 1..n \/ q = n + 1
    OBVIOUS
  <2> QED
    BY <2>1
<1>5. Valued(x, all, n + 1) =
        IF c[1] \in {"CallRetAddr", "MemWriteValue"} /\ x.ops[c[2]].on
        THEN Valued(x, all, n) \cup {c[2]} ELSE Valued(x, all, n)
  BY <1>1, <1>3, <1>4 DEF Valued
<1>8. Brings(x, all, n, c)
  BY <1>5, Zenon DEF Brings
<1>6. ASSUME NEW i \in Valued(x, all, n)
      PROVE  Due(x, v) /\ ~(n + 1 <= f) /\ (n <= b => x.call)
  <2>1. PICK q \in 1..n : all[q] = ValueCall(x, i)
    BY <1>6 DEF Valued
  <2>2. PICK p \in Nat : p = q - 1
    BY <2>1
  <2>3. p < Len(all) /\ p + 1 = q /\ p + 1 <= n
    BY <2>1, <2>2 DEF Shaped
  <2>4. PICK e : e = all[p + 1]
    OBVIOUS
  <2>5. e[1] \in {"CallRetAddr", "MemWriteValue"} /\ (e[1] = "CallRetAddr" => x.call)
    BY <1>2, <2>1, <2>3, <2>4
  <2>6. /\ e[1] = "CallRetAddr" => Due(x, v) /\ x.call /\ f <= p
        /\ e[1] = "MemWriteValue" => Due(x, v) /\ ~x.call /\ f <= p
        /\ e[1] \in {"MemWriteValue"} => b < p + 1
    BY <2>2, <2>3, <2>4, NextCall
  <2>7. f \in Nat /\ b \in Nat
    BY DEF Shaped
  <2> QED
    BY <2>2, <2>3, <2>5, <2>6, <2>7
<1>7. Valued(x, all, n) # {} => Due(x, v) /\ ~(n + 1 <= f) /\ (n <= b => x.call)
  BY <1>6
<1> QED
  BY <1>7, <1>8

-----------------------------------------------------------------------------
(***************************************************************************)
(* The record with the slots that wait for a value, call by call.          *)
(***************************************************************************)

\* The slots that wait for a value: where values are due, those of the operands W
\* written that have a slot and not their value.
Tracked(due, W, V, pe) ==
  /\ pe \in [1..MAX_WRITE_OPS -> Nat]
  /\ \A i \in 1..MAX_WRITE_OPS : pe[i] # 0 =>
       due /\ pe[i] \in 1..Cap(Len(W), NUM_INSTR_DESTINATIONS) /\ W[pe[i]] = i
  /\ due => \A p \in 1..Cap(Len(W), NUM_INSTR_DESTINATIONS) :
       W[p] \in 1..MAX_WRITE_OPS /\ (W[p] \notin V => pe[W[p]] = p)

\* Record, slots that wait and count, for registers A and B and operands C and D.
Filled(L, S, A, B, C, D, due, V, k, pe, ov) ==
  k = Made(L, S, A, B, C, D) /\ Tracked(due, D, V, pe) /\ ov = Lost(C, D)

\* RecordRegRead and RecordRegWrite take a register.
LEMMA FillReg ==
  ASSUME NEW L, NEW S, NEW A \in Seq(Nat), NEW B \in Seq(Nat), NEW C, NEW D, NEW due, NEW V,
         Filled(L, S, A, B, C, D, due, V, curr_instr, pending, overflow),
         NEW r \in Nat, pending' = pending, overflow' = overflow
  PROVE  /\ RecordRegRead(r) =>
              Filled(L, S, Append(A, r), B, C, D, due, V, curr_instr', pending', overflow')
         /\ RecordRegWrite(r) =>
              Filled(L, S, A, Append(B, r), C, D, due, V, curr_instr', pending', overflow')
<1>1. curr_instr = Made(L, S, A, B, C, D) /\ Tracked(due, D, V, pending) /\ overflow = Lost(C, D)
  BY DEF Filled
<1>2. /\ Made(L, S, Append(A, r), B, C, D) = PutSrcReg(curr_instr, r)
      /\ Made(L, S, A, Append(B, r), C, D) = PutDstReg(curr_instr, r)
  BY <1>1, TakeReg
<1>6. RecordRegRead(r) => curr_instr' = PutSrcReg(curr_instr, r)
  BY DEF RecordRegRead, PutSrcReg
<1>7. RecordRegWrite(r) => curr_instr' = PutDstReg(curr_instr, r)
  BY DEF RecordRegWrite, PutDstReg
<1>3. RecordRegRead(r) => curr_instr' = Made(L, S, Append(A, r), B, C, D)
  BY <1>2, <1>6, Zenon
<1>4. RecordRegWrite(r) => curr_instr' = Made(L, S, A, Append(B, r), C, D)
  BY <1>2, <1>7, Zenon
<1>5. Tracked(due, D, V, pending') /\ overflow' = Lost(C, D)
  BY <1>1, Zenon
<1> QED
  BY <1>3, <1>4, <1>5, Zenon DEF Filled

\* RecordMemRead takes an operand.
LEMMA FillRead ==
  ASSUME NEW I, NEW L, NEW S, Maps(L, I, Slot), Maps(S, I, Slot), NEW A, NEW B,
         NEW C \in Seq(I), NEW D \in Seq(I), NEW due, NEW V,
         Filled(L, S, A, B, C, D, due, V, curr_instr, pending, overflow),
         NEW i \in I, Gets(L, i, ins.ops[i], LoadValue(ins.ops[i].addr)),
         RecordMemRead(i), pending' = pending
  PROVE  Filled(L, S, A, B, Append(C, i), D, due, V, curr_instr', pending', overflow')
<1>1. curr_instr = Made(L, S, A, B, C, D) /\ Tracked(due, D, V, pending) /\ overflow = Lost(C, D)
  BY DEF Filled
<1>2. /\ Made(L, S, A, B, Append(C, i), D) = PutSrc(curr_instr, L[i])
      /\ Lost(Append(C, i), D) =
           IF Len(curr_instr.src) < NUM_INSTR_SOURCES THEN Lost(C, D) ELSE Lost(C, D) + 1
  BY <1>1, TakeOp
<1>3. IF Len(curr_instr.src) < NUM_INSTR_SOURCES
      THEN curr_instr' = [curr_instr EXCEPT !.src = Append(@, L[i])] /\ overflow' = overflow
      ELSE overflow' = overflow + 1 /\ curr_instr' = curr_instr
  BY Zenon DEF RecordMemRead, Gets
<1>4. curr_instr' = PutSrc(curr_instr, L[i])
  BY <1>3, Zenon DEF PutSrc
<1>5. overflow' = Lost(Append(C, i), D)
  BY <1>1, <1>2, <1>3, Zenon
<1>6. Tracked(due, D, V, pending')
  BY <1>1, Zenon
<1> QED
  BY <1>2, <1>4, <1>5, <1>6, Zenon DEF Filled

\* RecordMemWrite takes an operand, and remembers its slot where a value is due.
LEMMA FillWrite ==
  ASSUME NEW I, NEW L, NEW S, Maps(L, I, Slot), Maps(S, I, Slot), NEW A, NEW B,
         NEW C \in Seq(I), NEW D \in Seq(I), NEW due \in BOOLEAN, due <=> values /\ (ins.fall \/ ins.call), NEW V,
         Filled(L, S, A, B, C, D, due, V, curr_instr, pending, overflow),
         NEW i \in I, Gets(S, i, ins.ops[i], Zero), i \in 1..MAX_WRITE_OPS,
         \A p \in 1..Len(D) : D[p] # i,
         RecordMemWrite(i)
  PROVE  Filled(L, S, A, B, C, Append(D, i), due, V, curr_instr', pending', overflow')
<1>1. curr_instr = Made(L, S, A, B, C, D) /\ Tracked(due, D, V, pending) /\ overflow = Lost(C, D)
  BY DEF Filled
<1>2. /\ Made(L, S, A, B, C, Append(D, i)) = PutDst(curr_instr, S[i])
      /\ Lost(C, Append(D, i)) =
           IF Len(curr_instr.dst) < NUM_INSTR_DESTINATIONS THEN Lost(C, D) ELSE Lost(C, D) + 1
      /\ Len(curr_instr.dst) = Cap(Len(D), NUM_INSTR_DESTINATIONS)
  BY <1>1, TakeOp
<1>3. i <= MAX_WRITE_OPS
  BY RecordAssumption
<1>4. IF Len(curr_instr.dst) < NUM_INSTR_DESTINATIONS
      THEN /\ curr_instr' = [curr_instr EXCEPT !.dst = Append(@, S[i])] /\ overflow' = overflow
           /\ pending' = IF due THEN [pending EXCEPT ![i] = Len(curr_instr.dst) + 1] ELSE pending
      ELSE overflow' = overflow + 1 /\ curr_instr' = curr_instr /\ pending' = pending
  BY <1>3, Zenon DEF RecordMemWrite, Gets
<1>5. curr_instr' = PutDst(curr_instr, S[i])
  BY <1>4, Zenon DEF PutDst
<1>6. overflow' = Lost(C, Append(D, i))
  BY <1>1, <1>2, <1>4, Zenon
<1>7. Tracked(due, Append(D, i), V, pending')
  <2> DEFINE W == Append(D, i)
             c == Cap(Len(D), NUM_INSTR_DESTINATIONS)
             d == Cap(Len(W), NUM_INSTR_DESTINATIONS)
  <2>1. /\ Len(D) \in Nat /\ Len(W) = Len(D) + 1 /\ W[Len(D) + 1] = i /\ \A p \in 1..Len(D) : W[p] = D[p]
    BY LenProperties, AppendProperties
  <2>2. NUM_INSTR_DESTINATIONS \in Nat /\ MAX_WRITE_OPS \in Nat
    BY RecordAssumption
  <2>3. /\ pending \in [1..MAX_WRITE_OPS -> Nat]
        /\ \A j \in 1..MAX_WRITE_OPS : pending[j] # 0 => due /\ pending[j] \in 1..c /\ D[pending[j]] = j
        /\ due => \A p \in 1..c : D[p] \in 1..MAX_WRITE_OPS /\ (D[p] \notin V => pending[D[p]] = p)
    BY <1>1 DEF Tracked
  <2> HIDE DEF W
  <2>4. CASE Len(curr_instr.dst) < NUM_INSTR_DESTINATIONS
    <3>1. c = Len(D) /\ d = Len(D) + 1
      BY <1>2, <2>1, <2>2, <2>4 DEF Cap
    <3> HIDE DEF c, d
    <3>2. pending' = IF due THEN [pending EXCEPT ![i] = Len(D) + 1] ELSE pending
      BY <1>2, <1>4, <2>4, <3>1 DEF c
    <3>3. CASE due
      <4>1. /\ pending' \in [1..MAX_WRITE_OPS -> Nat] /\ pending'[i] = Len(D) + 1
            /\ \A j \in 1..MAX_WRITE_OPS : j # i => pending'[j] = pending[j]
        BY <2>1, <2>3, <3>2, <3>3
      <4>2. ASSUME NEW j \in 1..MAX_WRITE_OPS, pending'[j] # 0
            PROVE  pending'[j] \in 1..d /\ W[pending'[j]] = j
        <5>1. CASE j = i
          BY <2>1, <3>1, <4>1, <5>1
        <5>2. CASE j # i
          BY <2>1, <2>3, <3>1, <4>1, <4>2, <5>2
        <5> QED
          BY <5>1, <5>2
      <4>3. ASSUME NEW p \in 1..d
            PROVE  W[p] \in 1..MAX_WRITE_OPS /\ (W[p] \notin V => pending'[W[p]] = p)
        <5>1. CASE p = Len(D) + 1
          BY <2>1, <4>1, <5>1
        <5>2. CASE p # Len(D) + 1
          <6>1. p \in 1..Len(D) /\ p \in 1..c
            BY <2>1, <3>1, <5>2
          <6> QED
            BY <2>1, <2>3, <3>3, <4>1, <6>1
        <5> QED
          BY <5>1, <5>2
      <4> QED
        BY <3>3, <4>1, <4>2, <4>3 DEF Tracked, W, d
    <3>4. CASE ~due
      BY <2>3, <3>2, <3>4 DEF Tracked
    <3> QED
      BY <3>3, <3>4
  <2>5. CASE ~(Len(curr_instr.dst) < NUM_INSTR_DESTINATIONS)
    <3>1. d = c /\ c \in Nat /\ c <= Len(D)
      BY <1>2, <2>1, <2>2, <2>5 DEF Cap
    <3> HIDE DEF c, d
    <3>2. pending' = pending
      BY <1>4, <2>5
    <3>3. \A p \in 1..c : W[p] = D[p]
      BY <2>1, <3>1
    <3>4. \A j \in 1..MAX_WRITE_OPS : pending'[j] # 0 => due /\ pending'[j] \in 1..d /\ W[pending'[j]] = j
      BY <2>3, <3>1, <3>2, <3>3
    <3>5. due => \A p \in 1..d : W[p] \in 1..MAX_WRITE_OPS /\ (W[p] \notin V => pending'[W[p]] = p)
      BY <2>3, <3>1, <3>2, <3>3
    <3> QED
      BY <2>3, <3>2, <3>4, <3>5 DEF Tracked, W, d
  <2> QED
    BY <2>4, <2>5
<1> QED
  BY <1>2, <1>5, <1>6, <1>7, Zenon DEF Filled

\* One value goes to its slot.
Valuing(s, p, w) == [s EXCEPT ![p] = [s[p] EXCEPT !.value = w]]

\* T has that value, for the operand in slot p.
Has(S, T, D, c, p, w) ==
  /\ \A n \in 1..c : n # p => T[D[n]] = S[D[n]]
  /\ T[D[p]] = [S[D[p]] EXCEPT !.value = w]

\* So do the slots.
Sets(S, T, D, k, p, w) == Valuing(Lim(S, D, k), p, w) = Lim(T, D, k)

\* They do where T does.
LEMMA ValueSlot ==
  ASSUME NEW S, NEW T, NEW D, NEW k, NEW c \in Nat, c = Cap(Len(D), k),
         NEW p \in 1..c, NEW w, Has(S, T, D, c, p, w)
  PROVE  Sets(S, T, D, k, p, w)
<1>7. PICK s, t : s = [n \in 1..c |-> S[D[n]]] /\ t = [n \in 1..c |-> T[D[n]]]
  OBVIOUS
<1>8. s = Lim(S, D, k) /\ t = Lim(T, D, k)
  BY <1>7, Zenon DEF Lim
<1>0. /\ \A n \in 1..c : n # p => T[D[n]] = S[D[n]]
      /\ T[D[p]] = [S[D[p]] EXCEPT !.value = w]
  BY Zenon DEF Has
<1>1. s[p] = S[D[p]]
  BY <1>7
<1>2. PICK e : e = [s[p] EXCEPT !.value = w]
  OBVIOUS
<1>3. T[D[p]] = e
  BY <1>0, <1>1, <1>2, Zenon
<1>4. [s EXCEPT ![p] = e] = [n \in 1..c |-> IF n = p THEN e ELSE S[D[n]]]
  BY <1>7
<1>5. [n \in 1..c |-> IF n = p THEN e ELSE S[D[n]]] = [n \in 1..c |-> T[D[n]]]
  BY <1>0, <1>3
<1> QED
  BY <1>2, <1>4, <1>5, <1>7, <1>8, Zenon DEF Valuing, Sets

PutVal(k, p, w) == [k EXCEPT !.dst[p].value = w]

\* Then the record has that value too.
LEMMA PutValue ==
  ASSUME NEW L, NEW S, NEW A, NEW B, NEW C, NEW D, NEW T, NEW k, k = Made(L, S, A, B, C, D),
         NEW p, NEW w, Sets(S, T, D, NUM_INSTR_DESTINATIONS, p, w)
  PROVE  PutVal(k, p, w) = Made(L, T, A, B, C, D)
<1>1. PICK a, b, c, d : /\ a = Lim(Id, A, NUM_INSTR_SOURCES) /\ b = Lim(Id, B, NUM_INSTR_DESTINATIONS)
                        /\ c = Lim(L, C, NUM_INSTR_SOURCES) /\ d = Lim(S, D, NUM_INSTR_DESTINATIONS)
  OBVIOUS
<1>7. PICK f : f = FALSE
  OBVIOUS
<1>2. PICK e : e = Lim(T, D, NUM_INSTR_DESTINATIONS)
  OBVIOUS
<1>3. k = Record(a, b, c, d, f) /\ Made(L, T, A, B, C, D) = Record(a, b, c, e, f)
  BY <1>1, <1>2, <1>7, Zenon DEF Made
<1>4. [k EXCEPT !.dst = e] = Record(a, b, c, e, f) /\ k.dst = d
  BY <1>3, Update
<1>5. e = [k.dst EXCEPT ![p] = [k.dst[p] EXCEPT !.value = w]]
  BY <1>1, <1>2, <1>4, Zenon DEF Valuing, Sets
<1>6. [k EXCEPT !.dst[p].value = w] = [k EXCEPT !.dst = [k.dst EXCEPT ![p] = [k.dst[p] EXCEPT !.value = w]]]
  OBVIOUS
<1> QED
  BY <1>3, <1>4, <1>5, <1>6, Zenon DEF PutVal

Changes(S, T, I, i, w) ==
  (\A j \in I : j # i => T[j] = S[j]) /\ T[i] = [S[i] EXCEPT !.value = w]

\* RecordStoreValue brings the value of operand i to its slot, if it has one.
LEMMA FillValue ==
  ASSUME NEW I, NEW L, NEW S, NEW T, NEW A, NEW B, NEW C, NEW D \in Seq(I), NEW due, NEW V,
         Filled(L, S, A, B, C, D, due, V, curr_instr, pending, overflow),
         NEW i \in 1..MAX_WRITE_OPS, NEW w,
         i \in V => T = S, Changes(S, T, I, i, w),
         \A p, q \in 1..Len(D) : p # q => D[p] # D[q],
         due, RecordStoreValue(i, w), overflow' = overflow
  PROVE  Filled(L, T, A, B, C, D, due, V \cup {i}, curr_instr', pending', overflow')
<1>1. curr_instr = Made(L, S, A, B, C, D) /\ Tracked(due, D, V, pending) /\ overflow = Lost(C, D)
  BY DEF Filled
<1>2. NUM_INSTR_DESTINATIONS \in Nat /\ MAX_WRITE_OPS \in Nat
  BY RecordAssumption
<1>3. Len(D) \in Nat /\ \A p \in 1..Len(D) : D[p] \in I
  BY LenProperties, ElementOfSeq
<1>4. PICK c \in Nat : c = Cap(Len(D), NUM_INSTR_DESTINATIONS) /\ c <= Len(D)
  BY <1>2, <1>3 DEF Cap
<1>5. /\ pending \in [1..MAX_WRITE_OPS -> Nat]
      /\ \A j \in 1..MAX_WRITE_OPS : pending[j] # 0 => pending[j] \in 1..c /\ D[pending[j]] = j
      /\ \A p \in 1..c : D[p] \in 1..MAX_WRITE_OPS /\ (D[p] \notin V => pending[D[p]] = p)
  BY <1>1, <1>4 DEF Tracked
<1>6. Lim(S, D, NUM_INSTR_DESTINATIONS) = [n \in 1..c |-> S[D[n]]]
      /\ Lim(T, D, NUM_INSTR_DESTINATIONS) = [n \in 1..c |-> T[D[n]]]
  BY <1>4, Zenon DEF Lim
<1>7. \A n \in 1..c : D[n] \in I /\ (D[n] # i => T[D[n]] = S[D[n]])
  <2>1. \A j \in I : j # i => T[j] = S[j]
    BY DEF Changes
  <2> QED
    BY <1>3, <1>4, <2>1
<1>8. CASE pending[i] = 0
  <2>1. UNCHANGED <<curr_instr, pending>>
    BY <1>8, Zenon DEF RecordStoreValue
  <2>2. \A n \in 1..c : T[D[n]] = S[D[n]]
    <3>1. SUFFICES ASSUME NEW n \in 1..c, D[n] = i PROVE T[D[n]] = S[D[n]]
      BY <1>7
    <3>2. i \in V
      BY <3>1, <1>5, <1>8
    <3> QED
      BY <3>2
  <2>3. [n \in 1..c |-> S[D[n]]] = [n \in 1..c |-> T[D[n]]]
    BY <2>2
  <2>4. curr_instr' = Made(L, T, A, B, C, D)
    BY <1>1, <1>6, <2>1, <2>3, Zenon DEF Made
  <2>5. Tracked(due, D, V \cup {i}, pending')
    BY <1>4, <1>5, <2>1 DEF Tracked
  <2> QED
    BY <1>1, <2>4, <2>5, Zenon DEF Filled
<1>9. CASE pending[i] # 0
  <2>1. PICK p \in 1..c : p = pending[i] /\ D[p] = i
    BY <1>5, <1>9
  <2>2. ~(i > MAX_WRITE_OPS)
    BY <1>2
  <2>3. /\ curr_instr' = [curr_instr EXCEPT !.dst[p].value = w]
        /\ pending' = [pending EXCEPT ![i] = 0]
    BY <1>9, <2>1, <2>2, Zenon DEF RecordStoreValue
  <2>4. \A n \in 1..c : n # p => D[n] # i
    BY <1>3, <1>4, <2>1
  <2>5. Sets(S, T, D, NUM_INSTR_DESTINATIONS, p, w)
    <3>1. \A n \in 1..c : n # p => T[D[n]] = S[D[n]]
      BY <1>7, <2>4
    <3>2. T[D[p]] = [S[D[p]] EXCEPT !.value = w]
      BY <2>1, Zenon DEF Changes
    <3>3. Has(S, T, D, c, p, w)
      BY <3>1, <3>2, Zenon DEF Has
    <3> QED
      BY <1>4, <3>3, ValueSlot
  <2>6. curr_instr' = Made(L, T, A, B, C, D)
    <3>1. PutVal(curr_instr, p, w) = Made(L, T, A, B, C, D)
      BY <1>1, <2>5, PutValue
    <3> QED
      BY <2>3, <3>1, Zenon DEF PutVal
  <2>7. /\ pending' \in [1..MAX_WRITE_OPS -> Nat] /\ pending'[i] = 0
        /\ \A j \in 1..MAX_WRITE_OPS : j # i => pending'[j] = pending[j]
    BY <1>5, <2>3
  <2>8. /\ \A j \in 1..MAX_WRITE_OPS : pending'[j] # 0 => pending'[j] \in 1..c /\ D[pending'[j]] = j
        /\ \A q \in 1..c : D[q] \in 1..MAX_WRITE_OPS /\ (D[q] \notin V \cup {i} => pending'[D[q]] = q)
    BY <1>5, <2>7
  <2>9. Tracked(due, D, V \cup {i}, pending')
    BY <1>4, <2>7, <2>8 DEF Tracked
  <2> QED
    BY <1>1, <2>6, <2>9, Zenon DEF Filled
<1> QED
  BY <1>8, <1>9

\* A call that gives nothing.
LEMMA FillNothing ==
  ASSUME NEW L, NEW S, NEW A, NEW B, NEW C, NEW D, NEW due, NEW V,
         Filled(L, S, A, B, C, D, due, V, curr_instr, pending, overflow),
         UNCHANGED <<curr_instr, pending, overflow>>
  PROVE  Filled(L, S, A, B, C, D, due, V, curr_instr', pending', overflow')
  BY Zenon DEF Filled

\* The one call for all the operands.
LEMMA FillScattered ==
  ASSUME ins \in Instr, ins.scattered, Mem(memory),
         NEW L, L = Loads(ins, values, memory), NEW S, S = Stores(ins, memory, {}),
         NEW A, NEW B, NEW C \in Seq(1..Len(ins.ops)), NEW D \in Seq(1..Len(ins.ops)),
         NEW due, ~due, NEW V,
         Filled(L, S, A, B, C, D, due, V, curr_instr, pending, overflow),
         RecordScatteredMemAccess, pending' = pending
  PROVE  Filled(L, S, A, B, C \o Reads(ins), D \o Writes(ins), due, V, curr_instr', pending', overflow')
<1>1. curr_instr = Made(L, S, A, B, C, D) /\ Tracked(due, D, V, pending) /\ overflow = Lost(C, D)
  BY DEF Filled
<1>2. /\ curr_instr' = Made(L, S, A, B, C \o Reads(ins), D \o Writes(ins))
      /\ overflow' = Lost(C \o Reads(ins), D \o Writes(ins))
  BY <1>1, Scattering
<1>3. Tracked(due, D \o Writes(ins), V, pending')
  <2>1. pending \in [1..MAX_WRITE_OPS -> Nat] /\ \A i \in 1..MAX_WRITE_OPS : pending[i] = 0
    BY <1>1, Zenon DEF Tracked
  <2> QED
    BY <2>1, Zenon DEF Tracked
<1> QED
  BY <1>2, <1>3, Zenon DEF Filled

\* What a call does.
LEMMA CallIs ==
  ASSUME NEW c, Call(c), NEW i, i = c[2]
  PROVE  /\ c[1] = "RegRead" => RecordRegRead(i) /\ UNCHANGED <<pending, overflow, emitted>>
         /\ c[1] = "RegWrite" => RecordRegWrite(i) /\ UNCHANGED <<pending, overflow, emitted>>
         /\ c[1] = "Scattered" => RecordScatteredMemAccess /\ UNCHANGED <<pending, emitted>>
         /\ c[1] = "Commit" => CommitRecord /\ UNCHANGED overflow
         /\ c[1] \in {"MemRead", "MemWrite", "CallRetAddr", "MemWriteValue"} /\ ~ins.ops[i].on =>
              UNCHANGED <<curr_instr, pending, overflow, emitted>>
         /\ c[1] = "MemRead" /\ ins.ops[i].on => RecordMemRead(i) /\ UNCHANGED <<pending, emitted>>
         /\ c[1] = "MemWrite" /\ ins.ops[i].on => RecordMemWrite(i) /\ UNCHANGED emitted
         /\ c[1] = "CallRetAddr" /\ ins.ops[i].on =>
              RecordStoreValue(i, Return) /\ UNCHANGED <<overflow, emitted>>
         /\ c[1] = "MemWriteValue" /\ ins.ops[i].on =>
              RecordStoreValue(i, memory[ins.ops[i].addr]) /\ UNCHANGED <<overflow, emitted>>
<1>1. CASE c[1] = "RegRead"
  BY <1>1 DEF Call
<1>2. CASE c[1] = "RegWrite"
  BY <1>2 DEF Call
<1>3. CASE c[1] = "Scattered"
  BY <1>3 DEF Call
<1>4. CASE c[1] = "Commit"
  BY <1>4 DEF Call
<1>5. CASE c[1] \in {"MemRead", "MemWrite", "CallRetAddr", "MemWriteValue"} /\ ~ins.ops[i].on
  BY <1>5 DEF Call
<1>6. CASE c[1] = "MemRead" /\ ins.ops[i].on
  BY <1>6 DEF Call
<1>7. CASE c[1] = "MemWrite" /\ ins.ops[i].on
  BY <1>7 DEF Call
<1>8. CASE c[1] = "CallRetAddr" /\ ins.ops[i].on
  BY <1>8 DEF Call
<1>9. CASE c[1] = "MemWriteValue" /\ ins.ops[i].on
  BY <1>9 DEF Call
<1> QED
  BY <1>1, <1>2, <1>3, <1>4, <1>5, <1>6, <1>7, <1>8, <1>9

\* The record after the first n calls, memory having been m when the instruction
\* began and now being mem.
Filling(x, v, m, mem, all, n, k, pe, ov) ==
  Filled(Loads(x, v, m), Stores(x, mem, Valued(x, all, n)),
         RegsIn(x, all, n), RegsOut(x, all, n), OpsIn(x, all, n), OpsOut(x, all, n),
         Due(x, v), Valued(x, all, n), k, pe, ov)

\* The same, after one call more.
Filled1(L, S, A, B, C, D, due, V) == Filled(L, S, A, B, C, D, due, V, curr_instr', pending', overflow')

\* Value w comes for operand i.
LEMMA StoreChanges ==
  ASSUME NEW x \in Instr, NEW m, Mem(m), NEW V, NEW I, I = 1..Len(x.ops), NEW i \in I,
         NEW w, w = IF x.call THEN Return ELSE m[x.ops[i].addr],
         NEW S, S = Stores(x, m, V), NEW T, T = Stores(x, m, V \cup {i})
  PROVE  Changes(S, T, I, i, w) /\ (i \in V => T = S)
<1>1. ASSUME NEW U, NEW j \in I
      PROVE  Stores(x, m, U)[j] =
                   [addr |-> x.ops[j].addr,
                    value |-> IF j \in U THEN IF x.call THEN Return ELSE m[x.ops[j].addr] ELSE Zero]
  BY DEF Stores
<1>2. \A j \in I : j # i => T[j] = S[j]
  <2>1. SUFFICES ASSUME NEW j \in I, j # i PROVE T[j] = S[j]
    OBVIOUS
  <2>2. j \in V \cup {i} <=> j \in V
    BY <2>1
  <2>3. PICK U : U = V \cup {i}
    OBVIOUS
  <2>4. T = Stores(x, m, U) /\ (j \in U <=> j \in V)
    BY <2>2, <2>3, Zenon
  <2>5. /\ T[j] = [addr |-> x.ops[j].addr,
                   value |-> IF j \in U THEN IF x.call THEN Return ELSE m[x.ops[j].addr] ELSE Zero]
        /\ S[j] = [addr |-> x.ops[j].addr,
                   value |-> IF j \in V THEN IF x.call THEN Return ELSE m[x.ops[j].addr] ELSE Zero]
    BY <2>4 DEF Stores
  <2> QED
    BY <2>4, <2>5, Zenon
<1>3. T[i] = [S[i] EXCEPT !.value = w]
  <2>1. T[i] = [addr |-> x.ops[i].addr, value |-> w]
    <3>1. i \in V \cup {i}
      OBVIOUS
    <3> QED
      BY <1>1, <3>1, Zenon
  <2>2. PICK y : S[i] = [addr |-> x.ops[i].addr, value |-> y]
    BY <1>1, Zenon
  <2>3. PICK s, a : s = S[i] /\ a = x.ops[i].addr
    OBVIOUS
  <2>4. s = [addr |-> a, value |-> y]
    BY <2>2, <2>3, Zenon
  <2>5. [s EXCEPT !.value = w] = [addr |-> a, value |-> w]
    BY <2>4
  <2> QED
    BY <2>1, <2>3, <2>5, Zenon
<1>4. ASSUME i \in V PROVE T = S
  <2>1. V \cup {i} = V
    BY <1>4
  <2> QED
    BY <2>1, Zenon
<1> QED
  BY <1>2, <1>3, <1>4 DEF Changes

\* A call before the commit fills the record as it should.
LEMMA FillingStep ==
  ASSUME ins \in Instr, values \in BOOLEAN, Mem(memory), NEW m, Mem(m),
         NEW all, NEW f, NEW b, Shaped(ins, values, all, f, b),
         NEW n \in Nat, n + 1 < Len(all), n + 1 <= b => m = memory,
         Filling(ins, values, m, memory, all, n, curr_instr, pending, overflow),
         Call(all[n + 1])
  PROVE  /\ Filling(ins, values, m, memory, all, n + 1, curr_instr', pending', overflow')
         /\ emitted' = emitted
<1>1. n < Len(all) /\ Len(all) \in Nat /\ n \in 0..Len(all) /\ n + 1 \in 0..Len(all) /\ n + 1 # Len(all)
      /\ n + 1 \in Nat /\ f \in Nat /\ b \in Nat
  BY DEF Shaped
<1>2. PICK c : c = all[n + 1]
  OBVIOUS
<1>3. PICK i : i = c[2]
  OBVIOUS
<1>4. PICK x : x = ins
  OBVIOUS
<1>5. PICK I : I = 1..Len(x.ops)
  OBVIOUS
<1>6. x \in Instr /\ Shaped(x, values, all, f, b)
  BY <1>4, Zenon
<1>7. PICK A, B, C, D : A = RegsIn(x, all, n) /\ B = RegsOut(x, all, n) /\ C = OpsIn(x, all, n) /\ D = OpsOut(x, all, n)
  OBVIOUS
<1>8. PICK V, due : V = Valued(x, all, n) /\ due = Due(x, values)
  OBVIOUS
<1>9. PICK L, S : L = Loads(x, values, m) /\ S = Stores(x, memory, V)
  OBVIOUS
<1>10. Filled(L, S, A, B, C, D, due, V, curr_instr, pending, overflow)
  BY <1>4, <1>7, <1>8, <1>9, Zenon DEF Filling
<1>11. /\ A \in Seq(Nat) /\ B \in Seq(Nat) /\ C \in Seq(I) /\ D \in Seq(I)
       /\ \A p, q \in 1..Len(D) : p < q => D[p] < D[q]
  <2>1. /\ RegsIn(x, all, n) \in Seq(Nat) /\ RegsOut(x, all, n) \in Seq(Nat)
        /\ OpsIn(x, all, n) \in Seq(1..Len(x.ops)) /\ OpsOut(x, all, n) \in Seq(1..Len(x.ops))
        /\ \A p, q \in 1..Len(OpsOut(x, all, n)) :
              p < q => OpsOut(x, all, n)[p] < OpsOut(x, all, n)[q]
    BY <1>1, <1>6, GotStep
  <2> QED
    BY <2>1, <1>5, <1>7, Zenon
<1>12. Maps(L, I, Slot) /\ Maps(S, I, Slot)
  <2>1. Maps(Loads(x, values, m), 1..Len(x.ops), Slot) /\ Maps(Stores(x, memory, V), 1..Len(x.ops), Slot)
    BY <1>6, SlotsFit
  <2> QED
    BY <2>1, <1>5, <1>9, Zenon
<1>13. /\ c \in Calls(x) /\ c[1] # "Commit"
       /\ c[1] = "Scattered" => x.scattered
       /\ c[1] = "MemWrite" => ~x.scattered /\ n + 1 <= f
       /\ c[1] = "CallRetAddr" => Due(x, values) /\ x.call /\ f <= n
       /\ c[1] = "MemWriteValue" => Due(x, values) /\ ~x.call /\ f <= n
       /\ c[1] \notin {"MemWriteValue", "Commit"} => n + 1 <= b
  BY <1>1, <1>2, <1>6, NextCall
<1>14. \/ c[1] \in {"RegRead", "RegWrite"} /\ i \in Nat
       \/ c[1] = "Scattered"
       \/ c[1] \in {"MemRead", "MemWrite", "CallRetAddr", "MemWriteValue"} /\ i \in 1..Len(x.ops)
  BY <1>3, <1>13, CallShape
<1>15. Call(c)
  BY <1>2, Zenon
<1>16. PICK A1, B1, C1, D1 : /\ A1 = RegsIn(x, all, n + 1) /\ B1 = RegsOut(x, all, n + 1)
                             /\ C1 = OpsIn(x, all, n + 1) /\ D1 = OpsOut(x, all, n + 1)
  OBVIOUS
<1>17. PICK V1, S1 : V1 = Valued(x, all, n + 1) /\ S1 = Stores(x, memory, V1)
  OBVIOUS
<1>18. SUFFICES Filled1(L, S1, A1, B1, C1, D1, due, V1) /\ emitted' = emitted
  BY <1>4, <1>8, <1>9, <1>16, <1>17, Zenon DEF Filled1, Filling
<1>19. /\ A1 = IF c[1] = "RegRead" THEN Append(A, i) ELSE A
       /\ B1 = IF c[1] = "RegWrite" THEN Append(B, i) ELSE B
       /\ C1 = IF c[1] = "Scattered" THEN C \o Reads(x)
               ELSE IF c[1] = "MemRead" /\ x.ops[i].on THEN Append(C, i) ELSE C
       /\ D1 = IF c[1] = "Scattered" THEN D \o Writes(x)
               ELSE IF c[1] = "MemWrite" /\ x.ops[i].on THEN Append(D, i) ELSE D
  <2>1. /\ RegsIn(x, all, n + 1) =
              IF c[1] = "RegRead" THEN Append(RegsIn(x, all, n), c[2]) ELSE RegsIn(x, all, n)
        /\ RegsOut(x, all, n + 1) =
              IF c[1] = "RegWrite" THEN Append(RegsOut(x, all, n), c[2]) ELSE RegsOut(x, all, n)
        /\ OpsIn(x, all, n + 1) =
              IF c[1] = "Scattered" THEN OpsIn(x, all, n) \o Reads(x)
              ELSE IF c[1] = "MemRead" /\ x.ops[c[2]].on THEN Append(OpsIn(x, all, n), c[2])
              ELSE OpsIn(x, all, n)
        /\ OpsOut(x, all, n + 1) =
              IF c[1] = "Scattered" THEN OpsOut(x, all, n) \o Writes(x)
              ELSE IF c[1] = "MemWrite" /\ x.ops[c[2]].on THEN Append(OpsOut(x, all, n), c[2])
              ELSE OpsOut(x, all, n)
    BY <1>1, <1>2, <1>6, NextGives
  <2>2. A1 = IF c[1] = "RegRead" THEN Append(A, i) ELSE A
    BY <2>1, <1>3, <1>7, <1>16, Zenon
  <2>3. B1 = IF c[1] = "RegWrite" THEN Append(B, i) ELSE B
    BY <2>1, <1>3, <1>7, <1>16, Zenon
  <2>4. C1 = IF c[1] = "Scattered" THEN C \o Reads(x)
             ELSE IF c[1] = "MemRead" /\ x.ops[i].on THEN Append(C, i) ELSE C
    BY <2>1, <1>3, <1>7, <1>16, Zenon
  <2>5. D1 = IF c[1] = "Scattered" THEN D \o Writes(x)
             ELSE IF c[1] = "MemWrite" /\ x.ops[i].on THEN Append(D, i) ELSE D
    BY <2>1, <1>3, <1>7, <1>16, Zenon
  <2> QED
    BY <2>2, <2>3, <2>4, <2>5, Zenon
<1>20. /\ V1 = IF c[1] \in {"CallRetAddr", "MemWriteValue"} /\ x.ops[i].on THEN V \cup {i} ELSE V
       /\ n + 1 <= f => V = {}
       /\ ~due => V = {}
  <2>1. /\ Brings(x, all, n, c)
        /\ n + 1 <= f => Valued(x, all, n) = {}
        /\ ~Due(x, values) => Valued(x, all, n) = {}
    BY <1>1, <1>2, <1>6, NextValues
  <2> QED
    BY <2>1, <1>3, <1>8, <1>17, Zenon DEF Brings
<1>21. c[1] \notin {"CallRetAddr", "MemWriteValue"} \/ ~x.ops[i].on => V1 = V /\ S1 = S
  BY <1>9, <1>17, <1>20, Zenon
<1>22. CASE c[1] = "RegRead"
  <2>1. RecordRegRead(i) /\ pending' = pending /\ overflow' = overflow /\ emitted' = emitted
    BY <1>3, <1>15, <1>22, CallIs
  <2>2. A1 = Append(A, i) /\ B1 = B /\ C1 = C /\ D1 = D /\ V1 = V /\ S1 = S /\ i \in Nat
    BY <1>14, <1>19, <1>21, <1>22
  <2>3. Filled1(L, S, Append(A, i), B, C, D, due, V)
    BY <1>10, <1>11, <2>1, <2>2, FillReg DEF Filled1
  <2> QED
    BY <2>1, <2>2, <2>3, Zenon
<1>23. CASE c[1] = "RegWrite"
  <2>1. RecordRegWrite(i) /\ pending' = pending /\ overflow' = overflow /\ emitted' = emitted
    BY <1>3, <1>15, <1>23, CallIs
  <2>2. A1 = A /\ B1 = Append(B, i) /\ C1 = C /\ D1 = D /\ V1 = V /\ S1 = S /\ i \in Nat
    BY <1>14, <1>19, <1>21, <1>23
  <2>3. Filled1(L, S, A, Append(B, i), C, D, due, V)
    BY <1>10, <1>11, <2>1, <2>2, FillReg DEF Filled1
  <2> QED
    BY <2>1, <2>2, <2>3, Zenon
<1>24. CASE c[1] = "Scattered"
  <2>1. RecordScatteredMemAccess /\ pending' = pending /\ emitted' = emitted
    BY <1>3, <1>15, <1>24, CallIs
  <2>2. A1 = A /\ B1 = B /\ C1 = C \o Reads(x) /\ D1 = D \o Writes(x) /\ V1 = V /\ S1 = S
    BY <1>19, <1>21, <1>24
  <2>3. ins.scattered /\ ~due /\ m = memory
    BY <1>1, <1>4, <1>8, <1>13, <1>24 DEF Due
  <2>4. V = {} /\ L = Loads(ins, values, memory) /\ S = Stores(ins, memory, {})
    BY <1>4, <1>9, <1>20, <2>3, Zenon
  <2>5. C \in Seq(1..Len(ins.ops)) /\ D \in Seq(1..Len(ins.ops))
    BY <1>4, <1>5, <1>11, Zenon
  <2>6. Filled1(L, S, A, B, C \o Reads(ins), D \o Writes(ins), due, V)
    BY <1>10, <2>1, <2>3, <2>4, <2>5, FillScattered DEF Filled1
  <2> QED
    BY <1>4, <2>1, <2>2, <2>6, Zenon
<1>25. CASE c[1] \in {"MemRead", "MemWrite", "CallRetAddr", "MemWriteValue"} /\ ~x.ops[i].on
  <2>1. UNCHANGED <<curr_instr, pending, overflow, emitted>>
    BY <1>3, <1>4, <1>15, <1>25, CallIs
  <2>2. A1 = A /\ B1 = B /\ C1 = C /\ D1 = D /\ V1 = V /\ S1 = S
    BY <1>19, <1>21, <1>25
  <2>3. Filled1(L, S, A, B, C, D, due, V)
    BY <1>10, <2>1, FillNothing DEF Filled1
  <2> QED
    BY <2>1, <2>2, <2>3, Zenon
<1>26. CASE c[1] = "MemRead" /\ x.ops[i].on
  <2>1. RecordMemRead(i) /\ pending' = pending /\ emitted' = emitted
    BY <1>3, <1>4, <1>15, <1>26, CallIs
  <2>2. A1 = A /\ B1 = B /\ C1 = Append(C, i) /\ D1 = D /\ V1 = V /\ S1 = S
    BY <1>19, <1>21, <1>26
  <2>3. m = memory /\ i \in I
    BY <1>5, <1>13, <1>14, <1>26
  <2>4. Gets(L, i, ins.ops[i], LoadValue(ins.ops[i].addr))
    <3>1. Loads(x, values, m)[i] = [addr |-> x.ops[i].addr, value |-> IF values THEN m[x.ops[i].addr] ELSE Zero]
      BY <1>5, <2>3 DEF Loads
    <3> QED
      BY <1>4, <1>9, <2>3, <3>1, Zenon DEF Gets, LoadValue
  <2>5. Filled1(L, S, A, B, Append(C, i), D, due, V)
    BY <1>10, <1>11, <1>12, <2>1, <2>3, <2>4, FillRead DEF Filled1
  <2> QED
    BY <2>1, <2>2, <2>5, Zenon
<1>27. CASE c[1] = "MemWrite" /\ x.ops[i].on
  <2>1. RecordMemWrite(i) /\ emitted' = emitted
    BY <1>3, <1>4, <1>15, <1>27, CallIs
  <2>2. A1 = A /\ B1 = B /\ C1 = C /\ D1 = Append(D, i) /\ V1 = V /\ S1 = S
    BY <1>19, <1>21, <1>27
  <2>3. V = {} /\ ~x.scattered /\ i \in I
    BY <1>5, <1>13, <1>14, <1>20, <1>27
  <2>4. Gets(S, i, ins.ops[i], Zero)
    <3>1. Stores(x, memory, {})[i] = [addr |-> x.ops[i].addr, value |-> Zero]
      BY <1>5, <2>3 DEF Stores
    <3> QED
      BY <1>4, <1>9, <2>3, <3>1, Zenon DEF Gets
  <2>5. i \in 1..MAX_WRITE_OPS /\ due \in BOOLEAN /\ (due <=> values /\ (ins.fall \/ ins.call))
    <3>1. Len(x.ops) <= MAX_WRITE_OPS /\ Len(x.ops) \in Nat /\ x.fall \in BOOLEAN /\ x.call \in BOOLEAN
          /\ x.scattered \in BOOLEAN /\ MAX_WRITE_OPS \in Nat
      BY <1>6, <2>3, InstrTyped, RecordAssumption
    <3>2. i \in 1..MAX_WRITE_OPS
      BY <1>5, <2>3, <3>1
    <3>3. due \in BOOLEAN /\ (due <=> values /\ (x.fall \/ x.call))
      BY <1>8, <2>3, <3>1 DEF Due
    <3> QED
      BY <1>4, <3>2, <3>3
  <2>6. \A p \in 1..Len(D) : D[p] # i
    <3>1. \A p, q \in 1..Len(OpsOut(x, all, n + 1)) :
              p < q => OpsOut(x, all, n + 1)[p] < OpsOut(x, all, n + 1)[q]
      BY <1>1, <1>6, GotStep
    <3>2. \A p, q \in 1..Len(D1) : p < q => D1[p] < D1[q]
      BY <1>16, <3>1, Zenon
    <3>3. /\ Len(D) \in Nat /\ Len(D1) = Len(D) + 1 /\ D1[Len(D) + 1] = i /\ \A p \in 1..Len(D) : D1[p] = D[p]
      BY <1>11, <2>2, <2>3, LenProperties, AppendProperties
    <3>4. i \in Nat
      BY <2>5
    <3> HIDE <2>2
    <3> QED
      BY <3>2, <3>3, <3>4
  <2>7. Filled1(L, S, A, B, C, Append(D, i), due, V)
    BY <1>10, <1>11, <1>12, <2>1, <2>3, <2>4, <2>5, <2>6, FillWrite DEF Filled1
  <2> QED
    BY <2>1, <2>2, <2>7, Zenon
<1>28. CASE c[1] \in {"CallRetAddr", "MemWriteValue"} /\ x.ops[i].on
  <2>1. PICK w : w = IF x.call THEN Return ELSE memory[x.ops[i].addr]
    OBVIOUS
  <2>2. RecordStoreValue(i, w) /\ overflow' = overflow /\ emitted' = emitted
    <3>1. CASE c[1] = "CallRetAddr"
      <4>1. RecordStoreValue(i, Return) /\ overflow' = overflow /\ emitted' = emitted
        BY <1>3, <1>4, <1>15, <1>28, <3>1, CallIs
      <4> QED
        BY <1>13, <2>1, <3>1, <4>1, Zenon
    <3>2. CASE c[1] = "MemWriteValue"
      <4>1. RecordStoreValue(i, memory[ins.ops[i].addr]) /\ overflow' = overflow /\ emitted' = emitted
        BY <1>3, <1>4, <1>15, <1>28, <3>2, CallIs
      <4> QED
        BY <1>4, <1>13, <2>1, <3>2, <4>1, Zenon
    <3> QED
      BY <1>28, <3>1, <3>2
  <2>3. A1 = A /\ B1 = B /\ C1 = C /\ D1 = D /\ V1 = V \cup {i}
    BY <1>19, <1>20, <1>28
  <2>4. due /\ i \in I /\ ~x.scattered
    BY <1>5, <1>8, <1>13, <1>14, <1>28 DEF Due
  <2>5. i \in 1..MAX_WRITE_OPS
    <3>1. Len(x.ops) <= MAX_WRITE_OPS /\ Len(x.ops) \in Nat /\ MAX_WRITE_OPS \in Nat
      BY <1>6, <2>4, InstrTyped, RecordAssumption
    <3> QED
      BY <1>5, <2>4, <3>1
  <2>6. Changes(S, S1, I, i, w) /\ (i \in V => S1 = S)
    <3>1. S1 = Stores(x, memory, V \cup {i})
      BY <1>17, <2>3, Zenon
    <3> QED
      BY <1>5, <1>6, <1>9, <2>1, <2>4, <3>1, StoreChanges
  <2>7. \A p, q \in 1..Len(D) : p # q => D[p] # D[q]
    <3>1. Len(D) \in Nat /\ \A p \in 1..Len(D) : D[p] \in Nat
      BY <1>5, <1>11, LenProperties, ElementOfSeq
    <3> QED
      BY <1>11, <3>1
  <2>8. Filled1(L, S1, A, B, C, D, due, V \cup {i})
    BY <1>10, <1>11, <2>2, <2>4, <2>5, <2>6, <2>7, FillValue DEF Filled1
  <2> QED
    BY <2>2, <2>3, <2>8, Zenon
<1> QED
  BY <1>14, <1>22, <1>23, <1>24, <1>25, <1>26, <1>27, <1>28

-----------------------------------------------------------------------------
(***************************************************************************)
(* The inductive invariant.                                                *)
(***************************************************************************)

\* s is what is left of the first m calls around x after n of them.
Left(s, x, all, n, m) ==
  s \in Seq(Calls(x)) /\ Len(s) = m - n /\ \A q \in 1..(m - n) : s[q] = all[n + q]

\* The next call is the first of those left.
LEMMA LeftStep ==
  ASSUME NEW s, NEW x, NEW all, NEW n \in Nat, NEW m \in Nat, Left(s, x, all, n, m)
  PROVE  /\ s = <<>> <=> n = m
         /\ s # <<>> => n < m /\ Head(s) = all[n + 1] /\ Left(Tail(s), x, all, n + 1, m)
<1>1. s \in Seq(Calls(x)) /\ Len(s) = m - n /\ \A q \in 1..(m - n) : s[q] = all[n + q]
  BY DEF Left
<1>2. Len(s) \in Nat
  BY <1>1, LenProperties
<1>3. s = <<>> <=> Len(s) = 0
  BY <1>1, EmptySeq
<1>4. s = <<>> <=> n = m
  BY <1>1, <1>2, <1>3
<1>5. ASSUME s # <<>>
      PROVE  n < m /\ Head(s) = all[n + 1] /\ Left(Tail(s), x, all, n + 1, m)
  <2>1. n < m /\ 1 \in 1..(m - n)
    BY <1>1, <1>2, <1>4, <1>5
  <2>2. PICK t : t = Tail(s)
    OBVIOUS
  <2>3. /\ Head(s) = s[1] /\ t \in Seq(Calls(x)) /\ Len(t) = Len(s) - 1
        /\ \A q \in 1..(Len(s) - 1) : t[q] = s[q + 1]
    BY <1>1, <1>5, <2>2, HeadTailProperties
  <2>4. Len(t) = m - (n + 1)
    BY <1>1, <2>3
  <2>5. ASSUME NEW q \in 1..(m - (n + 1)) PROVE t[q] = all[(n + 1) + q]
    <3>1. q \in 1..(Len(s) - 1) /\ q + 1 \in 1..(m - n) /\ n + (q + 1) = (n + 1) + q
      BY <1>1
    <3> QED
      BY <1>1, <2>3, <3>1
  <2>6. Left(t, x, all, n + 1, m)
    BY <2>3, <2>4, <2>5 DEF Left
  <2> QED
    BY <1>1, <2>1, <2>2, <2>3, <2>6
<1> QED
  BY <1>4, <1>5

Sealed(k) == [k EXCEPT !.done = TRUE]

\* The record is written.
IsWritten(x, v, all, me, fe, k, pe, ov, em) ==
  /\ em = Sealed(Made(Loads(x, v, fe), Stores(x, me, Valued(x, all, Len(all) - 1)),
                      x.rregs, x.wregs, Reads(x), Writes(x)))
  /\ k = Blank /\ pe = NoSlots /\ ov = Lost(Reads(x), Writes(x))

\* The record after the first n calls.
Stand(x, v, all, n, me, fe, k, pe, ov, em) ==
  /\ n # Len(all) => Filling(x, v, fe, me, all, n, k, pe, ov)
  /\ n = Len(all) => IsWritten(x, v, all, me, fe, k, pe, ov, em)

\* Every call takes it one step on.
LEMMA StandStep ==
  ASSUME ins \in Instr, values \in BOOLEAN, Mem(memory), Mem(fetched),
         NEW all, NEW f, NEW b, Shaped(ins, values, all, f, b),
         NEW n \in Nat, n < Len(all), n + 1 <= b => fetched = memory,
         Stand(ins, values, all, n, memory, fetched, curr_instr, pending, overflow, emitted),
         Call(all[n + 1])
  PROVE  Stand(ins, values, all, n + 1, memory, fetched, curr_instr', pending', overflow', emitted')
<1>1. Len(all) \in Nat /\ f \in Nat /\ f < Len(all)
  BY DEF Shaped
<1>2. Filling(ins, values, fetched, memory, all, n, curr_instr, pending, overflow)
  BY <1>1 DEF Stand
<1>3. CASE n + 1 # Len(all)
  <2>1. n + 1 < Len(all)
    BY <1>1, <1>3
  <2>2. Filling(ins, values, fetched, memory, all, n + 1, curr_instr', pending', overflow')
    BY <1>2, <2>1, FillingStep
  <2> QED
    BY <1>3, <2>2, Zenon DEF Stand
<1>4. CASE n + 1 = Len(all)
  <2>1. n = Len(all) - 1 /\ f <= n /\ n \in 0..Len(all)
    BY <1>1, <1>4
  <2>2. PICK c : c = all[n + 1]
    OBVIOUS
  <2>3. c[1] = "Commit"
    BY <1>4, <2>2, NextCall
  <2>4. CommitRecord /\ overflow' = overflow
    <3>1. Call(c)
      BY <2>2, Zenon
    <3> QED
      BY <2>3, <3>1, CallIs
  <2>5. /\ RegsIn(ins, all, n) = ins.rregs /\ RegsOut(ins, all, n) = ins.wregs
        /\ OpsIn(ins, all, n) = Reads(ins) /\ OpsOut(ins, all, n) = Writes(ins)
    BY <2>1, GotStep
  <2>6. /\ curr_instr = Made(Loads(ins, values, fetched), Stores(ins, memory, Valued(ins, all, n)),
                             ins.rregs, ins.wregs, Reads(ins), Writes(ins))
        /\ overflow = Lost(Reads(ins), Writes(ins))
    BY <1>2, <2>5, Zenon DEF Filling, Filled
  <2>7. emitted' = Sealed(curr_instr) /\ curr_instr' = Blank /\ pending' = NoSlots
    BY <2>4, Zenon DEF CommitRecord, Sealed, Reset
  <2>8. Valued(ins, all, n) = Valued(ins, all, Len(all) - 1)
    BY <2>1, Zenon
  <2>9. IsWritten(ins, values, all, memory, fetched, curr_instr', pending', overflow', emitted')
    BY <2>4, <2>6, <2>7, <2>8, Zenon DEF IsWritten
  <2> QED
    BY <1>4, <2>9, Zenon DEF Stand
<1> QED
  BY <1>3, <1>4

\* The instruction's own stores change nothing that is in the record by then.
LEMMA StandExecute ==
  ASSUME NEW x \in Instr, NEW v, NEW all, NEW f, NEW b, Shaped(x, v, all, f, b),
         NEW n \in Nat, n <= Len(all), n <= b, NEW me, NEW mf, NEW fe, NEW k, NEW pe, NEW ov, NEW em,
         Stand(x, v, all, n, me, fe, k, pe, ov, em)
  PROVE  Stand(x, v, all, n, mf, fe, k, pe, ov, em)
<1>1. Len(all) \in Nat /\ f \in Nat /\ f < Len(all) /\ b \in Nat
  BY DEF Shaped
<1>2. ASSUME NEW V, V = {} \/ x.call PROVE Stores(x, mf, V) = Stores(x, me, V)
  BY <1>2 DEF Stores
<1>3. ASSUME NEW p \in Nat, p < Len(all), p <= b PROVE Valued(x, all, p) = {} \/ x.call
  <2>1. PICK c : c = all[p + 1]
    OBVIOUS
  <2> QED
    BY <1>3, <2>1, NextValues
<1>4. CASE n # Len(all)
  <2>1. Stores(x, mf, Valued(x, all, n)) = Stores(x, me, Valued(x, all, n))
    <3>1. n < Len(all)
      BY <1>1, <1>4
    <3> QED
      BY <1>2, <1>3, <3>1
  <2>2. Filling(x, v, fe, me, all, n, k, pe, ov)
    BY <1>4, Zenon DEF Stand
  <2>3. Filling(x, v, fe, mf, all, n, k, pe, ov)
    BY <2>1, <2>2, Zenon DEF Filling
  <2> QED
    BY <1>4, <2>3, Zenon DEF Stand
<1>5. CASE n = Len(all)
  <2>1. Stores(x, mf, Valued(x, all, Len(all) - 1)) = Stores(x, me, Valued(x, all, Len(all) - 1))
    <3>1. PICK p \in Nat : p = Len(all) - 1
      BY <1>1
    <3>2. p < Len(all) /\ p <= b
      BY <1>1, <1>5, <3>1
    <3>3. Stores(x, mf, Valued(x, all, p)) = Stores(x, me, Valued(x, all, p))
      BY <1>2, <1>3, <3>2
    <3> QED
      BY <3>1, <3>3, Zenon
  <2>2. IsWritten(x, v, all, me, fe, k, pe, ov, em)
    BY <1>5, Zenon DEF Stand
  <2>3. IsWritten(x, v, all, mf, fe, k, pe, ov, em)
    BY <2>1, <2>2, Zenon DEF IsWritten
  <2> QED
    BY <1>5, <2>3, Zenon DEF Stand
<1> QED
  BY <1>4, <1>5

\* Nothing is filled when the thread comes to an instruction.
LEMMA StandFetch ==
  ASSUME NEW x \in Instr, NEW v, NEW all, NEW f, NEW b, Shaped(x, v, all, f, b),
         NEW me, NEW fe, NEW em
  PROVE  Stand(x, v, all, 0, me, fe, Blank, NoSlots, 0, em)
<1>1. Len(all) \in Nat /\ f \in Nat /\ f < Len(all) /\ 0 \in 0..Len(all)
  BY DEF Shaped
<1>2. /\ RegsIn(x, all, 0) = <<>> /\ RegsOut(x, all, 0) = <<>>
      /\ OpsIn(x, all, 0) = <<>> /\ OpsOut(x, all, 0) = <<>>
  BY <1>1, GotStep
<1>3. NUM_INSTR_SOURCES \in Nat /\ NUM_INSTR_DESTINATIONS \in Nat /\ MAX_WRITE_OPS \in Nat
  BY RecordAssumption
<1>4. ASSUME NEW k \in Nat PROVE Cap(Len(<<>>), k) = 0 /\ \A h : Lim(h, <<>>, k) = <<>>
  BY DEF Cap, Lim
<1>5. Valued(x, all, 0) = {}
  BY DEF Valued
<1>6. PICK e : e = <<>>
  OBVIOUS
<1>7. /\ Cap(Len(e), NUM_INSTR_SOURCES) = 0 /\ Cap(Len(e), NUM_INSTR_DESTINATIONS) = 0 /\ Len(e) = 0
      /\ \A h : Lim(h, e, NUM_INSTR_SOURCES) = e /\ Lim(h, e, NUM_INSTR_DESTINATIONS) = e
  BY <1>3, <1>4, <1>6
<1>8. ASSUME NEW L, NEW S PROVE Made(L, S, e, e, e, e) = Blank
  BY <1>6, <1>7, Zenon DEF Made, Record, Blank
<1>9. ASSUME NEW due PROVE Tracked(due, e, {}, NoSlots)
  BY <1>3, <1>7 DEF Tracked, NoSlots
<1>10. Lost(e, e) = 0
  BY <1>7 DEF Lost
<1>11. ASSUME NEW L, NEW S, NEW due PROVE Filled(L, S, e, e, e, e, due, {}, Blank, NoSlots, 0)
  BY <1>8, <1>9, <1>10, Zenon DEF Filled
<1>12. Filling(x, v, fe, me, all, 0, Blank, NoSlots, 0)
  BY <1>2, <1>5, <1>6, <1>11, Zenon DEF Filling
<1>13. Len(all) # 0
  BY <1>1
<1> QED
  BY <1>12, <1>13, Zenon DEF Stand

\* The calls around an instruction stay what they are.
LEMMA SameCalls ==
  ASSUME NEW x, ins' = x, values' = values
  PROVE  BeforeCalls(ins)' = BeforeCalls(x) /\ AfterCalls(ins)' = AfterCalls(x)
<1>1. CommitsBefore(ins)' = CommitsBefore(x) /\ PostCalls(ins)' = PostCalls(x)
  BY DEF CommitsBefore, PostCalls, HasStore
<1>2. \A name : StoreCalls(ins, name)' = StoreCalls(x, name)
  BY DEF StoreCalls, Opt
<1>3. BeforeCalls(ins)' = BeforeCalls(x)
  BY <1>1, <1>2 DEF BeforeCalls, OperandCalls, Opt
<1>4. AfterCalls(ins)' = AfterCalls(x)
  BY <1>1, <1>2 DEF AfterCalls, Opt
<1> QED
  BY <1>3, <1>4

\* The instruction's calls to a function have left their return address.
Returned(x, me) ==
  x.call => \A i \in 1..Len(x.ops) : x.ops[i].written /\ x.ops[i].on => me[x.ops[i].addr] = Return

\* The thread is at an instruction: n of the calls around it, b of which come before
\* it, have run, and the record is what they make it.
Run(x, v, all, b, n, me, fe, be, af, st, k, pe, ov, em) ==
  /\ n \in Nat /\ n <= Len(all) /\ st \in {"before", "after"}
  /\ st = "before" => n <= b /\ fe = me /\ Left(be, x, all, n, b) /\ Left(af, x, all, b, Len(all))
  /\ st = "after" => b <= n /\ Left(af, x, all, n, Len(all)) /\ Returned(x, me)
  /\ Stand(x, v, all, n, me, fe, k, pe, ov, em)

\* The inductive invariant of the tracer's record.
RecordInv ==
  /\ ins \in Instr /\ values \in BOOLEAN /\ Mem(memory) /\ Mem(fetched)
  /\ stage = "idle" => curr_instr = Blank /\ pending = NoSlots
  /\ stage # "idle" =>
       \E n : Run(ins, values, All(ins), Len(BeforeCalls(ins)), n, memory, fetched,
                  before, after, stage, curr_instr, pending, overflow, emitted)

\* RecordInv holds at the start.
LEMMA RecordStarts == RecordInit => RecordInv
<1> SUFFICES ASSUME RecordInit PROVE RecordInv
  OBVIOUS
<1>1. memory \in [Address -> Nat] /\ fetched = memory
  BY DEF RecordInit
<1> QED
  BY <1>1 DEF RecordInit, RecordInv, Mem

\* The actions keep RecordInv.
LEMMA KeepsCallBefore == RecordInv /\ CallBefore => RecordInv'
<1> SUFFICES ASSUME RecordInv, CallBefore PROVE RecordInv'
  OBVIOUS
<1>1. /\ stage = "before" /\ before # <<>> /\ Call(Head(before)) /\ before' = Tail(before)
      /\ ins' = ins /\ values' = values /\ memory' = memory /\ fetched' = fetched
      /\ after' = after /\ stage' = stage
  BY DEF CallBefore, program
<1>2. PICK all, b : all = All(ins) /\ b = Len(BeforeCalls(ins))
  OBVIOUS
<1>3. All(ins)' = all /\ Len(BeforeCalls(ins))' = b
  <2>1. BeforeCalls(ins)' = BeforeCalls(ins) /\ AfterCalls(ins)' = AfterCalls(ins)
    BY <1>1, SameCalls
  <2> QED
    BY <1>2, <2>1 DEF All
<1>4. PICK n : Run(ins, values, all, b, n, memory, fetched,
                   before, after, stage, curr_instr, pending, overflow, emitted)
  BY <1>1, <1>2, Zenon DEF RecordInv
<1>5. /\ n \in Nat /\ n <= b /\ fetched = memory /\ Left(before, ins, all, n, b)
      /\ Left(after, ins, all, b, Len(all))
      /\ Stand(ins, values, all, n, memory, fetched, curr_instr, pending, overflow, emitted)
  BY <1>1, <1>4, Zenon DEF Run
<1>6. ins \in Instr /\ values \in BOOLEAN /\ Mem(memory) /\ Mem(fetched)
  BY DEF RecordInv
<1>7. PICK f : Shaped(ins, values, all, f, b)
  BY <1>2, <1>6, AllShaped, Zenon
<1>8. b \in Nat /\ b <= Len(all) /\ Len(all) \in Nat
  BY <1>7 DEF Shaped
<1>9. n < b /\ Head(before) = all[n + 1] /\ Left(Tail(before), ins, all, n + 1, b)
  BY <1>1, <1>5, <1>8, LeftStep
<1>10. n < Len(all) /\ n + 1 \in Nat /\ n + 1 <= Len(all) /\ n + 1 <= b
  BY <1>5, <1>8, <1>9
<1>11. Call(all[n + 1])
  BY <1>1, <1>9, Zenon
<1>12. Stand(ins, values, all, n + 1, memory, fetched, curr_instr', pending', overflow', emitted')
  BY <1>5, <1>6, <1>7, <1>10, <1>11, StandStep
<1>13. Run(ins', values', all, b, n + 1, memory', fetched',
           before', after', stage', curr_instr', pending', overflow', emitted')
  <2>1. "before" # "after" /\ "before" \in {"before", "after"}
    OBVIOUS
  <2> QED
    BY <1>1, <1>5, <1>9, <1>10, <1>12, <2>1, Zenon DEF Run
<1>14. Mem(memory)' /\ Mem(fetched)'
  BY <1>1, <1>6 DEF Mem
<1>15. stage' # "idle"
  BY <1>1
<1> QED
  BY <1>1, <1>3, <1>6, <1>13, <1>14, <1>15, Zenon DEF RecordInv

\* A call after the instruction.
LEMMA KeepsCallAfter == RecordInv /\ CallAfter => RecordInv'
<1> SUFFICES ASSUME RecordInv, CallAfter PROVE RecordInv'
  OBVIOUS
<1>1. /\ stage = "after" /\ after # <<>> /\ Call(Head(after)) /\ after' = Tail(after)
      /\ ins' = ins /\ values' = values /\ memory' = memory /\ fetched' = fetched
      /\ before' = before /\ stage' = stage
  BY DEF CallAfter, program
<1>2. PICK all, b : all = All(ins) /\ b = Len(BeforeCalls(ins))
  OBVIOUS
<1>3. All(ins)' = all /\ Len(BeforeCalls(ins))' = b
  <2>1. BeforeCalls(ins)' = BeforeCalls(ins) /\ AfterCalls(ins)' = AfterCalls(ins)
    BY <1>1, SameCalls
  <2> QED
    BY <1>2, <2>1 DEF All
<1>4. PICK n : Run(ins, values, all, b, n, memory, fetched,
                   before, after, stage, curr_instr, pending, overflow, emitted)
  BY <1>1, <1>2, Zenon DEF RecordInv
<1>5. /\ n \in Nat /\ b <= n /\ Left(after, ins, all, n, Len(all)) /\ Returned(ins, memory)
      /\ Stand(ins, values, all, n, memory, fetched, curr_instr, pending, overflow, emitted)
  BY <1>1, <1>4, Zenon DEF Run
<1>6. ins \in Instr /\ values \in BOOLEAN /\ Mem(memory) /\ Mem(fetched)
  BY DEF RecordInv
<1>7. PICK f : Shaped(ins, values, all, f, b)
  BY <1>2, <1>6, AllShaped, Zenon
<1>8. b \in Nat /\ Len(all) \in Nat
  BY <1>7 DEF Shaped
<1>9. n < Len(all) /\ Head(after) = all[n + 1] /\ Left(Tail(after), ins, all, n + 1, Len(all))
  BY <1>1, <1>5, <1>8, LeftStep
<1>10. n + 1 \in Nat /\ n + 1 <= Len(all) /\ ~(n + 1 <= b) /\ b <= n + 1
  BY <1>5, <1>8, <1>9
<1>11. Call(all[n + 1])
  BY <1>1, <1>9, Zenon
<1>12. Stand(ins, values, all, n + 1, memory, fetched, curr_instr', pending', overflow', emitted')
  BY <1>5, <1>6, <1>7, <1>9, <1>10, <1>11, StandStep
<1>13. Run(ins', values', all, b, n + 1, memory', fetched',
           before', after', stage', curr_instr', pending', overflow', emitted')
  <2>1. "before" # "after" /\ "after" \in {"before", "after"}
    OBVIOUS
  <2> QED
    BY <1>1, <1>5, <1>9, <1>10, <1>12, <2>1, Zenon DEF Run
<1>14. Mem(memory)' /\ Mem(fetched)'
  BY <1>1, <1>6 DEF Mem
<1>15. stage' # "idle"
  BY <1>1
<1> QED
  BY <1>1, <1>3, <1>6, <1>13, <1>14, <1>15, Zenon DEF RecordInv

\* The thread comes to an instruction: no call has run.
LEMMA KeepsFetch == RecordInv /\ (\E x \in Instr : Fetch(x)) => RecordInv'
<1> SUFFICES ASSUME RecordInv, NEW x \in Instr, Fetch(x) PROVE RecordInv'
  OBVIOUS
<1>1. /\ stage = "idle" /\ ins' = x /\ values' = values /\ memory' = memory /\ fetched' = memory
      /\ before' = BeforeCalls(x) /\ after' = AfterCalls(x) /\ stage' = "before"
      /\ overflow' = 0 /\ emitted' = Blank /\ curr_instr' = curr_instr /\ pending' = pending
  BY DEF Fetch
<1>2. PICK bc, ac : bc = BeforeCalls(x) /\ ac = AfterCalls(x)
  OBVIOUS
<1>3. PICK all, b : all = All(x) /\ b = Len(bc)
  OBVIOUS
<1>4. All(ins)' = all /\ Len(BeforeCalls(ins))' = b
  <2>1. BeforeCalls(ins)' = BeforeCalls(x) /\ AfterCalls(ins)' = AfterCalls(x)
    BY <1>1, SameCalls
  <2> QED
    BY <1>2, <1>3, <2>1 DEF All
<1>5. /\ values \in BOOLEAN /\ Mem(memory) /\ curr_instr = Blank /\ pending = NoSlots
  BY <1>1 DEF RecordInv
<1>6. PICK f : Shaped(x, values, all, f, b)
  BY <1>2, <1>3, <1>5, AllShaped, Zenon
<1>7. Stand(x, values, all, 0, memory, memory, Blank, NoSlots, 0, Blank)
  BY <1>6, StandFetch
<1>8. bc \in Seq(Calls(x)) /\ ac \in Seq(Calls(x)) /\ all = bc \o ac
  <2>1. bc \in Seq(BeforeKind(x)) /\ ac \in Seq(AfterKind(x))
    BY <1>2, <1>5, CallsAre
  <2>2. BeforeKind(x) \subseteq Calls(x) /\ AfterKind(x) \subseteq Calls(x)
    BY DEF BeforeKind, AfterKind
  <2> QED
    BY <1>2, <1>3, <2>1, <2>2, SeqMonotonic DEF All
<1>9. /\ Len(all) = b + Len(ac) /\ b \in Nat /\ Len(ac) \in Nat
      /\ \A q \in 1..(b + Len(ac)) : all[q] = IF q <= b THEN bc[q] ELSE ac[q - b]
  BY <1>3, <1>8, ConcatProperties, LenProperties
<1>10. Left(bc, x, all, 0, b)
  <2>1. b - 0 = b /\ \A q \in 1..b : 0 + q = q /\ q \in 1..(b + Len(ac)) /\ q <= b
    BY <1>9
  <2> QED
    BY <1>3, <1>8, <1>9, <2>1 DEF Left
<1>11. Left(ac, x, all, b, Len(all))
  <2>1. Len(all) - b = Len(ac)
    BY <1>9
  <2>2. ASSUME NEW q \in 1..Len(ac) PROVE ac[q] = all[b + q]
    <3>1. b + q \in 1..(b + Len(ac)) /\ ~(b + q <= b) /\ (b + q) - b = q
      BY <1>9
    <3> QED
      BY <1>9, <3>1
  <2> QED
    BY <1>8, <2>1, <2>2 DEF Left
<1>12. 0 \in Nat /\ 0 <= Len(all) /\ 0 <= b
  BY <1>9
<1>13. Run(ins', values', all, b, 0, memory', fetched',
           before', after', stage', curr_instr', pending', overflow', emitted')
  <2>1. "before" # "after" /\ "before" \in {"before", "after"}
    OBVIOUS
  <2> QED
    BY <1>1, <1>2, <1>5, <1>7, <1>10, <1>11, <1>12, <2>1, Zenon DEF Run
<1>14. Mem(memory)' /\ Mem(fetched)'
  BY <1>1, <1>5 DEF Mem
<1>15. stage' # "idle"
  BY <1>1
<1> QED
  BY <1>1, <1>4, <1>5, <1>13, <1>14, <1>15, Zenon DEF RecordInv

\* The instruction itself: all calls before it have run.
LEMMA KeepsExecute == RecordInv /\ Execute => RecordInv'
<1> SUFFICES ASSUME RecordInv, Execute PROVE RecordInv'
  OBVIOUS
<1>1. /\ stage = "before" /\ before = <<>> /\ stage' = "after"
      /\ ins' = ins /\ values' = values /\ fetched' = fetched /\ before' = before /\ after' = after
      /\ curr_instr' = curr_instr /\ pending' = pending /\ overflow' = overflow /\ emitted' = emitted
  BY DEF Execute
<1>2. PICK all, b : all = All(ins) /\ b = Len(BeforeCalls(ins))
  OBVIOUS
<1>3. All(ins)' = all /\ Len(BeforeCalls(ins))' = b
  <2>1. BeforeCalls(ins)' = BeforeCalls(ins) /\ AfterCalls(ins)' = AfterCalls(ins)
    BY <1>1, SameCalls
  <2> QED
    BY <1>2, <2>1 DEF All
<1>4. PICK n : Run(ins, values, all, b, n, memory, fetched,
                   before, after, stage, curr_instr, pending, overflow, emitted)
  BY <1>1, <1>2, Zenon DEF RecordInv
<1>5. /\ n \in Nat /\ n <= Len(all) /\ n <= b /\ Left(before, ins, all, n, b)
      /\ Left(after, ins, all, b, Len(all))
      /\ Stand(ins, values, all, n, memory, fetched, curr_instr, pending, overflow, emitted)
  BY <1>1, <1>4, Zenon DEF Run
<1>6. ins \in Instr /\ values \in BOOLEAN /\ Mem(memory) /\ Mem(fetched)
  BY DEF RecordInv
<1>7. PICK f : Shaped(ins, values, all, f, b)
  BY <1>2, <1>6, AllShaped, Zenon
<1>8. b \in Nat /\ Len(all) \in Nat
  BY <1>7 DEF Shaped
<1>9. n = b /\ b <= n
  BY <1>1, <1>5, <1>8, LeftStep
<1>10. PICK w \in Value :
         memory' = [a \in Address |->
           IF \E i \in 1..Len(ins.ops) : ins.ops[i].addr = a /\ ins.ops[i].written /\ ins.ops[i].on
           THEN IF ins.call THEN Return ELSE w ELSE memory[a]]
  BY DEF Execute
<1>11. Mem(memory)' /\ Mem(fetched)'
  <2>1. w \in Nat /\ Return \in Nat /\ memory \in [Address -> Nat]
    BY <1>6, <1>10 DEF Value, Return, Mem
  <2>2. memory' \in [Address -> Nat]
    BY <1>10, <2>1
  <2> QED
    BY <1>1, <1>6, <2>2 DEF Mem
<1>12. Returned(ins, memory')
  <2>1. ASSUME NEW i \in 1..Len(ins.ops), ins.ops[i].written, ins.ops[i].on, ins.call
        PROVE  memory'[ins.ops[i].addr] = Return
    <3>1. ins.ops[i].addr \in Address
      BY <1>6, InstrTyped
    <3> QED
      BY <1>10, <2>1, <3>1
  <2> QED
    BY <2>1 DEF Returned
<1>13. Stand(ins, values, all, n, memory', fetched, curr_instr, pending, overflow, emitted)
  BY <1>5, <1>6, <1>7, StandExecute
<1>14. Run(ins', values', all, b, n, memory', fetched',
           before', after', stage', curr_instr', pending', overflow', emitted')
  <2>1. "before" # "after" /\ "after" \in {"before", "after"}
    OBVIOUS
  <2> QED
    BY <1>1, <1>5, <1>9, <1>12, <1>13, <2>1, Zenon DEF Run
<1>15. stage' # "idle"
  BY <1>1
<1> QED
  BY <1>1, <1>3, <1>6, <1>11, <1>14, <1>15, Zenon DEF RecordInv

\* The instruction is over: all calls have run.
LEMMA KeepsRetired == RecordInv /\ Retired => RecordInv'
<1> SUFFICES ASSUME RecordInv, Retired PROVE RecordInv'
  OBVIOUS
<1>1. /\ stage = "after" /\ after = <<>> /\ stage' = "idle"
      /\ ins' = ins /\ values' = values /\ memory' = memory /\ fetched' = fetched
      /\ curr_instr' = curr_instr /\ pending' = pending
  BY DEF Retired, program
<1>2. PICK all, b : all = All(ins) /\ b = Len(BeforeCalls(ins))
  OBVIOUS
<1>4. PICK n : Run(ins, values, all, b, n, memory, fetched,
                   before, after, stage, curr_instr, pending, overflow, emitted)
  BY <1>1, <1>2, Zenon DEF RecordInv
<1>5. /\ n \in Nat /\ Left(after, ins, all, n, Len(all))
      /\ Stand(ins, values, all, n, memory, fetched, curr_instr, pending, overflow, emitted)
  BY <1>1, <1>4, Zenon DEF Run
<1>6. ins \in Instr /\ values \in BOOLEAN /\ Mem(memory) /\ Mem(fetched)
  BY DEF RecordInv
<1>7. PICK f : Shaped(ins, values, all, f, b)
  BY <1>2, <1>6, AllShaped, Zenon
<1>8. Len(all) \in Nat
  BY <1>7 DEF Shaped
<1>9. n = Len(all)
  BY <1>1, <1>5, <1>8, LeftStep
<1>10. curr_instr = Blank /\ pending = NoSlots
  BY <1>5, <1>9, Zenon DEF Stand, IsWritten
<1>11. Mem(memory)' /\ Mem(fetched)' /\ Blank' = Blank /\ NoSlots' = NoSlots
  BY <1>1, <1>6 DEF Mem, Blank, NoSlots
<1> QED
  BY <1>1, <1>6, <1>10, <1>11, Zenon DEF RecordInv

\* The prefix of registers.
LEMMA OwnPrefix ==
  ASSUME NEW s \in Seq(Nat), NEW k \in Nat
  PROVE  Prefix(s, k) = Lim(Id, s, k)
<1>1. \A n \in 1..Len(s) : s[n] \in Nat /\ Id[s[n]] = s[n]
  BY ElementOfSeq DEF Id
<1>2. s = [n \in 1..Len(s) |-> Id[s[n]]]
  BY <1>1
<1>3. PICK N : N = Nat
  OBVIOUS
<1>4. Maps(Id, N, N) /\ s \in Seq(N)
  BY <1>3 DEF Maps, Id
<1> QED
  BY <1>2, <1>4, PrefixIs

\* Every value that was due has come.
LEMMA ValuesCome ==
  ASSUME NEW x \in Instr, NEW v, NEW all, NEW f, NEW b, Shaped(x, v, all, f, b),
         NEW V, V = Valued(x, all, Len(all) - 1),
         NEW i \in 1..Len(x.ops), x.ops[i].written, x.ops[i].on
  PROVE  i \in V <=> Due(x, v)
<1>1. PICK p \in Nat : p = Len(all) - 1 /\ p < Len(all)
  BY DEF Shaped
<1>2. ~Due(x, v) => V = {}
  <2>1. PICK c : c = all[p + 1]
    OBVIOUS
  <2>2. ~Due(x, v) => Valued(x, all, p) = {}
    BY <1>1, <2>1, NextValues
  <2> QED
    BY <1>1, <2>2, Zenon
<1>3. ASSUME Due(x, v) PROVE i \in V
  <2>1. \E q \in 1..(Len(all) - 1) : all[q] = ValueCall(x, i)
    BY <1>3 DEF Shaped
  <2> QED
    BY <2>1 DEF Valued
<1> QED
  BY <1>2, <1>3

\* The record written is the one that RecordFaithful asks for.
LEMMA RecordTells == RecordInv => RecordFaithful
<1> SUFFICES ASSUME RecordInv, stage = "after", after = <<>>
             PROVE  LET rd == Reads(ins)
                        wr == Writes(ins)
                        ss == [k \in 1..Len(rd) |-> Loaded(ins.ops[rd[k]])]
                        ds == [k \in 1..Len(wr) |-> Stored(ins.ops[wr[k]])]
                        nss == Len(Prefix(ss, NUM_INSTR_SOURCES))
                        nds == Len(Prefix(ds, NUM_INSTR_DESTINATIONS)) IN
                    /\ emitted = [src_regs |-> Prefix(ins.rregs, NUM_INSTR_SOURCES),
                                  dst_regs |-> Prefix(ins.wregs, NUM_INSTR_DESTINATIONS),
                                  src |-> Prefix(ss, NUM_INSTR_SOURCES),
                                  dst |-> Prefix(ds, NUM_INSTR_DESTINATIONS), done |-> TRUE]
                    /\ overflow = (Len(ss) - nss) + (Len(ds) - nds)
                    /\ curr_instr = Blank
  BY DEF RecordFaithful
<1>1. PICK all, b : all = All(ins) /\ b = Len(BeforeCalls(ins))
  OBVIOUS
<1>2. stage # "idle"
  OBVIOUS
<1>3. PICK n : Run(ins, values, all, b, n, memory, fetched,
                   before, after, stage, curr_instr, pending, overflow, emitted)
  BY <1>1, <1>2, Zenon DEF RecordInv
<1>4. /\ n \in Nat /\ Left(after, ins, all, n, Len(all)) /\ Returned(ins, memory)
      /\ Stand(ins, values, all, n, memory, fetched, curr_instr, pending, overflow, emitted)
  BY <1>3, Zenon DEF Run
<1>5. ins \in Instr /\ values \in BOOLEAN /\ Mem(memory) /\ Mem(fetched)
  BY DEF RecordInv
<1>6. PICK f : Shaped(ins, values, all, f, b)
  BY <1>1, <1>5, AllShaped, Zenon
<1>7. Len(all) \in Nat
  BY <1>6 DEF Shaped
<1>8. n = Len(all)
  BY <1>4, <1>7, LeftStep
<1>9. IsWritten(ins, values, all, memory, fetched, curr_instr, pending, overflow, emitted)
  BY <1>4, <1>8, Zenon DEF Stand
<1>10. PICK V : V = Valued(ins, all, Len(all) - 1)
  OBVIOUS
<1>11. PICK L, S : L = Loads(ins, values, fetched) /\ S = Stores(ins, memory, V)
  OBVIOUS
<1>12. PICK R, W : R = Reads(ins) /\ W = Writes(ins)
  OBVIOUS
<1>13. /\ emitted = Sealed(Made(L, S, ins.rregs, ins.wregs, R, W))
       /\ overflow = Lost(R, W) /\ curr_instr = Blank
  BY <1>9, <1>10, <1>11, <1>12, Zenon DEF IsWritten
<1>14. PICK I : I = 1..Len(ins.ops)
  OBVIOUS
<1>15. Maps(L, I, Slot) /\ Maps(S, I, Slot)
  <2>1. Maps(Loads(ins, values, fetched), 1..Len(ins.ops), Slot)
    BY <1>5, SlotsFit
  <2>2. Maps(Stores(ins, memory, V), 1..Len(ins.ops), Slot)
    BY <1>5, SlotsFit
  <2> QED
    BY <2>1, <2>2, <1>11, <1>14, Zenon
<1>16. /\ R \in Seq(I) /\ W \in Seq(I)
       /\ \A p \in 1..Len(W) : W[p] \in I /\ ins.ops[W[p]].written /\ ins.ops[W[p]].on
       /\ \A p \in 1..Len(R) : R[p] \in I
  <2>1. /\ Reads(ins) \in Seq(1..Len(ins.ops)) /\ Writes(ins) \in Seq(1..Len(ins.ops))
        /\ \A i : Holds(Writes(ins), i) <=>
                    i \in 1..Len(ins.ops) /\ ins.ops[i].written /\ ins.ops[i].on
    BY <1>5, Accesses
  <2>2. R \in Seq(I) /\ W \in Seq(I)
    BY <1>12, <1>14, <2>1, Zenon
  <2>3. \A p \in 1..Len(W) : Holds(W, W[p])
    BY DEF Holds
  <2>4. \A p \in 1..Len(R) : R[p] \in I
    BY <2>2, ElementOfSeq
  <2> QED
    BY <1>12, <1>14, <2>1, <2>2, <2>3, <2>4, Zenon
<1>17. ASSUME NEW p \in 1..Len(R) PROVE Loaded(ins.ops[R[p]]) = L[R[p]]
  BY <1>11, <1>14, <1>16 DEF Loads, Loaded
<1>18. ASSUME NEW p \in 1..Len(W) PROVE Stored(ins.ops[W[p]]) = S[W[p]]
  <2>1. PICK i : i = W[p]
    OBVIOUS
  <2>2. i \in 1..Len(ins.ops) /\ ins.ops[i].written /\ ins.ops[i].on
    BY <1>14, <1>16, <2>1
  <2>3. i \in V <=> Due(ins, values)
    BY <1>5, <1>6, <1>10, <2>2, ValuesCome
  <2>4. ins.call => memory[ins.ops[i].addr] = Return
    BY <1>4, <2>2 DEF Returned
  <2>5. S[i] = [addr |-> ins.ops[i].addr,
                value |-> IF i \in V THEN IF ins.call THEN Return ELSE memory[ins.ops[i].addr] ELSE Zero]
    BY <1>11, <2>2 DEF Stores
  <2>6. (IF i \in V THEN IF ins.call THEN Return ELSE memory[ins.ops[i].addr] ELSE Zero)
        = IF values /\ ~ins.scattered /\ (ins.fall \/ ins.call) THEN memory[ins.ops[i].addr] ELSE Zero
    BY <2>3, <2>4, Zenon DEF Due
  <2> QED
    BY <2>1, <2>5, <2>6, Zenon DEF Stored
<1>19. PICK ss, ds : /\ ss = [k \in 1..Len(R) |-> Loaded(ins.ops[R[k]])]
                       /\ ds = [k \in 1..Len(W) |-> Stored(ins.ops[W[k]])]
  OBVIOUS
<1>20. ss = [k \in 1..Len(R) |-> L[R[k]]] /\ ds = [k \in 1..Len(W) |-> S[W[k]]]
  BY <1>17, <1>18, <1>19
<1>21. NUM_INSTR_SOURCES \in Nat /\ NUM_INSTR_DESTINATIONS \in Nat
  BY RecordAssumption
<1>22. /\ Prefix(ss, NUM_INSTR_SOURCES) = Lim(L, R, NUM_INSTR_SOURCES)
       /\ Len(Prefix(ss, NUM_INSTR_SOURCES)) = Cap(Len(R), NUM_INSTR_SOURCES) /\ Len(ss) = Len(R)
  BY <1>15, <1>16, <1>20, <1>21, PrefixIs
<1>23. /\ Prefix(ds, NUM_INSTR_DESTINATIONS) = Lim(S, W, NUM_INSTR_DESTINATIONS)
       /\ Len(Prefix(ds, NUM_INSTR_DESTINATIONS)) = Cap(Len(W), NUM_INSTR_DESTINATIONS) /\ Len(ds) = Len(W)
  BY <1>15, <1>16, <1>20, <1>21, PrefixIs
<1>24. /\ Prefix(ins.rregs, NUM_INSTR_SOURCES) = Lim(Id, ins.rregs, NUM_INSTR_SOURCES)
       /\ Prefix(ins.wregs, NUM_INSTR_DESTINATIONS) = Lim(Id, ins.wregs, NUM_INSTR_DESTINATIONS)
  <2>1. ins.rregs \in Seq(Nat) /\ ins.wregs \in Seq(Nat)
    BY <1>5, InstrTyped
  <2> QED
    BY <1>21, <2>1, OwnPrefix
<1>25. emitted = [src_regs |-> Prefix(ins.rregs, NUM_INSTR_SOURCES),
                  dst_regs |-> Prefix(ins.wregs, NUM_INSTR_DESTINATIONS),
                  src |-> Prefix(ss, NUM_INSTR_SOURCES),
                  dst |-> Prefix(ds, NUM_INSTR_DESTINATIONS), done |-> TRUE]
  <2>1. PICK a1, a2, a3, a4 :
          /\ a1 = Prefix(ins.rregs, NUM_INSTR_SOURCES) /\ a2 = Prefix(ins.wregs, NUM_INSTR_DESTINATIONS)
          /\ a3 = Prefix(ss, NUM_INSTR_SOURCES) /\ a4 = Prefix(ds, NUM_INSTR_DESTINATIONS)
    OBVIOUS
  <2>2. PICK no, yes : no = FALSE /\ yes = TRUE
    OBVIOUS
  <2>3. PICK k : k = Made(L, S, ins.rregs, ins.wregs, R, W)
    OBVIOUS
  <2>4. k = Record(a1, a2, a3, a4, no)
    BY <1>22, <1>23, <1>24, <2>1, <2>2, <2>3, Zenon DEF Made
  <2>5. [k EXCEPT !.done = yes] = Record(a1, a2, a3, a4, yes)
    BY <2>4, Update
  <2>6. Sealed(k) = Record(a1, a2, a3, a4, TRUE)
    BY <2>2, <2>5, Zenon DEF Sealed
  <2> QED
    BY <1>13, <2>1, <2>3, <2>6, Zenon DEF Record
<1>26. overflow = (Len(ss) - Len(Prefix(ss, NUM_INSTR_SOURCES)))
                  + (Len(ds) - Len(Prefix(ds, NUM_INSTR_DESTINATIONS)))
  BY <1>13, <1>22, <1>23, Zenon DEF Lost
<1> QED
  BY <1>12, <1>13, <1>19, <1>25, <1>26, Zenon

\* RecordInv speaks of nothing else.
LEMMA RecordStutters == RecordInv /\ UNCHANGED recordVars => RecordInv'
<1> SUFFICES ASSUME RecordInv, UNCHANGED recordVars PROVE RecordInv'
  OBVIOUS
<1>1. /\ ins' = ins /\ values' = values /\ memory' = memory /\ fetched' = fetched /\ before' = before
      /\ after' = after /\ stage' = stage /\ curr_instr' = curr_instr /\ pending' = pending
      /\ overflow' = overflow /\ emitted' = emitted
  BY DEF recordVars, program
<1>2. BeforeCalls(ins)' = BeforeCalls(ins) /\ AfterCalls(ins)' = AfterCalls(ins)
  BY <1>1, SameCalls
<1>3. All(ins)' = All(ins) /\ Len(BeforeCalls(ins))' = Len(BeforeCalls(ins))
  BY <1>2 DEF All
<1>4. Mem(memory)' = Mem(memory) /\ Mem(fetched)' = Mem(fetched) /\ Blank' = Blank /\ NoSlots' = NoSlots
  BY <1>1 DEF Mem, Blank, NoSlots
<1> QED
  BY <1>1, <1>3, <1>4, Zenon DEF RecordInv

\* The record that one thread writes of an instruction says what the instruction did
\* (RecordFaithful), for every set of instructions and of addresses and every number of
\* slots.
THEOREM RecordStaysFaithful == RecordSpec => []RecordFaithful
<1>1. RecordInit => RecordInv
  BY RecordStarts
<1>2. RecordInv /\ [RecordNext]_recordVars => RecordInv'
  BY KeepsCallBefore, KeepsCallAfter, KeepsFetch, KeepsExecute, KeepsRetired, RecordStutters, Zenon
     DEF RecordNext
<1>3. RecordInv => RecordFaithful
  BY RecordTells
<1> QED
  BY <1>1, <1>2, <1>3, PTL DEF RecordSpec
=============================================================================
