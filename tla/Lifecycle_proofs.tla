-------------------------- MODULE Lifecycle_proofs --------------------------
(***************************************************************************)
(* What Lifecycle promises for any counters, any number of telemetry tasks *)
(* and any application tasks that call the API in any order and at any     *)
(* time. Nothing in the code keeps two callers apart; the theorems say     *)
(* what still holds then, and that what does not hold comes of two callers *)
(* inside the same check and of nothing else.                              *)
(***************************************************************************)
EXTENDS Lifecycle, TLAPS

-----------------------------------------------------------------------------
(* Remainders by a modulus m, for every m. *)

LEMMA ModRange ==
    ASSUME NEW x \in Int, NEW m \in Nat \ {0}
    PROVE  x % m \in 0..(m - 1)
OBVIOUS

LEMMA ModSmall ==
    ASSUME NEW m \in Nat \ {0}, NEW x \in 0..(m - 1)
    PROVE  x % m = x
OBVIOUS

LEMMA ModBelow ==
    ASSUME NEW m \in Nat \ {0}, NEW x \in Int, x < 0, -m <= x
    PROVE  x % m = x + m
OBVIOUS

LEMMA DivMod ==
    ASSUME NEW m \in Nat \ {0}, NEW x \in Nat
    PROVE  \E q \in Nat, r \in 0..(m - 1) : q = x \div m /\ r = x % m /\ x = m * q + r
<1> DEFINE q == x \div m
           r == x % m
<1>1. q \in Nat /\ r \in 0..(m - 1) /\ x = m * q + r
    OBVIOUS
<1> HIDE DEF q, r
<1>2. q = x \div m /\ r = x % m
    BY DEF q, r
<1> QED
    BY <1>1, <1>2

LEMMA ModUnique ==
    ASSUME NEW m \in Nat \ {0}, NEW q \in Nat, NEW r \in 0..(m - 1)
    PROVE  (m * q + r) % m = r
<1> DEFINE x == m * q + r
<1>1. x \in Nat
    OBVIOUS
<1>2. PICK p \in Nat, s \in 0..(m - 1) : s = x % m /\ x = m * p + s
    BY <1>1, DivMod
<1> HIDE DEF x
<1>3. m * q + r = m * p + s
    BY <1>2 DEF x
<1>4. p = q
    <2>1. CASE p >= q + 1
        <3>1. m * p >= m * (q + 1)
            BY <2>1
        <3> QED
            BY <1>3, <3>1
    <2>2. CASE q >= p + 1
        <3>1. m * q >= m * (p + 1)
            BY <2>2
        <3> QED
            BY <1>3, <3>1
    <2> QED
        BY <2>1, <2>2
<1>5. s = r
    BY <1>3, <1>4
<1> QED
    BY <1>2, <1>5 DEF x

LEMMA ModNext ==
    ASSUME NEW m \in Nat \ {0}, NEW n \in Nat, (n + 1) % m # 0
    PROVE  (n + 1) % m = (n % m) + 1
<1>1. PICK q \in Nat, r \in 0..(m - 1) : r = n % m /\ n = m * q + r
    BY DivMod
<1>2. CASE r + 1 < m
    <2>1. n + 1 = m * q + (r + 1)
        BY <1>1
    <2>2. r + 1 \in 0..(m - 1)
        BY <1>2
    <2>3. (m * q + (r + 1)) % m = r + 1
        BY <2>2, ModUnique
    <2> QED
        BY <1>1, <2>1, <2>3
<1>3. CASE r + 1 = m
    <2>1. n + 1 = m * (q + 1) + 0
        BY <1>1, <1>3
    <2>2. q + 1 \in Nat /\ 0 \in 0..(m - 1)
        BY <1>1
    <2>3. (m * (q + 1) + 0) % m = 0
        BY <2>2, ModUnique
    <2> QED
        BY <2>1, <2>3
<1> QED
    BY <1>1, <1>2, <1>3

LEMMA ProductMonotone ==
    ASSUME NEW c \in Nat, NEW a \in Nat, NEW b \in Nat, a <= b
    PROVE  c * a <= c * b
OBVIOUS

-----------------------------------------------------------------------------
(* Types. *)

LEMMA ElapsedTyped ==
    ASSUME TypeOK, NEW start \in 0..(CycleMod - 1)
    PROVE  ProfilerStop(start) \in 0..(CycleMod - 1)
<1>1. cyccnt - start \in Int
    BY LifecycleAssumption DEF TypeOK, MeasTyped
<1> QED
    BY <1>1, ModRange, LifecycleAssumption DEF ProfilerStop

LEMMA RecordTyped ==
    ASSUME NEW s \in Samples, NEW e \in 0..(CycleMod - 1)
    PROVE  WithMinMax(s, e) \in Samples /\ ProfilerRecord(s, e) \in Samples
<1>1. WithMinMax(s, e) \in Samples
    BY LifecycleAssumption DEF Samples, WithMinMax
<1> DEFINE w == WithMinMax(s, e)
<1>2. w \in Samples /\ e \in Nat
    BY <1>1, LifecycleAssumption
<1> HIDE DEF w
<1>3. w.total + e \in Nat /\ w.count + 1 \in Nat
    BY <1>2 DEF Samples
<1>4. [w EXCEPT !.total = w.total + e, !.count = w.count + 1] \in Samples
    BY <1>2, <1>3 DEF Samples
<1> QED
    BY <1>1, <1>4 DEF ProfilerRecord, w

LEMMA ZeroTyped == 0 \in 0..(CycleMod - 1) /\ 0 \in 0..(LoopMod - 1)
BY LifecycleAssumption

LEMMA NoSamplesTyped == NoSamples \in Samples
BY LifecycleAssumption DEF NoSamples, Samples

LEMMA NoTimerTyped ==
    NoTimer \in [start : 0..(CycleMod - 1), elapsed : 0..(CycleMod - 1),
                 ran : 0..(CycleMod - 1)]
BY LifecycleAssumption DEF NoTimer

LEMMA InitTyped == Init => TypeOK
<1> SUFFICES ASSUME Init
             PROVE  TypeOK
    OBVIOUS
<1>1. ApiTyped
    <2>1. 0 \in 0..MaxCreations
        BY LifecycleAssumption
    <2>2. /\ initialised \in BOOLEAN /\ handle \in Tasks \cup {NULL} /\ created \in 0..MaxCreations
          /\ doubled \subseteq {"rtostwin_init", "rtostwin_start", "rtostwin_stop"}
        BY <2>1 DEF Init
    <2>3. call \in [Callers -> {"none", "rtostwin_init", "rtostwin_start",
                               "StartTelemetryAgent", "rtostwin_stop"}]
        BY DEF Init
    <2>4. step \in [Callers -> {"idle", "init", "reset", "set", "start", "check", "create",
                               "stop", "delete", "clear"}]
        BY DEF Init
    <2> QED
        BY <2>2, <2>3, <2>4 DEF ApiTyped
<1>2. TaskTyped
    BY ZeroTyped, NoSamplesTyped, NoTimerTyped DEF Init, TaskTyped
<1>3. MeasTyped
    <2>1. 0 \in 0..MaxCycles /\ 0 \in Nat
        BY LifecycleAssumption
    <2>2. cyccnt \in 0..(CycleMod - 1) /\ cycles \in 0..MaxCycles /\ carried \in Nat
        BY <2>1, ZeroTyped DEF Init
    <2>3. stats \in Samples /\ torn \in BOOLEAN
        BY NoSamplesTyped DEF Init
    <2> QED
        BY <2>2, <2>3 DEF MeasTyped
<1> QED
    BY <1>1, <1>2, <1>3 DEF TypeOK

LEMMA CallTyped ==
    ASSUME TypeOK, NEW c \in Callers, CallApi(c)
    PROVE  TypeOK'
BY DEF TypeOK, ApiTyped, TaskTyped, MeasTyped, CallApi, StartTelemetryAgent, Enter, At, Goto,
       taskVars, measVars

LEMMA ApiStepTyped ==
    ASSUME TypeOK, NEW c \in Callers, ApiStep(c)
    PROVE  TypeOK'
<1> USE DEF TypeOK, ApiTyped, TaskTyped, MeasTyped, Goto, AfterInit, taskVars, measVars
<1>1. CASE InitCheck(c)
    BY <1>1 DEF InitCheck, Enters
<1>2. CASE InitReset(c)
    BY <1>2, NoSamplesTyped, ZeroTyped DEF ProfilerInit, InitReset
<1>3. CASE InitSet(c)
    BY <1>3 DEF InitSet
<1>4. CASE StartCheck(c)
    BY <1>4 DEF StartCheck
<1>5. CASE HandleCheck(c)
    BY <1>5 DEF HandleCheck, Enters
<1>6. CASE Create(c)
    <2>1. CASE handle' = NULL /\ UNCHANGED <<created, taskPc>>
        BY <1>6, <2>1 DEF Create
    <2>2. CASE /\ created < MaxCreations
               /\ created' = created + 1
               /\ handle' = created'
               /\ taskPc' = [taskPc EXCEPT ![created'] = "sleep"]
        <3>1. created' \in Tasks /\ created' \in 0..MaxCreations
            BY <2>2, LifecycleAssumption DEF Tasks
        <3> QED
            BY <1>6, <2>2, <3>1 DEF Create
    <2> QED
        BY <1>6, <2>1, <2>2 DEF Create
<1>7. CASE StopCheck(c)
    BY <1>7 DEF StopCheck, Enters
<1>8. CASE Stop(c)
    <2>1. CASE At(c, "delete")
        <3>1. handle \in Live /\ Delete(handle)
              /\ UNCHANGED <<initialised, handle, call, created, doubled>>
              /\ step' = [step EXCEPT ![c] = "clear"]
            BY <1>8, <2>1 DEF Stop, At
        <3>2. TaskTyped'
            BY <3>1, ZeroTyped, NoSamplesTyped, NoTimerTyped DEF Delete
        <3>3. MeasTyped'
            BY <3>1 DEF Delete, Samples
        <3> QED
            BY <3>1, <3>2, <3>3
    <2>2. CASE At(c, "clear")
        BY <1>8, <2>2 DEF Stop, At
    <2> QED
        BY <1>8, <2>1, <2>2 DEF Stop
<1> QED
    BY <1>1, <1>2, <1>3, <1>4, <1>5, <1>6, <1>7, <1>8 DEF ApiStep

LEMMA TaskStepTyped ==
    ASSUME TypeOK, NEW t \in Tasks, TaskStep(t)
    PROVE  TypeOK'
<1> USE DEF TypeOK, ApiTyped, TaskTyped, MeasTyped, TaskGoto, apiVars, measVars
<1>1. CASE WakeUp(t)
    BY <1>1, LifecycleAssumption DEF WakeUp
<1>2. CASE Captured(t)
    BY <1>2, ElapsedTyped, RecordTyped DEF Captured
<1>3. CASE Sent(t)
    BY <1>3, ElapsedTyped DEF Sent
<1>4. CASE RecordMinMax(t)
    BY <1>4, RecordTyped DEF RecordMinMax
<1>5. CASE RecordCount(t)
    BY <1>5 DEF RecordCount, Samples
<1>6. CASE RecordTotal(t)
    <2>1. NextLoop(loopCount[t]) \in 0..(LoopMod - 1)
        <3>1. loopCount[t] + 1 \in Int
            BY LifecycleAssumption
        <3> QED
            BY <3>1, ModRange, LifecycleAssumption DEF NextLoop
    <2>2. timer[t].elapsed \in Nat
        BY LifecycleAssumption
    <2> QED
        BY <1>6, <2>1, <2>2, NoTimerTyped DEF RecordTotal, Samples
<1>7. CASE Report(t)
    <2>1. [stats EXCEPT !.min = 0, !.max = 0] \in Samples
        BY ZeroTyped DEF Samples
    <2> QED
        BY <1>7, <2>1 DEF Report
<1>8. CASE ResetCount(t)
    BY <1>8 DEF ResetCount, Samples
<1>9. CASE ResetTotal(t)
    BY <1>9 DEF ResetTotal, Samples
<1> QED
    BY <1>1, <1>2, <1>3, <1>4, <1>5, <1>6, <1>7, <1>8, <1>9 DEF TaskStep

LEMMA TickTyped ==
    ASSUME TypeOK, Tick
    PROVE  TypeOK'
<1>1. cyccnt' \in 0..(CycleMod - 1)
    BY ModRange, LifecycleAssumption DEF TypeOK, MeasTyped, Tick
<1>2. timer' \in [Tasks -> [start : 0..(CycleMod - 1), elapsed : 0..(CycleMod - 1),
                            ran : 0..(CycleMod - 1)]]
    BY LifecycleAssumption DEF TypeOK, TaskTyped, Tick
<1> QED
    BY <1>1, <1>2 DEF TypeOK, ApiTyped, TaskTyped, MeasTyped, Tick, apiVars

LEMMA NextTyped == TypeOK /\ [Next]_vars => TypeOK'
<1> SUFFICES ASSUME TypeOK, [Next]_vars
             PROVE  TypeOK'
    OBVIOUS
<1>1. CASE UNCHANGED vars
    BY <1>1 DEF TypeOK, ApiTyped, TaskTyped, MeasTyped, vars, apiVars, taskVars, measVars
<1> QED
    BY <1>1, CallTyped, ApiStepTyped, TaskStepTyped, TickTyped DEF Next

(* Every variable keeps its type, for any number of callers and tasks and   *)
(* counters of any width (rtostwin.c, profiler.c, measurement.c).           *)
THEOREM TypeCorrect == Spec => []TypeOK
<1>1. Init => TypeOK
    BY InitTyped
<1>2. TypeOK /\ [Next]_vars => TypeOK'
    BY NextTyped
<1> QED
    BY <1>1, <1>2, PTL DEF Spec

-----------------------------------------------------------------------------
(* The handle: which callers may stand where, and what that says of the     *)
(* handle. The first part holds whoever calls.                              *)
Creating(c) == At(c, "create")
Stopping(c) == step[c] \in {"delete", "clear"}

HandleIfOneStart ==
    /\ Live \subseteq {handle}
    /\ \A c \in Callers : Creating(c) => handle = NULL
    /\ \A c \in Callers : At(c, "clear") => handle # NULL /\ Live = {}
    /\ \A c, d \in Callers : Creating(c) /\ Creating(d) => c = d
    /\ \A c, d \in Callers : At(c, "clear") /\ At(d, "clear") => c = d

HandleIfOneStop ==
    /\ \A c \in Callers : At(c, "delete") => handle \in Live
    /\ \A c, d \in Callers : Stopping(c) /\ Stopping(d) => c = d

HandleInv ==
    /\ IsRunning => handle \in Live \/ \E c \in Callers : At(c, "clear")
    /\ OneStart => HandleIfOneStart
    /\ OneStart /\ OneStop => HandleIfOneStop

(* The counter: but for two initialisations at once, profiler_init runs     *)
(* only while no task is alive, and the difference of two readings of a     *)
(* task is, but for a wrap, the cycles between them.                        *)
InStep(tm, now) == now = tm.start + tm.ran \/ now = tm.start + tm.ran - CycleMod

ClockIfOneInit ==
    /\ \A c \in Callers : step[c] \in {"reset", "set"} => ~initialised
    /\ \A c, d \in Callers : step[c] \in {"reset", "set"} /\ step[d] \in {"reset", "set"} => c = d

ClockExact ==
    /\ \A t \in Measuring : InStep(timer[t], cyccnt)
    /\ \A t \in Tasks : taskPc[t] \in {"minmax", "count", "total"}
                           => timer[t].elapsed = timer[t].ran

ClockInv ==
    /\ \A c \in Callers : step[c] \in {"check", "create"} => initialised
    /\ Live # {} => initialised
    /\ \A t \in Tasks : t > created => taskPc[t] = "none"
    /\ \A t \in Tasks : taskPc[t] \in {"none", "sleep", "report", "resetCount", "resetTotal"}
                           => timer[t].ran = 0
    /\ OneInit => ClockIfOneInit /\ ClockExact

(* How many samples the window holds, by where the task is in its cycle.    *)
WindowOf(t) ==
    /\ taskPc[t] = "none" => loopCount[t] = 0
    /\ taskPc[t] \in {"sleep", "capture", "send", "minmax", "count"}
          => stats.count <= carried + (loopCount[t] % ReportInterval)
    /\ taskPc[t] = "total"
          => stats.count <= carried + (loopCount[t] % ReportInterval) + 1
    /\ taskPc[t] \in {"report", "resetCount"} => stats.count <= carried + ReportInterval
    /\ taskPc[t] = "resetTotal" => stats.count = 0

WindowInv ==
    /\ Live = {} => stats.count <= carried
    /\ \A t \in Tasks : WindowOf(t)

(* MeanWithin without the division, and of no samples too: then there is no *)
(* total.                                                                   *)
Spans(n, s) == n * s.min <= s.total /\ s.total <= n * s.max

MeanOf(t) ==
    /\ taskPc[t] = "resetTotal" => stats.count = 0
    /\ taskPc[t] \in {"resetCount", "resetTotal"} => stats.min = 0 /\ stats.max = 0
    /\ ~torn =>
        /\ taskPc[t] \in {"sleep", "capture", "send", "minmax", "count", "report"}
              => Spans(stats.count, stats)
        /\ taskPc[t] \in {"count", "total"}
              => stats.min <= timer[t].elapsed /\ timer[t].elapsed <= stats.max
        /\ taskPc[t] = "total" => stats.count > 0 /\ Spans(stats.count - 1, stats)

(* Of the statistics a task keeps in a local, whatever runs beside it.      *)
SnapInv == \A t \in Tasks : Spans(snapStats[t].count, snapStats[t])

MeanInv ==
    /\ ~torn /\ Live = {} => Spans(stats.count, stats)
    /\ \A t \in Tasks : MeanOf(t)

-----------------------------------------------------------------------------
(* Which tasks are alive. *)

LEMMA TasksAreNotNull == NULL \notin Tasks
BY LifecycleAssumption DEF NULL, Tasks

LEMMA TaskStepKeeps ==
    ASSUME TypeOK, NEW t \in Tasks, TaskStep(t)
    PROVE  UNCHANGED <<apiVars, doubled>> /\ Live' = Live /\ t \in Live
BY DEF TypeOK, TaskTyped, Live, TaskStep, TaskGoto, apiVars,
       WakeUp, Captured, Sent, RecordMinMax, RecordCount, RecordTotal, Report,
       ResetCount, ResetTotal

LEMMA CreateLive ==
    ASSUME TypeOK, created < MaxCreations, created' = created + 1,
           taskPc' = [taskPc EXCEPT ![created'] = "sleep"]
    PROVE  created' \in Tasks /\ Live' = Live \cup {created'}
<1>1. created' \in Tasks
    BY LifecycleAssumption DEF TypeOK, ApiTyped, Tasks
<1> QED
    BY <1>1 DEF TypeOK, TaskTyped, Live

LEMMA DeleteLive ==
    ASSUME TypeOK, NEW t \in Live, Delete(t)
    PROVE  Live' = Live \ {t}
BY DEF TypeOK, TaskTyped, Live, Delete

-----------------------------------------------------------------------------
(* The history of double entries only grows.                                *)

LEMMA DoubledGrows ==
    ASSUME [Next]_vars
    PROVE  doubled \subseteq doubled'
<1>1. ASSUME NEW c \in Callers, CallApi(c) \/ ApiStep(c)
      PROVE  doubled \subseteq doubled'
    BY <1>1 DEF CallApi, StartTelemetryAgent, Enter, ApiStep, InitCheck, InitReset, InitSet,
                StartCheck, HandleCheck, Create, StopCheck, Stop, Enters
<1>2. ASSUME NEW t \in Tasks, TaskStep(t)
      PROVE  doubled \subseteq doubled'
    BY <1>2 DEF TaskStep, WakeUp, Captured, Sent, RecordMinMax, RecordCount, RecordTotal,
                Report, ResetCount, ResetTotal
<1>3. CASE Tick \/ UNCHANGED vars
    BY <1>3 DEF Tick, vars
<1> QED
    BY <1>1, <1>2, <1>3 DEF Next

LEMMA StillAlone ==
    ASSUME [Next]_vars
    PROVE  /\ OneInit' => OneInit
           /\ OneStart' => OneStart
           /\ OneStop' => OneStop
           /\ OneAtATime' => OneAtATime
BY DoubledGrows DEF OneInit, OneStart, OneStop, OneAtATime

-----------------------------------------------------------------------------
(* The handle: what one step of a caller may do to it.                      *)

Moves(c, from, to) ==
    /\ step[c] = from
    /\ step'[c] = to
    /\ \A d \in Callers : d # c => step'[d] = step[d]

Apart == {"create", "delete", "clear"}

MovesAside(c) ==
    /\ \E from, to : from \notin Apart /\ to \notin Apart /\ Moves(c, from, to)
    /\ handle' = handle /\ Live' = Live

FindsNone(c) ==
    /\ Moves(c, "check", "create")
    /\ handle = NULL
    /\ handle' = handle /\ Live' = Live
    /\ OneStart' => \A d \in Callers : d # c => ~At(d, "create")

Creates(c) ==
    /\ Moves(c, "create", "idle")
    /\ \/ handle' \in Tasks /\ Live' = Live \cup {handle'}
       \/ handle' = NULL /\ Live' = Live

FindsOne(c) ==
    /\ Moves(c, "stop", "delete")
    /\ handle # NULL
    /\ handle' = handle /\ Live' = Live
    /\ OneStop' => \A d \in Callers : d # c => step[d] \notin {"delete", "clear"}

Deletes(c) ==
    /\ Moves(c, "delete", "clear")
    /\ handle \in Live
    /\ handle' = handle /\ Live' = Live \ {handle}

Clears(c) ==
    /\ Moves(c, "clear", "idle")
    /\ handle' = NULL /\ Live' = Live

LEMMA CallMoves ==
    ASSUME TypeOK, NEW c \in Callers, CallApi(c)
    PROVE  MovesAside(c)
<1>1. handle' = handle /\ Live' = Live
    BY DEF CallApi, StartTelemetryAgent, Enter, taskVars, Live
<1>2. \E to \in {"init", "start", "stop"} : Moves(c, "idle", to)
    BY DEF TypeOK, ApiTyped, CallApi, StartTelemetryAgent, Enter, Goto, At, Moves
<1> QED
    BY <1>1, <1>2 DEF MovesAside, Apart

LEMMA ApiStepMoves ==
    ASSUME TypeOK, NEW c \in Callers, ApiStep(c)
    PROVE  \/ MovesAside(c)
           \/ FindsNone(c) \/ Creates(c)
           \/ FindsOne(c) \/ Deletes(c) \/ Clears(c)
<1> USE DEF TypeOK, ApiTyped, At, Goto, Moves
<1>1. CASE InitCheck(c) \/ InitReset(c) \/ InitSet(c) \/ StartCheck(c)
    <2>1. handle' = handle /\ Live' = Live
        BY <1>1 DEF InitCheck, ProfilerInit, InitReset, InitSet, StartCheck, taskVars, Live
    <2>2. \E from \in {"init", "reset", "set", "start"},
             to \in {"idle", "init", "reset", "set", "start", "check"} : Moves(c, from, to)
        BY <1>1 DEF InitCheck, ProfilerInit, InitReset, InitSet, StartCheck, AfterInit
    <2> QED
        BY <2>1, <2>2 DEF MovesAside, Apart
<1>2. CASE HandleCheck(c)
    <2>1. handle' = handle /\ Live' = Live
        BY <1>2 DEF HandleCheck, taskVars, Live
    <2>2. CASE handle = NULL
        <3>1. Moves(c, "check", "create")
            BY <1>2, <2>2 DEF HandleCheck
        <3>2. OneStart' => \A d \in Callers : d # c => ~At(d, "create")
            BY <1>2, <2>2 DEF HandleCheck, Enters, OneStart
        <3> QED
            BY <2>1, <2>2, <3>1, <3>2 DEF FindsNone
    <2>3. CASE handle # NULL
        <3>1. Moves(c, "check", "idle")
            BY <1>2, <2>3 DEF HandleCheck
        <3> QED
            BY <2>1, <3>1 DEF MovesAside, Apart
    <2> QED
        BY <2>2, <2>3
<1>3. CASE Create(c)
    <2>1. Moves(c, "create", "idle")
        BY <1>3 DEF Create
    <2>2. CASE handle' = NULL /\ UNCHANGED <<created, taskPc>>
        BY <2>1, <2>2 DEF Creates, Live
    <2>3. CASE /\ created < MaxCreations
               /\ created' = created + 1
               /\ handle' = created'
               /\ taskPc' = [taskPc EXCEPT ![created'] = "sleep"]
        BY <2>1, <2>3, CreateLive DEF Creates
    <2> QED
        BY <1>3, <2>2, <2>3 DEF Create
<1>4. CASE StopCheck(c)
    <2>1. handle' = handle /\ Live' = Live
        BY <1>4 DEF StopCheck, taskVars, Live
    <2>2. CASE handle # NULL
        <3>1. Moves(c, "stop", "delete")
            BY <1>4, <2>2 DEF StopCheck
        <3>2. OneStop' => \A d \in Callers : d # c => step[d] \notin {"delete", "clear"}
            BY <1>4, <2>2 DEF StopCheck, Enters, OneStop
        <3> QED
            BY <2>1, <2>2, <3>1, <3>2 DEF FindsOne
    <2>3. CASE handle = NULL
        <3>1. Moves(c, "stop", "idle")
            BY <1>4, <2>3 DEF StopCheck
        <3> QED
            BY <2>1, <3>1 DEF MovesAside, Apart
    <2> QED
        BY <2>2, <2>3
<1>5. CASE Stop(c)
    <2>1. CASE At(c, "delete")
        <3>1. Moves(c, "delete", "clear") /\ handle' = handle /\ handle \in Live /\ Delete(handle)
            BY <1>5, <2>1 DEF Stop
        <3> QED
            BY <3>1, DeleteLive DEF Deletes
    <2>2. CASE At(c, "clear")
        <3>1. Moves(c, "clear", "idle") /\ handle' = NULL /\ Live' = Live
            BY <1>5, <2>2 DEF Stop, taskVars, Live
        <3> QED
            BY <3>1 DEF Clears
    <2> QED
        BY <1>5, <2>1, <2>2 DEF Stop
<1> QED
    BY <1>1, <1>2, <1>3, <1>4, <1>5 DEF ApiStep

LEMMA InitHandle == Init => HandleInv
BY DEF Init, HandleInv, HandleIfOneStart, HandleIfOneStop, IsRunning, Live, At, Creating, Stopping

(* Whoever calls: a handle is of a live task, or about to be cleared.       *)
LEMMA StepNames ==
    ASSUME HandleInv, NEW c \in Callers,
           \/ MovesAside(c) \/ FindsNone(c) \/ Creates(c)
           \/ FindsOne(c) \/ Deletes(c) \/ Clears(c)
    PROVE  (IsRunning => handle \in Live \/ \E d \in Callers : At(d, "clear"))'
<1> USE DEF HandleInv, IsRunning, At, Moves
<1>1. CASE MovesAside(c) \/ FindsNone(c) \/ FindsOne(c)
    <2>1. /\ handle' = handle /\ Live' = Live
          /\ \A d \in Callers : step[d] = "clear" => step'[d] = "clear"
        BY <1>1 DEF MovesAside, FindsNone, FindsOne, Apart
    <2> QED
        BY <2>1
<1>2. CASE Creates(c)
    BY <1>2 DEF Creates
<1>3. CASE Deletes(c)
    BY <1>3 DEF Deletes
<1>4. CASE Clears(c)
    BY <1>4 DEF Clears
<1> QED
    BY <1>1, <1>2, <1>3, <1>4

(* No two callers that both found no handle: the handle names every task.   *)
LEMMA StepIfOneStart ==
    ASSUME HandleIfOneStart, OneStart', NEW c \in Callers,
           \/ MovesAside(c) \/ FindsNone(c) \/ Creates(c)
           \/ FindsOne(c) \/ Deletes(c) \/ Clears(c)
    PROVE  HandleIfOneStart'
<1> USE DEF HandleIfOneStart, Creating, At, Moves
<1>1. CASE MovesAside(c) \/ FindsOne(c)
    <2>1. /\ handle' = handle /\ Live' = Live
          /\ \A d \in Callers : step'[d] \in {"create", "clear"} => step[d] = step'[d]
        BY <1>1 DEF MovesAside, FindsOne, Apart
    <2> QED
        BY <2>1
<1>2. CASE FindsNone(c)
    BY <1>2 DEF FindsNone
<1>3. CASE Creates(c)
    <2>1. handle = NULL /\ Live = {}
        BY <1>3, TasksAreNotNull DEF Creates, Live
    <2>2. \A d \in Callers : step'[d] \notin {"create", "clear"}
        BY <1>3, <2>1 DEF Creates
    <2> QED
        BY <1>3, <2>1, <2>2 DEF Creates
<1>4. CASE Deletes(c)
    <2>1. handle # NULL /\ Live' = {} /\ handle' = handle
        BY <1>4, TasksAreNotNull DEF Deletes, Live
    <2>2. \A d \in Callers : step'[d] # "create" /\ (step'[d] = "clear" => d = c)
        BY <1>4, <2>1 DEF Deletes
    <2> QED
        BY <2>1, <2>2
<1>5. CASE Clears(c)
    BY <1>5 DEF Clears
<1> QED
    BY <1>1, <1>2, <1>3, <1>4, <1>5

(* Nor two that both found one: it is deleted once.                         *)
LEMMA StepIfOneStop ==
    ASSUME HandleInv, HandleIfOneStart, HandleIfOneStop, OneStop', NEW c \in Callers,
           \/ MovesAside(c) \/ FindsNone(c) \/ Creates(c)
           \/ FindsOne(c) \/ Deletes(c) \/ Clears(c)
    PROVE  HandleIfOneStop'
<1> USE DEF HandleIfOneStop, Stopping, At, Moves
<1>1. CASE MovesAside(c) \/ FindsNone(c)
    <2>1. /\ handle' = handle /\ Live' = Live
          /\ \A d \in Callers : step'[d] \in {"delete", "clear"} => step[d] = step'[d]
        BY <1>1 DEF MovesAside, FindsNone, Apart
    <2> QED
        BY <2>1
<1>2. CASE Creates(c)
    <2>1. handle = NULL /\ Live = {}
        BY <1>2, TasksAreNotNull DEF HandleIfOneStart, Creating, Creates, Live
    <2>2. \A d \in Callers : step[d] \notin {"delete", "clear"}
        BY <2>1 DEF HandleIfOneStart
    <2>3. \A d \in Callers : step'[d] \notin {"delete", "clear"}
        BY <1>2, <2>2 DEF Creates
    <2> QED
        BY <2>3
<1>3. CASE FindsOne(c)
    <2>1. \A d \in Callers : d # c => step[d] \notin {"delete", "clear"}
        BY <1>3 DEF FindsOne
    <2>2. handle \in Live
        BY <1>3, <2>1 DEF FindsOne, HandleInv, IsRunning
    <2> QED
        BY <1>3, <2>1, <2>2 DEF FindsOne
<1>4. CASE Deletes(c) \/ Clears(c)
    <2>1. \A d \in Callers : d # c => step[d] \notin {"delete", "clear"}
        BY <1>4 DEF Deletes, Clears
    <2>2. \A d \in Callers : step'[d] # "delete" /\ (step'[d] = "clear" => d = c)
        BY <1>4, <2>1 DEF Deletes, Clears
    <2> QED
        BY <2>2
<1> QED
    BY <1>1, <1>2, <1>3, <1>4

LEMMA NextHandle == TypeOK /\ HandleInv /\ [Next]_vars => HandleInv'
<1> SUFFICES ASSUME TypeOK, HandleInv, [Next]_vars
             PROVE  HandleInv'
    OBVIOUS
<1>1. ASSUME UNCHANGED <<apiVars, doubled>>, Live' = Live
      PROVE  HandleInv'
    BY <1>1 DEF HandleInv, HandleIfOneStart, HandleIfOneStop, IsRunning, At, Creating, Stopping,
                OneStart, OneStop, apiVars
<1>2. ASSUME NEW t \in Tasks, TaskStep(t)
      PROVE  HandleInv'
    BY <1>1, <1>2, TaskStepKeeps
<1>3. CASE Tick
    BY <1>1, <1>3 DEF Tick, Live
<1>4. CASE UNCHANGED vars
    BY <1>1, <1>4 DEF vars, taskVars, Live
<1>5. ASSUME NEW c \in Callers, CallApi(c) \/ ApiStep(c)
      PROVE  HandleInv'
    <2>1. \/ MovesAside(c) \/ FindsNone(c) \/ Creates(c)
          \/ FindsOne(c) \/ Deletes(c) \/ Clears(c)
        BY <1>5, CallMoves, ApiStepMoves
    <2>2. OneStart' => HandleIfOneStart'
        BY <2>1, StillAlone, StepIfOneStart DEF HandleInv
    <2>3. OneStart' /\ OneStop' => HandleIfOneStop'
        BY <2>1, StillAlone, StepIfOneStop DEF HandleInv
    <2> QED
        BY <2>1, <2>2, <2>3, StepNames DEF HandleInv
<1> QED
    BY <1>2, <1>3, <1>4, <1>5 DEF Next

(* Whichever tasks call the API, and whenever: a handle names a live task   *)
(* or is about to be cleared, and every live task is the one it names,      *)
(* unless two callers of rtostwin_start have both found no handle before    *)
(* either had created its task (rtostwin.c:146-177).                        *)
THEOREM HandleAgrees == Spec => []HandleNamesTask
<1>1. Init => TypeOK /\ HandleInv
    BY InitTyped, InitHandle
<1>2. TypeOK /\ HandleInv /\ [Next]_vars => TypeOK' /\ HandleInv'
    BY NextTyped, NextHandle
<1>3. HandleInv => HandleNamesTask
    BY DEF HandleInv, HandleIfOneStart, HandleNamesTask
<1> QED
    BY <1>1, <1>2, <1>3, PTL DEF Spec

(* And vTaskDelete is only called with a task that is alive, whoever starts *)
(* and stops, unless two callers have been in the same of the two functions *)
(* past its check (rtostwin.c:166-171).                                     *)
THEOREM DeleteIsSafe == Spec => []DeletesLiveTask
<1>1. Init => TypeOK /\ HandleInv
    BY InitTyped, InitHandle
<1>2. TypeOK /\ HandleInv /\ [Next]_vars => TypeOK' /\ HandleInv'
    BY NextTyped, NextHandle
<1>3. HandleInv => DeletesLiveTask
    BY DEF HandleInv, HandleIfOneStop, DeletesLiveTask
<1> QED
    BY <1>1, <1>2, <1>3, PTL DEF Spec

-----------------------------------------------------------------------------
(* The counter. *)

Timers == [start : 0..(CycleMod - 1), elapsed : 0..(CycleMod - 1), ran : 0..(CycleMod - 1)]

LEMMA StopIsExact ==
    ASSUME TypeOK, NEW tm \in Timers, InStep(tm, cyccnt)
    PROVE  ProfilerStop(tm.start) = tm.ran
<1>1. /\ CycleMod \in Nat \ {0}
      /\ cyccnt \in 0..(CycleMod - 1)
      /\ tm.start \in 0..(CycleMod - 1)
      /\ tm.ran \in 0..(CycleMod - 1)
    BY LifecycleAssumption DEF TypeOK, MeasTyped, Timers
<1> DEFINE d == cyccnt - tm.start
<1>2. CASE cyccnt = tm.start + tm.ran
    <2>1. d = tm.ran
        BY <1>1, <1>2
    <2>2. tm.ran % CycleMod = tm.ran
        BY <1>1, ModSmall
    <2> QED
        BY <2>1, <2>2 DEF ProfilerStop
<1>3. CASE cyccnt = tm.start + tm.ran - CycleMod
    <2>1. d \in Int /\ d < 0 /\ -CycleMod <= d /\ d + CycleMod = tm.ran
        BY <1>1, <1>3
    <2> HIDE DEF d
    <2>2. d % CycleMod = d + CycleMod
        BY <1>1, <2>1, ModBelow
    <2> QED
        BY <2>1, <2>2 DEF ProfilerStop, d
<1> QED
    BY <1>2, <1>3 DEF InStep

LEMMA TickInStep ==
    ASSUME TypeOK, NEW tm \in Timers, InStep(tm, cyccnt), tm.ran < CycleMod - 1
    PROVE  InStep([tm EXCEPT !.ran = @ + 1], (cyccnt + 1) % CycleMod)
<1>1. /\ CycleMod \in Nat \ {0}
      /\ cyccnt \in 0..(CycleMod - 1)
      /\ tm.start \in 0..(CycleMod - 1)
      /\ tm.ran \in 0..(CycleMod - 1)
    BY LifecycleAssumption DEF TypeOK, MeasTyped, Timers
<1>2. /\ [tm EXCEPT !.ran = @ + 1].start = tm.start
      /\ [tm EXCEPT !.ran = @ + 1].ran = tm.ran + 1
    BY DEF Timers
<1>3. CASE cyccnt + 1 < CycleMod
    <2>1. cyccnt + 1 \in 0..(CycleMod - 1)
        BY <1>1, <1>3
    <2>2. (cyccnt + 1) % CycleMod = cyccnt + 1
        BY <1>1, <2>1, ModSmall
    <2> QED
        BY <1>1, <1>2, <2>2 DEF InStep
<1>4. CASE cyccnt + 1 = CycleMod
    <2>1. (cyccnt + 1) % CycleMod = 0
        BY <1>1, <1>4
    <2>2. cyccnt = tm.start + tm.ran
        BY <1>1, <1>4 DEF InStep
    <2> QED
        BY <1>1, <1>2, <1>4, <2>1, <2>2 DEF InStep
<1> QED
    BY <1>1, <1>3, <1>4

LEMMA OneLive ==
    ASSUME HandleInv, OneStart, NEW t \in Live, NEW u \in Live
    PROVE  t = u
BY DEF HandleInv, HandleIfOneStart

LEMMA MeasuringLive == Measuring \subseteq Live /\ Live \subseteq Tasks
BY DEF Measuring, Live

LEMMA InitClock == Init => ClockInv
<1> SUFFICES ASSUME Init
             PROVE  ClockInv
    OBVIOUS
<1>1. Live = {} /\ \A t \in Tasks : taskPc[t] = "none" /\ timer[t].ran = 0
    BY DEF Init, Live, NoTimer
<1>2. Measuring = {}
    BY <1>1 DEF Measuring
<1>3. \A c \in Callers : step[c] = "idle"
    BY DEF Init
<1> QED
    BY <1>1, <1>2, <1>3 DEF ClockInv, ClockIfOneInit, ClockExact

LEMMA CallClock ==
    ASSUME TypeOK, ClockInv, NEW c \in Callers, CallApi(c)
    PROVE  ClockInv'
<1>1. UNCHANGED <<initialised, created, doubled, taskPc, timer, cyccnt>>
    BY DEF CallApi, StartTelemetryAgent, Enter, taskVars, measVars
<1>2. \A d \in Callers : step'[d] = step[d] \/ step'[d] \in {"init", "start", "stop"}
    BY DEF TypeOK, ApiTyped, CallApi, StartTelemetryAgent, Enter, Goto
<1>3. Live' = Live /\ Measuring' = Measuring
    BY <1>1 DEF Live, Measuring
<1> QED
    BY <1>1, <1>2, <1>3 DEF ClockInv, ClockIfOneInit, ClockExact, OneInit

(* What a step of the API does to the tasks and to what it guards.          *)
LEMMA ApiStepTasks ==
    ASSUME TypeOK, ClockInv, NEW c \in Callers, ApiStep(c)
    PROVE  /\ \A t \in Tasks : \/ taskPc'[t] = taskPc[t] /\ timer'[t] = timer[t]
                               \/ taskPc'[t] \in {"none", "sleep"} /\ timer'[t].ran = 0
           /\ \A t \in Tasks : t > created' => taskPc'[t] = "none"
           /\ Live' # {} => initialised'
           /\ initialised => initialised'
<1> USE DEF TypeOK, TaskTyped, Live
<1>1. CASE InitCheck(c) \/ InitReset(c) \/ StartCheck(c) \/ HandleCheck(c) \/ StopCheck(c)
    <2>1. UNCHANGED <<initialised, created, taskPc, timer>>
        BY <1>1 DEF InitCheck, InitReset, StartCheck, HandleCheck, StopCheck, taskVars
    <2> QED
        BY <2>1 DEF ClockInv
<1>2. CASE InitSet(c)
    BY <1>2 DEF InitSet, ClockInv, taskVars
<1>3. CASE Create(c)
    <2>1. UNCHANGED <<initialised, timer>> /\ initialised
        BY <1>3 DEF Create, ClockInv, At
    <2>2. CASE UNCHANGED <<created, taskPc>>
        BY <2>1, <2>2 DEF ClockInv
    <2>3. CASE /\ created < MaxCreations
               /\ created' = created + 1
               /\ taskPc' = [taskPc EXCEPT ![created'] = "sleep"]
        <3>1. created \in Nat /\ created' \in Tasks
            BY <2>3, LifecycleAssumption DEF ApiTyped, Tasks
        <3>2. taskPc[created'] = "none" /\ timer[created'].ran = 0
            BY <2>3, <3>1 DEF ClockInv
        <3>3. \A t \in Tasks : t # created' => taskPc'[t] = taskPc[t]
            BY <2>3
        <3>4. \A t \in Tasks : t > created' => t > created /\ t # created'
            BY <2>3, <3>1, LifecycleAssumption DEF Tasks
        <3>5. taskPc'[created'] = "sleep"
            BY <2>3, <3>1
        <3>6. \A t \in Tasks : t > created' => taskPc'[t] = "none"
            BY <3>3, <3>4 DEF ClockInv
        <3> QED
            BY <2>1, <3>2, <3>3, <3>5, <3>6
    <2> QED
        BY <1>3, <2>2, <2>3 DEF Create
<1>4. CASE Stop(c)
    <2>1. CASE At(c, "clear")
        BY <1>4, <2>1 DEF Stop, At, ClockInv, taskVars
    <2>2. CASE At(c, "delete")
        <3>1. UNCHANGED <<initialised, created>> /\ handle \in Live /\ Delete(handle)
            BY <1>4, <2>2 DEF Stop, At
        <3>2. initialised
            BY <3>1 DEF ClockInv
        <3>3. \A t \in Tasks : t # handle => taskPc'[t] = taskPc[t] /\ timer'[t] = timer[t]
            BY <3>1 DEF Delete
        <3>4. taskPc'[handle] = "none" /\ timer'[handle] = NoTimer
            BY <3>1 DEF Delete
        <3>5. \A t \in Tasks : t > created' => taskPc'[t] = "none"
            BY <3>1, <3>3, <3>4 DEF ClockInv
        <3> QED
            BY <3>1, <3>2, <3>3, <3>4, <3>5 DEF NoTimer
    <2> QED
        BY <1>4, <2>1, <2>2 DEF Stop
<1> QED
    BY <1>1, <1>2, <1>3, <1>4 DEF ApiStep

LEMMA ApiStepInit ==
    ASSUME TypeOK, ClockInv, NEW c \in Callers, ApiStep(c)
    PROVE  /\ \A d \in Callers : step'[d] \in {"check", "create"} => initialised'
           /\ OneInit /\ OneInit' => ClockIfOneInit'
<1> USE DEF TypeOK, ApiTyped, Goto, At, AfterInit, ClockInv, ClockIfOneInit
<1>0. \A d \in Callers : d # c => step'[d] = step[d]
    BY DEF ApiStep, InitCheck, InitReset, InitSet, StartCheck, HandleCheck, Create, StopCheck, Stop
<1>1. CASE InitCheck(c)
    <2>1. initialised' = initialised
        BY <1>1 DEF InitCheck
    <2>2. CASE initialised
        <3>1. step'[c] \in {"idle", "check", "start"}
            BY <1>1, <2>2 DEF InitCheck
        <3> QED
            BY <1>0, <2>1, <2>2, <3>1
    <2>3. CASE ~initialised
        <3>1. step'[c] = "reset"
            BY <1>1, <2>3 DEF InitCheck
        <3>2. OneInit' => \A d \in Callers : d # c => step[d] \notin {"reset", "set"}
            BY <1>1, <2>3 DEF InitCheck, Enters, OneInit
        <3> QED
            BY <1>0, <2>1, <2>3, <3>1, <3>2
    <2> QED
        BY <2>2, <2>3
<1>2. CASE InitReset(c)
    <2>1. initialised' = initialised /\ step[c] = "reset" /\ step'[c] = "set"
        BY <1>2 DEF InitReset
    <2> QED
        BY <1>0, <2>1
<1>3. CASE InitSet(c)
    <2>1. initialised' /\ step[c] = "set" /\ step'[c] \in {"idle", "check", "start"}
        BY <1>3 DEF InitSet
    <2>2. OneInit => \A d \in Callers : step'[d] \notin {"reset", "set"}
        BY <1>0, <2>1
    <2> QED
        BY <2>1, <2>2
<1>4. CASE StartCheck(c) \/ HandleCheck(c) \/ Create(c) \/ StopCheck(c) \/ Stop(c)
    <2>1. initialised' = initialised
        BY <1>4 DEF StartCheck, HandleCheck, Create, StopCheck, Stop
    <2>2. \/ step'[c] \in {"idle", "init", "delete", "clear"}
          \/ step'[c] = "check" /\ initialised
          \/ step'[c] = "create" /\ step[c] = "check"
        BY <1>4 DEF StartCheck, HandleCheck, Create, StopCheck, Stop
    <2> QED
        BY <1>0, <2>1, <2>2
<1> QED
    BY <1>1, <1>2, <1>3, <1>4 DEF ApiStep

LEMMA NothingLive ==
    ASSUME ClockInv, OneInit, NEW c \in Callers, At(c, "reset")
    PROVE  Live = {}
BY DEF ClockInv, ClockIfOneInit, At

LEMMA ApiStepClock ==
    ASSUME TypeOK, ClockInv, NEW c \in Callers, ApiStep(c)
    PROVE  ClockInv'
<1>1. [Next]_vars
    BY DEF Next
<1>2. \A t \in Tasks : taskPc'[t] \in {"none", "sleep", "report", "resetCount", "resetTotal"}
                          => timer'[t].ran = 0
    BY ApiStepTasks DEF ClockInv
<1>3. ASSUME OneInit'
      PROVE  ClockExact'
    <2>1. OneInit /\ ClockExact
        BY <1>1, <1>3, StillAlone DEF ClockInv
    <2>2. \A t \in Tasks : taskPc'[t] \notin {"none", "sleep"}
                              => taskPc'[t] = taskPc[t] /\ timer'[t] = timer[t]
        BY ApiStepTasks
    <2>3. CASE InitReset(c)
        <3>1. Live = {} /\ taskPc' = taskPc
            BY <2>1, <2>3, NothingLive DEF InitReset, taskVars
        <3>2. Measuring' = {} /\ \A t \in Tasks : taskPc'[t] = "none"
            BY <3>1 DEF Live, Measuring
        <3> QED
            BY <3>2 DEF ClockExact
    <2>4. CASE ~InitReset(c)
        <3>1. cyccnt' = cyccnt
            BY <2>4 DEF ApiStep, InitCheck, InitSet, StartCheck, HandleCheck, Create, StopCheck,
                        Stop, Delete, measVars
        <3>2. \A t \in Measuring' : t \in Measuring /\ timer'[t] = timer[t]
            BY <2>2 DEF Measuring
        <3> QED
            BY <2>1, <2>2, <3>1, <3>2 DEF ClockExact
    <2> QED
        BY <2>3, <2>4
<1>4. OneInit' => ClockIfOneInit'
    BY <1>1, StillAlone, ApiStepInit
<1> QED
    BY <1>2, <1>3, <1>4, ApiStepTasks, ApiStepInit DEF ClockInv

LEMMA OthersKept ==
    ASSUME TypeOK, NEW t \in Tasks, TaskStep(t), NEW u \in Tasks, u # t
    PROVE  /\ taskPc'[u] = taskPc[u] /\ timer'[u] = timer[u]
           /\ loopCount'[u] = loopCount[u] /\ snapStats'[u] = snapStats[u]
BY DEF TypeOK, TaskTyped, TaskStep, TaskGoto, WakeUp, Captured, Sent, RecordMinMax,
       RecordCount, RecordTotal, Report, ResetCount, ResetTotal

LEMMA OtherTasks ==
    ASSUME TypeOK, HandleInv, OneStart, NEW t \in Tasks, TaskStep(t), NEW u \in Tasks, u # t
    PROVE  /\ taskPc[u] = "none" /\ taskPc'[u] = "none"
           /\ timer'[u] = timer[u] /\ loopCount'[u] = loopCount[u] /\ snapStats'[u] = snapStats[u]
<1>1. t \in Live /\ u \notin Live
    BY TaskStepKeeps, OneLive
<1> QED
    BY <1>1, OthersKept DEF Live

(* Of the task that takes the step, what ClockInv says of every task.       *)
ClockOf(t) ==
    /\ taskPc[t] \in {"none", "sleep", "report", "resetCount", "resetTotal"} => timer[t].ran = 0
    /\ taskPc[t] \in {"capture", "send"} => InStep(timer[t], cyccnt)
    /\ taskPc[t] \in {"minmax", "count", "total"} => timer[t].elapsed = timer[t].ran

LEMMA FreshInStep ==
    ASSUME NEW now \in Int, NEW tm, tm.start = now, tm.ran = 0
    PROVE  InStep(tm, now)
BY DEF InStep

LEMMA TaskStepRan ==
    ASSUME TypeOK, ClockInv, NEW t \in Tasks, TaskStep(t),
           taskPc'[t] \in {"none", "sleep", "report", "resetCount", "resetTotal"}
    PROVE  timer'[t].ran = 0
<1> USE DEF TypeOK, TaskTyped, TaskGoto
<1>1. CASE RecordTotal(t)
    BY <1>1 DEF RecordTotal, NoTimer
<1>2. CASE Report(t) \/ ResetCount(t) \/ ResetTotal(t)
    BY <1>2 DEF Report, ResetCount, ResetTotal, ClockInv
<1>3. CASE \/ WakeUp(t) \/ Captured(t) \/ Sent(t)
           \/ RecordMinMax(t) \/ RecordCount(t)
    BY <1>3 DEF WakeUp, Captured, Sent, RecordMinMax, RecordCount
<1> QED
    BY <1>1, <1>2, <1>3 DEF TaskStep

LEMMA TaskStepClockOf ==
    ASSUME TypeOK, OneInit, ClockInv, NEW t \in Tasks, TaskStep(t)
    PROVE  ClockOf(t)'
<1>0. /\ ClockOf(t)
      /\ timer[t] \in Timers
    BY DEF ClockInv, ClockExact, ClockOf, Measuring, TypeOK, TaskTyped, Timers
<1> USE DEF TypeOK, TaskTyped, TaskGoto
<1>1. CASE WakeUp(t)
    <2>1. timer'[t] = [timer[t] EXCEPT !.start = cyccnt'] /\ timer[t].ran = 0
        BY <1>0, <1>1 DEF WakeUp, ClockOf
    <2>2. cyccnt' \in 0..(CycleMod - 1)
        BY <1>1 DEF WakeUp, MeasTyped
    <2>3. timer'[t].start = cyccnt' /\ timer'[t].ran = 0
        BY <1>0, <2>1 DEF Timers
    <2>4. cyccnt' \in Int
        BY <2>2, LifecycleAssumption
    <2>5. InStep(timer'[t], cyccnt')
        BY <2>3, <2>4, FreshInStep
    <2> QED
        BY <1>1, <2>5 DEF WakeUp, ClockOf
<1>2. CASE Captured(t)
    BY <1>0, <1>2 DEF Captured, ClockOf, InStep, measVars
<1>3. CASE Sent(t)
    <2>1. timer[t].ran = ProfilerStop(timer[t].start)
        BY <1>0, <1>3, StopIsExact DEF Sent, ClockOf
    <2>2. timer'[t].elapsed = timer'[t].ran
        BY <1>0, <1>3, <2>1 DEF Sent, Timers
    <2> QED
        BY <1>3, <2>2 DEF Sent, ClockOf
<1>4. CASE RecordMinMax(t) \/ RecordCount(t)
    BY <1>0, <1>4 DEF RecordMinMax, RecordCount, ClockOf
<1>5. CASE RecordTotal(t)
    <2>1. timer'[t].ran = 0 /\ taskPc'[t] \in {"sleep", "report"}
        BY <1>5 DEF RecordTotal, NoTimer
    <2> QED
        BY <2>1 DEF ClockOf
<1>6. CASE Report(t) \/ ResetCount(t) \/ ResetTotal(t)
    BY <1>0, <1>6 DEF Report, ResetCount, ResetTotal, ClockOf
<1> QED
    BY <1>1, <1>2, <1>3, <1>4, <1>5, <1>6 DEF TaskStep

LEMMA TaskStepClock ==
    ASSUME TypeOK, ClockInv, NEW t \in Tasks, TaskStep(t)
    PROVE  ClockInv'
<1>1. UNCHANGED <<initialised, step, created, doubled>> /\ Live' = Live /\ t \in Live
    BY TaskStepKeeps DEF apiVars
<1>2. ASSUME OneInit'
      PROVE  ClockExact'
    <2>1. OneInit /\ ClockExact
        BY <1>1, <1>2 DEF OneInit, ClockInv
    <2>2. ClockOf(t)'
        BY <2>1, TaskStepClockOf
    <2>3. Measuring = {} \/ cyccnt' = cyccnt
        BY DEF TaskStep, WakeUp, Captured, Sent, RecordMinMax, RecordCount, RecordTotal,
               Report, ResetCount, ResetTotal, measVars
    <2>4. ASSUME NEW u \in Measuring', u # t
          PROVE  InStep(timer[u], cyccnt)'
        <3>1. u \in Tasks /\ u \in Measuring /\ timer'[u] = timer[u]
            BY <2>4, OthersKept DEF Measuring
        <3> QED
            BY <2>1, <2>3, <3>1 DEF ClockExact
    <2>5. t \in Measuring' => InStep(timer[t], cyccnt)'
        BY <2>2 DEF ClockOf, Measuring
    <2>6. \A u \in Tasks : taskPc'[u] \in {"minmax", "count", "total"}
                              => timer'[u].elapsed = timer'[u].ran
        BY <2>1, <2>2, OthersKept DEF ClockExact, ClockOf
    <2> QED
        BY <2>4, <2>5, <2>6 DEF ClockExact
<1>3. \A u \in Tasks : taskPc'[u] \in {"none", "sleep", "report", "resetCount", "resetTotal"}
                          => timer'[u].ran = 0
    BY TaskStepRan, OthersKept DEF ClockInv
<1>4. \A u \in Tasks : u > created => taskPc'[u] = "none"
    BY <1>1, OthersKept DEF ClockInv, Live
<1>5. OneInit' => ClockIfOneInit'
    BY <1>1 DEF ClockInv, ClockIfOneInit, OneInit
<1> QED
    BY <1>1, <1>2, <1>3, <1>4, <1>5 DEF ClockInv

LEMMA TickClock ==
    ASSUME TypeOK, ClockInv, Tick
    PROVE  ClockInv'
<1>1. UNCHANGED <<initialised, step, created, doubled, taskPc>>
      /\ Live' = Live /\ Measuring' = Measuring
    BY DEF Tick, apiVars, Live, Measuring
<1>2. ASSUME OneInit, NEW t \in Measuring
      PROVE  InStep(timer'[t], cyccnt')
    <2>1. timer[t] \in Timers /\ InStep(timer[t], cyccnt) /\ timer[t].ran < CycleMod - 1
        BY <1>2 DEF ClockInv, ClockExact, Tick, TypeOK, TaskTyped, Timers, Measuring
    <2>2. timer'[t] = [timer[t] EXCEPT !.ran = @ + 1] /\ cyccnt' = (cyccnt + 1) % CycleMod
        BY DEF Tick, Measuring
    <2> QED
        BY <2>1, <2>2, TickInStep
<1>3. \A t \in Tasks \ Measuring : timer'[t] = timer[t]
    BY DEF Tick
<1>4. OneInit' => ClockExact'
    BY <1>1, <1>2, <1>3 DEF ClockInv, ClockExact, OneInit, Measuring
<1>5. OneInit' => ClockIfOneInit'
    BY <1>1 DEF ClockInv, ClockIfOneInit, OneInit
<1>6. \A t \in Tasks : taskPc'[t] \in {"none", "sleep", "report", "resetCount", "resetTotal"}
                          => timer'[t].ran = 0
    BY <1>1, <1>3 DEF ClockInv, Measuring
<1> QED
    BY <1>1, <1>4, <1>5, <1>6 DEF ClockInv

LEMMA NextClock == TypeOK /\ ClockInv /\ [Next]_vars => ClockInv'
<1> SUFFICES ASSUME TypeOK, ClockInv, [Next]_vars
             PROVE  ClockInv'
    OBVIOUS
<1>1. CASE UNCHANGED vars
    <2>1. UNCHANGED <<initialised, step, created, doubled, taskPc, timer, cyccnt>>
          /\ Live' = Live /\ Measuring' = Measuring
        BY <1>1 DEF vars, apiVars, taskVars, measVars, Live, Measuring
    <2> QED
        BY <2>1 DEF ClockInv, ClockIfOneInit, ClockExact, OneInit
<1> QED
    BY <1>1, CallClock, ApiStepClock, TaskStepClock, TickClock DEF Next

(* Whichever tasks call the API, what profiler_stop returns is the number   *)
(* of cycles that passed, for a counter of any width and any number of      *)
(* telemetry tasks, unless two callers have initialised at once             *)
(* (profiler.c:24-40).                                                      *)
THEOREM ElapsedIsExact == Spec => []ElapsedExact
<1>1. Init => TypeOK /\ ClockInv
    BY InitTyped, InitClock
<1>2. TypeOK /\ ClockInv /\ [Next]_vars => TypeOK' /\ ClockInv'
    BY NextTyped, NextClock
<1>3. ClockInv => ElapsedExact
    BY DEF ClockInv, ClockExact, ElapsedExact
<1> QED
    BY <1>1, <1>2, <1>3, PTL DEF Spec

-----------------------------------------------------------------------------
(* The window of a report. *)

LEMMA NextLoopWindow ==
    ASSUME NEW n \in 0..(LoopMod - 1), ~ReportDue(NextLoop(n))
    PROVE  NextLoop(n) % ReportInterval = (n % ReportInterval) + 1
<1>1. LoopMod \in Nat \ {0} /\ ReportInterval \in Nat \ {0} /\ n \in Nat
    BY LifecycleAssumption
<1>2. CASE n + 1 = LoopMod
    <2>1. NextLoop(n) = 0
        BY <1>1, <1>2 DEF NextLoop
    <2>2. 0 % ReportInterval = 0
        BY <1>1
    <2> QED
        BY <2>1, <2>2 DEF ReportDue
<1>3. CASE n + 1 < LoopMod
    <2>1. n + 1 \in 0..(LoopMod - 1)
        BY <1>1, <1>3
    <2>2. NextLoop(n) = n + 1
        BY <1>1, <2>1, ModSmall DEF NextLoop
    <2> QED
        BY <1>1, <2>2, ModNext DEF ReportDue
<1> QED
    BY <1>1, <1>2, <1>3

LEMMA WindowTyped ==
    ASSUME TypeOK
    PROVE  /\ stats.count \in Nat /\ carried \in Nat /\ ReportInterval \in Nat \ {0}
           /\ \A t \in Tasks : loopCount[t] % ReportInterval \in 0..(ReportInterval - 1)
<1>1. ASSUME NEW t \in Tasks
      PROVE  loopCount[t] % ReportInterval \in 0..(ReportInterval - 1)
    <2>1. loopCount[t] \in Int
        BY LifecycleAssumption DEF TypeOK, TaskTyped
    <2> QED
        BY <2>1, ModRange, LifecycleAssumption
<1>2. stats.count \in Nat /\ carried \in Nat
    BY DEF TypeOK, MeasTyped, Samples
<1> QED
    BY <1>1, <1>2, LifecycleAssumption

LEMMA InitWindow == Init => WindowInv
BY DEF Init, NoSamples, WindowInv, WindowOf

LEMMA CreateWhenNoneLive ==
    ASSUME HandleInv, OneStart, NEW c \in Callers, At(c, "create")
    PROVE  Live = {}
BY TasksAreNotNull DEF HandleInv, HandleIfOneStart, Creating, Live

LEMMA DeleteTheOnly ==
    ASSUME TypeOK, HandleInv, OneStart, NEW c \in Callers, Stop(c), At(c, "delete")
    PROVE  handle \in Live /\ Delete(handle) /\ Live = {handle} /\ Live' = {}
<1>1. handle \in Live /\ Delete(handle)
    BY DEF Stop, At
<1> QED
    BY <1>1, DeleteLive DEF HandleInv, HandleIfOneStart

LEMMA WindowUnchanged ==
    ASSUME WindowInv, UNCHANGED <<taskPc, loopCount, stats, carried>>
    PROVE  WindowInv'
BY DEF WindowInv, WindowOf, Live

LEMMA ApiStepWindow ==
    ASSUME TypeOK, HandleInv, ClockInv, OneAtATime, WindowInv, NEW c \in Callers, ApiStep(c)
    PROVE  WindowInv'
<1>0. OneInit /\ OneStart
    BY DEF OneAtATime
<1>1. CASE \/ InitCheck(c) \/ InitSet(c) \/ StartCheck(c) \/ HandleCheck(c) \/ StopCheck(c)
           \/ (Stop(c) /\ At(c, "clear"))
    <2>1. UNCHANGED <<taskPc, loopCount, stats, carried>>
        BY <1>1 DEF InitCheck, InitSet, StartCheck, HandleCheck, StopCheck, Stop, At,
                    taskVars, measVars
    <2> QED
        BY <2>1, WindowUnchanged
<1>2. CASE InitReset(c)
    <2>1. Live = {} /\ UNCHANGED <<taskPc, loopCount>> /\ stats'.count = 0 /\ carried' = 0
        BY <1>0, <1>2, NothingLive DEF ProfilerInit, InitReset, NoSamples, taskVars
    <2>2. \A t \in Tasks : taskPc'[t] = "none"
        BY <2>1 DEF Live
    <2> QED
        BY <2>1, <2>2 DEF WindowInv, WindowOf
<1>3. CASE Create(c)
    <2>1. Live = {} /\ UNCHANGED <<loopCount, stats, carried>>
        BY <1>0, <1>3, CreateWhenNoneLive DEF Create, measVars
    <2>2. stats.count <= carried /\ \A t \in Tasks : taskPc[t] = "none" /\ loopCount[t] = 0
        BY <2>1 DEF WindowInv, WindowOf, Live
    <2>3. \A t \in Tasks : taskPc'[t] \in {"none", "sleep"}
        BY <1>3, <2>2 DEF Create, TypeOK, TaskTyped
    <2>4. 0 % ReportInterval = 0
        BY LifecycleAssumption
    <2>5. stats.count \in Nat /\ carried \in Nat
        BY WindowTyped
    <2> QED
        BY <2>1, <2>2, <2>3, <2>4, <2>5 DEF WindowInv, WindowOf
<1>4. CASE Stop(c) /\ At(c, "delete")
    <2>1. handle \in Live /\ Delete(handle) /\ Live = {handle} /\ Live' = {}
        BY <1>0, <1>4, DeleteTheOnly
    <2>2. stats' = stats /\ carried' = stats.count /\ carried' \in Nat
        BY <2>1, WindowTyped DEF Delete
    <2>3. \A t \in Tasks : taskPc'[t] = "none"
        BY <2>1 DEF Live
    <2>4. \A t \in Tasks : loopCount'[t] = 0
        BY <2>1 DEF Delete, TypeOK, TaskTyped, WindowInv, WindowOf, Live
    <2> QED
        BY <2>2, <2>3, <2>4 DEF WindowInv, WindowOf
<1> QED
    BY <1>1, <1>2, <1>3, <1>4 DEF ApiStep, Stop

LEMMA TaskStepWindowOf ==
    ASSUME TypeOK, WindowInv, NEW t \in Tasks, TaskStep(t)
    PROVE  WindowOf(t)'
<1>0. /\ WindowOf(t)
      /\ stats.count \in Nat /\ carried \in Nat /\ ReportInterval \in Nat \ {0}
      /\ loopCount[t] \in 0..(LoopMod - 1)
      /\ loopCount[t] % ReportInterval \in 0..(ReportInterval - 1)
    BY WindowTyped DEF WindowInv, TypeOK, TaskTyped
<1> USE DEF TypeOK, TaskTyped, TaskGoto
<1>1. CASE WakeUp(t) \/ Captured(t) \/ Sent(t)
    BY <1>0, <1>1 DEF WakeUp, Captured, Sent, WindowOf, measVars
<1>2. CASE RecordMinMax(t)
    <2>1. stats'.count = stats.count
        BY <1>2 DEF RecordMinMax, WithMinMax, MeasTyped, Samples
    <2> QED
        BY <1>0, <1>2, <2>1 DEF RecordMinMax, WindowOf
<1>3. CASE RecordCount(t)
    <2>1. stats'.count = stats.count + 1
        BY <1>3 DEF RecordCount, MeasTyped, Samples
    <2> QED
        BY <1>0, <1>3, <2>1 DEF RecordCount, WindowOf
<1>4. CASE RecordTotal(t)
    <2>1. stats'.count = stats.count /\ carried' = carried /\ loopCount'[t] = NextLoop(loopCount[t])
        BY <1>4 DEF RecordTotal, MeasTyped, Samples
    <2>2. stats.count <= carried + (loopCount[t] % ReportInterval) + 1
        BY <1>0, <1>4 DEF RecordTotal, WindowOf
    <2>3. CASE ReportDue(NextLoop(loopCount[t]))
        <3>1. taskPc'[t] = "report"
            BY <1>4, <2>3 DEF RecordTotal
        <3>2. stats.count <= carried + ReportInterval
            BY <1>0, <2>2
        <3> QED
            BY <2>1, <3>1, <3>2 DEF WindowOf
    <2>4. CASE ~ReportDue(NextLoop(loopCount[t]))
        <3>1. taskPc'[t] = "sleep"
            BY <1>4, <2>4 DEF RecordTotal
        <3>2. NextLoop(loopCount[t]) % ReportInterval = (loopCount[t] % ReportInterval) + 1
            BY <1>0, <2>4, NextLoopWindow
        <3>3. stats.count <= carried + (NextLoop(loopCount[t]) % ReportInterval)
            BY <1>0, <2>2, <3>2
        <3> QED
            BY <2>1, <3>1, <3>3 DEF WindowOf
    <2> QED
        BY <2>3, <2>4
<1>5. CASE Report(t)
    <2>1. stats'.count = stats.count
        BY <1>5 DEF Report, MeasTyped, Samples
    <2> QED
        BY <1>0, <1>5, <2>1 DEF Report, WindowOf
<1>6. CASE ResetCount(t)
    <2>1. stats'.count = 0 /\ taskPc'[t] = "resetTotal"
        BY <1>6 DEF ResetCount, MeasTyped, Samples
    <2> QED
        BY <2>1 DEF WindowOf
<1>7. CASE ResetTotal(t)
    <2>1. stats'.count = 0 /\ carried' = 0 /\ taskPc'[t] = "sleep" /\ loopCount'[t] = loopCount[t]
        BY <1>0, <1>7 DEF ResetTotal, MeasTyped, Samples, WindowOf
    <2> QED
        BY <1>0, <2>1 DEF WindowOf
<1> QED
    BY <1>1, <1>2, <1>3, <1>4, <1>5, <1>6, <1>7 DEF TaskStep

LEMMA TaskStepWindow ==
    ASSUME TypeOK, HandleInv, OneStart, WindowInv, NEW t \in Tasks, TaskStep(t)
    PROVE  WindowInv'
<1>1. Live' # {}
    BY TaskStepKeeps
<1>2. \A u \in Tasks : u # t => taskPc'[u] = "none" /\ loopCount'[u] = 0
    BY OtherTasks DEF WindowInv, WindowOf
<1>3. WindowOf(t)'
    BY TaskStepWindowOf
<1> QED
    BY <1>1, <1>2, <1>3 DEF WindowInv, WindowOf

LEMMA NextWindow ==
    TypeOK /\ HandleInv /\ ClockInv /\ (OneAtATime => WindowInv) /\ [Next]_vars
        => (OneAtATime => WindowInv)'
<1> SUFFICES ASSUME TypeOK, HandleInv, ClockInv, OneAtATime => WindowInv, [Next]_vars, OneAtATime'
             PROVE  WindowInv'
    OBVIOUS
<1>0. OneAtATime /\ OneStart /\ WindowInv
    BY StillAlone DEF OneAtATime
<1>1. ASSUME NEW c \in Callers, CallApi(c)
      PROVE  WindowInv'
    BY <1>0, <1>1, WindowUnchanged DEF CallApi, StartTelemetryAgent, Enter, taskVars, measVars
<1>2. CASE Tick \/ UNCHANGED vars
    BY <1>0, <1>2, WindowUnchanged DEF Tick, vars, taskVars, measVars
<1> QED
    BY <1>0, <1>1, <1>2, ApiStepWindow, TaskStepWindow DEF Next

LEMMA WindowHolds ==
    ASSUME TypeOK, WindowInv
    PROVE  stats.count <= carried + ReportInterval
<1>1. CASE Live = {}
    BY <1>1, WindowTyped DEF WindowInv
<1>2. ASSUME NEW t \in Live
      PROVE  stats.count <= carried + ReportInterval
    <2>1. /\ t \in Tasks /\ WindowOf(t) /\ taskPc[t] # "none"
          /\ loopCount[t] % ReportInterval \in 0..(ReportInterval - 1)
        BY WindowTyped DEF WindowInv, Live
    <2>2. taskPc[t] \in {"sleep", "capture", "send", "minmax", "count",
                         "total", "report", "resetCount", "resetTotal"}
        BY <2>1 DEF TypeOK, TaskTyped
    <2> QED
        BY <2>1, <2>2, WindowTyped DEF WindowOf
<1> QED
    BY <1>1, <1>2

(* Whichever tasks call the API, a report covers at most the interval,      *)
(* besides what an earlier task left, for any interval and a loop counter   *)
(* of any width, unless two callers have initialised or started at once     *)
(* (rtostwin.c:101-110).                                                    *)
THEOREM WindowIsBounded == Spec => []WindowBounded
<1>1. Init => TypeOK /\ HandleInv /\ ClockInv /\ (OneAtATime => WindowInv)
    BY InitTyped, InitHandle, InitClock, InitWindow
<1>2. TypeOK /\ HandleInv /\ ClockInv /\ (OneAtATime => WindowInv) /\ [Next]_vars
        => TypeOK' /\ HandleInv' /\ ClockInv' /\ (OneAtATime => WindowInv)'
    BY NextTyped, NextHandle, NextClock, NextWindow
<1>3. TypeOK /\ (OneAtATime => WindowInv) => WindowBounded
    BY WindowHolds DEF WindowBounded
<1> QED
    BY <1>1, <1>2, <1>3, PTL DEF Spec

-----------------------------------------------------------------------------
(* The mean. *)

LEMMA Widen ==
    ASSUME NEW s \in Samples, NEW e \in 0..(CycleMod - 1), Spans(s.count, s)
    PROVE  LET w == WithMinMax(s, e)
           IN  /\ w \in Samples /\ w.count = s.count /\ w.total = s.total
               /\ w.min <= e /\ e <= w.max
               /\ Spans(w.count, w)
<1> DEFINE w == WithMinMax(s, e)
<1>1. /\ s.count \in Nat /\ s.total \in Nat /\ s.min \in Nat /\ s.max \in Nat /\ e \in Nat
      /\ s.count * s.min <= s.total /\ s.total <= s.count * s.max
    BY LifecycleAssumption DEF Samples, Spans
<1>2. w \in Samples /\ w.count = s.count /\ w.total = s.total
    BY RecordTyped DEF WithMinMax, Samples
<1>3. CASE s.count = 0
    <2>1. w.min = e /\ w.max = e
        BY <1>3 DEF WithMinMax, Samples
    <2>2. s.total = 0
        BY <1>1, <1>3
    <2>3. 0 * e = 0
        BY <1>1
    <2> QED
        BY <1>1, <1>2, <1>3, <2>1, <2>2, <2>3 DEF Spans
<1>4. CASE s.count # 0
    <2>1. /\ w.min = IF e < s.min THEN e ELSE s.min
          /\ w.max = IF e > s.max THEN e ELSE s.max
        BY <1>4 DEF WithMinMax, Samples
    <2>2. /\ w.min \in Nat /\ w.max \in Nat
          /\ w.min <= s.min /\ s.max <= w.max /\ w.min <= e /\ e <= w.max
        BY <1>1, <2>1
    <2>3. s.count * w.min <= s.count * s.min /\ s.count * s.max <= s.count * w.max
        BY <1>1, <2>2, ProductMonotone
    <2>4. s.count * w.min \in Nat /\ s.count * s.min \in Nat
          /\ s.count * s.max \in Nat /\ s.count * w.max \in Nat
        BY <1>1, <2>2
    <2>5. s.count * w.min <= s.total /\ s.total <= s.count * w.max
        BY <1>1, <2>3, <2>4
    <2> QED
        BY <1>2, <2>2, <2>5 DEF Spans
<1> QED
    BY <1>3, <1>4

LEMMA OneMore ==
    ASSUME NEW n \in Nat, NEW a \in Nat
    PROVE  (n + 1) * a = n * a + a
OBVIOUS

LEMMA Add ==
    ASSUME NEW w \in Samples, NEW e \in 0..(CycleMod - 1), NEW n \in Nat,
           Spans(n, w), w.min <= e, e <= w.max
    PROVE  /\ (n + 1) * w.min <= w.total + e
           /\ w.total + e <= (n + 1) * w.max
<1>1. /\ w.total \in Nat /\ w.min \in Nat /\ w.max \in Nat /\ e \in Nat
      /\ n * w.min <= w.total /\ w.total <= n * w.max
    BY LifecycleAssumption DEF Samples, Spans
<1>2. (n + 1) * w.min = n * w.min + w.min /\ (n + 1) * w.max = n * w.max + w.max
    BY <1>1, OneMore
<1>3. n * w.min \in Nat /\ n * w.max \in Nat
    BY <1>1
<1> QED
    BY <1>1, <1>2, <1>3

LEMMA RecordSpans ==
    ASSUME NEW s \in Samples, NEW e \in 0..(CycleMod - 1), Spans(s.count, s)
    PROVE  LET r == ProfilerRecord(s, e) IN Spans(r.count, r)
<1> DEFINE w == WithMinMax(s, e)
           r == ProfilerRecord(s, e)
<1>1. w \in Samples /\ w.min <= e /\ e <= w.max /\ Spans(w.count, w)
    BY Widen
<1>2. r = [w EXCEPT !.total = @ + e, !.count = @ + 1]
    BY DEF ProfilerRecord
<1> HIDE DEF w, r
<1>3. r.min = w.min /\ r.max = w.max /\ r.total = w.total + e /\ r.count = w.count + 1
      /\ w.count \in Nat
    BY <1>1, <1>2 DEF Samples
<1>4. (w.count + 1) * w.min <= w.total + e /\ w.total + e <= (w.count + 1) * w.max
    BY <1>1, <1>3, Add
<1>5. Spans(r.count, r)
    BY <1>3, <1>4 DEF Spans
<1> QED
    BY <1>5 DEF r

LEMMA NoSamplesSpan == Spans(NoSamples.count, NoSamples)
BY DEF NoSamples, Spans

LEMMA InitSnap == Init => SnapInv
BY NoSamplesSpan DEF Init, SnapInv

LEMMA NextSnap == TypeOK /\ SnapInv /\ [Next]_vars => SnapInv'
<1> SUFFICES ASSUME TypeOK, SnapInv, [Next]_vars, NEW t \in Tasks
             PROVE  Spans(snapStats'[t].count, snapStats'[t])
    BY DEF SnapInv
<1>0. Spans(snapStats[t].count, snapStats[t]) /\ snapStats[t] \in Samples
    BY DEF SnapInv, TypeOK, TaskTyped
<1>1. ASSUME snapStats'[t] = snapStats[t]
      PROVE  Spans(snapStats'[t].count, snapStats'[t])
    BY <1>0, <1>1
<1>2. ASSUME NEW c \in Callers, CallApi(c) \/ ApiStep(c)
      PROVE  snapStats'[t] = snapStats[t] \/ snapStats'[t] = NoSamples
    BY <1>2 DEF CallApi, StartTelemetryAgent, Enter, ApiStep, InitCheck, InitReset, InitSet,
                StartCheck, HandleCheck, Create, StopCheck, Stop, Delete, taskVars, TypeOK, TaskTyped
<1>3. ASSUME NEW u \in Tasks, TaskStep(u)
      PROVE  Spans(snapStats'[t].count, snapStats'[t])
    <2>1. CASE u = t /\ Captured(t)
        <3>1. timer[t].start \in 0..(CycleMod - 1)
            BY DEF TypeOK, TaskTyped
        <3>2. ProfilerStop(timer[t].start) \in 0..(CycleMod - 1)
            BY <3>1, ElapsedTyped
        <3>3. snapStats'[t] = ProfilerRecord(snapStats[t], ProfilerStop(timer[t].start))
            BY <2>1 DEF Captured, TypeOK, TaskTyped
        <3> QED
            BY <1>0, <3>2, <3>3, RecordSpans
    <2>2. CASE ~(u = t /\ Captured(t))
        <3>1. snapStats'[t] = snapStats[t]
            BY <1>3, <2>2 DEF TypeOK, TaskTyped, TaskStep, WakeUp, Captured, Sent, RecordMinMax,
                              RecordCount, RecordTotal, Report, ResetCount, ResetTotal
        <3> QED
            BY <1>1, <3>1
    <2> QED
        BY <2>1, <2>2
<1>4. CASE Tick \/ UNCHANGED vars
    BY <1>1, <1>4 DEF Tick, vars, taskVars
<1> QED
    BY <1>1, <1>2, <1>3, <1>4, NoSamplesSpan DEF Next

LEMMA InitMean == Init => MeanInv
<1> SUFFICES ASSUME Init
             PROVE  MeanInv
    OBVIOUS
<1>1. Spans(stats.count, stats) /\ \A t \in Tasks : taskPc[t] = "none"
    BY NoSamplesSpan DEF Init
<1> QED
    BY <1>1 DEF MeanInv, MeanOf

LEMMA MeanUnchanged ==
    ASSUME MeanInv, UNCHANGED <<taskPc, stats, torn>>,
           \A t \in Tasks : timer'[t].elapsed = timer[t].elapsed
    PROVE  MeanInv'
BY DEF MeanInv, MeanOf, Live

LEMMA ApiStepMean ==
    ASSUME TypeOK, HandleInv, ClockInv, OneAtATime, MeanInv, NEW c \in Callers, ApiStep(c)
    PROVE  MeanInv'
<1>0. OneInit /\ OneStart
    BY DEF OneAtATime
<1>1. CASE \/ InitCheck(c) \/ InitSet(c) \/ StartCheck(c) \/ HandleCheck(c) \/ StopCheck(c)
           \/ (Stop(c) /\ At(c, "clear"))
    <2>1. UNCHANGED <<taskPc, stats, torn, timer>>
        BY <1>1 DEF InitCheck, InitSet, StartCheck, HandleCheck, StopCheck, Stop, At,
                    taskVars, measVars
    <2> QED
        BY <2>1, MeanUnchanged
<1>2. CASE InitReset(c)
    <2>1. Live = {} /\ taskPc' = taskPc /\ stats' = NoSamples
        BY <1>0, <1>2, NothingLive DEF ProfilerInit, InitReset, taskVars
    <2>2. \A t \in Tasks : taskPc'[t] = "none"
        BY <2>1 DEF Live
    <2> QED
        BY <2>1, <2>2, NoSamplesSpan DEF MeanInv, MeanOf
<1>3. CASE Create(c)
    <2>1. Live = {} /\ UNCHANGED <<stats, torn>>
        BY <1>0, <1>3, CreateWhenNoneLive DEF Create, measVars
    <2>2. \A t \in Tasks : taskPc[t] = "none"
        BY <2>1 DEF Live
    <2>3. \A t \in Tasks : taskPc'[t] \in {"none", "sleep"}
        BY <1>3, <2>2 DEF Create, TypeOK, TaskTyped
    <2> QED
        BY <2>1, <2>3 DEF MeanInv, MeanOf
<1>4. CASE Stop(c) /\ At(c, "delete")
    <2>1. handle \in Live /\ Delete(handle) /\ Live = {handle} /\ Live' = {}
        BY <1>0, <1>4, DeleteTheOnly
    <2>2. stats' = stats /\ torn' = (torn \/ taskPc[handle] \in Updating)
        BY <2>1 DEF Delete
    <2>3. \A t \in Tasks : taskPc'[t] = "none"
        BY <2>1 DEF Live
    <2>4. ~torn' => Spans(stats'.count, stats')
        <3>1. handle \in Tasks /\ MeanOf(handle) /\ taskPc[handle] # "none"
            BY <2>1 DEF MeanInv, Live
        <3>2. taskPc[handle] \notin Updating =>
                taskPc[handle] \in {"sleep", "capture", "send", "minmax", "count", "report"}
            BY <3>1 DEF Updating, TypeOK, TaskTyped
        <3> QED
            BY <2>2, <3>1, <3>2 DEF MeanOf
    <2> QED
        BY <2>3, <2>4 DEF MeanInv, MeanOf
<1> QED
    BY <1>1, <1>2, <1>3, <1>4 DEF ApiStep, Stop

LEMMA TaskStepMeanOf ==
    ASSUME TypeOK, MeanInv, NEW t \in Tasks, TaskStep(t)
    PROVE  MeanOf(t)'
<1>0. /\ MeanOf(t)
      /\ stats \in Samples
      /\ timer[t] \in Timers /\ timer[t].elapsed \in 0..(CycleMod - 1)
    BY DEF MeanInv, TypeOK, TaskTyped, MeasTyped, Timers
<1> USE DEF TypeOK, TaskTyped, TaskGoto
<1>1. CASE WakeUp(t)
    BY <1>0, <1>1 DEF WakeUp, MeanOf
<1>2. CASE Captured(t)
    BY <1>0, <1>2 DEF Captured, MeanOf, measVars
<1>3. CASE Sent(t)
    BY <1>0, <1>3 DEF Sent, MeanOf, measVars
<1>4. CASE RecordMinMax(t)
    <2>1. /\ taskPc[t] = "minmax" /\ taskPc'[t] = "count"
          /\ stats' = WithMinMax(stats, timer[t].elapsed)
          /\ UNCHANGED <<timer, torn>>
        BY <1>4 DEF RecordMinMax
    <2>2. ~torn => /\ Spans(stats'.count, stats')
                   /\ stats'.min <= timer[t].elapsed /\ timer[t].elapsed <= stats'.max
        BY <1>0, <2>1, Widen DEF MeanOf
    <2> QED
        BY <1>0, <2>1, <2>2 DEF MeanOf
<1>5. CASE RecordCount(t)
    <2>1. /\ taskPc[t] = "count" /\ taskPc'[t] = "total"
          /\ UNCHANGED <<timer, torn>>
          /\ stats'.count = stats.count + 1
          /\ stats'.min = stats.min /\ stats'.max = stats.max /\ stats'.total = stats.total
        BY <1>0, <1>5 DEF RecordCount, Samples
    <2>2. stats.count \in Nat
        BY <1>0 DEF Samples
    <2>3. stats'.count - 1 = stats.count /\ stats'.count > 0
        <3> DEFINE n == stats.count
        <3>1. n \in Nat /\ stats'.count = n + 1
            BY <2>1, <2>2
        <3> HIDE DEF n
        <3>2. (n + 1) - 1 = n /\ n + 1 > 0
            BY <3>1
        <3> QED
            BY <3>1, <3>2 DEF n
    <2> QED
        BY <1>0, <2>1, <2>3 DEF MeanOf, Spans
<1>6. CASE RecordTotal(t)
    <2>1. /\ taskPc[t] = "total" /\ taskPc'[t] \in {"sleep", "report"}
          /\ torn' = torn
          /\ stats'.total = stats.total + timer[t].elapsed
          /\ stats'.min = stats.min /\ stats'.max = stats.max /\ stats'.count = stats.count
        BY <1>0, <1>6 DEF RecordTotal, Samples
    <2>2. ASSUME ~torn
          PROVE  Spans(stats'.count, stats')
        <3>1. /\ stats.count > 0 /\ Spans(stats.count - 1, stats)
              /\ stats.min <= timer[t].elapsed /\ timer[t].elapsed <= stats.max
            BY <1>0, <2>1, <2>2 DEF MeanOf
        <3>2. stats.count - 1 \in Nat /\ (stats.count - 1) + 1 = stats.count
            BY <1>0, <3>1 DEF Samples
        <3>3. /\ stats.count * stats.min <= stats.total + timer[t].elapsed
              /\ stats.total + timer[t].elapsed <= stats.count * stats.max
            BY <1>0, <3>1, <3>2, Add
        <3> QED
            BY <2>1, <3>3 DEF Spans
    <2> QED
        BY <1>0, <2>1, <2>2 DEF MeanOf
<1>7. CASE Report(t)
    <2>1. /\ taskPc'[t] = "resetCount" /\ stats'.min = 0 /\ stats'.max = 0
        BY <1>0, <1>7 DEF Report, Samples
    <2> QED
        BY <1>0, <2>1 DEF MeanOf
<1>8. CASE ResetCount(t)
    <2>1. /\ taskPc[t] = "resetCount" /\ taskPc'[t] = "resetTotal"
          /\ stats'.count = 0 /\ stats'.min = stats.min /\ stats'.max = stats.max
        BY <1>0, <1>8 DEF ResetCount, Samples
    <2> QED
        BY <1>0, <2>1 DEF MeanOf
<1>9. CASE ResetTotal(t)
    <2>1. /\ taskPc[t] = "resetTotal" /\ taskPc'[t] = "sleep"
          /\ stats'.total = 0
          /\ stats'.count = stats.count /\ stats'.min = stats.min /\ stats'.max = stats.max
        BY <1>0, <1>9 DEF ResetTotal, Samples
    <2>2. stats.count = 0 /\ stats.min = 0 /\ stats.max = 0
        BY <1>0, <2>1 DEF MeanOf
    <2>3. Spans(stats'.count, stats')
        BY <2>1, <2>2 DEF Spans
    <2> QED
        BY <1>0, <2>1, <2>3 DEF MeanOf
<1> QED
    BY <1>1, <1>2, <1>3, <1>4, <1>5, <1>6, <1>7, <1>8, <1>9 DEF TaskStep

LEMMA TaskStepMean ==
    ASSUME TypeOK, HandleInv, OneStart, MeanInv, NEW t \in Tasks, TaskStep(t)
    PROVE  MeanInv'
<1>1. Live' # {}
    BY TaskStepKeeps
<1>2. \A u \in Tasks : u # t => taskPc'[u] = "none"
    BY OtherTasks
<1>3. \A u \in Tasks : u # t => MeanOf(u)'
    BY <1>2 DEF MeanInv, MeanOf
<1>4. MeanOf(t)'
    BY TaskStepMeanOf
<1> QED
    BY <1>1, <1>3, <1>4 DEF MeanInv

LEMMA NextMean ==
    TypeOK /\ HandleInv /\ ClockInv /\ (OneAtATime => MeanInv) /\ [Next]_vars
        => (OneAtATime => MeanInv)'
<1> SUFFICES ASSUME TypeOK, HandleInv, ClockInv, OneAtATime => MeanInv, [Next]_vars, OneAtATime'
             PROVE  MeanInv'
    OBVIOUS
<1>0. OneAtATime /\ OneStart /\ MeanInv
    BY StillAlone DEF OneAtATime
<1>1. ASSUME NEW c \in Callers, CallApi(c)
      PROVE  MeanInv'
    BY <1>0, <1>1, MeanUnchanged DEF CallApi, StartTelemetryAgent, Enter, taskVars, measVars
<1>2. CASE Tick
    <2>1. \A t \in Tasks : timer'[t].elapsed = timer[t].elapsed
        BY <1>2 DEF Tick, TypeOK, TaskTyped
    <2> QED
        BY <1>0, <1>2, <2>1, MeanUnchanged DEF Tick
<1>3. CASE UNCHANGED vars
    BY <1>0, <1>3, MeanUnchanged DEF vars, taskVars, measVars
<1> QED
    BY <1>0, <1>1, <1>2, <1>3, ApiStepMean, TaskStepMean DEF Next

(* The quotient lies where the products say, and fits the type it is cast   *)
(* to, because the maximum does.                                            *)
LEMMA SpansBoundMean ==
    ASSUME NEW s \in Samples, Spans(s.count, s)
    PROVE  MeanWithin(s)
<1> SUFFICES ASSUME s.count > 0
             PROVE  s.min <= MeanCycles(s) /\ MeanCycles(s) <= s.max
    BY DEF MeanWithin, ProfilerReport
<1> DEFINE n == s.count  q == s.total \div n
<1>1. n \in Nat \ {0} /\ s.total \in Nat /\ s.min \in Nat /\ s.max \in 0..(CycleMod - 1)
    BY LifecycleAssumption DEF Samples
<1>2. q \in Int /\ n * q <= s.total /\ s.total < n * (q + 1)
    BY <1>1
<1> HIDE DEF n, q
<1>3. n * s.min <= s.total /\ s.total <= n * s.max
    BY DEF Spans, n
<1>4. n * s.min < n * (q + 1) /\ n * q <= n * s.max
    BY <1>1, <1>2, <1>3
<1>5. s.min < q + 1 /\ q <= s.max
    BY <1>1, <1>2, <1>4
<1>6. q % CycleMod = q
    BY <1>1, <1>2, <1>5, LifecycleAssumption
<1> QED
    BY <1>1, <1>2, <1>5, <1>6 DEF MeanCycles, n, q

LEMMA MeanHolds ==
    ASSUME TypeOK, SnapInv, OneAtATime => MeanInv
    PROVE  MeanInRange
<1>1. stats \in Samples /\ \A t \in Tasks : snapStats[t] \in Samples
    BY DEF TypeOK, TaskTyped, MeasTyped
<1>2. OneAtATime /\ ~torn => \A t \in Tasks : taskPc[t] = "report" => MeanWithin(stats)
    BY <1>1, SpansBoundMean DEF MeanInv, MeanOf
<1>3. \A t \in Tasks : MeanWithin(snapStats[t])
    BY <1>1, SpansBoundMean DEF SnapInv
<1> QED
    BY <1>2, <1>3 DEF MeanInRange

(* Whichever tasks call the API, the mean of a task's own statistics lies   *)
(* between their minimum and their maximum, and so does that of a report    *)
(* that no deletion and no double entry spoilt (measurement.c:3-44).        *)
THEOREM MeanIsInRange == Spec => []MeanInRange
<1>1. Init => TypeOK /\ HandleInv /\ ClockInv /\ SnapInv /\ (OneAtATime => MeanInv)
    BY InitTyped, InitHandle, InitClock, InitSnap, InitMean
<1>2. TypeOK /\ HandleInv /\ ClockInv /\ SnapInv /\ (OneAtATime => MeanInv) /\ [Next]_vars
        => TypeOK' /\ HandleInv' /\ ClockInv' /\ SnapInv' /\ (OneAtATime => MeanInv)'
    BY NextTyped, NextHandle, NextClock, NextSnap, NextMean
<1>3. TypeOK /\ SnapInv /\ (OneAtATime => MeanInv) => MeanInRange
    BY MeanHolds
<1> QED
    BY <1>1, <1>2, <1>3, PTL DEF Spec
=============================================================================
