------------------------------ MODULE Lifecycle ------------------------------
(***************************************************************************)
(* rtostwin_init, rtostwin_start and rtostwin_stop taken apart at the      *)
(* points where another task may run, and the cycle of the telemetry task  *)
(* they create and delete, with what it measures of itself: profiler.c,    *)
(* measurement.c and the DWT cycle counter.                                *)
(***************************************************************************)
EXTENDS Integers

CONSTANTS
    Starters,        \* application tasks that call rtostwin_init and _start
    Stoppers,        \* application tasks that call rtostwin_stop
    MaxCreations,    \* bound: telemetry tasks xTaskCreate can create
    MaxCycles,       \* bound: cycles the telemetry tasks run
    CycleMod,        \* CYCCNT is a uint32_t: 2^32
    LoopMod,         \* loop_count is a uint32_t: 2^32
    ReportInterval   \* RTOSTWIN_PROFILE_REPORT_INTERVAL (100)

ASSUME LifecycleAssumption ==
    /\ MaxCreations \in Nat
    /\ MaxCycles \in Nat
    /\ CycleMod \in Nat \ {0}
    /\ LoopMod \in Nat \ {0}
    /\ ReportInterval \in Nat \ {0}

VARIABLES
    initialised,  \* s_initialised
    handle,       \* s_telemetry_task_handle: a task, or NULL
    call,         \* the API function each application task is in
    step,         \* and where it is there
    created,      \* the number of tasks created so far
    taskPc,       \* where each task is, "none" unless it is alive
    loopCount,    \* loop_count, a local of each task
    snapStats,    \* snap_stats, a local of each task
    timer,        \* of each task: cycle_start, what profiler_stop made of it,
                  \* and the cycles that did pass (not in the code)
    cyccnt,       \* DWT_CYCCNT
    stats,        \* s_cycle_stats
    torn,         \* a task was deleted inside an update of it (not in the code)
    carried,      \* its sample_count at the last deletion (not in the code)
    doubled,      \* the API functions two callers were in together (history, not
                  \* in the code: see Enters)
    cycles        \* counts the cycles, for MaxCycles

apiVars  == <<initialised, handle, call, step, created>>
taskVars == <<taskPc, loopCount, snapStats, timer, cycles>>
measVars == <<cyccnt, stats, torn, carried>>
vars     == <<apiVars, doubled, taskVars, measVars>>

NULL == 0
Tasks == 1..MaxCreations
Callers == Starters \cup Stoppers
Live == {t \in Tasks : taskPc[t] # "none"}

NoSamples == [min |-> 0, max |-> 0, count |-> 0, total |-> 0]
NoTimer == [start |-> 0, elapsed |-> 0, ran |-> 0]

Init ==
    /\ initialised = FALSE
    /\ handle = NULL
    /\ call = [c \in Callers |-> "none"]
    /\ step = [c \in Callers |-> "idle"]
    /\ created = 0
    /\ doubled = {}
    /\ taskPc = [t \in Tasks |-> "none"]
    /\ loopCount = [t \in Tasks |-> 0]
    /\ snapStats = [t \in Tasks |-> NoSamples]
    /\ timer = [t \in Tasks |-> NoTimer]
    /\ cyccnt = 0
    /\ stats = NoSamples
    /\ torn = FALSE
    /\ carried = 0
    /\ cycles = 0

-----------------------------------------------------------------------------
(* The API. *)

At(c, s) == step[c] = s
Goto(c, s) == step' = [step EXCEPT ![c] = s]

(* No lock makes one step of a check and of what it guards, and nothing in  *)
(* the code keeps a second caller from coming between. Of a caller that     *)
(* passes the check of f: f is noted when another one is in the steps that  *)
(* the check guards.                                                        *)
Enters(c, f, guarded) ==
    doubled' = IF \E d \in Callers \ {c} : step[d] \in guarded
               THEN doubled \cup {f} ELSE doubled

Enter(c, name, s) ==
    /\ At(c, "idle")
    /\ call' = [call EXCEPT ![c] = name]
    /\ Goto(c, s)
    /\ UNCHANGED <<initialised, handle, created, doubled, taskVars, measVars>>

(* It calls rtostwin_init, then rtostwin_start: see AfterInit. *)
StartTelemetryAgent(c) == Enter(c, "StartTelemetryAgent", "init")

CallApi(c) ==
    \/ /\ c \in Starters
       /\ \/ Enter(c, "rtostwin_init", "init")
          \/ Enter(c, "rtostwin_start", "start")
          \/ StartTelemetryAgent(c)
    \/ c \in Stoppers /\ Enter(c, "rtostwin_stop", "stop")

(* rtostwin_init answers OK whether or not it had anything to do. *)
AfterInit(c) ==
    Goto(c, CASE call[c] = "rtostwin_init" -> "idle"
              [] call[c] = "rtostwin_start" -> "check"
              [] OTHER -> "start")

InitCheck(c) ==
    /\ At(c, "init")
    /\ IF initialised
       THEN AfterInit(c) /\ UNCHANGED doubled
       ELSE Goto(c, "reset") /\ Enters(c, "rtostwin_init", {"reset", "set"})
    /\ UNCHANGED <<initialised, handle, call, created, taskVars, measVars>>

(* profiler_init; the answer of dwt_init's test of the counter is ignored.  *)
ProfilerInit == cyccnt' = 0

(* profiler_init and measurement_reset. What the other init functions reset *)
(* is in Encoder and SnapshotEngine.                                        *)
InitReset(c) ==
    /\ At(c, "reset")
    /\ ProfilerInit
    /\ stats' = NoSamples
    /\ torn' = FALSE
    /\ carried' = 0
    /\ Goto(c, "set")
    /\ UNCHANGED <<initialised, handle, call, created, doubled, taskVars>>

InitSet(c) ==
    /\ At(c, "set")
    /\ initialised' = TRUE
    /\ AfterInit(c)
    /\ UNCHANGED <<handle, call, created, doubled, taskVars, measVars>>

(* Mutation: rtostwin_start initialises whether or not that was done. *)
StartCheckInitAlways(c) ==
    /\ At(c, "start")
    /\ call' = [call EXCEPT ![c] = "rtostwin_start"]
    /\ Goto(c, "reset")
    /\ UNCHANGED <<initialised, handle, created, doubled, taskVars, measVars>>

StartCheck(c) ==
    /\ At(c, "start")
    /\ call' = [call EXCEPT ![c] = "rtostwin_start"]
    /\ Goto(c, IF initialised THEN "check" ELSE "init")
    /\ UNCHANGED <<initialised, handle, created, doubled, taskVars, measVars>>

(* A handle that is set: RTOSTWIN_STATUS_ALREADY_STARTED. *)
HandleCheck(c) ==
    /\ At(c, "check")
    /\ IF handle = NULL
       THEN Goto(c, "create") /\ Enters(c, "rtostwin_start", {"create"})
       ELSE Goto(c, "idle") /\ UNCHANGED doubled
    /\ UNCHANGED <<initialised, handle, call, created, taskVars, measVars>>

(* xTaskCreate writes the handle before the new task first runs, or fails. *)
Create(c) ==
    /\ At(c, "create")
    /\ Goto(c, "idle")
    /\ \/ /\ created < MaxCreations
          /\ created' = created + 1
          /\ handle' = created'
          /\ taskPc' = [taskPc EXCEPT ![created'] = "sleep"]
       \/ /\ handle' = NULL
          /\ UNCHANGED <<created, taskPc>>
    /\ UNCHANGED <<initialised, call, doubled, loopCount, snapStats, timer, cycles, measVars>>

(* Mutation: rtostwin_stop does not look at the handle first. *)
StopCheckDropped(c) ==
    /\ At(c, "stop")
    /\ Goto(c, "delete")
    /\ Enters(c, "rtostwin_stop", {"delete", "clear"})
    /\ UNCHANGED <<initialised, handle, call, created, taskVars, measVars>>

StopCheck(c) ==
    /\ At(c, "stop")
    /\ IF handle = NULL
       THEN Goto(c, "idle") /\ UNCHANGED doubled
       ELSE Goto(c, "delete") /\ Enters(c, "rtostwin_stop", {"delete", "clear"})
    /\ UNCHANGED <<initialised, handle, call, created, taskVars, measVars>>

(* rtostwin_is_running *)
IsRunning == handle # NULL

(* The updates of s_cycle_stats that leave it halfway *)
Updating == {"total", "resetCount", "resetTotal"}

(* vTaskDelete ends the task wherever it is; its locals are gone with it. *)
Delete(t) ==
    /\ taskPc' = [taskPc EXCEPT ![t] = "none"]
    /\ torn' = (torn \/ taskPc[t] \in Updating)
    /\ carried' = stats.count
    /\ loopCount' = [loopCount EXCEPT ![t] = 0]
    /\ snapStats' = [snapStats EXCEPT ![t] = NoSamples]
    /\ timer' = [timer EXCEPT ![t] = NoTimer]
    /\ UNCHANGED <<cycles, cyccnt, stats>>

(* Mutation: the handle is cleared before the task is deleted. *)
StopClearingFirst(c) ==
    \/ /\ At(c, "delete")
       /\ handle' = NULL
       /\ Goto(c, "clear")
       /\ UNCHANGED <<initialised, call, created, doubled, taskVars, measVars>>
    \/ /\ At(c, "clear")
       /\ \E t \in Live : Delete(t)
       /\ Goto(c, "idle")
       /\ UNCHANGED <<initialised, handle, call, created, doubled>>

(* The task named by the handle is deleted, then the handle is cleared. A   *)
(* caller whose handle names no task goes no further here: with NULL it     *)
(* deletes itself, else this is undefined behaviour (DeletesLiveTask).      *)
Stop(c) ==
    \/ /\ At(c, "delete")
       /\ handle \in Live
       /\ Delete(handle)
       /\ Goto(c, "clear")
       /\ UNCHANGED <<initialised, handle, call, created, doubled>>
    \/ /\ At(c, "clear")
       /\ handle' = NULL
       /\ Goto(c, "idle")
       /\ UNCHANGED <<initialised, call, created, doubled, taskVars, measVars>>

ApiStep(c) ==
    \/ InitCheck(c) \/ InitReset(c) \/ InitSet(c)
    \/ StartCheck(c) \/ HandleCheck(c) \/ Create(c)
    \/ StopCheck(c) \/ Stop(c)

-----------------------------------------------------------------------------
(* The telemetry task and what it measures. *)

TaskGoto(t, from, to) ==
    /\ taskPc[t] = from
    /\ taskPc' = [taskPc EXCEPT ![t] = to]

(* profiler_stop: the difference of two uint32_t. *)
ProfilerStop(start) == (cyccnt - start) % CycleMod

WithMinMax(s, e) ==
    IF s.count = 0
    THEN [s EXCEPT !.min = e, !.max = e]
    ELSE [s EXCEPT !.min = IF e < @ THEN e ELSE @, !.max = IF e > @ THEN e ELSE @]

(* profiler_record; nothing else sees the struct it updates. *)
ProfilerRecord(s, e) ==
    [WithMinMax(s, e) EXCEPT !.total = @ + e, !.count = @ + 1]

(* measurement_mean_cycles, and the mean of profiler_report: a uint32_t.    *)
MeanCycles(s) == IF s.count = 0 THEN 0 ELSE (s.total \div s.count) % CycleMod

(* What profiler_report and the report of measurement print                 *)
ProfilerReport(s) == [min |-> s.min, max |-> s.max, mean |-> MeanCycles(s), count |-> s.count]

Measuring == {t \in Tasks : taskPc[t] \in {"capture", "send"}}

(* The task sleeps for any time, wakes up and reads the cycle counter.      *)
(* Beside another one that measures, time passes in Tick alone.             *)
WakeUp(t) ==
    /\ cycles < MaxCycles
    /\ cycles' = cycles + 1
    /\ TaskGoto(t, "sleep", "capture")
    /\ cyccnt' \in IF Measuring = {} THEN 0..(CycleMod - 1) ELSE {cyccnt}
    /\ timer' = [timer EXCEPT ![t].start = cyccnt']
    /\ UNCHANGED <<apiVars, doubled, loopCount, snapStats, stats, torn, carried>>

(* The processor runs. A cycle takes fewer than 2^32 cycles (25 s). *)
Tick ==
    /\ Measuring # {}
    /\ \A t \in Measuring : timer[t].ran < CycleMod - 1
    /\ cyccnt' = (cyccnt + 1) % CycleMod
    /\ timer' = [t \in Tasks |->
                    IF t \in Measuring THEN [timer[t] EXCEPT !.ran = @ + 1] ELSE timer[t]]
    /\ UNCHANGED <<apiVars, doubled, taskPc, loopCount, snapStats, cycles, stats, torn, carried>>

(* snapshot_capture has returned. *)
Captured(t) ==
    /\ TaskGoto(t, "capture", "send")
    /\ snapStats' = [snapStats EXCEPT ![t] = ProfilerRecord(@, ProfilerStop(timer[t].start))]
    /\ UNCHANGED <<apiVars, doubled, loopCount, timer, cycles, measVars>>

(* The packet is sent. *)
Sent(t) ==
    /\ TaskGoto(t, "send", "minmax")
    /\ timer' = [timer EXCEPT ![t].elapsed = ProfilerStop(timer[t].start)]
    /\ UNCHANGED <<apiVars, doubled, loopCount, snapStats, cycles, measVars>>

(* measurement_record, in the order of its stores. *)
RecordMinMax(t) ==
    /\ TaskGoto(t, "minmax", "count")
    /\ stats' = WithMinMax(stats, timer[t].elapsed)
    /\ UNCHANGED <<apiVars, doubled, loopCount, snapStats, timer, cycles, cyccnt, torn, carried>>

RecordCount(t) ==
    /\ TaskGoto(t, "count", "total")
    /\ stats' = [stats EXCEPT !.count = @ + 1]
    /\ UNCHANGED <<apiVars, doubled, loopCount, snapStats, timer, cycles, cyccnt, torn, carried>>

(* Mutation: the report is due once. *)
ReportDueOnce(n) == n = ReportInterval

ReportDue(n) == n % ReportInterval = 0

(* Mutation: a wider counter. *)
NextLoopUnwrapped(n) == n + 1

NextLoop(n) == (n + 1) % LoopMod

RecordTotal(t) ==
    /\ TaskGoto(t, "total", IF ReportDue(NextLoop(loopCount[t])) THEN "report" ELSE "sleep")
    /\ stats' = [stats EXCEPT !.total = @ + timer[t].elapsed]
    /\ loopCount' = [loopCount EXCEPT ![t] = NextLoop(@)]
    /\ timer' = [timer EXCEPT ![t] = NoTimer]
    /\ UNCHANGED <<apiVars, doubled, snapStats, cycles, cyccnt, torn, carried>>

(* The report is printed; measurement_reset follows, store by store. *)
Report(t) ==
    /\ TaskGoto(t, "report", "resetCount")
    /\ stats' = [stats EXCEPT !.min = 0, !.max = 0]
    /\ UNCHANGED <<apiVars, doubled, loopCount, snapStats, timer, cycles, cyccnt, torn, carried>>

ResetCount(t) ==
    /\ TaskGoto(t, "resetCount", "resetTotal")
    /\ stats' = [stats EXCEPT !.count = 0]
    /\ UNCHANGED <<apiVars, doubled, loopCount, snapStats, timer, cycles, cyccnt, torn, carried>>

(* Mutation: measurement_reset forgets the total. *)
ResetTotalForgotten(t) ==
    /\ TaskGoto(t, "resetTotal", "sleep")
    /\ torn' = FALSE
    /\ carried' = 0
    /\ UNCHANGED <<apiVars, doubled, loopCount, snapStats, timer, cycles, cyccnt, stats>>

ResetTotal(t) ==
    /\ TaskGoto(t, "resetTotal", "sleep")
    /\ stats' = [stats EXCEPT !.total = 0]
    /\ torn' = FALSE
    /\ carried' = 0
    /\ UNCHANGED <<apiVars, doubled, loopCount, snapStats, timer, cycles, cyccnt>>

TaskStep(t) ==
    \/ WakeUp(t) \/ Captured(t) \/ Sent(t)
    \/ RecordMinMax(t) \/ RecordCount(t) \/ RecordTotal(t)
    \/ Report(t) \/ ResetCount(t) \/ ResetTotal(t)

Next ==
    \/ \E c \in Callers : CallApi(c) \/ ApiStep(c)
    \/ \E t \in Tasks : TaskStep(t)
    \/ Tick

Spec == Init /\ [][Next]_vars

-----------------------------------------------------------------------------
Samples == [min : 0..(CycleMod - 1), max : 0..(CycleMod - 1), count : Nat, total : Nat]

ApiTyped ==
    /\ initialised \in BOOLEAN
    /\ handle \in Tasks \cup {NULL}
    /\ call \in [Callers -> {"none", "rtostwin_init", "rtostwin_start",
                             "StartTelemetryAgent", "rtostwin_stop"}]
    /\ step \in [Callers -> {"idle", "init", "reset", "set", "start", "check", "create",
                             "stop", "delete", "clear"}]
    /\ created \in 0..MaxCreations
    /\ doubled \subseteq {"rtostwin_init", "rtostwin_start", "rtostwin_stop"}

TaskTyped ==
    /\ taskPc \in [Tasks -> {"none", "sleep", "capture", "send", "minmax", "count",
                             "total", "report", "resetCount", "resetTotal"}]
    /\ loopCount \in [Tasks -> 0..(LoopMod - 1)]
    /\ snapStats \in [Tasks -> Samples]
    /\ timer \in [Tasks -> [start : 0..(CycleMod - 1), elapsed : 0..(CycleMod - 1),
                            ran : 0..(CycleMod - 1)]]

MeasTyped ==
    /\ cyccnt \in 0..(CycleMod - 1)
    /\ stats \in Samples
    /\ torn \in BOOLEAN
    /\ carried \in Nat
    /\ cycles \in 0..MaxCycles

(* Every variable has its type. *)
TypeOK == ApiTyped /\ TaskTyped /\ MeasTyped

(* No two callers have been in the function together, past its check.       *)
OneInit == "rtostwin_init" \notin doubled
OneStart == "rtostwin_start" \notin doubled
OneStop == "rtostwin_stop" \notin doubled

(* Whoever calls, and however the calls meet, a handle names a live task    *)
(* but for the moment between vTaskDelete and the clearing of the handle,   *)
(* when rtostwin_is_running still answers true. And two tasks, or one that  *)
(* nobody can stop, come of one thing only: two callers of rtostwin_start   *)
(* that both found no handle before either had created its task             *)
(* (rtostwin.c:146-177).                                                    *)
HandleNamesTask ==
    /\ OneStart => Live \subseteq {handle}
    /\ IsRunning => handle \in Live \/ \E c \in Callers : At(c, "clear")

(* vTaskDelete is called with NULL, which deletes the caller, or with a     *)
(* task that is gone, only where two callers were in rtostwin_stop or in    *)
(* rtostwin_start together: no order of a start and a stop does it          *)
(* (rtostwin.c:166-171).                                                    *)
DeletesLiveTask == OneStart /\ OneStop => \A c \in Callers : At(c, "delete") => handle \in Live

(* What profiler_stop returns is the number of cycles that passed, across   *)
(* the wrap of CYCCNT and though rtostwin_init sets it to 0, even in two    *)
(* tasks at once: only two callers that initialised together spoil it       *)
(* (profiler.c:24-40, rtostwin.c:121).                                      *)
ElapsedExact ==
    OneInit => \A t \in Tasks :
        taskPc[t] \in {"minmax", "count", "total"} => timer[t].elapsed = timer[t].ran

(* There is no second task, and no initialisation runs beside a task.       *)
OneAtATime == OneInit /\ OneStart

MeanWithin(s) ==
    LET r == ProfilerReport(s) IN r.count > 0 => r.min <= r.mean /\ r.mean <= r.max

(* The mean a task reports lies between the minimum and the maximum, though *)
(* s_cycle_stats outlives the tasks: a task deleted inside an update spoils *)
(* the reports only up to the next reset, and so may a second task or       *)
(* initialiser; the statistics of one task alone, nothing spoils            *)
(* (measurement.c:3-44).                                                    *)
MeanInRange ==
    /\ OneAtATime /\ ~torn => \A t \in Tasks : taskPc[t] = "report" => MeanWithin(stats)
    /\ \A t \in Tasks : MeanWithin(snapStats[t])

(* A report covers at most ReportInterval cycles of its own task, besides   *)
(* those an earlier task left, even when loop_count wraps to 0 out of step  *)
(* with the interval (rtostwin.c:101-110).                                  *)
WindowBounded == OneAtATime => stats.count <= carried + ReportInterval
=============================================================================
