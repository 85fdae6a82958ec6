--------------------------- MODULE SnapshotEngine ---------------------------
(***************************************************************************)
(* agent/core/snapshot.c and the idle hook of agent/freertos/hooks.c.      *)
(*                                                                         *)
(* Three priorities meet here. The tasks of the application, above the     *)
(* telemetry task, preempt it between any two steps of a capture: they     *)
(* allocate and free memory and create and delete tasks. The telemetry     *)
(* task preempts the idle task in the middle of the hook. The idle task    *)
(* runs while the telemetry task sleeps, or when it does not exist.        *)
(* FreeRTOS itself, its heap and its task list, is external.               *)
(***************************************************************************)
EXTENDS Integers, FiniteSets, Sequences

CONSTANTS
    TaskIds,   \* the task control blocks there may be
    Freed,     \* what memory that was a task's name may hold
    MaxTasks,  \* MAX_TASKS, the size of s_task_status_buf (16)
    HeapSize,  \* bytes in the heap
    WordMod,   \* the counters are uint32_t: 2^32
    Percent    \* the scale of cpu_utilization_pct (100)

ASSUME EngineAssumption ==
    /\ IsFiniteSet(TaskIds)
    /\ Freed \notin TaskIds
    /\ MaxTasks \in Nat
    /\ HeapSize \in Nat
    /\ Percent \in Nat
    /\ WordMod \in Nat
    /\ Percent < WordMod

VARIABLES
    alive,        \* the tasks that exist
    heapFree,     \* xPortGetFreeHeapSize()
    heapMin,      \* xPortGetMinimumEverFreeHeapSize()
    initialised,  \* snapshot_init has run
    idleTicks,    \* s_idle_ticks
    periodTicks,  \* s_period_ticks
    hookPc,       \* where the idle task is in vApplicationIdleHook
    hookReg,      \* the counter it has loaded
    pc,           \* where the telemetry task is in snapshot_capture
    statusBuf,    \* s_task_status_buf, by the task whose name it points to
    out,          \* the snapshot
    period        \* the local variable of snapshot_capture

rtosVars == <<alive, heapFree, heapMin>>
hookVars == <<hookPc, hookReg>>
captureVars == <<pc, statusBuf, out, period>>
vars == <<rtosVars, initialised, idleTicks, periodTicks, hookVars, captureVars>>

Init ==
    /\ alive = TaskIds
    /\ heapFree = HeapSize
    /\ heapMin = HeapSize
    /\ initialised = FALSE
    /\ idleTicks = 0
    /\ periodTicks = 0
    /\ hookPc = "out"
    /\ hookReg = 0
    /\ pc = "none"
    /\ statusBuf = <<>>
    /\ out = [names |-> <<>>, heap_free_bytes |-> 0, heap_min_ever_bytes |-> 0,
              cpu_utilization_pct |-> 0]
    /\ period = 0

-----------------------------------------------------------------------------
(* The application. *)

Allocate ==
    /\ \E n \in 1..heapFree :
          /\ heapFree' = heapFree - n
          /\ heapMin' = IF heapFree - n < heapMin THEN heapFree - n ELSE heapMin
    /\ UNCHANGED <<alive, initialised, idleTicks, periodTicks, hookVars, captureVars>>

Free ==
    /\ \E n \in 1..(HeapSize - heapFree) : heapFree' = heapFree + n
    /\ UNCHANGED <<alive, heapMin, initialised, idleTicks, periodTicks, hookVars, captureVars>>

CreateOrDeleteTask ==
    /\ \E t \in TaskIds : alive' = IF t \in alive THEN alive \ {t} ELSE alive \cup {t}
    /\ UNCHANGED <<heapFree, heapMin, initialised, idleTicks, periodTicks, hookVars,
                   captureVars>>

(* rtostwin_start; the first time it runs snapshot_init, in the middle of  *)
(* an idle hook perhaps.                                                   *)
Start ==
    /\ pc = "none"
    /\ pc' = "sleep"
    /\ initialised' = TRUE
    /\ idleTicks' = IF initialised THEN idleTicks ELSE 0
    /\ periodTicks' = IF initialised THEN periodTicks ELSE 0
    /\ UNCHANGED <<rtosVars, hookVars, statusBuf, out, period>>

(* rtostwin_stop, in the middle of a capture perhaps. *)
Stop ==
    /\ pc # "none"
    /\ pc' = "none"
    /\ UNCHANGED <<rtosVars, initialised, idleTicks, periodTicks, hookVars, statusBuf,
                   out, period>>

Application == Allocate \/ Free \/ CreateOrDeleteTask \/ Start \/ Stop

-----------------------------------------------------------------------------
(* The idle task. *)

(* Mutation: the telemetry task has the priority of the idle task, and they *)
(* share the processor.                                                     *)
IdleRunsAtEqualPriority == TRUE

(* The telemetry task is RTOSTWIN_TELEMETRY_TASK_PRIORITY_OFFSET above idle *)
(* and ready during the whole of a capture.                                 *)
IdleRuns == pc \in {"none", "sleep"}

(* s_idle_ticks++; s_period_ticks++, each a load and a store. *)
IdleHook ==
    /\ IdleRuns
    /\ \/ /\ hookPc = "out"
          /\ hookReg' = idleTicks
          /\ hookPc' = "store idle"
          /\ UNCHANGED <<idleTicks, periodTicks>>
       \/ /\ hookPc = "store idle"
          /\ idleTicks' = (hookReg + 1) % WordMod
          /\ hookPc' = "load period"
          /\ UNCHANGED <<hookReg, periodTicks>>
       \/ /\ hookPc = "load period"
          /\ hookReg' = periodTicks
          /\ hookPc' = "store period"
          /\ UNCHANGED <<idleTicks, periodTicks>>
       \/ /\ hookPc = "store period"
          /\ periodTicks' = (hookReg + 1) % WordMod
          /\ hookPc' = "out"
          /\ UNCHANGED <<hookReg, idleTicks>>
    /\ UNCHANGED <<rtosVars, initialised, captureVars>>

-----------------------------------------------------------------------------
(* snapshot_capture. *)

(* uxTaskGetSystemState lists the tasks in no particular order, or none    *)
(* when the buffer is too small for all.                                   *)
ListTasks ==
    /\ pc = "sleep"
    /\ \E list \in [1..Cardinality(alive) -> alive] :
          /\ \A t \in alive : \E i \in DOMAIN list : list[i] = t
          /\ statusBuf' = IF Cardinality(alive) <= MaxTasks THEN list ELSE <<>>
    /\ out' = [out EXCEPT !.names = <<>>]
    /\ pc' = "copy"
    /\ UNCHANGED <<rtosVars, initialised, idleTicks, periodTicks, hookVars, period>>

(* The name of a task is copied from its control block, through the pointer *)
(* in the status buffer.                                                    *)
NameAt(t) == IF t \in alive THEN t ELSE Freed

CopyTask ==
    /\ pc = "copy"
    /\ Len(out.names) < Len(statusBuf)
    /\ out' = [out EXCEPT !.names = Append(@, NameAt(statusBuf[Len(@) + 1]))]
    /\ UNCHANGED <<rtosVars, initialised, idleTicks, periodTicks, hookVars, pc, statusBuf,
                   period>>

(* Mutation: the minimum is read first. *)
ReadHeapMinimumFirst ==
    /\ \/ /\ pc = "copy"
          /\ Len(out.names) = Len(statusBuf)
          /\ out' = [out EXCEPT !.heap_min_ever_bytes = heapMin]
          /\ pc' = "minimum"
       \/ /\ pc = "minimum"
          /\ out' = [out EXCEPT !.heap_free_bytes = heapFree]
          /\ pc' = "counters"
    /\ UNCHANGED <<rtosVars, initialised, idleTicks, periodTicks, hookVars, statusBuf,
                   period>>

(* The free heap, and then the lowest free heap ever. *)
ReadHeap ==
    /\ \/ /\ pc = "copy"
          /\ Len(out.names) = Len(statusBuf)
          /\ out' = [out EXCEPT !.heap_free_bytes = heapFree]
          /\ pc' = "minimum"
       \/ /\ pc = "minimum"
          /\ out' = [out EXCEPT !.heap_min_ever_bytes = heapMin]
          /\ pc' = "counters"
    /\ UNCHANGED <<rtosVars, initialised, idleTicks, periodTicks, hookVars, statusBuf,
                   period>>

(* 100 - idle * 100 / total in unsigned words: more than 100 when idle is   *)
(* the greater one.                                                         *)
Busy(idle, total) == (Percent - ((idle * Percent) % WordMod) \div total) % WordMod

(* Mutation: the difference is not clamped. *)
CpuPercentUnclamped(idle, total) == IF total = 0 THEN 0 ELSE Busy(idle, total)

CpuPercent(idle, total) ==
    CASE total = 0 -> 0
      [] total # 0 /\ Busy(idle, total) <= Percent -> Busy(idle, total)
      [] OTHER -> Percent

ReadCounters ==
    /\ pc = "counters"
    /\ period' = periodTicks
    /\ out' = [out EXCEPT !.cpu_utilization_pct = CpuPercent(idleTicks, periodTicks)]
    /\ pc' = "reset"
    /\ UNCHANGED <<rtosVars, initialised, idleTicks, periodTicks, hookVars, statusBuf>>

(* The critical section: the idle count starts again, the period goes on.  *)
ResetCounters ==
    /\ pc = "reset"
    /\ idleTicks' = 0
    /\ periodTicks' = period
    /\ pc' = "sleep"
    /\ UNCHANGED <<rtosVars, initialised, hookVars, statusBuf, out, period>>

Capture == ListTasks \/ CopyTask \/ ReadHeap \/ ReadCounters \/ ResetCounters

Next == Application \/ IdleHook \/ Capture

Spec == Init /\ [][Next]_vars

-----------------------------------------------------------------------------
(* Types. *)

Word == 0..(WordMod - 1)

(* Every variable has its type; a snapshot never shows more than all of the *)
(* processor busy, though the counters wrap and the idle count can exceed   *)
(* the period it is divided by (snapshot.c:75-83).                          *)
TypeOK ==
    /\ alive \subseteq TaskIds
    /\ heapFree \in 0..HeapSize
    /\ heapMin \in 0..HeapSize
    /\ initialised \in BOOLEAN
    /\ idleTicks \in Word
    /\ periodTicks \in Word
    /\ hookPc \in {"out", "store idle", "load period", "store period"}
    /\ hookReg \in Word
    /\ pc \in {"none", "sleep", "copy", "minimum", "counters", "reset"}
    /\ statusBuf \in Seq(TaskIds)
    /\ out \in [names : Seq(TaskIds \cup {Freed}), heap_free_bytes : 0..HeapSize,
                heap_min_ever_bytes : 0..HeapSize, cpu_utilization_pct : 0..Percent]
    /\ period \in Word

-----------------------------------------------------------------------------
(* Safety. *)

(* Past the capture of the heap a snapshot never shows a lowest free heap   *)
(* above its free heap, whatever was allocated and freed between the two    *)
(* reads (snapshot.c:71-72).                                                *)
HeapFieldsOrdered ==
    pc \in {"counters", "reset"} => out.heap_min_ever_bytes <= out.heap_free_bytes

(* The value the capture writes back to s_period_ticks is the one that is   *)
(* there: no tick of the idle task gets lost in between (snapshot.c:76-88,  *)
(* rtostwin.c:154).                                                         *)
PeriodWriteBackFresh == pc = "reset" => period = periodTicks

(* The free heap already read is at least the lowest the heap will ever     *)
(* have been when the minimum is read.                                      *)
HeapInv ==
    /\ TypeOK
    /\ heapMin <= heapFree
    /\ pc = "minimum" => heapMin <= out.heap_free_bytes
    /\ HeapFieldsOrdered

-----------------------------------------------------------------------------
(* What documents and comments of the repository say and the code does not. *)

FirstCapture == statusBuf = <<>>

(* A system in which only the idle task and the captures run. A new task    *)
(* captures before the idle task runs; from then on it sleeps 100 ms        *)
(* between two captures, and the idle hook runs, whole, at least once.      *)
IdleSystemSpec ==
    /\ Init
    /\ [][/\ Start \/ IdleHook \/ Capture
          /\ pc' # pc => hookPc = "out"
          /\ FirstCapture => hookPc' = hookPc
          /\ ~FirstCapture /\ pc = "sleep" /\ pc' # pc => idleTicks > 0]_vars

(* TECH_SPEC.md:264-265: cpu_utilization_pct is 100 less the share of the   *)
(* idle ticks in the ticks of the period.                                   *)
IdleSystemShowsIdle == out.cpu_utilization_pct = 0
=============================================================================
