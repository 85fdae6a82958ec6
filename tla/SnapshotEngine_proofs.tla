----------------------- MODULE SnapshotEngine_proofs -----------------------
(***************************************************************************)
(* What SnapshotEngine promises for any heap, any number of tasks and      *)
(* counters of any width: types, the order of the two heap fields and the  *)
(* freshness of the period that is written back.                           *)
(***************************************************************************)
EXTENDS SnapshotEngine, FiniteSetTheorems, TLAPS

(* A word stays a word under unsigned arithmetic. *)
LEMMA WordArithmetic ==
    ASSUME NEW x \in Int
    PROVE  x % WordMod \in Word
<1>1. WordMod \in Nat \ {0}
    BY EngineAssumption
<1> QED
    BY <1>1 DEF Word

(* The share of the processor that is busy is clamped into its scale. *)
LEMMA CpuPercentTyped ==
    ASSUME NEW idle \in Word, NEW total \in Word
    PROVE  CpuPercent(idle, total) \in 0..Percent
<1>1. WordMod \in Nat \ {0} /\ Percent \in Nat
    BY EngineAssumption
<1>2. CASE total = 0
    BY <1>1, <1>2 DEF CpuPercent
<1>3. CASE total # 0
    <2>1. total \in Nat \ {0} /\ idle * Percent \in Int
        BY <1>1, <1>3 DEF Word
    <2>2. (idle * Percent) % WordMod \in Int
        BY <2>1, WordArithmetic DEF Word
    <2>3. ((idle * Percent) % WordMod) \div total \in Int
        BY <2>1, <2>2
    <2>4. Busy(idle, total) \in Word
        BY <1>1, <2>3, WordArithmetic DEF Busy
    <2>5. CASE Busy(idle, total) <= Percent
        BY <1>1, <1>3, <2>4, <2>5 DEF CpuPercent, Word
    <2>6. CASE ~(Busy(idle, total) <= Percent)
        BY <1>1, <1>3, <2>6 DEF CpuPercent
    <2> QED
        BY <2>5, <2>6
<1> QED
    BY <1>2, <1>3

LEMMA InitTyped == Init => TypeOK
<1> SUFFICES ASSUME Init
             PROVE  TypeOK
    OBVIOUS
<1>1. 0 \in Word /\ 0 \in 0..HeapSize /\ HeapSize \in 0..HeapSize /\ 0 \in 0..Percent
    BY EngineAssumption DEF Word
<1>2. statusBuf \in Seq(TaskIds)
    BY DEF Init
<1>3. out \in [names : Seq(TaskIds \cup {Freed}), heap_free_bytes : 0..HeapSize,
               heap_min_ever_bytes : 0..HeapSize, cpu_utilization_pct : 0..Percent]
    <2>1. <<>> \in Seq(TaskIds \cup {Freed})
        OBVIOUS
    <2> QED
        BY <1>1, <2>1 DEF Init
<1>4. initialised \in BOOLEAN
    BY DEF Init
<1> QED
    BY <1>1, <1>2, <1>3, <1>4 DEF Init, TypeOK

(* What the application does to the heap, in numbers. *)
LEMMA HeapSteps ==
    ASSUME TypeOK
    PROVE  /\ Allocate => /\ heapFree' \in 0..HeapSize
                          /\ heapMin' \in 0..HeapSize
                          /\ heapMin' <= heapMin
                          /\ heapMin' <= heapFree'
           /\ Free => heapFree' \in 0..HeapSize /\ heapFree <= heapFree'
<1>1. heapFree \in 0..HeapSize /\ heapMin \in 0..HeapSize /\ HeapSize \in Nat
    BY EngineAssumption DEF TypeOK
<1>2. ASSUME Allocate
      PROVE  /\ heapFree' \in 0..HeapSize
             /\ heapMin' \in 0..HeapSize
             /\ heapMin' <= heapMin
             /\ heapMin' <= heapFree'
    <2>1. PICK n \in 1..heapFree :
             /\ heapFree' = heapFree - n
             /\ heapMin' = IF heapFree - n < heapMin THEN heapFree - n ELSE heapMin
        BY <1>2 DEF Allocate
    <2>2. n \in Int /\ 1 <= n /\ n <= heapFree
        BY <1>1
    <2> QED
        BY <1>1, <2>1, <2>2
<1>3. ASSUME Free
      PROVE  heapFree' \in 0..HeapSize /\ heapFree <= heapFree'
    BY <1>1, <1>3 DEF Free
<1> QED
    BY <1>2, <1>3

(* Types. *)
LEMMA TypeInvariant == Spec => []TypeOK
<1> USE EngineAssumption
<1>1. Init => TypeOK
    BY InitTyped
<1>2. TypeOK /\ [Next]_vars => TypeOK'
    <2> SUFFICES ASSUME TypeOK, [Next]_vars
                 PROVE  TypeOK'
        OBVIOUS
    <2>1. CASE Allocate
        BY <2>1, HeapSteps DEF TypeOK, Allocate, hookVars, captureVars
    <2>2. CASE Free
        BY <2>2, HeapSteps DEF TypeOK, Free, hookVars, captureVars
    <2>3. CASE CreateOrDeleteTask
        BY <2>3 DEF TypeOK, CreateOrDeleteTask, hookVars, captureVars
    <2>4. CASE Start
        <3>1. 0 \in Word
            BY DEF Word
        <3> QED
            BY <2>4, <3>1 DEF TypeOK, Start, hookVars, rtosVars
    <2>5. CASE Stop
        BY <2>5 DEF TypeOK, Stop, hookVars, rtosVars
    <2>6. CASE IdleHook
        <3>1. hookReg + 1 \in Int
            <4>1. hookReg \in Word
                BY DEF TypeOK
            <4> QED
                BY <4>1 DEF Word
        <3>2. (hookReg + 1) % WordMod \in Word
            BY <3>1, WordArithmetic
        <3> QED
            BY <2>6, <3>2 DEF TypeOK, IdleHook, rtosVars, captureVars
    <2>7. CASE ListTasks
        <3>1. statusBuf' \in Seq(TaskIds)
            <4>1. PICK list \in [1..Cardinality(alive) -> alive] :
                     statusBuf' = IF Cardinality(alive) <= MaxTasks THEN list ELSE <<>>
                BY <2>7 DEF ListTasks
            <4>2. Cardinality(alive) \in Nat
                BY FS_Subset, FS_CardinalityType DEF TypeOK
            <4>3. alive \subseteq TaskIds
                BY DEF TypeOK
            <4>4. list \in [1..Cardinality(alive) -> TaskIds]
                BY <4>1, <4>3
            <4>5. list \in Seq(TaskIds)
                BY <4>2, <4>4
            <4> QED
                BY <4>1, <4>5
        <3>2. <<>> \in Seq(TaskIds \cup {Freed})
            OBVIOUS
        <3> QED
            BY <2>7, <3>1, <3>2 DEF TypeOK, ListTasks, rtosVars, hookVars
    <2>8. CASE CopyTask
        <3>1. NameAt(statusBuf[Len(out.names) + 1]) \in TaskIds \cup {Freed}
            BY Zenon DEF NameAt, TypeOK
        <3>2. Append(out.names, NameAt(statusBuf[Len(out.names) + 1])) \in Seq(TaskIds \cup {Freed})
            <4>1. out.names \in Seq(TaskIds \cup {Freed})
                BY DEF TypeOK
            <4> QED
                BY <3>1, <4>1
        <3> QED
            BY <2>8, <3>2 DEF TypeOK, CopyTask, rtosVars, hookVars
    <2>9. CASE ReadHeap
        BY <2>9 DEF TypeOK, ReadHeap, rtosVars, hookVars
    <2>10. CASE ReadCounters
        <3>1. CpuPercent(idleTicks, periodTicks) \in 0..Percent
            BY CpuPercentTyped DEF TypeOK
        <3> QED
            BY <2>10, <3>1 DEF TypeOK, ReadCounters, rtosVars, hookVars
    <2>11. CASE ResetCounters
        <3>1. 0 \in Word
            BY DEF Word
        <3> QED
            BY <2>11, <3>1 DEF TypeOK, ResetCounters, rtosVars, hookVars
    <2>12. CASE UNCHANGED vars
        BY <2>12 DEF TypeOK, vars, rtosVars, hookVars, captureVars
    <2> QED
        BY <2>1, <2>2, <2>3, <2>4, <2>5, <2>6, <2>7, <2>8, <2>9, <2>10, <2>11, <2>12
        DEF Next, Application, Capture
<1> QED
    BY <1>1, <1>2, PTL DEF Spec

(* Every variable has its type for any heap, tasks and word (snapshot.c).  *)
THEOREM TypeCorrect == Spec => []TypeOK
BY TypeInvariant

-----------------------------------------------------------------------------
(* The lowest free heap ever read after the free heap is not above it,     *)
(* though the application allocates and frees in between (snapshot.c:71-72). *)
THEOREM HeapFieldsCorrect == Spec => []HeapFieldsOrdered
<1>1. Init => HeapInv
    <2> QED
        BY InitTyped, EngineAssumption DEF Init, HeapInv, HeapFieldsOrdered
<1>2. HeapInv /\ TypeOK' /\ [Next]_vars => HeapInv'
    <2> SUFFICES ASSUME HeapInv, TypeOK', [Next]_vars
                 PROVE  HeapInv'
        OBVIOUS
    <2> USE EngineAssumption DEF HeapInv, HeapFieldsOrdered
    <2>0. /\ heapFree \in Int /\ heapMin \in Int /\ heapFree' \in Int /\ heapMin' \in Int
          /\ out.heap_free_bytes \in Int /\ out.heap_min_ever_bytes \in Int
        <3>1. TypeOK => /\ heapFree \in 0..HeapSize /\ heapMin \in 0..HeapSize
                        /\ out.heap_free_bytes \in 0..HeapSize
                        /\ out.heap_min_ever_bytes \in 0..HeapSize
            BY Zenon DEF TypeOK
        <3>2. TypeOK' => heapFree' \in 0..HeapSize /\ heapMin' \in 0..HeapSize
            BY Zenon DEF TypeOK
        <3> QED
            BY <3>1, <3>2
    <2>1. CASE Allocate
        <3>1. heapMin' <= heapMin /\ heapMin' <= heapFree'
            BY <2>1, HeapSteps
        <3>2. UNCHANGED captureVars
            BY <2>1 DEF Allocate
        <3> QED
            BY <2>0, <3>1, <3>2 DEF captureVars
    <2>2. CASE Free
        <3>1. heapFree <= heapFree'
            BY <2>2, HeapSteps
        <3>2. UNCHANGED captureVars /\ UNCHANGED heapMin
            BY <2>2 DEF Free
        <3> QED
            BY <2>0, <3>1, <3>2 DEF captureVars
    <2>3. CASE ReadHeap
        BY <2>3 DEF TypeOK, ReadHeap, rtosVars
    <2>4. CASE ReadCounters
        BY <2>4 DEF TypeOK, ReadCounters, rtosVars
    <2>5. CASE CopyTask
        BY <2>5 DEF TypeOK, CopyTask, rtosVars
    <2>6. CASE CreateOrDeleteTask \/ Start \/ Stop \/ IdleHook \/ ListTasks \/ ResetCounters
        BY <2>6 DEF TypeOK, CreateOrDeleteTask, Start, Stop, IdleHook, ListTasks,
                    ResetCounters, rtosVars, captureVars
    <2>7. CASE UNCHANGED vars
        BY <2>7 DEF vars, rtosVars, captureVars
    <2> QED
        BY <2>1, <2>2, <2>3, <2>4, <2>5, <2>6, <2>7 DEF Next, Application, Capture
<1>3. HeapInv => HeapFieldsOrdered
    BY DEF HeapInv
<1> QED
    BY <1>1, <1>2, <1>3, TypeInvariant, PTL DEF Spec

-----------------------------------------------------------------------------
(* No tick of the idle task is lost when the period is written back, as    *)
(* long as the telemetry task has a priority above the idle task           *)
(* (snapshot.c:76-88, rtostwin.c:154).                                     *)
THEOREM PeriodWriteBackCorrect == Spec => []PeriodWriteBackFresh
<1>1. Init => PeriodWriteBackFresh
    BY DEF Init, PeriodWriteBackFresh
<1>2. PeriodWriteBackFresh /\ [Next]_vars => PeriodWriteBackFresh'
    <2> SUFFICES ASSUME PeriodWriteBackFresh, [Next]_vars
                 PROVE  PeriodWriteBackFresh'
        OBVIOUS
    <2> USE DEF PeriodWriteBackFresh
    <2>1. CASE Application
        BY <2>1 DEF Application, Allocate, Free, CreateOrDeleteTask, Start, Stop, captureVars
    <2>2. CASE IdleHook
        BY <2>2 DEF IdleHook, IdleRuns, captureVars
    <2>3. CASE Capture
        BY <2>3 DEF Capture, ListTasks, CopyTask, ReadHeap, ReadCounters, ResetCounters
    <2>4. CASE UNCHANGED vars
        BY <2>4 DEF vars, captureVars
    <2> QED
        BY <2>1, <2>2, <2>3, <2>4 DEF Next
<1> QED
    BY <1>1, <1>2, PTL DEF Spec
=============================================================================
