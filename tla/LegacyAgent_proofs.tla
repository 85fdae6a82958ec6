------------------------- MODULE LegacyAgent_proofs -------------------------
(***************************************************************************)
(* What the archived agent and its sequence check promise, for every       *)
(* keyframe interval, every width of the sequence number and every number  *)
(* of tasks whose keyframe fits a packet.                                  *)
(***************************************************************************)
EXTENDS LegacyAgent, FiniteSetTheorems, TLAPS

-----------------------------------------------------------------------------
(* Remainders by a modulus m, for every m. *)

LEMMA ModRange ==
    ASSUME NEW x \in Int, NEW m \in Nat \ {0}
    PROVE  x % m \in 0..(m - 1)
OBVIOUS

LEMMA ModSmall ==
    ASSUME NEW m \in Nat \ {0}, NEW x \in 0..(m - 1)
    PROVE  x % m = x
OBVIOUS

LEMMA DivMod ==
    ASSUME NEW m \in Nat \ {0}, NEW x \in Nat
    PROVE  \E q \in Nat, r \in 0..(m - 1) : q = x \div m /\ r = x % m /\ x = m * q + r
<1> DEFINE q == x \div m
           r == x % m
<1>1. q \in Nat /\ r \in 0..(m - 1) /\ x = m * q + r
    OBVIOUS
<1> HIDE DEF q, r
<1>2. q = x \div m /\ r = x % m
    BY DEF q, r
<1> QED
    BY <1>1, <1>2

LEMMA ModUnique ==
    ASSUME NEW m \in Nat \ {0}, NEW q \in Nat, NEW r \in 0..(m - 1)
    PROVE  (m * q + r) % m = r
<1> DEFINE x == m * q + r
<1>1. x \in Nat
    OBVIOUS
<1>2. PICK p \in Nat, s \in 0..(m - 1) : s = x % m /\ x = m * p + s
    BY <1>1, DivMod
<1> HIDE DEF x
<1>3. m * q + r = m * p + s
    BY <1>2 DEF x
<1>4. p = q
    <2>1. CASE p >= q + 1
        <3>1. m * p >= m * (q + 1)
            BY <2>1
        <3> QED
            BY <1>3, <3>1
    <2>2. CASE q >= p + 1
        <3>1. m * q >= m * (p + 1)
            BY <2>2
        <3> QED
            BY <1>3, <3>1
    <2> QED
        BY <2>1, <2>2
<1>5. s = r
    BY <1>3, <1>4
<1> QED
    BY <1>2, <1>5 DEF x

LEMMA ModNext ==
    ASSUME NEW m \in Nat \ {0}, NEW n \in Nat, (n + 1) % m # 0
    PROVE  (n + 1) % m = (n % m) + 1
<1>1. PICK q \in Nat, r \in 0..(m - 1) : r = n % m /\ n = m * q + r
    BY DivMod
<1>2. CASE r + 1 < m
    <2>1. n + 1 = m * q + (r + 1)
        BY <1>1
    <2>2. r + 1 \in 0..(m - 1)
        BY <1>2
    <2>3. (m * q + (r + 1)) % m = r + 1
        BY <2>2, ModUnique
    <2> QED
        BY <1>1, <2>1, <2>3
<1>3. CASE r + 1 = m
    <2>1. n + 1 = m * (q + 1) + 0
        BY <1>1, <1>3
    <2>2. q + 1 \in Nat /\ 0 \in 0..(m - 1)
        BY <1>1
    <2>3. (m * (q + 1) + 0) % m = 0
        BY <2>2, ModUnique
    <2> QED
        BY <2>1, <2>3
<1> QED
    BY <1>1, <1>2, <1>3

LEMMA ProductMonotone ==
    ASSUME NEW c \in Nat, NEW a \in Nat, NEW b \in Nat, a <= b
    PROVE  c * a <= c * b
OBVIOUS

(* A counter that wraps stays the remainder of the count. *)
LEMMA ModSuccessor ==
    ASSUME NEW m \in Nat \ {0}, NEW n \in Nat
    PROVE  ((n % m) + 1) % m = (n + 1) % m
<1>1. PICK q \in Nat, r \in 0..(m - 1) : r = n % m /\ n = m * q + r
    BY DivMod
<1>2. CASE r + 1 < m
    <2>1. r + 1 \in 0..(m - 1) /\ n + 1 = m * q + (r + 1)
        BY <1>1, <1>2
    <2>2. (m * q + (r + 1)) % m = r + 1
        BY <2>1, ModUnique
    <2>3. (r + 1) % m = r + 1
        BY <2>1, ModSmall
    <2> QED
        BY <1>1, <2>1, <2>2, <2>3
<1>3. CASE r + 1 = m
    <2>1. n + 1 = m * (q + 1) + 0 /\ q + 1 \in Nat /\ 0 \in 0..(m - 1)
        BY <1>1, <1>3
    <2>2. (m * (q + 1) + 0) % m = 0
        BY <2>1, ModUnique
    <2>3. m = m * 1 + 0
        OBVIOUS
    <2>4. (m * 1 + 0) % m = 0
        BY <2>1, ModUnique
    <2>5. (r + 1) % m = 0
        BY <1>3, <2>3, <2>4
    <2> QED
        BY <1>1, <2>1, <2>2, <2>5
<1> QED
    BY <1>1, <1>2, <1>3

(* Two counts less than m apart have different remainders. *)
LEMMA ModClose ==
    ASSUME NEW m \in Nat \ {0}, NEW x \in Nat, NEW y \in Nat,
           x % m = y % m, x <= y, y < x + m
    PROVE  x = y
<1>1. PICK q \in Nat, r \in 0..(m - 1) : r = x % m /\ x = m * q + r
    BY DivMod
<1>2. PICK p \in Nat, s \in 0..(m - 1) : s = y % m /\ y = m * p + s
    BY DivMod
<1>3. r = s
    BY <1>1, <1>2
<1>4. CASE p >= q + 1
    <2>1. m * p >= m * (q + 1)
        BY <1>4, ProductMonotone
    <2>2. m * (q + 1) = m * q + m
        OBVIOUS
    <2> QED
        BY <1>1, <1>2, <1>3, <2>1, <2>2
<1>5. CASE p <= q
    <2>1. m * p <= m * q
        BY <1>5, ProductMonotone
    <2> QED
        BY <1>1, <1>2, <1>3, <2>1
<1> QED
    BY <1>4, <1>5

-----------------------------------------------------------------------------
(* The inductive invariants. *)

(* The frames there are: those of the transfer, and the one in the buffer.  *)
Transferred == ({dma.sent} \cup {dma.over[i] : i \in DOMAIN dma.over}) \ {NoFrame}

Frames == Transferred \cup ({framed} \ {NoFrame})

(* The profiler has counted every capture, and none has taken a cycle.      *)
ProfilerInv ==
    /\ pc \in {"encode", "frame", "send"} => loopCount < MaxCycles
    /\ snapStats =
          [NoStats EXCEPT !.call_count =
              loopCount + IF pc \in {"encode", "frame", "send"} THEN 1 ELSE 0]
    /\ loopCount >= ReportInterval =>
          printed = <<0, 0, 0, loopCount - (loopCount % ReportInterval)>>

(* The numbers of the frames and of the reader count the frames made.       *)
NumberInv ==
    /\ drops <= IF pc = "send" THEN made - 1 ELSE made
    /\ seq = made % SeqMod
    /\ pc = "send" => framed.number = made
    /\ \A f \in Frames : f.number \in 1..made /\ f.seq = (f.number - 1) % SeqMod
    /\ \A f \in Transferred : reader.number <= f.number
    /\ reader.number \in 0..made
    /\ lastSeq = IF reader.number = 0 THEN -1 ELSE (reader.number - 1) % SeqMod
    /\ trusted => reader.number > 0

(* The payload p leads who has base to s: a keyframe, or the delta between  *)
(* the two, which says nothing of the slots without a task, as they do not  *)
(* change.                                                                  *)
Carries(p, s, base) ==
    \/ p = KeyframeOf(s)
    \/ /\ p = DeltaOf(s, base)
       /\ \A i \in s.count..(MaxTasks - 1) : s.tasks[i] = base.tasks[i]

(* Each frame leads from the one before it, wherever the two are, and the   *)
(* baseline is what the newest one carries.                                 *)
CarryInv ==
    /\ pc # "encode" => current = last
    /\ pc = "init" => last = ZeroSnapshot
    /\ pc = "encode" => \A i \in current.count..(MaxTasks - 1) : current.tasks[i] = last.tasks[i]
    /\ \A q \in Frames \cup {reader} : q.number = made =>
          IF pc = "frame" THEN Carries(payload, current, q.of) ELSE q.of = last
    /\ pc = "frame" /\ payload.type = "keyframe" => payload = KeyframeOf(current)
    /\ \A p \in Frames : p.payload.type = "keyframe" => p.payload = KeyframeOf(p.of)
    /\ \A p \in Frames, q \in Frames \cup {reader} :
          /\ p.number = q.number => p.of = q.of
          /\ p.number = q.number + 1 => Carries(p.payload, p.of, q.of)

(* ReaderExact in every slot.                                               *)
SlotsExact ==
    trusted /\ ~outage =>
        /\ \A f \in TaggedMemory : reader.has.memory[f] = reader.of.memory[f]
        /\ \A i \in Slots, f \in TaggedTask : reader.has.tasks[i][f] = reader.of.tasks[i][f]

-----------------------------------------------------------------------------
(* The data, with what a capture can find. *)
SnapshotType ==
    [tasks  : [Slots -> Tasks \cup {ZeroTask}],
     count  : 0..MaxTasks,
     memory : {s.memory : s \in Systems} \cup {[f \in MemoryFields |-> 0]}]

PayloadType ==
    {KeyframeOf(s) : s \in SnapshotType}
    \cup {DeltaOf(s, base) : s \in SnapshotType, base \in SnapshotType}

FrameType == [number : Nat, seq : Nat, payload : PayloadType \cup {NoPayload}, of : SnapshotType]

TaskTyped ==
    /\ pc \in {"init", "capture", "encode", "frame", "send"}
    /\ loopCount \in 0..MaxCycles
    /\ current \in SnapshotType
    /\ last \in SnapshotType
    /\ encoderUp \in BOOLEAN
    /\ pc = "frame" => payload \in PayloadType
    /\ seq \in Nat
    /\ made \in Nat
    /\ drops \in Nat

WireTyped ==
    /\ framed \in FrameType
    /\ dma \in [active : BOOLEAN, sent : FrameType, over : Seq(FrameType \ {NoFrame})]
    /\ dma.active => dma.sent # NoFrame

HostTyped ==
    /\ DOMAIN reader.has = {"tasks", "count", "memory"}
    /\ reader.of \in SnapshotType
    /\ reader.number \in Nat
    /\ gaps \in Nat
    /\ trusted \in BOOLEAN
    /\ lost \in BOOLEAN
    /\ outage \in BOOLEAN

TypeInv == TaskTyped /\ WireTyped /\ HostTyped

-----------------------------------------------------------------------------
(* Everything fits. *)

LEMMA ZeroTyped == ZeroSnapshot \in SnapshotType
BY LegacyAssumption DEF ZeroSnapshot, SnapshotType

LEMMA NoFrameTyped == NoFrame \in FrameType
BY ZeroTyped DEF NoFrame, FrameType

LEMMA SmallSubset ==
    ASSUME NEW T, IsFiniteSet(T), NEW n \in Nat, Cardinality(T) <= n, NEW S \in SUBSET T
    PROVE  IsFiniteSet(S) /\ Cardinality(S) \in 0..n
<1>1. IsFiniteSet(S) /\ Cardinality(S) <= Cardinality(T)
    BY FS_Subset
<1>2. Cardinality(S) \in Nat /\ Cardinality(T) \in Nat
    BY <1>1, FS_CardinalityType
<1> QED
    BY <1>1, <1>2

(* A delta has at most the entries of every tag and an index for each task. *)
LEMMA DeltaFits ==
    ASSUME NEW s \in SnapshotType, NEW base \in SnapshotType
    PROVE  DeltaBytes(DeltaOf(s, base)) \in Nat
           /\ DeltaBytes(DeltaOf(s, base)) <= 9 * MaxTasks + 8
<1> DEFINE d == DeltaOf(s, base)
           Mem(w) == {f \in DOMAIN d.memory : Width(f) = w}
           Task(w) == {p \in DOMAIN d.tasks : Width(p[2]) = w}
           Index == {p[1] : p \in DOMAIN d.tasks}
<1>1. DOMAIN d.memory \subseteq TaggedMemory /\ DOMAIN d.tasks \subseteq Slots \X TaggedTask
    <2>1. s.count \in 0..MaxTasks
        BY DEF SnapshotType
    <2>2. DOMAIN d.memory \subseteq TaggedMemory
        BY DEF DeltaOf
    <2>3. DOMAIN d.tasks \subseteq (0..(s.count - 1)) \X TaggedTask
        BY DEF DeltaOf
    <2> QED
        BY <2>1, <2>2, <2>3, LegacyAssumption DEF Slots
<1> HIDE DEF d
<1>2. IsFiniteSet(Slots) /\ Cardinality(Slots) = MaxTasks
    BY FS_Interval, LegacyAssumption DEF Slots
<1>3. \A x : IsFiniteSet({x}) /\ Cardinality({x}) = 1
    BY FS_Singleton
<1>4. Mem(1) \subseteq {"cpu_utilization_pct"} /\ Mem(2) = {} /\ Mem(4) \subseteq {"heap_free_bytes"}
    BY <1>1 DEF TaggedMemory, Width
<1>5. /\ Task(1) \subseteq (Slots \X {"state"}) \cup (Slots \X {"priority"})
      /\ Task(2) \subseteq Slots \X {"stack_hwm_words"} /\ Task(4) = {}
    BY <1>1 DEF TaggedTask, Width
<1>6. Index \subseteq Slots
    BY <1>1
<1>7. /\ Cardinality(Mem(1)) \in 0..1 /\ Cardinality(Mem(2)) = 0 /\ Cardinality(Mem(4)) \in 0..1
    <2>1. ASSUME NEW S, NEW x, S \subseteq {x} PROVE Cardinality(S) \in 0..1
        <3>1. IsFiniteSet({x}) /\ Cardinality({x}) = 1
            BY <1>3
        <3>2. S \in SUBSET {x}
            BY <2>1
        <3> QED
            BY <3>1, <3>2, SmallSubset
    <2> QED
        BY <1>4, <2>1, FS_EmptySet
<1>8. ASSUME NEW x
      PROVE  IsFiniteSet(Slots \X {x}) /\ Cardinality(Slots \X {x}) = MaxTasks
    <2> DEFINE X == {x}
    <2>1. IsFiniteSet(X) /\ Cardinality(X) = 1
        BY <1>3
    <2> HIDE DEF X
    <2>2. /\ IsFiniteSet(Slots \X X)
          /\ Cardinality(Slots \X X) = Cardinality(Slots) * Cardinality(X)
        BY <1>2, <2>1, FS_Product
    <2>3. MaxTasks * 1 = MaxTasks
        BY LegacyAssumption
    <2>4. IsFiniteSet(Slots \X X) /\ Cardinality(Slots \X X) = MaxTasks
        BY <2>1, <2>2, <2>3, <1>2
    <2> QED
        BY <2>4 DEF X
<1>9. Cardinality(Task(1)) \in 0..(2 * MaxTasks)
    <2> DEFINE S == Slots \X {"state"}
               T == Slots \X {"priority"}
    <2>1. /\ IsFiniteSet(S) /\ Cardinality(S) = MaxTasks
          /\ IsFiniteSet(T) /\ Cardinality(T) = MaxTasks
        BY <1>8
    <2> HIDE DEF S, T
    <2>2. IsFiniteSet(S \cap T) /\ Cardinality(S \cap T) \in Nat
        BY <2>1, FS_Subset, FS_CardinalityType
    <2>3. /\ IsFiniteSet(S \cup T)
          /\ Cardinality(S \cup T) = Cardinality(S) + Cardinality(T) - Cardinality(S \cap T)
        BY <2>1, FS_Union
    <2>4. Task(1) \subseteq S \cup T
        BY <1>5 DEF S, T
    <2>5. Cardinality(S \cup T) <= 2 * MaxTasks /\ 2 * MaxTasks \in Nat
        BY <2>1, <2>2, <2>3, LegacyAssumption
    <2> QED
        BY <2>3, <2>4, <2>5, SmallSubset
<1>10. Cardinality(Task(2)) \in 0..MaxTasks
    <2> DEFINE S == Slots \X {"stack_hwm_words"}
    <2>1. IsFiniteSet(S) /\ Cardinality(S) = MaxTasks
        BY <1>8
    <2>2. Task(2) \in SUBSET S
        BY <1>5
    <2> HIDE DEF S, Task
    <2> QED
        BY <2>1, <2>2, SmallSubset, LegacyAssumption
<1>11. Cardinality(Task(4)) = 0
    BY <1>5, FS_EmptySet
<1>12. Cardinality(Index) \in 0..MaxTasks
    BY <1>2, <1>6, SmallSubset, LegacyAssumption
<1>13. DeltaBytes(d) = 2 * (Cardinality(Mem(1)) + Cardinality(Task(1)))
                       + 3 * (Cardinality(Mem(2)) + Cardinality(Task(2)))
                       + 5 * (Cardinality(Mem(4)) + Cardinality(Task(4)))
                       + 2 * Cardinality(Index) + 1
    BY DEF DeltaBytes
<1> HIDE DEF Mem, Task, Index
<1>14. DeltaBytes(d) \in Nat /\ DeltaBytes(d) <= 9 * MaxTasks + 8
    <2>1. ASSUME NEW a \in 0..1, NEW b \in 0..(2 * MaxTasks), NEW c \in 0..MaxTasks,
                 NEW e \in 0..1, NEW i \in 0..MaxTasks
          PROVE  /\ 2 * (a + b) + 3 * (0 + c) + 5 * (e + 0) + 2 * i + 1 \in Nat
                 /\ 2 * (a + b) + 3 * (0 + c) + 5 * (e + 0) + 2 * i + 1 <= 9 * MaxTasks + 8
        BY LegacyAssumption
    <2> QED
        BY <1>7, <1>9, <1>10, <1>11, <1>12, <1>13, <2>1
<1> QED
    BY <1>14 DEF d

(* So encoder_encode and frame_packet never refuse a payload. *)
LEMMA PayloadFits ==
    ASSUME NEW p \in PayloadType
    PROVE  /\ PayloadSize(p) \in Nat /\ PayloadSize(p) <= PayloadBytes
           /\ FrameSize(p) <= MaxPacketSize /\ FrameSize(p) <= FrameBytes
           /\ p.type \in {"keyframe", "delta"}
<1> USE LegacyAssumption DEF SnapshotBytes, PayloadBytes, MaxPacketSize, FrameBytes, Overhead, FrameSize
<1>1. CASE \E s \in SnapshotType : p = KeyframeOf(s)
    <2>1. p.type = "keyframe" /\ PayloadSize(p) = SnapshotBytes
        BY <1>1 DEF KeyframeOf, PayloadSize
    <2> QED
        BY <2>1
<1>2. CASE \E s \in SnapshotType, base \in SnapshotType : p = DeltaOf(s, base)
    <2>1. PICK s \in SnapshotType, base \in SnapshotType : p = DeltaOf(s, base)
        BY <1>2
    <2>2. p.type = "delta" /\ PayloadSize(p) = DeltaBytes(p)
        BY <2>1 DEF DeltaOf, PayloadSize
    <2>3. DeltaBytes(p) \in Nat /\ DeltaBytes(p) <= 9 * MaxTasks + 8
        BY <2>1, DeltaFits
    <2> QED
        BY <2>2, <2>3
<1> QED
    BY <1>1, <1>2 DEF PayloadType

-----------------------------------------------------------------------------
(* Types. *)

LEMMA CapturedTyped ==
    ASSUME current \in SnapshotType, NEW s \in Systems
    PROVE  Captured(s) \in SnapshotType
<1>1. s.tasks \in Seq(Tasks) /\ Len(s.tasks) \in 0..MaxTasks
    BY LegacyAssumption
<1>2. \A i \in Slots : i < Len(s.tasks) => s.tasks[i + 1] \in Tasks
    <2> SUFFICES ASSUME NEW i \in Slots, i < Len(s.tasks) PROVE s.tasks[i + 1] \in Tasks
        OBVIOUS
    <2>1. i + 1 \in 1..Len(s.tasks)
        BY <1>1, LegacyAssumption DEF Slots
    <2> QED
        BY <1>1, <2>1
<1>3. \A i \in Slots : current.tasks[i] \in Tasks \cup {ZeroTask}
    BY DEF SnapshotType
<1> QED
    BY <1>1, <1>2, <1>3 DEF Captured, SnapshotType

(* What encoder_encode does: every payload fits, and the baseline moves.    *)
LEMMA EncodeMakes ==
    ASSUME TypeInv, Encode
    PROVE  /\ payload' = IF loopCount % KeyframeInterval = 0 \/ ~encoderUp
                         THEN KeyframeOf(current) ELSE DeltaOf(current, last)
           /\ payload' \in PayloadType
           /\ last' = current
<1> DEFINE p == IF loopCount % KeyframeInterval = 0 \/ ~encoderUp
                THEN KeyframeOf(current) ELSE DeltaOf(current, last)
<1>1. p \in PayloadType
    BY DEF PayloadType, TypeInv, TaskTyped
<1> HIDE DEF p
<1>2. ~(PayloadSize(p) > PayloadBytes)
    BY <1>1, PayloadFits DEF PayloadBytes
<1>3. payload' = p /\ last' = current
    BY <1>2 DEF Encode, p
<1> QED
    BY <1>1, <1>3 DEF p

(* What frame_packet does: it makes a frame of every payload. *)
LEMMA FrameMakes ==
    ASSUME TypeInv, Frame
    PROVE  /\ pc = "frame" /\ pc' = "send" /\ payload \in PayloadType
           /\ framed' = [number |-> made + 1, seq |-> seq, payload |-> payload, of |-> current]
           /\ framed' \in FrameType /\ framed' # NoFrame
           /\ seq' = NextSeq(seq) /\ made' = made + 1
           /\ dma' = [dma EXCEPT !.over = IF dma.active THEN Append(@, framed') ELSE @]
           /\ UNCHANGED <<loopCount, current, last, encoderUp, payload, drops, profiler, crash,
                          hostVars, lost, outage>>
<1>1. pc = "frame" /\ pc' = "send" /\ payload \in PayloadType
    BY DEF TypeInv, TaskTyped, Frame, Goto
<1>2. ~(FrameSize(payload) > MaxPacketSize \/ FrameSize(payload) > FrameBytes)
    <2>1. FrameSize(payload) <= MaxPacketSize /\ FrameSize(payload) <= FrameBytes
          /\ FrameSize(payload) \in Int
        BY <1>1, PayloadFits DEF FrameSize, Overhead
    <2> QED
        BY <2>1 DEF MaxPacketSize, FrameBytes
<1>3. /\ framed' = [number |-> made + 1, seq |-> seq, payload |-> payload, of |-> current]
      /\ seq' = NextSeq(seq) /\ made' = made + 1
      /\ dma' = [dma EXCEPT !.over = IF dma.active THEN Append(@, framed') ELSE @]
      /\ UNCHANGED <<loopCount, current, last, encoderUp, payload, drops, profiler, crash,
                     hostVars, lost, outage>>
    BY <1>2 DEF Frame
<1>4. framed' \in FrameType
    BY <1>1, <1>3 DEF FrameType, TypeInv, TaskTyped
<1>5. framed' # NoFrame
    <2>1. framed'.number = made + 1 /\ NoFrame.number = 0 /\ made \in Nat
        BY <1>3 DEF NoFrame, TypeInv, TaskTyped
    <2> QED
        BY <2>1
<1> QED
    BY <1>1, <1>3, <1>4, <1>5

(* What a transfer that ends delivers is a frame. *)
LEMMA TransferDelivers ==
    ASSUME TypeInv, Transfer
    PROVE  /\ dma' = Idle
           /\ UNCHANGED <<agentVars, crash>>
           /\ \/ \E f \in Transferred : f \in FrameType /\ f # NoFrame /\ Deliver(f)
              \/ lost' = TRUE /\ UNCHANGED <<hostVars, outage>>
<1>1. \A i \in DOMAIN dma.over : dma.over[i] \in FrameType /\ dma.over[i] # NoFrame
    BY DEF TypeInv, WireTyped
<1>2. dma.sent \in FrameType /\ dma.sent # NoFrame
    BY DEF TypeInv, WireTyped, Transfer
<1> QED
    BY <1>1, <1>2 DEF Transfer, Transferred

LEMMA DeliverTyped ==
    ASSUME TypeInv, NEW f \in FrameType, Deliver(f)
    PROVE  HostTyped'
<1>1. DOMAIN Applied(f.payload, reader.has) = {"tasks", "count", "memory"}
    <2>1. CASE \E s \in SnapshotType : f.payload = KeyframeOf(s)
        BY <2>1 DEF KeyframeOf, SnapshotType, Applied
    <2>2. CASE \E s, base \in SnapshotType : f.payload = DeltaOf(s, base)
        <3>1. f.payload.type = "delta"
            BY <2>2 DEF DeltaOf
        <3> QED
            BY <3>1 DEF Applied, TypeInv, HostTyped
    <2>3. CASE f.payload = NoPayload
        BY <2>3 DEF NoPayload, Applied, TypeInv, HostTyped
    <2> QED
        BY <2>1, <2>2, <2>3 DEF FrameType, PayloadType
<1>2. reader'.has = Applied(f.payload, reader.has) /\ reader'.of = f.of /\ reader'.number = f.number
    BY DEF Deliver
<1>3. f.of \in SnapshotType /\ f.number \in Nat
    BY DEF FrameType
<1>4. gaps' \in Nat
    BY DEF Deliver, TypeInv, HostTyped
<1>5. trusted' \in BOOLEAN /\ lost' \in BOOLEAN /\ outage' \in BOOLEAN
    BY DEF Deliver, TypeInv, HostTyped
<1> QED
    BY <1>1, <1>2, <1>3, <1>4, <1>5 DEF HostTyped

LEMMA InitTyped == Init => TypeInv
<1> SUFFICES ASSUME Init PROVE TypeInv
    OBVIOUS
<1>1. TaskTyped
    <2>1. MaxCycles \in Nat
        BY LegacyAssumption
    <2>2. pc = "init" /\ loopCount = 0 /\ seq = 0 /\ made = 0 /\ drops = 0
          /\ current = ZeroSnapshot /\ last = ZeroSnapshot
        BY DEF Init
    <2>3. encoderUp \in BOOLEAN
        BY DEF Init
    <2> QED
        BY <2>1, <2>2, <2>3, ZeroTyped DEF TaskTyped
<1>2. WireTyped
    BY NoFrameTyped DEF Init, WireTyped, Idle
<1>3. HostTyped
    BY ZeroTyped DEF Init, HostTyped, NoReader, ZeroSnapshot
<1> QED
    BY <1>1, <1>2, <1>3 DEF TypeInv

(* Every step but a report keeps the types. The bound on the iterations     *)
(* that Send needs is in ProfilerInv.                                       *)
LEMMA StepTyped == TypeInv /\ ProfilerInv /\ [Next]_vars => TypeInv'
<1> SUFFICES ASSUME TypeInv, ProfilerInv, [Next]_vars PROVE TypeInv'
    OBVIOUS
<1> USE DEF TypeInv
<1>1. CASE InitModules
    <2>1. /\ pc' = "capture" /\ last' = ZeroSnapshot /\ encoderUp' = TRUE
          /\ UNCHANGED <<loopCount, current, seq, made, drops>>
        BY <1>1 DEF InitModules, Goto
    <2>2. TaskTyped'
        BY <2>1, ZeroTyped DEF TaskTyped
    <2>3. WireTyped'
        BY <1>1 DEF InitModules, WireTyped
    <2>4. HostTyped'
        BY <1>1 DEF InitModules, HostTyped, hostVars
    <2> QED
        BY <2>2, <2>3, <2>4
<1>2. CASE Capture
    <2>1. pc' = "encode" /\ UNCHANGED <<loopCount, last, encoderUp, seq, made, drops>>
        BY <1>2 DEF Capture, Goto
    <2>2. current' \in SnapshotType
        BY <1>2, CapturedTyped DEF Capture, TaskTyped
    <2>3. TaskTyped'
        BY <2>1, <2>2 DEF TaskTyped
    <2>4. WireTyped'
        BY <1>2 DEF Capture, WireTyped
    <2>5. HostTyped'
        BY <1>2 DEF Capture, HostTyped, hostVars
    <2> QED
        BY <2>3, <2>4, <2>5
<1>3. CASE Encode
    <2>1. pc' = "frame" /\ UNCHANGED <<loopCount, current, encoderUp, seq, made, drops>>
        BY <1>3 DEF Encode, Goto
    <2>2. payload' \in PayloadType /\ last' = current
        BY <1>3, EncodeMakes
    <2>3. TaskTyped'
        BY <2>1, <2>2 DEF TaskTyped
    <2>4. WireTyped'
        BY <1>3 DEF Encode, WireTyped
    <2>5. HostTyped'
        BY <1>3 DEF Encode, HostTyped, hostVars
    <2> QED
        BY <2>3, <2>4, <2>5
<1>4. CASE Frame
    <2>1. /\ pc' = "send" /\ seq' = NextSeq(seq) /\ made' = made + 1
          /\ UNCHANGED <<loopCount, current, last, encoderUp, drops>>
          /\ framed' \in FrameType /\ framed' # NoFrame
          /\ dma' = [dma EXCEPT !.over = IF dma.active THEN Append(@, framed') ELSE @]
        BY <1>4, FrameMakes
    <2>2. seq' \in Nat
        <3>1. seq + 1 \in Int /\ SeqMod \in Nat \ {0}
            BY LegacyAssumption DEF TaskTyped
        <3>2. (seq + 1) % SeqMod \in 0..(SeqMod - 1)
            BY <3>1, ModRange
        <3> QED
            BY <2>1, <3>1, <3>2 DEF NextSeq
    <2>3. TaskTyped'
        BY <2>1, <2>2 DEF TaskTyped
    <2>4. dma.active' = dma.active /\ dma.sent' = dma.sent
        BY <2>1 DEF WireTyped
    <2>5. dma' \in [active : BOOLEAN, sent : FrameType, over : Seq(FrameType \ {NoFrame})]
        <3> DEFINE F == FrameType \ {NoFrame}
        <3>1. framed' \in F
            BY <2>1
        <3>2. dma.over \in Seq(F) /\ dma.active \in BOOLEAN /\ dma.sent \in FrameType
            BY DEF WireTyped
        <3>3. dma \in [active : BOOLEAN, sent : FrameType, over : Seq(F)]
            BY DEF WireTyped
        <3> HIDE DEF F
        <3>4. Append(dma.over, framed') \in Seq(F)
            BY <3>1, <3>2
        <3>5. dma' \in [active : BOOLEAN, sent : FrameType, over : Seq(F)]
            BY <2>1, <3>2, <3>3, <3>4
        <3> QED
            BY <3>5 DEF F
    <2>6. WireTyped'
        BY <2>1, <2>4, <2>5 DEF WireTyped
    <2>7. HostTyped'
        BY <1>4, FrameMakes DEF HostTyped, hostVars
    <2> QED
        BY <2>3, <2>6, <2>7
<1>5. CASE Send
    <2>1. /\ pc' = "capture" /\ loopCount' = loopCount + 1 /\ drops' \in {drops, drops + 1}
          /\ UNCHANGED <<current, last, encoderUp, seq, made, framed>>
        BY <1>5 DEF Send, Goto
    <2>2. loopCount < MaxCycles
        BY <1>5 DEF Send, Goto, ProfilerInv
    <2>3. loopCount' \in 0..MaxCycles
        BY <2>1, <2>2, LegacyAssumption DEF TaskTyped
    <2>4. TaskTyped'
        BY <2>1, <2>3 DEF TaskTyped
    <2>5. \/ dma' = dma
          \/ framed # NoFrame /\ dma' = [Idle EXCEPT !.active = TRUE, !.sent = framed]
        BY <1>5 DEF Send, SendDma
    <2>6. WireTyped'
        <3>1. CASE dma' = dma
            BY <2>1, <3>1 DEF WireTyped
        <3>2. CASE framed # NoFrame /\ dma' = [Idle EXCEPT !.active = TRUE, !.sent = framed]
            <4>1. dma' = [active |-> TRUE, sent |-> framed, over |-> <<>>]
                BY <3>2 DEF Idle
            <4>2. framed \in FrameType /\ framed' \in FrameType
                BY <2>1 DEF WireTyped
            <4>3. dma' \in [active : BOOLEAN, sent : FrameType, over : Seq(FrameType \ {NoFrame})]
                BY <4>1, <4>2
            <4>4. dma'.sent # NoFrame
                BY <3>2, <4>1
            <4> QED
                BY <4>2, <4>3, <4>4 DEF WireTyped
        <3> QED
            BY <2>5, <3>1, <3>2
    <2>7. lost' \in BOOLEAN
        BY <1>5 DEF Send, HostTyped
    <2>8. UNCHANGED <<reader, gaps, trusted, outage>>
        BY <1>5 DEF Send, hostVars
    <2> QED
        BY <2>4, <2>6, <2>7, <2>8 DEF HostTyped
<1>6. CASE StackOverflow
    BY <1>6 DEF StackOverflow, agentVars, profiler, hostVars, TaskTyped, WireTyped, HostTyped
<1>7. CASE Transfer
    <2>1. dma' = Idle /\ UNCHANGED <<agentVars, crash>>
        BY <1>7, TransferDelivers
    <2>2. TaskTyped'
        BY <2>1 DEF TaskTyped, agentVars, profiler
    <2>3. WireTyped'
        BY <2>1, NoFrameTyped DEF WireTyped, Idle, agentVars, profiler
    <2>4. HostTyped'
        <3>1. CASE \E f \in Transferred : f \in FrameType /\ f # NoFrame /\ Deliver(f)
            BY <3>1, DeliverTyped
        <3>2. CASE lost' = TRUE /\ UNCHANGED <<hostVars, outage>>
            BY <3>2 DEF HostTyped, hostVars
        <3> QED
            BY <1>7, <3>1, <3>2, TransferDelivers
    <2> QED
        BY <2>2, <2>3, <2>4
<1>8. CASE UNCHANGED vars
    BY <1>8 DEF vars, agentVars, profiler, hostVars, TaskTyped, WireTyped, HostTyped
<1> QED
    BY <1>1, <1>2, <1>3, <1>4, <1>5, <1>6, <1>7, <1>8 DEF Next, TelemetryTask

-----------------------------------------------------------------------------
(* The profiler. *)

LEMMA InitProfiler == Init => ProfilerInv
<1> SUFFICES ASSUME Init PROVE ProfilerInv
    OBVIOUS
<1>1. ReportInterval \in Nat \ {0}
    BY LegacyAssumption
<1>2. pc = "init" /\ loopCount = 0 /\ snapStats = NoStats
    BY DEF Init
<1>3. loopCount + (IF pc \in {"encode", "frame", "send"} THEN 1 ELSE 0) = 0
    BY <1>2
<1>4. snapStats = [NoStats EXCEPT !.call_count = 0]
    BY <1>2 DEF NoStats
<1>5. ~(loopCount >= ReportInterval) /\ pc \notin {"encode", "frame", "send"}
    BY <1>1, <1>2
<1> QED
    BY <1>3, <1>4, <1>5 DEF ProfilerInv

LEMMA StepProfiler == TypeInv /\ ProfilerInv /\ [Next]_vars => ProfilerInv'
<1> SUFFICES ASSUME TypeInv, ProfilerInv, [Next]_vars PROVE ProfilerInv'
    OBVIOUS
<1> DEFINE Taken == loopCount + IF pc \in {"encode", "frame", "send"} THEN 1 ELSE 0
           Counts(n) == [min_cycles |-> 0, max_cycles |-> 0, call_count |-> n, total_cycles |-> 0]
<1>1. loopCount \in Nat
    BY DEF TypeInv, TaskTyped
<1>2. snapStats = Counts(Taken)
    BY DEF ProfilerInv, NoStats
<1>3. ASSUME snapStats' = Counts(Taken'),
             pc' \in {"encode", "frame", "send"} => loopCount' < MaxCycles,
             loopCount' >= ReportInterval =>
                printed' = <<0, 0, 0, loopCount' - (loopCount' % ReportInterval)>>
      PROVE  ProfilerInv'
    BY <1>3 DEF ProfilerInv, NoStats
<1> HIDE DEF Counts
<1>4. CASE UNCHANGED <<snapStats, printed, loopCount>>
           /\ (pc' \in {"encode", "frame", "send"} <=> pc \in {"encode", "frame", "send"})
    <2>1. Taken' = Taken
        BY <1>4
    <2>2. snapStats' = Counts(Taken')
        BY <1>2, <1>4, <2>1
    <2> QED
        BY <1>3, <1>4, <2>2 DEF ProfilerInv
<1>5. CASE Capture
    <2>1. /\ pc = "capture" /\ pc' = "encode" /\ loopCount < MaxCycles
          /\ snapStats' = ProfilerRecord(snapStats, ProfilerStop(ProfilerStart))
          /\ UNCHANGED <<loopCount, printed>>
        BY <1>5 DEF Capture, Goto
    <2>2. ProfilerStop(ProfilerStart) = 0
        <3>1. Cyccnt - Cyccnt = 0 /\ CycleMod \in Nat \ {0} /\ 0 \in 0..(CycleMod - 1)
            BY LegacyAssumption
        <3>2. 0 % CycleMod = 0
            BY <3>1, ModSmall
        <3> QED
            BY <3>1, <3>2 DEF ProfilerStop, ProfilerStart, DwtCycles
    <2>3. Taken = loopCount /\ Taken' = loopCount + 1
        BY <1>1, <2>1
    <2>4. ProfilerRecord(Counts(loopCount), 0) = Counts(loopCount + 1)
        BY <1>1 DEF ProfilerRecord, Counts
    <2>5. snapStats' = Counts(Taken')
        BY <1>2, <2>1, <2>2, <2>3, <2>4
    <2> QED
        BY <1>3, <2>1, <2>5 DEF ProfilerInv
<1>6. CASE Send
    <2>1. /\ pc = "send" /\ pc' = "capture" /\ loopCount' = loopCount + 1 /\ snapStats' = snapStats
          /\ printed' = IF loopCount' % ReportInterval = 0 THEN ProfilerReport(snapStats)
                        ELSE printed
        BY <1>6 DEF Send, Goto
    <2>2. Taken = loopCount + 1 /\ Taken' = loopCount + 1
        BY <1>1, <2>1
    <2>3. snapStats' = Counts(Taken')
        BY <1>2, <2>1, <2>2
    <2>4. loopCount' >= ReportInterval =>
             printed' = <<0, 0, 0, loopCount' - (loopCount' % ReportInterval)>>
        <3> SUFFICES ASSUME loopCount' >= ReportInterval
                     PROVE  printed' = <<0, 0, 0, loopCount' - (loopCount' % ReportInterval)>>
            OBVIOUS
        <3>1. ReportInterval \in Nat \ {0}
            BY LegacyAssumption
        <3>2. CASE (loopCount + 1) % ReportInterval = 0
            <4>1. printed' = ProfilerReport(Counts(loopCount + 1))
                BY <1>2, <2>1, <2>2, <3>2
            <4>2. loopCount + 1 # 0 /\ 0 \div (loopCount + 1) = 0
                BY <1>1
            <4>3. ProfilerReport(Counts(loopCount + 1)) = <<0, 0, 0, loopCount + 1>>
                BY <4>2 DEF ProfilerReport, Counts
            <4> QED
                BY <1>1, <2>1, <3>2, <4>1, <4>3
        <3>3. CASE (loopCount + 1) % ReportInterval # 0
            <4>1. (loopCount + 1) % ReportInterval = (loopCount % ReportInterval) + 1
                BY <1>1, <3>1, <3>3, ModNext
            <4>2. loopCount + 1 # ReportInterval
                BY <3>1, <3>3
            <4>3. loopCount >= ReportInterval
                BY <1>1, <2>1, <3>1, <4>2
            <4>4. printed' = <<0, 0, 0, loopCount - (loopCount % ReportInterval)>>
                BY <2>1, <3>3, <4>3 DEF ProfilerInv
            <4>5. loopCount % ReportInterval \in Int
                BY <1>1, <3>1, ModRange
            <4> QED
                BY <1>1, <2>1, <4>1, <4>4, <4>5
        <3> QED
            BY <3>2, <3>3
    <2> QED
        BY <1>3, <2>1, <2>3, <2>4
<1>7. CASE InitModules
    BY <1>4, <1>7 DEF InitModules, Goto, profiler
<1>8. CASE Encode
    BY <1>4, <1>8 DEF Encode, Goto, profiler
<1>9. CASE Frame
    BY <1>4, <1>9 DEF Frame, Goto, profiler
<1>10. CASE StackOverflow
    BY <1>4, <1>10 DEF StackOverflow, agentVars, profiler
<1>11. CASE Transfer
    BY <1>4, <1>11 DEF Transfer, agentVars, profiler
<1>12. CASE UNCHANGED vars
    BY <1>4, <1>12 DEF vars, agentVars, profiler
<1> QED
    BY <1>5, <1>6, <1>7, <1>8, <1>9, <1>10, <1>11, <1>12 DEF Next, TelemetryTask

-----------------------------------------------------------------------------
(* The frames there are. *)

LEMMA FrameFrames ==
    ASSUME TypeInv, Frame
    PROVE  /\ Transferred' \subseteq Transferred \cup {framed'}
           /\ Frames' \subseteq Frames \cup {framed'}
<1>1. dma' = [dma EXCEPT !.over = IF dma.active THEN Append(@, framed') ELSE @]
    BY FrameMakes
<1>2. dma'.sent = dma.sent /\ dma'.over \in {dma.over, Append(dma.over, framed')}
    BY <1>1 DEF TypeInv, WireTyped
<1>3. dma.over \in Seq(FrameType \ {NoFrame})
    BY DEF TypeInv, WireTyped
<1>4. {dma'.over[i] : i \in DOMAIN dma'.over}
          \subseteq {dma.over[i] : i \in DOMAIN dma.over} \cup {framed'}
    BY <1>2, <1>3
<1>5. Transferred' \subseteq Transferred \cup {framed'}
    BY <1>2, <1>4 DEF Transferred
<1> QED
    BY <1>5 DEF Frames

LEMMA OtherFrames ==
    ASSUME TypeInv, [Next]_vars, ~Frame
    PROVE  /\ UNCHANGED <<framed, seq, made>>
           /\ \/ Transferred' \subseteq Transferred
              \/ pc = "send" /\ framed # NoFrame /\ Transferred' = {framed}
           /\ Frames' \subseteq Frames
<1>1. UNCHANGED <<framed, seq, made>>
    BY DEF Next, TelemetryTask, InitModules, Capture, Encode, Send, StackOverflow, Transfer,
           agentVars, vars
<1>2. CASE UNCHANGED dma
    BY <1>1, <1>2 DEF Transferred, Frames
<1>3. CASE Send /\ dma' # dma
    <2>1. pc = "send" /\ framed # NoFrame /\ dma' = [Idle EXCEPT !.active = TRUE, !.sent = framed]
        BY <1>3 DEF Send, SendDma, Goto
    <2>2. dma'.sent = framed /\ dma'.over = <<>>
        BY <2>1 DEF Idle
    <2>3. Transferred' = {framed}
        BY <2>1, <2>2 DEF Transferred
    <2> QED
        BY <1>1, <2>1, <2>3 DEF Frames
<1>4. CASE Transfer
    <2>1. dma'.sent = NoFrame /\ dma'.over = <<>>
        BY <1>4 DEF Transfer, Idle
    <2>2. Transferred' = {}
        BY <2>1 DEF Transferred
    <2> QED
        BY <1>1, <2>2 DEF Frames
<1> QED
    BY <1>2, <1>3, <1>4 DEF Next, TelemetryTask, InitModules, Capture, Encode, StackOverflow, vars

LEMMA FramesTyped ==
    ASSUME TypeInv
    PROVE  Transferred \subseteq Frames /\ Frames \subseteq FrameType \ {NoFrame}
BY DEF TypeInv, WireTyped, Transferred, Frames

-----------------------------------------------------------------------------
(* The numbers. *)

LEMMA InitNumbers == Init => NumberInv
<1> SUFFICES ASSUME Init PROVE NumberInv
    OBVIOUS
<1>1. SeqMod \in Nat \ {0} /\ 0 \in 0..(SeqMod - 1)
    BY LegacyAssumption
<1>2. 0 % SeqMod = 0
    BY <1>1, ModSmall
<1>3. dma.sent = NoFrame /\ dma.over = <<>> /\ framed = NoFrame
    BY DEF Init, Idle
<1>4. Transferred = {} /\ Frames = {}
    BY <1>3 DEF Transferred, Frames
<1>5. pc = "init" /\ seq = 0 /\ made = 0 /\ drops = 0 /\ lastSeq = -1 /\ reader.number = 0
    BY DEF Init, NoReader
<1>6. ~trusted
    BY DEF Init
<1> QED
    BY <1>2, <1>4, <1>5, <1>6 DEF NumberInv

(* What a delivery does to the numbers. *)
LEMMA DeliverNumbers ==
    ASSUME TypeInv, NumberInv, NEW f \in Transferred, Deliver(f)
    PROVE  /\ reader'.number = f.number /\ f.number \in 1..made
           /\ lastSeq' = (f.number - 1) % SeqMod
           /\ lastSeq' = f.seq
BY FramesTyped DEF NumberInv, Deliver

LEMMA StepNumbers == TypeInv /\ NumberInv /\ [Next]_vars => NumberInv'
<1> SUFFICES ASSUME TypeInv, NumberInv, [Next]_vars PROVE NumberInv'
    OBVIOUS
<1> USE DEF NumberInv
<1>1. made \in Nat /\ drops \in Nat /\ SeqMod \in Nat \ {0}
    BY LegacyAssumption DEF TypeInv, TaskTyped
<1>2. CASE Frame
    <2>1. /\ pc = "frame" /\ pc' = "send" /\ made' = made + 1 /\ seq' = NextSeq(seq)
          /\ framed' = [number |-> made + 1, seq |-> seq, payload |-> payload, of |-> current]
          /\ UNCHANGED <<drops, lastSeq, reader, trusted>>
        BY <1>2, FrameMakes DEF hostVars
    <2>2. Transferred' \subseteq Transferred \cup {framed'} /\ Frames' \subseteq Frames \cup {framed'}
        BY <1>2, FrameFrames
    <2>3. seq' = made' % SeqMod
        BY <1>1, <2>1, ModSuccessor DEF NextSeq
    <2>4. framed'.number = made + 1 /\ framed'.seq = made % SeqMod
        BY <2>1
    <2>5. \A f \in Frames' : f.number \in 1..made' /\ f.seq = (f.number - 1) % SeqMod
        <3>1. ASSUME NEW f \in Frames
              PROVE  f.number \in 1..made' /\ f.seq = (f.number - 1) % SeqMod
            BY <1>1, <2>1
        <3>2. framed'.number \in 1..made' /\ framed'.seq = (framed'.number - 1) % SeqMod
            <4>1. framed'.number \in 1..made' /\ framed'.number - 1 = made
                BY <1>1, <2>1, <2>4
            <4> QED
                BY <2>4, <4>1
        <3> QED
            BY <2>2, <3>1, <3>2
    <2>6. \A f \in Transferred' : reader'.number <= f.number
        BY <1>1, <2>1, <2>2, <2>4
    <2>7. drops' <= made' - 1
        BY <1>1, <2>1
    <2>8. reader'.number \in 0..made'
        BY <1>1, <2>1
    <2> QED
        BY <2>1, <2>3, <2>4, <2>5, <2>6, <2>7, <2>8
<1>3. CASE ~Frame
    <2>1. /\ UNCHANGED <<framed, seq, made>> /\ Frames' \subseteq Frames
          /\ \/ Transferred' \subseteq Transferred
             \/ pc = "send" /\ framed # NoFrame /\ Transferred' = {framed}
        BY <1>3, OtherFrames
    <2>2. pc' = "send" => pc = "send"
        <3>1. InitModules \/ Capture \/ Encode \/ Send => pc' \in {"capture", "encode", "frame"}
            BY DEF InitModules, Capture, Encode, Send, Goto
        <3>2. StackOverflow \/ Transfer \/ UNCHANGED vars => pc' = pc
            BY DEF StackOverflow, Transfer, agentVars, vars
        <3> QED
            BY <1>3, <3>1, <3>2 DEF Next, TelemetryTask
    <2>3. IF pc' = "send" THEN drops' <= made' - 1 ELSE drops' <= made'
        <3>1. CASE UNCHANGED <<drops, pc>> \/ (UNCHANGED drops /\ pc # "send" /\ pc' # "send")
            BY <1>1, <2>1, <3>1
        <3>2. CASE Send
            <4>1. pc = "send" /\ pc' # "send" /\ drops' \in {drops, drops + 1}
                BY <3>2 DEF Send, Goto
            <4> QED
                BY <1>1, <2>1, <4>1
        <3> QED
            BY <1>3, <3>1, <3>2 DEF Next, TelemetryTask, InitModules, Capture, Encode, StackOverflow,
                                    Transfer, Goto, agentVars, vars
    <2>4. drops' <= IF pc' = "send" THEN made' - 1 ELSE made'
        BY <2>3
    <2>5. seq' = made' % SeqMod /\ (pc' = "send" => framed'.number = made')
        BY <2>1, <2>2
    <2>6. \A f \in Frames' : f.number \in 1..made' /\ f.seq = (f.number - 1) % SeqMod
        BY <2>1
    <2>7. CASE UNCHANGED <<lastSeq, reader, trusted>>
        <3>1. \A f \in Transferred' : reader'.number <= f.number
            BY <1>1, <2>1, <2>7
        <3>2. /\ reader'.number \in 0..made'
              /\ lastSeq' = IF reader'.number = 0 THEN -1 ELSE (reader'.number - 1) % SeqMod
              /\ trusted' => reader'.number > 0
            BY <2>1, <2>7
        <3> QED
            BY <2>4, <2>5, <2>6, <3>1, <3>2
    <2>8. CASE Transfer
        <3>1. PICK f \in Transferred : Deliver(f) \/ UNCHANGED <<lastSeq, reader, trusted>>
            BY <2>8, TransferDelivers, FramesTyped DEF hostVars, Transferred, Transfer, TypeInv, WireTyped
        <3>2. CASE Deliver(f)
            <4>1. /\ reader'.number = f.number /\ f.number \in 1..made
                  /\ lastSeq' = (f.number - 1) % SeqMod
                BY <3>2, DeliverNumbers
            <4>2. Transferred' = {}
                BY <2>8 DEF Transfer, Transferred, Idle
            <4> QED
                BY <2>1, <2>4, <2>5, <2>6, <4>1, <4>2
        <3> QED
            BY <2>7, <3>1, <3>2
    <2>9. UNCHANGED <<lastSeq, reader, trusted>> \/ Transfer
        BY <1>3 DEF Next, TelemetryTask, InitModules, Capture, Encode, Send, StackOverflow, hostVars, vars
    <2> QED
        BY <2>7, <2>8, <2>9
<1> QED
    BY <1>2, <1>3

-----------------------------------------------------------------------------
(* What the frames carry. *)

LEMMA InitCarries == Init => CarryInv
<1> SUFFICES ASSUME Init PROVE CarryInv
    OBVIOUS
<1>1. dma.sent = NoFrame /\ dma.over = <<>> /\ framed = NoFrame
    BY DEF Init, Idle
<1>2. Transferred = {} /\ Frames = {}
    BY <1>1 DEF Transferred, Frames
<1>3. pc = "init" /\ current = ZeroSnapshot /\ last = ZeroSnapshot /\ reader.of = ZeroSnapshot
    BY DEF Init, NoReader
<1> QED
    BY <1>2, <1>3 DEF CarryInv

(* The parts of CarryInv about frames, of a step that makes none. *)
LEMMA OldCarries ==
    ASSUME TypeInv, NumberInv, CarryInv, [Next]_vars, ~Frame
    PROVE  /\ \A q \in Frames' \cup {reader'} :
                 \E r \in Frames \cup {reader} : q.number = r.number /\ q.of = r.of
           /\ \A p \in Frames' : p.payload.type = "keyframe" => p.payload = KeyframeOf(p.of)
           /\ \A p \in Frames', q \in Frames' \cup {reader'} :
                 /\ p.number = q.number => p.of = q.of
                 /\ p.number = q.number + 1 => Carries(p.payload, p.of, q.of)
<1>1. Frames' \subseteq Frames /\ Transferred \subseteq Frames
    BY OtherFrames, FramesTyped
<1>2. \E r \in Frames \cup {reader} : reader'.number = r.number /\ reader'.of = r.of
    <2>1. CASE reader' = reader
        BY <2>1
    <2>2. CASE \E f \in Transferred : Deliver(f)
        BY <1>1, <2>2 DEF Deliver
    <2>3. CASE Transfer
        BY <2>1, <2>2, <2>3, TransferDelivers DEF hostVars
    <2> QED
        BY <2>1, <2>3 DEF Next, TelemetryTask, InitModules, Capture, Encode, Send, StackOverflow,
                          hostVars, vars
<1>3. \A q \in Frames' \cup {reader'} :
         \E r \in Frames \cup {reader} : q.number = r.number /\ q.of = r.of
    BY <1>1, <1>2
<1>4. \A p \in Frames' : p.payload.type = "keyframe" => p.payload = KeyframeOf(p.of)
    BY <1>1 DEF CarryInv
<1>5. ASSUME NEW p \in Frames', NEW q \in Frames' \cup {reader'}
      PROVE  /\ p.number = q.number => p.of = q.of
             /\ p.number = q.number + 1 => Carries(p.payload, p.of, q.of)
    <2>1. p \in Frames
        BY <1>1
    <2>2. PICK r \in Frames \cup {reader} : q.number = r.number /\ q.of = r.of
        BY <1>3
    <2>3. /\ p.number = r.number => p.of = r.of
          /\ p.number = r.number + 1 => Carries(p.payload, p.of, r.of)
        BY <2>1 DEF CarryInv
    <2> QED
        BY <2>2, <2>3
<1> QED
    BY <1>3, <1>4, <1>5

LEMMA StepCarries == TypeInv /\ NumberInv /\ CarryInv /\ [Next]_vars => CarryInv'
<1> SUFFICES ASSUME TypeInv, NumberInv, CarryInv, [Next]_vars PROVE CarryInv'
    OBVIOUS
<1>1. CASE Frame
    <2>1. /\ pc = "frame" /\ pc' = "send" /\ made' = made + 1
          /\ framed' = [number |-> made + 1, seq |-> seq, payload |-> payload, of |-> current]
          /\ UNCHANGED <<current, last, payload, reader>>
        BY <1>1, FrameMakes DEF hostVars
    <2>2. Frames' \subseteq Frames \cup {framed'}
        BY <1>1, FrameFrames
    <2>3. framed'.number = made + 1 /\ framed'.of = current /\ framed'.payload = payload
        BY <2>1
    <2>4. made \in Nat /\ \A q \in Frames \cup {reader} : q.number \in 0..made
        BY DEF TypeInv, TaskTyped, NumberInv
    <2>5. current = last
        BY <2>1 DEF CarryInv
    <2>6. \A q \in Frames' \cup {reader'} : q.number = made' => q.of = last'
        <3> SUFFICES ASSUME NEW q \in Frames' \cup {reader'}, q.number = made' PROVE q.of = last'
            OBVIOUS
        <3>1. q \in Frames \cup {reader} \/ q = framed'
            BY <2>1, <2>2
        <3>2. q \notin Frames \cup {reader}
            BY <2>1, <2>4
        <3> QED
            BY <2>1, <2>3, <2>5, <3>1, <3>2
    <2>7. \A p \in Frames' : p.payload.type = "keyframe" => p.payload = KeyframeOf(p.of)
        BY <2>1, <2>2, <2>3 DEF CarryInv
    <2>8. ASSUME NEW p \in Frames', NEW q \in Frames' \cup {reader'}
          PROVE  /\ p.number = q.number => p.of = q.of
                 /\ p.number = q.number + 1 => Carries(p.payload, p.of, q.of)
        <3>1. p \in Frames \/ p = framed'
            BY <2>2
        <3>2. q \in Frames \cup {reader} \/ q = framed'
            BY <2>1, <2>2
        <3>3. CASE p \in Frames /\ q \in Frames \cup {reader}
            BY <3>3 DEF CarryInv
        <3>4. CASE p = framed' /\ q \in Frames \cup {reader}
            <4>1. p.number # q.number
                BY <2>3, <2>4, <3>4
            <4>2. ASSUME p.number = q.number + 1 PROVE Carries(p.payload, p.of, q.of)
                <5>1. q.number = made
                    BY <2>3, <2>4, <3>4, <4>2
                <5>2. Carries(payload, current, q.of)
                    BY <2>1, <3>4, <5>1 DEF CarryInv
                <5> QED
                    BY <2>3, <3>4, <5>2
            <4> QED
                BY <4>1, <4>2
        <3>5. CASE p \in Frames /\ q = framed'
            BY <2>3, <2>4, <3>5
        <3>6. CASE p = framed' /\ q = framed'
            BY <2>3, <2>4, <3>6
        <3> QED
            BY <3>1, <3>2, <3>3, <3>4, <3>5, <3>6
    <2> QED
        BY <2>1, <2>5, <2>6, <2>7, <2>8 DEF CarryInv
<1>2. CASE ~Frame
    <2> DEFINE Agent ==
           /\ pc # "encode" => current = last
           /\ pc = "init" => last = ZeroSnapshot
           /\ pc = "encode" =>
                 \A i \in current.count..(MaxTasks - 1) : current.tasks[i] = last.tasks[i]
           /\ pc = "frame" /\ payload.type = "keyframe" => payload = KeyframeOf(current)
               Newest(q) == IF pc = "frame" THEN Carries(payload, current, q) ELSE q = last
    <2>1. /\ \A q \in Frames' \cup {reader'} :
                 \E r \in Frames \cup {reader} : q.number = r.number /\ q.of = r.of
          /\ \A p \in Frames' : p.payload.type = "keyframe" => p.payload = KeyframeOf(p.of)
          /\ \A p \in Frames', q \in Frames' \cup {reader'} :
                /\ p.number = q.number => p.of = q.of
                /\ p.number = q.number + 1 => Carries(p.payload, p.of, q.of)
        BY <1>2, OldCarries
    <2>2. Agent /\ \A r \in Frames \cup {reader} : r.number = made => Newest(r.of)
        BY DEF CarryInv
    <2>3. made' = made
        BY <1>2, OtherFrames
    <2>4. ASSUME Agent', \A q : Newest(q) => Newest(q)' PROVE CarryInv'
        <3>1. \A q \in Frames' \cup {reader'} : q.number = made' => Newest(q.of)'
            BY <2>1, <2>2, <2>3, <2>4
        <3> QED
            BY <2>1, <2>4, <3>1 DEF CarryInv
    <2>5. CASE UNCHANGED <<pc, current, last, payload>>
        BY <2>2, <2>4, <2>5 DEF Carries
    <2>6. CASE InitModules
        <3>1. pc = "init" /\ pc' = "capture" /\ last' = ZeroSnapshot /\ current' = current
            BY <2>6 DEF InitModules, Goto
        <3>2. last' = last /\ current' = last'
            BY <2>2, <3>1
        <3> QED
            BY <2>4, <3>1, <3>2
    <2>7. CASE Capture
        <3>1. pc = "capture" /\ pc' = "encode" /\ last' = last
            BY <2>7 DEF Capture, Goto
        <3>2. PICK s \in Systems : current' = Captured(s)
            BY <2>7 DEF Capture
        <3>3. current'.count = Len(s.tasks) /\ Len(s.tasks) \in Nat
              /\ \A i \in Slots : ~(i < Len(s.tasks)) => current'.tasks[i] = current.tasks[i]
            BY <3>2, LegacyAssumption DEF Captured
        <3>4. \A i \in current'.count..(MaxTasks - 1) : current'.tasks[i] = last'.tasks[i]
            BY <2>2, <3>1, <3>3, LegacyAssumption DEF Slots
        <3> QED
            BY <2>4, <3>1, <3>4
    <2>8. CASE Encode
        <3>1. pc = "encode" /\ pc' = "frame" /\ current' = current
            BY <2>8 DEF Encode, Goto
        <3>2. /\ payload' = KeyframeOf(current) \/ payload' = DeltaOf(current, last)
              /\ last' = current
            BY <2>8, EncodeMakes
        <3>3. Carries(payload', current', last)
            BY <2>2, <3>1, <3>2 DEF Carries
        <3>4. payload'.type = "keyframe" => payload' = KeyframeOf(current)
            BY <3>2 DEF DeltaOf
        <3>5. \A q : Newest(q) => Newest(q)'
            BY <3>1, <3>3 DEF Carries
        <3> QED
            BY <2>4, <3>1, <3>2, <3>4, <3>5
    <2>9. CASE Send
        <3>1. pc = "send" /\ pc' = "capture" /\ UNCHANGED <<current, last, payload>>
            BY <2>9 DEF Send, Goto
        <3> QED
            BY <2>2, <2>4, <3>1
    <2>10. StackOverflow \/ Transfer \/ UNCHANGED vars => UNCHANGED <<pc, current, last, payload>>
        BY DEF StackOverflow, Transfer, vars, agentVars
    <2> QED
        BY <1>2, <2>5, <2>6, <2>7, <2>8, <2>9, <2>10 DEF Next, TelemetryTask
<1> QED
    BY <1>1, <1>2

-----------------------------------------------------------------------------
(* What the reader has. *)

Agrees(has, s) ==
    /\ \A f \in TaggedMemory : has.memory[f] = s.memory[f]
    /\ \A i \in Slots, f \in TaggedTask : has.tasks[i][f] = s.tasks[i][f]

LEMMA KeyframeExact ==
    ASSUME NEW s \in SnapshotType, NEW has PROVE Agrees(Applied(KeyframeOf(s), has), s)
BY DEF KeyframeOf, Applied, Agrees

(* A reader that has the tagged fields of the baseline has those of the     *)
(* capture after the delta.                                                 *)
LEMMA DeltaExact ==
    ASSUME NEW s \in SnapshotType, NEW base \in SnapshotType,
           NEW has, DOMAIN has = {"tasks", "count", "memory"}, Agrees(has, base),
           \A i \in s.count..(MaxTasks - 1) : s.tasks[i] = base.tasks[i]
    PROVE  Agrees(Applied(DeltaOf(s, base), has), s)
<1> DEFINE d == DeltaOf(s, base)
           after == Applied(d, has)
<1>1. /\ d.type = "delta"
      /\ d.memory = [f \in {g \in TaggedMemory : s.memory[g] # base.memory[g]} |-> s.memory[f]]
      /\ d.tasks = [p \in {q \in (0..(s.count - 1)) \X TaggedTask :
                              s.tasks[q[1]][q[2]] # base.tasks[q[1]][q[2]]} |->
                       s.tasks[p[1]][p[2]]]
    BY DEF DeltaOf
<1> HIDE DEF d
<1>2. /\ after.memory = [f \in MemoryFields |-> IF f \in DOMAIN d.memory THEN d.memory[f]
                                                ELSE has.memory[f]]
      /\ after.tasks = [i \in Slots |-> [f \in TaskFields |->
                           IF <<i, f>> \in DOMAIN d.tasks THEN d.tasks[<<i, f>>]
                                                         ELSE has.tasks[i][f]]]
    BY <1>1 DEF Applied
<1>3. \A f \in TaggedMemory : after.memory[f] = s.memory[f]
    BY <1>1, <1>2 DEF Agrees, TaggedMemory, MemoryFields
<1>4. ASSUME NEW i \in Slots, NEW f \in TaggedTask
      PROVE  after.tasks[i][f] = s.tasks[i][f]
    <2>1. after.tasks[i][f] = IF <<i, f>> \in DOMAIN d.tasks THEN d.tasks[<<i, f>>]
                                                            ELSE has.tasks[i][f]
        BY <1>2 DEF TaggedTask, TaskFields
    <2>2. CASE <<i, f>> \in DOMAIN d.tasks
        BY <1>1, <2>1, <2>2
    <2>3. CASE <<i, f>> \notin DOMAIN d.tasks
        <3>1. s.tasks[i][f] = base.tasks[i][f]
            <4>1. CASE i \in 0..(s.count - 1)
                BY <1>1, <2>3, <4>1
            <4>2. CASE i \in s.count..(MaxTasks - 1)
                BY <4>2
            <4> QED
                BY <4>1, <4>2, LegacyAssumption DEF Slots, SnapshotType
        <3> QED
            BY <2>1, <2>3, <3>1 DEF Agrees
    <2> QED
        BY <2>2, <2>3
<1> QED
    BY <1>3, <1>4 DEF Agrees, d

(* A frame the decoder counts no gap before, within an outage of as many    *)
(* frames as there are numbers, is the next one.                            *)
LEMMA NoGapIsNext ==
    ASSUME TypeInv, NumberInv, NEW f \in Transferred,
           trusted, ~SequenceGap(f.seq), f.number < reader.number + SeqMod
    PROVE  f.number = reader.number + 1
<1>1. f.number \in Nat \ {0} /\ f.seq = (f.number - 1) % SeqMod /\ reader.number <= f.number
    BY FramesTyped DEF NumberInv, TypeInv, TaskTyped
<1>2. reader.number \in Nat \ {0} /\ lastSeq = (reader.number - 1) % SeqMod
    BY DEF NumberInv, TypeInv, TaskTyped
<1>3. SeqMod \in Nat \ {0, 1}
    BY LegacyAssumption
<1>4. lastSeq # -1
    <2>1. reader.number - 1 \in Int /\ SeqMod \in Nat \ {0}
        BY <1>2, <1>3
    <2>2. (reader.number - 1) % SeqMod \in 0..(SeqMod - 1)
        BY <2>1, ModRange
    <2> QED
        BY <1>2, <2>2
<1>5. f.seq = (lastSeq + 1) % SeqMod
    BY <1>4 DEF SequenceGap
<1>6. (((reader.number - 1) % SeqMod) + 1) % SeqMod = ((reader.number - 1) + 1) % SeqMod
    <2>1. reader.number - 1 \in Nat
        BY <1>2
    <2> QED
        BY <1>3, <2>1, ModSuccessor
<1>7. reader.number % SeqMod = (f.number - 1) % SeqMod
    <2>1. (reader.number - 1) + 1 = reader.number
        BY <1>2
    <2> QED
        BY <1>1, <1>2, <1>5, <1>6, <2>1
<1>8. CASE f.number = reader.number
    <2> DEFINE x == f.number - 1
    <2>1. x \in Nat /\ x <= f.number /\ f.number < x + SeqMod /\ f.number \in Nat
        BY <1>1, <1>3
    <2>2. x % SeqMod = f.number % SeqMod
        BY <1>7, <1>8
    <2> HIDE DEF x
    <2>3. x = f.number
        BY <1>3, <2>1, <2>2, ModClose
    <2> QED
        BY <1>1, <2>3 DEF x
<1>9. CASE f.number > reader.number
    <2> DEFINE y == f.number - 1
    <2>1. y \in Nat /\ reader.number <= y /\ y < reader.number + SeqMod /\ reader.number \in Nat
        BY <1>1, <1>2, <1>3, <1>9
    <2>2. reader.number % SeqMod = y % SeqMod
        BY <1>7
    <2> HIDE DEF y
    <2>3. reader.number = y
        BY <1>3, <2>1, <2>2, ModClose
    <2> QED
        BY <1>1, <1>2, <2>3 DEF y
<1> QED
    BY <1>1, <1>2, <1>8, <1>9

LEMMA StepExact ==
    TypeInv /\ NumberInv /\ CarryInv /\ SlotsExact /\ [Next]_vars => SlotsExact'
<1> SUFFICES ASSUME TypeInv, NumberInv, CarryInv, SlotsExact, [Next]_vars,
                    trusted', ~outage'
             PROVE  Agrees(reader.has, reader.of)'
    BY DEF SlotsExact, Agrees
<1>1. trusted /\ ~outage => Agrees(reader.has, reader.of)
    BY DEF SlotsExact, Agrees
<1>2. CASE UNCHANGED <<reader, trusted, outage>>
    BY <1>1, <1>2 DEF Agrees
<1>3. ASSUME NEW f \in Transferred, f \in FrameType, Deliver(f)
      PROVE  Agrees(reader.has, reader.of)'
    <2>1. reader'.has = Applied(f.payload, reader.has) /\ reader'.of = f.of
        BY <1>3 DEF Deliver
    <2>2. f.of \in SnapshotType /\ f \in Frames
        BY <1>3, FramesTyped DEF FrameType
    <2>3. Agrees(Applied(f.payload, reader.has), f.of)
        <3>1. CASE f.payload.type = "keyframe"
            <4>1. f.payload = KeyframeOf(f.of)
                BY <2>2, <3>1 DEF CarryInv
            <4> QED
                BY <2>2, <4>1, KeyframeExact
        <3>2. CASE f.payload.type # "keyframe"
            <4>1. trusted /\ ~SequenceGap(f.seq)
                BY <1>3, <3>2 DEF Deliver
            <4>2. ~outage /\ ~(f.number >= reader.number + SeqMod)
                BY <1>3, <3>2 DEF Deliver
            <4>3. f.number < reader.number + SeqMod
                <5>1. f.number \in Int /\ reader.number \in Int /\ SeqMod \in Int
                    BY <1>3, LegacyAssumption DEF FrameType, TypeInv, HostTyped
                <5> QED
                    BY <4>2, <5>1
            <4>4. f.number = reader.number + 1
                BY <4>1, <4>3, NoGapIsNext
            <4>5. Carries(f.payload, f.of, reader.of)
                BY <2>2, <4>4 DEF CarryInv
            <4>6. f.payload # KeyframeOf(f.of)
                BY <3>2 DEF KeyframeOf
            <4>7. /\ f.payload = DeltaOf(f.of, reader.of)
                  /\ \A i \in f.of.count..(MaxTasks - 1) : f.of.tasks[i] = reader.of.tasks[i]
                BY <4>5, <4>6 DEF Carries
            <4>8. /\ reader.of \in SnapshotType /\ DOMAIN reader.has = {"tasks", "count", "memory"}
                  /\ Agrees(reader.has, reader.of)
                BY <1>1, <4>1, <4>2 DEF TypeInv, HostTyped
            <4> QED
                BY <2>2, <4>7, <4>8, DeltaExact
        <3> QED
            BY <3>1, <3>2
    <2> QED
        BY <2>1, <2>3 DEF Agrees
<1>4. CASE Transfer
    BY <1>2, <1>3, <1>4, TransferDelivers DEF hostVars
<1>5. Transfer \/ UNCHANGED <<reader, trusted, outage>>
    BY DEF Next, TelemetryTask, InitModules, Capture, Encode, Frame, Send, StackOverflow, hostVars,
           vars
<1> QED
    BY <1>2, <1>4, <1>5

-----------------------------------------------------------------------------
(* The theorems. *)

(* All of it is inductive together (encoder.c:29-110, framer.c:29-82,       *)
(* main.c:42-65, decoder.py:160-165).                                       *)
IInv == TypeInv /\ ProfilerInv /\ NumberInv /\ CarryInv /\ SlotsExact

LEMMA Inductive == Spec => []IInv
<1>1. Init => IInv
    <2>1. Init => SlotsExact
        BY DEF Init, SlotsExact
    <2> QED
        BY <2>1, InitTyped, InitProfiler, InitNumbers, InitCarries DEF IInv
<1>2. IInv /\ [Next]_vars => IInv'
    BY StepTyped, StepProfiler, StepNumbers, StepCarries, StepExact DEF IInv
<1> QED
    BY <1>1, <1>2, PTL DEF Spec

(* Every variable keeps its type, no frame in the buffer is lost sight of,  *)
(* and the profiler reports every capture as taking no cycles, whatever the *)
(* cycle counter holds: nothing started it (main.c:42-65, profiler.c).      *)
THEOREM TypeCorrect == Spec => []TypeOK
<1>1. IInv => TypeOK
    <2> SUFFICES ASSUME IInv PROVE TypeOK
        OBVIOUS
    <2> USE DEF IInv
    <2>1. SeqMod \in Nat \ {0} /\ made \in Nat /\ reader.number \in Nat
        BY LegacyAssumption DEF TypeInv, TaskTyped, HostTyped
    <2>2. seq \in 0..(SeqMod - 1)
        BY <2>1, ModRange DEF NumberInv
    <2>3. lastSeq \in -1..(SeqMod - 1)
        <3>1. CASE reader.number = 0
            BY <2>1, <3>1 DEF NumberInv
        <3>2. CASE reader.number # 0
            <4>1. reader.number - 1 \in Int
                BY <2>1
            <4>2. (reader.number - 1) % SeqMod \in 0..(SeqMod - 1)
                BY <2>1, <4>1, ModRange
            <4>3. lastSeq = (reader.number - 1) % SeqMod
                BY <3>2 DEF NumberInv
            <4> QED
                BY <4>2, <4>3
        <3> QED
            BY <3>1, <3>2
    <2>4. pc \in {"init", "capture", "encode", "frame", "send"} /\ loopCount \in 0..MaxCycles
        BY DEF TypeInv, TaskTyped
    <2>5. {current.tasks, last.tasks} \subseteq [Slots -> Tasks \cup {ZeroTask}]
        BY DEF TypeInv, TaskTyped, SnapshotType
    <2>6. /\ encoderUp \in BOOLEAN /\ trusted \in BOOLEAN /\ lost \in BOOLEAN
          /\ outage \in BOOLEAN /\ dma.active \in BOOLEAN
        BY DEF TypeInv, TaskTyped, WireTyped, HostTyped
    <2>7. {encoderUp, trusted, lost, outage, dma.active} \subseteq BOOLEAN
        BY <2>6
    <2>8. drops <= made
        <3>1. drops \in Nat
            BY DEF TypeInv, TaskTyped
        <3> QED
            BY <2>1, <3>1 DEF NumberInv
    <2>9. pc = "send" => framed.number = made
        BY DEF NumberInv
    <2>10. snapStats.call_count = loopCount + IF pc \in {"encode", "frame", "send"} THEN 1 ELSE 0
        BY DEF ProfilerInv, NoStats
    <2>11. loopCount >= ReportInterval =>
              printed = <<0, 0, 0, loopCount - (loopCount % ReportInterval)>>
        BY DEF ProfilerInv
    <2> QED
        BY <2>2, <2>3, <2>4, <2>5, <2>7, <2>8, <2>9, <2>10, <2>11 DEF TypeOK
<1> QED
    BY <1>1, Inductive, PTL

(* Whatever is dropped, torn, sent twice or cut off by a crash, a reader    *)
(* that counted no gap since a keyframe has what the agent had in every     *)
(* field with a tag (encoder.c:42-107, snapshot.c:48-66,                    *)
(* decoder.py:160-165).                                                     *)
THEOREM ReaderKeepsUp == Spec => []ReaderExact
<1>1. IInv => ReaderExact
    <2> SUFFICES ASSUME IInv, trusted, ~outage
                 PROVE  /\ \A f \in TaggedMemory : reader.has.memory[f] = reader.of.memory[f]
                        /\ \A i \in 0..(reader.of.count - 1), f \in TaggedTask :
                              reader.has.tasks[i][f] = reader.of.tasks[i][f]
        BY DEF ReaderExact
    <2>1. 0..(reader.of.count - 1) \subseteq Slots
        <3>1. reader.of.count \in 0..MaxTasks
            BY DEF IInv, TypeInv, HostTyped, SnapshotType
        <3> QED
            BY <3>1, LegacyAssumption DEF Slots
    <2> QED
        BY <2>1 DEF IInv, SlotsExact
<1> QED
    BY <1>1, Inductive, PTL

(* The decoder counts no gap unless a frame did not arrive, at every wrap   *)
(* of the number (framer.c:60-79, decoder.py:160-165).                      *)
THEOREM GapsAreLosses == Spec => []NoLossNoGap
<1>1. Init => NoLossNoGap
    BY DEF Init, NoLossNoGap
<1>2. NoLossNoGap /\ IInv /\ [Next]_vars => NoLossNoGap'
    <2> SUFFICES ASSUME NoLossNoGap, IInv, [Next]_vars, gaps' > 0 PROVE lost'
        BY DEF NoLossNoGap
    <2>1. lost => lost'
        BY DEF Next, TelemetryTask, InitModules, Capture, Encode, Frame, Send, StackOverflow,
               Transfer, Deliver, vars
    <2>2. CASE gaps' = gaps
        BY <2>1, <2>2 DEF NoLossNoGap
    <2>3. ASSUME NEW f \in Transferred, Deliver(f), SequenceGap(f.seq) PROVE lost'
        <3>1. lastSeq # -1 /\ f.seq # (lastSeq + 1) % SeqMod
            BY <2>3 DEF SequenceGap
        <3>2. /\ f.seq = (f.number - 1) % SeqMod /\ f.number \in Nat
              /\ reader.number \in Nat \ {0} /\ lastSeq = (reader.number - 1) % SeqMod
            BY <3>1, FramesTyped DEF IInv, NumberInv, TypeInv, TaskTyped
        <3>3. (lastSeq + 1) % SeqMod = ((reader.number - 1) + 1) % SeqMod
            <4>1. reader.number - 1 \in Nat /\ SeqMod \in Nat \ {0}
                BY <3>2, LegacyAssumption
            <4> QED
                BY <3>2, <4>1, ModSuccessor
        <3>4. f.number - 1 # reader.number
            <4>1. (reader.number - 1) + 1 = reader.number
                BY <3>2
            <4> QED
                BY <3>1, <3>2, <3>3, <4>1
        <3>5. f.number # reader.number + 1
            BY <3>2, <3>4
        <3> QED
            BY <2>3, <3>5 DEF Deliver
    <2>4. CASE Transfer
        <3>1. CASE \E f \in Transferred : f \in FrameType /\ f # NoFrame /\ Deliver(f)
            BY <2>2, <2>3, <3>1 DEF Deliver
        <3>2. CASE lost' = TRUE
            BY <3>2
        <3> QED
            BY <2>4, <3>1, <3>2, TransferDelivers DEF IInv
    <2>5. gaps' = gaps \/ Transfer
        BY DEF Next, TelemetryTask, InitModules, Capture, Encode, Frame, Send, StackOverflow,
               hostVars, vars
    <2> QED
        BY <2>2, <2>4, <2>5
<1> QED
    BY <1>1, <1>2, Inductive, PTL DEF Spec
=============================================================================
