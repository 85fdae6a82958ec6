----------------------------- MODULE LegacyAgent -----------------------------
(***************************************************************************)
(* The agent the repository had before, under src/archive/legacy: the task *)
(* loop, encoder and snapshot engine of root-runtime-snapshot-2026-05-10   *)
(* with the framer of root-agent-partial, the one whose frame_packet has   *)
(* the parameters that loop passes. A keyframe is the raw struct, a delta  *)
(* a list of tagged fields, and the framer numbers the frames.             *)
(*                                                                         *)
(* The archived state manager asks for fields its decoder does not fill    *)
(* in, so what reads the payloads here is external: a reader that does     *)
(* what the tags say and tells a keyframe by its length (every header says *)
(* delta), behind the sequence check of the archived decoder.              *)
(***************************************************************************)
EXTENDS Integers, Sequences, FiniteSets

CONSTANTS
    MaxTasks,          \* MAX_TASKS (16)
    Tasks,             \* what a slot of the task table may hold
    Systems,           \* what snapshot_capture may find: tasks and memory
    KeyframeInterval,  \* a keyframe is forced every 50 iterations
    SeqMod,            \* s_sequence_num is a uint16_t: 2^16
    ReportInterval,    \* the profiler reports every 100 iterations
    Cyccnt,            \* what DWT_CYCCNT holds after a reset
    CycleMod,          \* it is a uint32_t: 2^32
    MaxCycles          \* bound: iterations of the task

Slots == 0..(MaxTasks - 1)

TaskFields == {"name", "state", "priority", "stack_hwm_words", "runtime_ticks"}
MemoryFields == {"heap_free_bytes", "heap_min_ever_bytes", "cpu_utilization_pct"}

(* The fields that have a tag; TAG_TASK_RUNTIME and TAG_MEM_HEAP_MIN are    *)
(* defined and never written.                                               *)
TaggedTask == {"state", "priority", "stack_hwm_words"}
TaggedMemory == {"heap_free_bytes", "cpu_utilization_pct"}

(* sizeof(full_snapshot_t), with its padding *)
SnapshotBytes == 12 + 24 * MaxTasks + 12

PayloadBytes == 512   \* s_payload_buffer
FrameBytes == 540     \* s_framed_buffer
MaxPacketSize == 512  \* WF_MAX_PACKET_SIZE
Overhead == 14        \* WF_OVERHEAD

ASSUME LegacyAssumption ==
    /\ MaxTasks \in Nat \ {0}
    /\ SnapshotBytes + Overhead <= MaxPacketSize
    /\ KeyframeInterval \in Nat \ {0}
    /\ SeqMod \in Nat \ {0, 1}
    /\ ReportInterval \in Nat \ {0}
    /\ CycleMod \in Nat \ {0}
    /\ Cyccnt \in 0..(CycleMod - 1)
    /\ MaxCycles \in Nat
    /\ \A s \in Systems : s.tasks \in Seq(Tasks) /\ Len(s.tasks) <= MaxTasks

VARIABLES
    pc,         \* where the telemetry task is
    loopCount,  \* loop_count
    current,    \* s_current_snapshot
    last,       \* s_last_snapshot
    encoderUp,  \* s_is_initialized
    payload,    \* s_payload_buffer, as far as encoder_encode filled it
    seq,        \* s_sequence_num of frame_packet
    framed,     \* s_framed_buffer, as far as frame_packet filled it
    dma,        \* the UART DMA transfer
    drops,      \* s_tx_drop_count
    snapStats,  \* snap_stats: what the captures took
    printed,    \* the last report, or none
    crash,      \* s_crash_reason: the task that overflowed, or none
    lastSeq,    \* _last_seq of the decoder
    gaps,       \* _sequence_gap_count, up to one
    reader,     \* what the reader has
    trusted,    \* a keyframe came and no gap was counted since
    made,       \* the number of frames made (not in the code)
    lost,       \* a frame was made that did not arrive (not in the code)
    outage      \* as many as there are numbers did not (not in the code)

profiler == <<snapStats, printed>>
agentVars == <<pc, loopCount, current, last, encoderUp, payload, seq, framed, drops, made,
               profiler>>
hostVars  == <<lastSeq, gaps, reader, trusted>>
vars == <<agentVars, dma, crash, hostVars, lost, outage>>

-----------------------------------------------------------------------------
(* The encoder. *)

ZeroTask == [f \in TaskFields |-> 0]
ZeroSnapshot ==
    [tasks |-> [i \in Slots |-> ZeroTask], count |-> 0, memory |-> [f \in MemoryFields |-> 0]]

(* A payload of length 0: encoder_encode failed. *)
NoPayload == [type |-> "none"]

KeyframeOf(s) == [type |-> "keyframe", snapshot |-> s]

(* The tagged fields that differ from the baseline, of the tasks there are  *)
DeltaOf(s, base) ==
    [type   |-> "delta",
     memory |-> [f \in {g \in TaggedMemory : s.memory[g] # base.memory[g]} |-> s.memory[f]],
     tasks  |-> [p \in {q \in (0..(s.count - 1)) \X TaggedTask :
                           s.tasks[q[1]][q[2]] # base.tasks[q[1]][q[2]]} |->
                    s.tasks[p[1]][p[2]]]]

Width(f) == CASE f = "heap_free_bytes" -> 4 [] f = "stack_hwm_words" -> 2 [] OTHER -> 1

(* A tag before each value, an index before the fields of a task, and       *)
(* TAG_END_OF_PACKET                                                        *)
DeltaBytes(d) ==
    LET OfWidth(w) == Cardinality({f \in DOMAIN d.memory : Width(f) = w})
                      + Cardinality({p \in DOMAIN d.tasks : Width(p[2]) = w})
    IN  2 * OfWidth(1) + 3 * OfWidth(2) + 5 * OfWidth(4)
        + 2 * Cardinality({p[1] : p \in DOMAIN d.tasks}) + 1

PayloadSize(p) ==
    CASE p.type = "none" -> 0
      [] p.type = "keyframe" -> SnapshotBytes
      [] p.type = "delta" -> DeltaBytes(p)

-----------------------------------------------------------------------------
(* The profiler. vTelemetryTask never calls profiler_init, so nothing has   *)
(* started the cycle counter of the DWT and each read finds the same value. *)

NoStats == [min_cycles |-> 0, max_cycles |-> 0, call_count |-> 0, total_cycles |-> 0]

DwtCycles == Cyccnt

ProfilerStart == DwtCycles

ProfilerStop(start) == (DwtCycles - start) % CycleMod

ProfilerRecord(s, elapsed) ==
    LET first == s.call_count = 0
    IN  [min_cycles   |-> IF first \/ elapsed < s.min_cycles THEN elapsed ELSE s.min_cycles,
         max_cycles   |-> IF first \/ elapsed > s.max_cycles THEN elapsed ELSE s.max_cycles,
         call_count   |-> s.call_count + 1,
         total_cycles |-> s.total_cycles + elapsed]

(* The line it prints, or none before the first record *)
ProfilerReport(s) ==
    IF s.call_count = 0 THEN <<>>
    ELSE <<s.min_cycles, s.max_cycles, s.total_cycles \div s.call_count, s.call_count>>

-----------------------------------------------------------------------------
NoFrame == [number |-> 0, seq |-> 0, payload |-> NoPayload, of |-> ZeroSnapshot]

(* In a transfer, sent is the frame it was started on and over those that   *)
(* were written over it since.                                              *)
Idle == [active |-> FALSE, sent |-> NoFrame, over |-> <<>>]

NoReader == [has |-> ZeroSnapshot, of |-> ZeroSnapshot, number |-> 0]

(* StartTelemetryAgent has created the task. *)
Init ==
    /\ pc = "init"
    /\ loopCount = 0
    /\ current = ZeroSnapshot
    /\ last = ZeroSnapshot
    /\ encoderUp = FALSE
    /\ payload = NoPayload
    /\ seq = 0
    /\ framed = NoFrame
    /\ dma = Idle
    /\ drops = 0
    /\ snapStats = NoStats
    /\ printed = <<>>
    /\ crash = <<>>
    /\ lastSeq = -1
    /\ gaps = 0
    /\ reader = NoReader
    /\ trusted = FALSE
    /\ made = 0
    /\ lost = FALSE
    /\ outage = FALSE

-----------------------------------------------------------------------------
(* vTelemetryTask. *)

Goto(from, to) == crash = <<>> /\ pc = from /\ pc' = to

InitModules ==
    /\ Goto("init", "capture")
    /\ last' = ZeroSnapshot
    /\ encoderUp' = TRUE
    /\ UNCHANGED <<loopCount, current, payload, seq, framed, drops, made, profiler, dma, crash,
                   hostVars, lost, outage>>

(* Mutation: the slots without a task are cleared. *)
CapturedCleared(s) ==
    [tasks  |-> [i \in Slots |-> IF i < Len(s.tasks) THEN s.tasks[i + 1] ELSE ZeroTask],
     count  |-> Len(s.tasks),
     memory |-> s.memory]

(* snapshot_capture leaves the slots without a task as they are. *)
Captured(s) ==
    [tasks  |-> [i \in Slots |-> IF i < Len(s.tasks) THEN s.tasks[i + 1] ELSE current.tasks[i]],
     count  |-> Len(s.tasks),
     memory |-> s.memory]

Capture ==
    /\ Goto("capture", "encode")
    /\ loopCount < MaxCycles
    /\ \E s \in Systems : current' = Captured(s)
    /\ snapStats' = ProfilerRecord(snapStats, ProfilerStop(ProfilerStart))
    /\ UNCHANGED <<loopCount, last, encoderUp, payload, seq, framed, drops, made, printed, dma,
                   crash, hostVars, lost, outage>>

(* encoder_encode; the baseline moves unless the payload does not fit. *)
Encode ==
    /\ Goto("encode", "frame")
    /\ LET forced == loopCount % KeyframeInterval = 0
           p == IF forced \/ ~encoderUp THEN KeyframeOf(current) ELSE DeltaOf(current, last)
       IN  IF PayloadSize(p) > PayloadBytes
           THEN payload' = NoPayload /\ UNCHANGED last
           ELSE payload' = p /\ last' = current
    /\ UNCHANGED <<loopCount, current, encoderUp, seq, framed, drops, made, profiler, dma, crash,
                   hostVars, lost, outage>>

(* Mutation: the counter is wider than its field. *)
NextSeqUnwrapped(n) == n + 1

NextSeq(n) == (n + 1) % SeqMod

FrameSize(p) == Overhead + PayloadSize(p)

(* frame_packet, which numbers the frames it makes, an empty one too. The   *)
(* type in the header is always that of a delta. The DMA may be reading the *)
(* buffer; what is torn by that its CRC shows, see Transfer.                *)
Frame ==
    /\ Goto("frame", "send")
    /\ IF FrameSize(payload) > MaxPacketSize \/ FrameSize(payload) > FrameBytes
       THEN framed' = NoFrame /\ UNCHANGED <<seq, made, dma>>
       ELSE /\ framed' = [number |-> made + 1, seq |-> seq, payload |-> payload, of |-> current]
            /\ seq' = NextSeq(seq)
            /\ made' = made + 1
            /\ dma' = [dma EXCEPT !.over = IF dma.active THEN Append(@, framed') ELSE @]
    /\ UNCHANGED <<loopCount, current, last, encoderUp, payload, drops, profiler, crash, hostVars,
                   lost, outage>>

(* stm32_uart_send_dma: busy, refused by the HAL, or started. *)
SendDma(ok) ==
    IF ok THEN ~dma.active /\ dma' = [Idle EXCEPT !.active = TRUE, !.sent = framed]
          ELSE UNCHANGED dma

(* transport_send counts what the UART does not take; nothing looks at the  *)
(* result. A frame of length 0 is refused before that. Then the report of   *)
(* the profiler, in its iterations.                                         *)
Send ==
    /\ Goto("send", "capture")
    /\ loopCount' = loopCount + 1
    /\ printed' = IF loopCount' % ReportInterval = 0 THEN ProfilerReport(snapStats) ELSE printed
    /\ IF framed = NoFrame
       THEN UNCHANGED <<drops, dma, lost>>
       ELSE \E ok \in BOOLEAN :
               /\ SendDma(ok)
               /\ drops' = IF ok THEN drops ELSE drops + 1
               /\ lost' = (lost \/ ~ok)
    /\ UNCHANGED <<current, last, encoderUp, payload, seq, framed, made, snapStats, crash,
                   hostVars, outage>>

TelemetryTask == InitModules \/ Capture \/ Encode \/ Frame \/ Send

(* A task of the application overflows its stack: the hook writes its name  *)
(* to s_crash_reason and spins. The DMA is hardware and goes on.            *)
StackOverflow ==
    /\ crash = <<>>
    /\ \E t \in Tasks : crash' = <<"STACK OVERFLOW: ", t["name"]>>
    /\ UNCHANGED <<agentVars, dma, hostVars, lost, outage>>

-----------------------------------------------------------------------------
(* The line, the decoder and the reader. *)

(* Mutation: the expected number does not wrap. *)
SequenceGapUnwrapped(n) == lastSeq # -1 /\ n # lastSeq + 1

SequenceGap(n) == lastSeq # -1 /\ n # (lastSeq + 1) % SeqMod

(* What the reader has after a payload; a keyframe is the whole struct.     *)
Applied(p, has) ==
    CASE p.type = "keyframe" -> p.snapshot
      [] p.type = "delta" ->
            [has EXCEPT
                !.memory = [f \in MemoryFields |->
                               IF f \in DOMAIN p.memory THEN p.memory[f] ELSE @[f]],
                !.tasks = [i \in Slots |-> [f \in TaskFields |->
                               IF <<i, f>> \in DOMAIN p.tasks THEN p.tasks[<<i, f>>]
                                                              ELSE @[i][f]]]]
      [] OTHER -> has

Deliver(f) ==
    /\ lastSeq' = f.seq
    /\ gaps' = IF SequenceGap(f.seq) THEN 1 ELSE gaps
    /\ reader' = [has |-> Applied(f.payload, reader.has), of |-> f.of, number |-> f.number]
    /\ trusted' = (f.payload.type = "keyframe" \/ (trusted /\ ~SequenceGap(f.seq)))
    /\ outage' = IF f.payload.type = "keyframe" THEN FALSE
                 ELSE outage \/ f.number >= reader.number + SeqMod
    /\ lost' = (lost \/ f.number # reader.number + 1)

(* The transfer ends. The frame arrives, or one that was written over it    *)
(* and is no longer, or none: torn, or damaged on the line.                 *)
Transfer ==
    /\ dma.active
    /\ dma' = Idle
    /\ \/ Deliver(dma.sent)
       \/ \E i \in DOMAIN dma.over :
             FrameSize(dma.over[i].payload) <= FrameSize(dma.sent.payload) /\ Deliver(dma.over[i])
       \/ lost' = TRUE /\ UNCHANGED <<hostVars, outage>>
    /\ UNCHANGED <<agentVars, crash>>

Next == TelemetryTask \/ StackOverflow \/ Transfer

Spec == Init /\ [][Next]_vars

-----------------------------------------------------------------------------
(* Every variable has its type, the frame buffer holds every frame, and     *)
(* every capture is in the profiler's counts, whose report says it took no  *)
(* cycles (encoder.c:29-110, framer.c:29-82, main.c:42-65).                 *)
TypeOK ==
    /\ pc \in {"init", "capture", "encode", "frame", "send"}
    /\ loopCount \in 0..MaxCycles
    /\ seq \in 0..(SeqMod - 1)
    /\ lastSeq \in -1..(SeqMod - 1)
    /\ pc = "send" => framed.number = made
    /\ {current.tasks, last.tasks} \subseteq [Slots -> Tasks \cup {ZeroTask}]
    /\ {encoderUp, trusted, lost, outage, dma.active} \subseteq BOOLEAN
    /\ drops <= made
    /\ snapStats.call_count = loopCount + IF pc \in {"encode", "frame", "send"} THEN 1 ELSE 0
    /\ loopCount >= ReportInterval =>
          printed = <<0, 0, 0, loopCount - (loopCount % ReportInterval)>>

(* A reader that counted no gap since a keyframe has what the agent had in  *)
(* every field that has a tag, also of a task that joined since: the delta  *)
(* compares it with whatever was in its slot before, and the raw struct of  *)
(* the keyframe has shown the reader that slot (encoder.c:42-107,           *)
(* snapshot.c:48-66, decoder.py:160-165). Frames that are dropped, torn,    *)
(* sent twice or cut off by a crash make no difference; only an outage of   *)
(* as many frames as there are numbers would.                               *)
ReaderExact ==
    trusted /\ ~outage =>
        /\ \A f \in TaggedMemory : reader.has.memory[f] = reader.of.memory[f]
        /\ \A i \in 0..(reader.of.count - 1), f \in TaggedTask :
              reader.has.tasks[i][f] = reader.of.tasks[i][f]

(* The decoder counts no gap unless a frame did not arrive: the framer      *)
(* numbers the frames it makes, where the present agent numbers its         *)
(* captures (framer.c:60-79, decoder.py:160-165).                           *)
NoLossNoGap == gaps > 0 => lost
=============================================================================
