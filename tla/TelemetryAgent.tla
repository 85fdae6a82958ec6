--------------------------- MODULE TelemetryAgent ---------------------------
(***************************************************************************)
(* The telemetry task of rtostwin.c with the framer, the transport and the *)
(* UART DMA it drives. The task captures, encodes, frames and sends once   *)
(* per period; the application can delete and recreate it at any point of  *)
(* that cycle, and the DMA reads s_framed_buffer while the next cycle may  *)
(* already be writing it.                                                  *)
(*                                                                         *)
(* snapshot_capture is one step here: the system states it can find are    *)
(* the constant Snapshots.                                                 *)
(***************************************************************************)
EXTENDS Encoder, Sequences

CONSTANTS
    Snapshots,         \* the system states snapshot_capture may find
    KeyframeInterval,  \* WF_KEYFRAME_INTERVAL (50)
    LoopMod,           \* loop_count is a uint32_t: 2^32
    FrameBytes,        \* RTOSTWIN_FRAME_BUFFER_BYTES (540)
    MaxCycles,         \* bound: cycles the model runs
    LineCapacity       \* bound: packets the serial line and the host driver hold

ASSUME AgentAssumption ==
    /\ Snapshots \subseteq Snapshot
    /\ KeyframeInterval \in Nat \ {0}
    /\ LoopMod \in Nat \ {0}
    /\ FrameBytes \in Nat
    /\ MaxCycles \in Nat
    /\ LineCapacity \in Nat \ {0}

VARIABLES
    initialised,  \* s_initialised
    running,      \* s_telemetry_task_handle # NULL
    pc,           \* where the telemetry task is, "none" when there is no task
    loopCount,    \* loop_count, a local of the task
    captured,     \* the snapshots taken so far, cycle by cycle
    framed,       \* s_framed_buffer
    dma,          \* the UART DMA transfer
    txDrops,      \* s_tx_drop_count
    line          \* packets sent and not yet read by the host, oldest first

agentVars == <<encoderVars, initialised, running, pc, loopCount, captured,
               framed, dma, txDrops, line>>

-----------------------------------------------------------------------------
Cycle == Len(captured)

(* s_current_snapshot, once the cycle has captured it *)
current == captured[Cycle]

(* Mutation: the counter is wider than its field. *)
SeqOfUnwrapped(cycle) == cycle - 1

(* s_snap_seq++ numbers the first snapshot 0. *)
SeqOf(cycle) == (cycle - 1) % SeqMod

(* Mutation: the keyframe schedule follows the sequence number. *)
ForceKeyframeOnSequence == SeqOf(Cycle) % KeyframeInterval = 0

ForceKeyframe == loopCount % KeyframeInterval = 0

(* frame_packet. The field cycle is the capture the packet was made from   *)
(* and stands for the timestamp; seq is its number modulo SeqMod.          *)
FramePacket(header, p) ==
    [type |-> header, seq |-> SeqOf(Cycle), cycle |-> Cycle, payload |-> p]

(* A buffer frame_packet has not filled, or was writing when it was deleted *)
Unframed == [type |-> "none", seq |-> 0, cycle |-> 0, payload |-> NoPayload]

(* No transfer; in a transfer, sent is the frame it was started on, and     *)
(* dirty says that the buffer was written since: over lists the frames that *)
(* were completed there meanwhile.                                          *)
Idle == [active |-> FALSE, sent |-> Unframed, dirty |-> FALSE, over |-> <<>>]

AgentInit ==
    /\ EncoderInit
    /\ initialised = FALSE
    /\ running = FALSE
    /\ pc = "none"
    /\ loopCount = 0
    /\ captured = <<>>
    /\ framed = Unframed
    /\ dma = Idle
    /\ txDrops = 0
    /\ line = <<>>

-----------------------------------------------------------------------------
(* The application's calls. *)

(* rtostwin_start: runs rtostwin_init the first time and creates the task, *)
(* unless there is one; xTaskCreate may fail.                              *)
Start ==
    /\ ~running
    /\ initialised' = TRUE
    /\ IF initialised THEN UNCHANGED encoderVars ELSE EncoderReset
    /\ \/ /\ running' = TRUE
          /\ pc' = "sleep"
          /\ loopCount' = 0
       \/ UNCHANGED <<running, pc, loopCount>>
    /\ UNCHANGED <<captured, framed, dma, txDrops, line>>

(* rtostwin_stop: deletes the task wherever it is. *)
Stop ==
    /\ running
    /\ running' = FALSE
    /\ pc' = "none"
    /\ loopCount' = 0
    /\ UNCHANGED <<encoderVars, initialised, captured, framed, dma, txDrops, line>>

-----------------------------------------------------------------------------
(* One cycle of the telemetry task. *)

(* The task wakes up and captures; the sequence number is consumed here. *)
Capture ==
    /\ pc = "sleep"
    /\ Cycle < MaxCycles
    /\ \E s \in Snapshots : captured' = Append(captured, s)
    /\ pc' = "encode"
    /\ UNCHANGED <<encoderVars, initialised, running, loopCount, framed, dma,
                   txDrops, line>>

(* loop_count++ and vTaskDelay end the cycle. *)
EndCycle ==
    /\ loopCount' = (loopCount + 1) % LoopMod
    /\ pc' = "sleep"

Encode ==
    /\ pc = "encode"
    /\ EncodeStart(current, ForceKeyframe)
    /\ IF payload'.type = "none"
       THEN EndCycle
       ELSE pc' = "commit" /\ UNCHANGED loopCount
    /\ UNCHANGED <<initialised, running, captured, framed, dma, txDrops, line>>

(* A delta without entries has length 0 and is not framed. *)
Commit ==
    /\ pc = "commit"
    /\ EncodeFinish(current)
    /\ IF EmptyDelta(payload)
       THEN EndCycle
       ELSE pc' = "frame" /\ UNCHANGED loopCount
    /\ UNCHANGED <<initialised, running, captured, framed, dma, txDrops, line>>

(* frame_packet starts to write s_framed_buffer, or returns 0 because the  *)
(* frame does not fit in it.                                               *)
FrameStart ==
    /\ pc = "frame"
    /\ IF FrameSize(payload) > FrameBytes
       THEN EndCycle /\ UNCHANGED <<framed, dma>>
       ELSE /\ framed' = Unframed
            /\ dma' = [dma EXCEPT !.dirty = dma.active]
            /\ pc' = "copy"
            /\ UNCHANGED loopCount
    /\ UNCHANGED <<encoderVars, initialised, running, captured, txDrops, line>>

FrameFinish ==
    /\ pc = "copy"
    /\ framed' = FramePacket(IF lastEncodeWasKeyframe THEN "keyframe" ELSE "delta",
                             payload)
    /\ dma' = [dma EXCEPT !.over = IF dma.active THEN Append(@, framed') ELSE @]
    /\ pc' = "send"
    /\ UNCHANGED <<encoderVars, initialised, running, loopCount, captured,
                   txDrops, line>>

(* transport_send: starts a transfer on s_framed_buffer, or counts a drop  *)
(* when the UART is busy or the HAL refuses. The result is not looked at.  *)
Send ==
    /\ pc = "send"
    /\ \/ /\ ~dma.active
          /\ dma' = [Idle EXCEPT !.active = TRUE, !.sent = framed]
          /\ UNCHANGED txDrops
       \/ /\ txDrops' = txDrops + 1
          /\ UNCHANGED dma
    /\ EndCycle
    /\ UNCHANGED <<encoderVars, initialised, running, captured, framed, line>>

-----------------------------------------------------------------------------
(* The hardware and the serial line. *)

(* A frame written over the one the transfer was started on may come out   *)
(* whole: the DMA reads the bytes that are in the buffer when it gets to    *)
(* them, as many as the first frame had.                                    *)
Overtakes(p) == FrameSize(p.payload) <= FrameSize(dma.sent.payload)

(* The transfer completes, and the frame reaches the host unless it is torn *)
(* or hit by noise, which its CRC shows, or the host driver is full.        *)
Transfer ==
    /\ dma.active
    /\ dma' = Idle
    /\ \/ /\ Len(line) < LineCapacity
          /\ \/ line' = Append(line, dma.sent)
             \/ \E i \in DOMAIN dma.over :
                   Overtakes(dma.over[i]) /\ line' = Append(line, dma.over[i])
       \/ UNCHANGED line
    /\ UNCHANGED <<encoderVars, initialised, running, pc, loopCount, captured,
                   framed, txDrops>>

TelemetryTask == Capture \/ Encode \/ Commit \/ FrameStart \/ FrameFinish \/ Send

AgentNext == Start \/ Stop \/ TelemetryTask \/ Transfer
=============================================================================
