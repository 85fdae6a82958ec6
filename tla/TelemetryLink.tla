--------------------------- MODULE TelemetryLink ----------------------------
(***************************************************************************)
(* The agent and the bridge joined by the serial line: what the host shows *)
(* of the system, against what the system was.                             *)
(***************************************************************************)
EXTENDS TelemetryAgent, Bridge

vars == <<agentVars, bridgeVars>>

Init == AgentInit /\ BridgeInit

(* transport.read and feed_bytes: the host takes a packet from the line. *)
Receive ==
    /\ line # <<>>
    /\ Decode(Head(line))
    /\ line' = Tail(line)
    /\ UNCHANGED <<encoderVars, initialised, running, pc, loopCount, captured,
                   framed, dma, txDrops>>

Next ==
    \/ AgentNext /\ UNCHANGED bridgeVars
    \/ Receive
    \/ (ChunkDecoded \/ Handle) /\ UNCHANGED agentVars

Spec == Init /\ [][Next]_vars

-----------------------------------------------------------------------------
(* Every payload and frame of a Snapshots-sized system fits its buffer. The *)
(* default buffers (512 and 540 bytes) hold the largest keyframe of 16      *)
(* tasks, 400 bytes, and the largest delta, 192 bytes.                      *)
BuffersFit ==
    /\ \A s \in Snapshots :
          PayloadSize(KeyframeOf(s)) <= PayloadBytes /\ FrameSize(KeyframeOf(s)) <= FrameBytes
    /\ \A s, t \in Snapshots : SameTopology(s, t) =>
          PayloadSize(DeltaOf(s, t)) <= PayloadBytes /\ FrameSize(DeltaOf(s, t)) <= FrameBytes

-----------------------------------------------------------------------------
(* Types. A payload read from or meant for the wire is one of these. *)
DeltaTable == UNION {[S -> Words] : S \in SUBSET ((0..(DeltaTasks - 1)) \X TaskFields)}

Payload ==
    [type : {"keyframe"}, tasks : TaskTables, memory : Memory]
    \cup [type : {"delta"}, changes : DeltaTable,
          memory : UNION {[S -> Words] : S \in SUBSET MemoryFields}]

Packet == [type : {"keyframe", "delta"}, seq : 0..(SeqMod - 1),
           cycle : 1..MaxCycles, payload : Payload]

EncoderTyped ==
    /\ lastSnapshot \in Snapshot \cup {Torn}
    /\ encoderInitialised \in BOOLEAN
    /\ lastEncodeWasKeyframe \in BOOLEAN
    /\ payload \in Payload \cup {NoPayload}

TaskTyped ==
    /\ initialised \in BOOLEAN
    /\ running \in BOOLEAN
    /\ pc \in {"none", "sleep", "encode", "commit", "frame", "copy", "send"}
    /\ running <=> pc # "none"
    /\ loopCount \in 0..(LoopMod - 1)
    /\ captured \in Seq(Snapshots)
    /\ Cycle \in 0..MaxCycles
    /\ pc \notin {"none", "sleep"} => Cycle >= 1
    /\ pc \in {"commit", "frame", "copy", "send"} => payload \in Payload

WireTyped ==
    /\ framed \in Packet \cup {Unframed}
    /\ pc = "send" => framed \in Packet
    /\ dma \in [active : BOOLEAN, sent : Packet \cup {Unframed}, dirty : BOOLEAN,
                over : Seq(Packet)]
    /\ dma.active => dma.sent \in Packet
    /\ txDrops \in Nat
    /\ line \in Seq(Packet)

BridgeTyped ==
    /\ bridgePc \in {"read", "handle"}
    /\ bridgePc = "handle" => batch # <<>>
    /\ lastSeq \in -1..(SeqMod - 1)
    /\ gapCount \in Nat
    /\ batch \in Seq([packet : Packet, gap : BOOLEAN])
    /\ state \in [tasks : TaskTables, memory : Memory, timestamp : Nat,
                  packet_count : Nat, drop_count : Nat]
    /\ hasKeyframe \in BOOLEAN
    /\ clean \in BOOLEAN
    /\ contiguous \in BOOLEAN
    /\ outage \in BOOLEAN

(* Every variable has its type; there is a task exactly when the handle is  *)
(* set, and from its first step of a cycle on it holds what the later ones  *)
(* use (rtostwin.c:61-117).                                                 *)
TypeOK == EncoderTyped /\ TaskTyped /\ WireTyped /\ BridgeTyped

-----------------------------------------------------------------------------
(* Safety. *)

(* The state shows the snapshot s: its memory fields, its topology, and the *)
(* fields of every task a delta can name. Tasks in the slots from           *)
(* DeltaTasks on only follow with the keyframes.                            *)
Shows(st, s) ==
    /\ st.memory = s.memory
    /\ SameTopology(st, s)
    /\ \A i \in Slots(s) : i < DeltaTasks => st.tasks[i].field = s.tasks[i].field

(* When no cycle is missing since the last keyframe handled, the state the  *)
(* bridge exports is the snapshot it claims by its timestamp, whatever was  *)
(* lost, torn or restarted before (encoder.c:131-233,                       *)
(* state_manager.py:144-162).                                               *)
SyncedStateExact ==
    hasKeyframe /\ contiguous => Shows(state, captured[state.timestamp])

(* The sequence check is exact: cycles that follow each other are never     *)
(* taken for a gap, across the wrap of sequence_num too, and a gap is only  *)
(* overlooked once SeqMod cycles in a row were lost (decoder.py:148-152).   *)
GapCheckExact ==
    hasKeyframe =>
        /\ contiguous => clean
        /\ clean /\ ~outage => contiguous

(* A baseline whose memcpy was cut off by rtostwin_stop is never compared   *)
(* with a snapshot: loop_count restarts at 0 and forces a keyframe          *)
(* (rtostwin.c:64, 76; encoder.c:145, 151, 230).                            *)
TornBaselineUnused ==
    pc = "encode" /\ lastSnapshot = Torn => ForceKeyframe \/ ~encoderInitialised

(* The header of every frame names the layout of its payload, though the    *)
(* type is read from a flag that outlives the call and the task             *)
(* (rtostwin.c:83, encoder.c:154-158).                                      *)
HeaderMatchesPayload ==
    /\ framed.type = framed.payload.type
    /\ dma.sent.type = dma.sent.payload.type
    /\ \A i \in DOMAIN dma.over : dma.over[i].type = dma.over[i].payload.type

(* record_drop, called at most once per packet against a count that runs    *)
(* ahead, has caught up with the decoder whenever a chunk is handled        *)
(* (main.py:75-76).                                                         *)
DropCountCatchesUp ==
    /\ state.drop_count <= gapCount
    /\ batch = <<>> => state.drop_count = gapCount

(* The loss ratio the exporters compute never exceeds 1, although the drops *)
(* are counted by the decoder ahead of the packets and both counts move to  *)
(* a new DeviceState with every keyframe (main.py:75-78,                    *)
(* state_manager.py:150-157, prometheus_exporter.py:111-113).               *)
LossRatioIsFraction == state.drop_count <= state.packet_count

(* What an observer of the snapshot s can rely on: all but the fields of   *)
(* the tasks a delta cannot name.                                           *)
Visible(s) ==
    [memory |-> s.memory,
     names  |-> [i \in Slots(s) |-> s.tasks[i].name],
     fields |-> [i \in {j \in Slots(s) : j < DeltaTasks} |-> s.tasks[i].field]]

Abstract == INSTANCE Mirror WITH
    published <- [c \in 1..Cycle |-> Visible(captured[c])],
    version   <- state.timestamp,
    trusted   <- hasKeyframe /\ contiguous,
    shown     <- Visible(state)

(* The link implements the mirror: what the bridge exports never goes back  *)
(* to an older cycle, though a frame written over a transfer in progress    *)
(* can be sent twice, and a trusted state is the cycle it names             *)
(* (rtostwin.c:84-93, uart_dma.c:36-47, state_manager.py:144-162).          *)
ImplementsMirror == Abstract!MirrorSpec

-----------------------------------------------------------------------------
(* What documents and comments of the repository say and the code does not. *)

(* A run of the system in which no frame is dropped, lost or overwritten    *)
(* and the task is not deleted.                                             *)
NoFault ==
    /\ txDrops' = txDrops
    /\ dma.active /\ ~dma'.active => line' # line
    /\ ~dma'.dirty
    /\ running => running'

FaultFreeSpec == Init /\ [][Next /\ NoFault]_vars

(* prometheus_exporter.py:81: the loss ratio is the fraction of telemetry   *)
(* packets dropped.                                                         *)
NoLossNoDropCount == state.drop_count = 0
=============================================================================
