------------------------------- MODULE Bridge -------------------------------
(***************************************************************************)
(* The host: PacketDecoder's sequence check (bridge/decoder.py), the loop  *)
(* handle_packets (bridge/main.py) and StateManager                        *)
(* (bridge/state_manager.py) for one device. A chunk of serial bytes is    *)
(* decoded whole before its packets are handled one by one, so the gap     *)
(* count the handling loop reads runs ahead of the packet it is handling.  *)
(***************************************************************************)
EXTENDS WireFormat, Sequences

VARIABLES
    bridgePc,     \* "read": feed_bytes is decoding a chunk; "handle": its packets
    lastSeq,      \* decoder._last_seq, -1 before the first packet
    gapCount,     \* decoder.sequence_gap_count
    batch,        \* the decoded packets of the chunk not yet handled
    state,        \* the manager's DeviceState
    hasKeyframe,  \* the manager's _has_keyframe
    clean,        \* no gap was counted since the last keyframe handled
    contiguous,   \* no cycle is missing since the last keyframe handled
    outage        \* as many as there are sequence numbers went missing in a row

bridgeVars == <<bridgePc, lastSeq, gapCount, batch, state, hasKeyframe, clean,
                contiguous, outage>>

(* DeviceState() *)
EmptyState == [tasks |-> [i \in {} |-> 0], memory |-> [f \in MemoryFields |-> 0],
               timestamp |-> 0, packet_count |-> 0, drop_count |-> 0]

BridgeInit ==
    /\ bridgePc = "read"
    /\ lastSeq = -1
    /\ gapCount = 0
    /\ batch = <<>>
    /\ state = EmptyState
    /\ hasKeyframe = FALSE
    /\ clean = FALSE
    /\ contiguous = FALSE
    /\ outage = FALSE

-----------------------------------------------------------------------------
(* Mutation: the expected number does not wrap. *)
SequenceGapUnwrapped(p) == lastSeq # -1 /\ p.seq # lastSeq + 1

(* The check a packet with a good CRC goes through. *)
SequenceGap(p) == lastSeq # -1 /\ p.seq # (lastSeq + 1) % SeqMod

(* feed_bytes decodes the next packet of the chunk. The mark gap records   *)
(* what the check said of it.                                              *)
Decode(p) ==
    /\ bridgePc = "read"
    /\ gapCount' = gapCount + (IF SequenceGap(p) THEN 1 ELSE 0)
    /\ lastSeq' = p.seq
    /\ batch' = Append(batch, [packet |-> p, gap |-> SequenceGap(p)])
    /\ UNCHANGED <<bridgePc, state, hasKeyframe, clean, contiguous, outage>>

(* feed_bytes returns the packets of the chunk. *)
ChunkDecoded ==
    /\ bridgePc = "read"
    /\ batch # <<>>
    /\ bridgePc' = "handle"
    /\ UNCHANGED <<lastSeq, gapCount, batch, state, hasKeyframe, clean, contiguous, outage>>

-----------------------------------------------------------------------------
(* _apply_delta_payload: entries for slots the state does not have are     *)
(* skipped, names are never touched.                                       *)
AppliedTasks(d, tasks) ==
    [i \in DOMAIN tasks |->
        [name  |-> tasks[i].name,
         field |-> [f \in TaskFields |->
            IF <<i, f>> \in DOMAIN d.changes
            THEN d.changes[<<i, f>>] ELSE tasks[i].field[f]]]]

AppliedMemory(d, memory) ==
    [f \in MemoryFields |-> IF f \in DOMAIN d.memory THEN d.memory[f] ELSE memory[f]]

(* _parse_keyframe_payload answers None for a payload of another length. *)
ParsesAsKeyframe(p) == p.payload.type = "keyframe"

(* Mutation: the new DeviceState of a keyframe starts with no drops. *)
UpdatedForgettingDrops(p, s) ==
    CASE p.type = "keyframe" /\ ParsesAsKeyframe(p) ->
            [tasks |-> p.payload.tasks, memory |-> p.payload.memory,
             timestamp |-> p.cycle,
             packet_count |-> s.packet_count + 1, drop_count |-> 0]
      [] p.type = "delta" /\ hasKeyframe ->
            [tasks |-> AppliedTasks(p.payload, s.tasks),
             memory |-> AppliedMemory(p.payload, s.memory),
             timestamp |-> p.cycle,
             packet_count |-> s.packet_count + 1, drop_count |-> s.drop_count]
      [] OTHER -> [s EXCEPT !.packet_count = s.packet_count + 1]

(* Mutation: the new DeviceState of a keyframe has seen no packet. *)
UpdatedForgettingPackets(p, s) ==
    CASE p.type = "keyframe" /\ ParsesAsKeyframe(p) ->
            [tasks |-> p.payload.tasks, memory |-> p.payload.memory,
             timestamp |-> p.cycle, packet_count |-> 0, drop_count |-> s.drop_count]
      [] p.type = "delta" /\ hasKeyframe ->
            [tasks |-> AppliedTasks(p.payload, s.tasks),
             memory |-> AppliedMemory(p.payload, s.memory),
             timestamp |-> p.cycle,
             packet_count |-> s.packet_count + 1, drop_count |-> s.drop_count]
      [] OTHER -> [s EXCEPT !.packet_count = s.packet_count + 1]

(* StateManager.update on the state s; a new DeviceState replaces it on a  *)
(* keyframe and inherits its two counters.                                 *)
Updated(p, s) ==
    CASE p.type = "keyframe" /\ ParsesAsKeyframe(p) ->
            [tasks |-> p.payload.tasks, memory |-> p.payload.memory,
             timestamp |-> p.cycle,
             packet_count |-> s.packet_count + 1, drop_count |-> s.drop_count]
      [] p.type = "delta" /\ hasKeyframe ->
            [tasks |-> AppliedTasks(p.payload, s.tasks),
             memory |-> AppliedMemory(p.payload, s.memory),
             timestamp |-> p.cycle,
             packet_count |-> s.packet_count + 1, drop_count |-> s.drop_count]
      [] OTHER -> [s EXCEPT !.packet_count = s.packet_count + 1]

(* record_drop, at most once per packet, until the manager's count is the  *)
(* decoder's.                                                              *)
DropRecorded(s) ==
    IF gapCount > s.drop_count THEN [s EXCEPT !.drop_count = s.drop_count + 1] ELSE s

(* Mutation: the packets of a chunk are handled newest first. *)
HandleNewestFirst ==
    /\ bridgePc = "handle"
    /\ LET p   == batch[Len(batch)].packet
           key == p.type = "keyframe" /\ ParsesAsKeyframe(p)
       IN  /\ state' = Updated(p, DropRecorded(state))
           /\ hasKeyframe' = (hasKeyframe \/ key)
           /\ clean' = (key \/ (clean /\ ~batch[Len(batch)].gap))
           /\ contiguous' = (key \/ (contiguous /\ p.cycle = state.timestamp + 1))
           /\ outage' = (~key /\ (outage \/ p.cycle > state.timestamp + SeqMod))
    /\ batch' = SubSeq(batch, 1, Len(batch) - 1)
    /\ bridgePc' = IF Len(batch) = 1 THEN "read" ELSE "handle"
    /\ UNCHANGED <<lastSeq, gapCount>>

(* One turn of the loop of handle_packets. *)
Handle ==
    /\ bridgePc = "handle"
    /\ LET p   == Head(batch).packet
           key == p.type = "keyframe" /\ ParsesAsKeyframe(p)
       IN  /\ state' = Updated(p, DropRecorded(state))
           /\ hasKeyframe' = (hasKeyframe \/ key)
           /\ clean' = (key \/ (clean /\ ~Head(batch).gap))
           /\ contiguous' = (key \/ (contiguous /\ p.cycle = state.timestamp + 1))
           /\ outage' = (~key /\ (outage \/ p.cycle > state.timestamp + SeqMod))
    /\ batch' = Tail(batch)
    /\ bridgePc' = IF Len(batch) = 1 THEN "read" ELSE "handle"
    /\ UNCHANGED <<lastSeq, gapCount>>
=============================================================================
