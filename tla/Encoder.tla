------------------------------- MODULE Encoder ------------------------------
(***************************************************************************)
(* agent/core/encoder.c: turns each snapshot into a keyframe or into a     *)
(* delta against s_last_snapshot, the baseline.                            *)
(*                                                                         *)
(* encoder_encode is two steps, EncodeStart and EncodeFinish, because the  *)
(* task that runs it can be deleted during the memcpy that replaces the    *)
(* baseline. A baseline abandoned there is Torn: some of its bytes are old *)
(* and some are new.                                                       *)
(***************************************************************************)
EXTENDS WireFormat

CONSTANTS
    PayloadBytes,  \* RTOSTWIN_PAYLOAD_BUFFER_BYTES, size of the output buffer
    Torn           \* a baseline whose memcpy did not finish

ASSUME EncoderAssumption ==
    /\ PayloadBytes \in Nat
    /\ Torn \notin Snapshot

VARIABLES
    lastSnapshot,           \* s_last_snapshot
    encoderInitialised,     \* s_is_initialized
    lastEncodeWasKeyframe,  \* s_last_encode_was_keyframe
    payload                 \* the output buffer

encoderVars == <<lastSnapshot, encoderInitialised, lastEncodeWasKeyframe, payload>>

(* encoder_encode returned 0, or has not been called. *)
NoPayload == [type |-> "none"]

ZeroSnapshot == [tasks |-> [i \in {} |-> 0], memory |-> [f \in MemoryFields |-> 0]]

EncoderInit ==
    /\ lastSnapshot = ZeroSnapshot
    /\ encoderInitialised = FALSE
    /\ lastEncodeWasKeyframe = FALSE
    /\ payload = NoPayload

KeyframeOf(s) == [type |-> "keyframe", tasks |-> s.tasks, memory |-> s.memory]

(* The <<slot, field>> pairs a delta covers: slots from DeltaTasks on have  *)
(* no tag and are skipped.                                                  *)
DeltaPairs(s) == {<<i, f>> : i \in {j \in Slots(s) : j < DeltaTasks}, f \in TaskFields}

(* The delta that carries the given pairs and memory fields of s. *)
DeltaWith(s, pairs, fields) ==
    [type    |-> "delta",
     changes |-> [x \in pairs |-> s.tasks[x[1]].field[x[2]]],
     memory  |-> [f \in fields |-> s.memory[f]]]

(* Mutation: heap_min_ever_bytes is forgotten. *)
DeltaOfWithoutHeapMin(s, last) ==
    DeltaWith(s,
              {x \in DeltaPairs(s) :
                  s.tasks[x[1]].field[x[2]] # last.tasks[x[1]].field[x[2]]},
              {f \in MemoryFields \ {"heap_min_ever_bytes"} : s.memory[f] # last.memory[f]})

DeltaOf(s, last) ==
    DeltaWith(s,
              {x \in DeltaPairs(s) :
                  s.tasks[x[1]].field[x[2]] # last.tasks[x[1]].field[x[2]]},
              {f \in MemoryFields : s.memory[f] # last.memory[f]})

(* Mutation: a delta does not clear the flag. *)
WriteKeepsFlag(p) ==
    /\ IF PayloadSize(p) <= PayloadBytes
       THEN payload' = p /\ lastSnapshot' = Torn
       ELSE payload' = NoPayload /\ UNCHANGED lastSnapshot
    /\ UNCHANGED <<encoderInitialised, lastEncodeWasKeyframe>>

(* Mutation: when p does not fit, the buffer is returned as it was. *)
WriteKeepsPayload(p) ==
    /\ lastEncodeWasKeyframe' = (lastEncodeWasKeyframe /\ p.type = "keyframe")
    /\ IF PayloadSize(p) <= PayloadBytes
       THEN payload' = p /\ lastSnapshot' = Torn
       ELSE UNCHANGED <<payload, lastSnapshot>>
    /\ UNCHANGED encoderInitialised

(* Write the payload p; when it does not fit the call returns 0 and keeps  *)
(* the baseline, otherwise the memcpy of the baseline begins. A delta      *)
(* clears s_last_encode_was_keyframe before it is written.                 *)
Write(p) ==
    /\ lastEncodeWasKeyframe' = (lastEncodeWasKeyframe /\ p.type = "keyframe")
    /\ IF PayloadSize(p) <= PayloadBytes
       THEN payload' = p /\ lastSnapshot' = Torn
       ELSE payload' = NoPayload /\ UNCHANGED lastSnapshot
    /\ UNCHANGED encoderInitialised

(* topology_requires_keyframe; a torn baseline may or may not look alike. *)
MayRequireKeyframe(s) == lastSnapshot # Torn => ~SameTopology(s, lastSnapshot)

(* encoder_encode up to the memcpy. Against a torn baseline every           *)
(* comparison may go either way, so any part of a delta may be written.     *)
EncodeStart(s, forceKeyframe) ==
    \/ /\ ~forceKeyframe /\ encoderInitialised => MayRequireKeyframe(s)
       /\ Write(KeyframeOf(s))
    \/ /\ ~forceKeyframe /\ encoderInitialised
       /\ lastSnapshot # Torn /\ SameTopology(s, lastSnapshot)
       /\ Write(DeltaOf(s, lastSnapshot))
    \/ /\ ~forceKeyframe /\ encoderInitialised /\ lastSnapshot = Torn
       /\ \E pairs \in SUBSET DeltaPairs(s), fields \in SUBSET MemoryFields :
             Write(DeltaWith(s, pairs, fields))

(* The memcpy is complete; a keyframe also sets the two flags. *)
EncodeFinish(s) ==
    /\ lastSnapshot' = s
    /\ encoderInitialised' = (encoderInitialised \/ payload.type = "keyframe")
    /\ lastEncodeWasKeyframe' = (lastEncodeWasKeyframe \/ payload.type = "keyframe")
    /\ UNCHANGED payload

(* encoder_init *)
EncoderReset ==
    /\ lastSnapshot' = ZeroSnapshot
    /\ encoderInitialised' = FALSE
    /\ lastEncodeWasKeyframe' = FALSE
    /\ UNCHANGED payload
=============================================================================
