-------------------------------- MODULE Codec --------------------------------
(***************************************************************************)
(* The wire format byte by byte: what encoder.c and framer.c write, what   *)
(* the mock device of the bridge writes in their place, and what           *)
(* decoder.py and state_manager.py read back, with the real CRC and the    *)
(* real widths, on a line that damages frames.                             *)
(*                                                                         *)
(* The other modules take the round trip shown here for granted: Encoder   *)
(* and Bridge exchange abstract payloads of the same sizes, and            *)
(* PacketDecoder an ideal CRC.                                             *)
(***************************************************************************)
EXTENDS WireFormat, Sequences, FiniteSetsExt

Seqs == INSTANCE SequencesExt

CONSTANTS
    Snapshots,      \* the snapshots the agent may send
    MockSnapshots,  \* those the mock device sends, with names of any length
    Timestamps,     \* values of timestamp_ticks
    FirstSeqs,      \* sequence numbers to start from
    MaxFrames,      \* bound: frames sent
    NULL,           \* the null pointer
    NoCulprit,      \* no overflow so far
    OverflowNames,  \* what the hook finds at pcTaskName: NULL, or bytes up to a zero
    Errors,         \* what damage adds (xor) to two bytes that follow each other
    MaxDamaged      \* bound: the length of the frames that are damaged

NameLen == 16      \* TASK_NAME_MAX_LEN
SystemSlot == 15   \* the high nibble of WF_DELTA_SYSTEM_TAG_BASE

Shorts == 0..(256 * 256 - 1)   \* uint16_t

(* The values of a field; a number of 32 bits is a pair of words, the low   *)
(* one first.                                                               *)
Values(f) ==
    CASE Width(f) = 1 -> 0..255
      [] Width(f) = 2 -> Shorts
      [] Width(f) = 4 -> Shorts \X Shorts

HasFields(r, fields) ==
    /\ r = [f \in fields |-> r[f]]
    /\ \A f \in fields : r[f] \in Values(f)

(* What full_snapshot_t can hold; the names are ASCII and end before a zero. *)
IsSnapshot(s) ==
    /\ s = [tasks |-> s.tasks, memory |-> s.memory]
    /\ s.tasks = [i \in Slots(s) |-> s.tasks[i]]
    /\ \E n \in 0..MaxTasks : Slots(s) = 0..(n - 1)
    /\ HasFields(s.memory, MemoryFields)
    /\ \A i \in Slots(s) : /\ s.tasks[i] = [name |-> s.tasks[i].name, field |-> s.tasks[i].field]
                           /\ s.tasks[i].name \in Seq(1..127)
                           /\ HasFields(s.tasks[i].field, TaskFields)

(* take_snapshot cuts the names of the agent's tasks. *)
ASSUME CodecAssumption ==
    /\ MaxTasks <= 255 /\ DeltaTasks <= SystemSlot /\ SeqMod <= 65536
    /\ \A s \in Snapshots \cup MockSnapshots : IsSnapshot(s)
    /\ \A s \in Snapshots : \A i \in Slots(s) : Len(s.tasks[i].name) < NameLen
    /\ Timestamps \subseteq Shorts \X Shorts
    /\ FirstSeqs \subseteq 0..(SeqMod - 1)
    /\ {MaxFrames, MaxDamaged} \subseteq Nat
    /\ OverflowNames \ {NULL} \subseteq Seq(1..255)
    /\ NoCulprit \notin OverflowNames

(* The bits of two bytes, and at least one of them *)
ASSUME ErrorsAssumption ==
    Errors \subseteq ((SUBSET (0..7)) \X (SUBSET (0..7))) \ {<<{}, {}>>}

VARIABLES
    source,   \* "agent" or "mock": what is at the other end of the line
    device,   \* the snapshot of the last frame, the agent's s_last_snapshot
    sentAt,   \* its timestamp
    seq,      \* the next sequence number
    frames,   \* counts the frames, for MaxFrames
    frame,    \* the bytes on the line; none is <<>>
    hit,      \* the damage it has: where, and the error (not in the code)
    host,     \* the DeviceState of the StateManager
    synced,   \* every frame since a keyframe came through undamaged (not in the code)
    crash,    \* s_crash_reason
    culprit   \* the name of the task that overflowed its stack (not in the code)

crashVars == <<crash, culprit>>
vars == <<source, device, sentAt, seq, frames, frame, hit, host, synced, crashVars>>

-----------------------------------------------------------------------------
(* Bytes. *)

(* write_u16_le *)
U16(v) == <<v % 256, v \div 256>>

(* write_u32_le; a number of 32 bits is a pair of words, the low one first. *)
U32(v) == U16(v[1]) \o U16(v[2])

(* The n bytes of a value, and struct.unpack of them *)
Le(v, n) == CASE n = 1 -> <<v>> [] n = 2 -> U16(v) [] n = 4 -> U32(v)

FromLe(bytes) ==
    LET U(k) == bytes[k] + 256 * bytes[k + 1]
    IN  CASE Len(bytes) = 1 -> bytes[1]
          [] Len(bytes) = 2 -> U(1)
          [] Len(bytes) = 4 -> <<U(1), U(3)>>

(* A word of 16 bits as the set of the places of its ones *)
Number(bits) ==
    LET above[k \in 0..16] ==
            IF k = 16 THEN 0 ELSE 2 * above[k + 1] + (IF k \in bits THEN 1 ELSE 0)
    IN  above[0]

Bits == [byte \in 0..255 |-> CHOOSE bits \in SUBSET (0..7) : Number(bits) = byte]

Xor(a, b) == (a \ b) \cup (b \ a)

CrcPoly == {0, 5, 12}   \* WF_CRC_POLY, 0x1021
CrcInit == 0..15        \* WF_CRC_INIT, 0xFFFF

CrcShift(crc) ==
    Xor({bit + 1 : bit \in crc \ {15}}, IF 15 \in crc THEN CrcPoly ELSE {})

CrcByte(crc, byte) ==
    LET shifted[k \in 0..8] ==
            IF k = 0 THEN Xor(crc, {bit + 8 : bit \in Bits[byte]}) ELSE CrcShift(shifted[k - 1])
    IN  shifted[8]

(* What bytes do to the register: the loop of crc16_ccitt, half by half to  *)
(* keep the recursion shallow; over[<<from, to>>] is its turns after from.  *)
CrcOver(bytes) ==
    LET over[turns \in (0..Len(bytes)) \X (0..Len(bytes))] ==
            LET from == turns[1]  to == turns[2]  mid == (from + to) \div 2 IN
            [crc \in SUBSET (0..15) |->
                CASE to <= from    -> crc
                  [] to = from + 1 -> CrcByte(crc, bytes[to])
                  [] OTHER         -> over[<<mid, to>>][over[<<from, mid>>][crc]]]
    IN  over[<<0, Len(bytes)>>]

(* crc16_ccitt, the same in framer.c, decoder.py and mock_device.py *)
Crc16(bytes) == Number(CrcOver(bytes)[CrcInit])

-----------------------------------------------------------------------------
(* Payloads. *)

(* Mutation: a name may fill its field, with no room for the zero. *)
NameFieldFull(name) == [k \in 1..NameLen |-> IF k <= Len(name) THEN name[k] ELSE 0]

(* At most NameLen - 1 characters, padded with zeros *)
NameField(name) ==
    [k \in 1..NameLen |-> IF k < NameLen /\ k <= Len(name) THEN name[k] ELSE 0]

TaskBytes(t) ==
    NameField(t.name) \o Le(t.field["state"], 1) \o Le(t.field["priority"], 1)
        \o Le(t.field["stack_hwm_words"], 2) \o Le(t.field["runtime_ticks"], 4)

InOrder(s) == [k \in 1..Cardinality(Slots(s)) |-> s.tasks[k - 1]]

(* encode_keyframe, and _build_keyframe_payload of the mock device. *)
KeyframePayload(s, number, time) ==
    Le(number, 2) \o Le(time, 4) \o <<Cardinality(Slots(s))>>
        \o Seqs!FlattenSeq([k \in DOMAIN InOrder(s) |-> TaskBytes(InOrder(s)[k])])
        \o Le(s.memory["heap_free_bytes"], 4) \o Le(s.memory["heap_min_ever_bytes"], 4)
        \o Le(s.memory["cpu_utilization_pct"], 1)

(* The numbers of the fields, from 1 *)
FieldOrder == <<"state", "priority", "stack_hwm_words", "runtime_ticks",
                "heap_free_bytes", "heap_min_ever_bytes", "cpu_utilization_pct">>
FieldId(f) == CHOOSE k \in DOMAIN FieldOrder : FieldOrder[k] = f

(* Mutation: the high byte of a stack mark is forgotten. *)
EntryLowByte(slot, f, v) ==
    <<(16 * slot + FieldId(f)) % 256>>
        \o (IF Width(f) = 2 THEN <<v % 256>> ELSE Le(v, Width(f)))

(* The tag, then the value; the tag is a uint8_t. *)
Entry(slot, f, v) == <<(16 * slot + FieldId(f)) % 256>> \o Le(v, Width(f))

(* The values a delta can carry, in their order: the memory's, then those   *)
(* of the tasks with a tag                                                  *)
PlaceOf(k) ==
    IF k <= 3 THEN <<SystemSlot, FieldOrder[k + 4]>>
    ELSE <<(k - 4) \div 4, FieldOrder[((k - 4) % 4) + 1]>>

ValueAt(s, slot, f) == IF slot = SystemSlot THEN s.memory[f] ELSE s.tasks[slot].field[f]

(* What a delta says of one of them: nothing when it is as it was. *)
EntryOf(place, new, old) ==
    LET Value(s) == ValueAt(s, place[1], place[2]) IN
    IF Value(new) = Value(old) THEN <<>> ELSE Entry(place[1], place[2], Value(new))

(* encoder_encode of a delta *)
DeltaPayload(s, last) ==
    Seqs!FlattenSeq([k \in 1..(3 + 4 * Min({Cardinality(Slots(s)), DeltaTasks})) |->
                        EntryOf(PlaceOf(k), s, last)])

-----------------------------------------------------------------------------
(* Frames. *)

Delta == 1
Keyframe == 2
Sync == <<170, 85>>
Version == 1

HeaderSize == 12   \* WF_HEADER_SIZE, the sync bytes included

(* Mutation: the header is left out of the CRC. *)
CoveredPayload(bytes) == SubSeq(bytes, HeaderSize + 1, Len(bytes))

(* What the CRC of a frame is computed over: all but the sync bytes *)
Covered(bytes) == SubSeq(bytes, 3, Len(bytes))

(* Mutation: the low byte of the CRC is not cut off. *)
FramePacketUncut(type, number, time, payload) ==
    LET bytes == Sync \o <<Version, type>> \o Le(number, 2) \o Le(time, 4)
                     \o Le(Len(payload), 2) \o payload
        crc   == Crc16(Covered(bytes))
    IN  bytes \o <<crc, crc \div 256>>

(* frame_packet; _frame_packet of the mock device. *)
FramePacket(type, number, time, payload) ==
    LET bytes == Sync \o <<Version, type>> \o Le(number, 2) \o Le(time, 4)
                     \o Le(Len(payload), 2) \o payload
    IN  bytes \o Le(Crc16(Covered(bytes)), 2)

PayloadOf(bytes) == SubSeq(bytes, HeaderSize + 1, Len(bytes) - 2)

(* feed_byte on a whole frame. *)
Accepted(bytes) ==
    /\ SubSeq(bytes, 1, 2) = Sync
    /\ bytes[3] = Version
    /\ FromLe(SubSeq(bytes, 11, 12)) = Len(PayloadOf(bytes))
    /\ FromLe(SubSeq(bytes, Len(bytes) - 1, Len(bytes)))
          = Crc16(Covered(SubSeq(bytes, 1, Len(bytes) - 2)))

-----------------------------------------------------------------------------
(* StateManager. *)

NoState == [tasks |-> [i \in {} |-> 0], memory |-> [f \in MemoryFields |-> FromLe([k \in 1..Width(f) |-> 0])],
            timestamp |-> <<0, 0>>, hasKeyframe |-> FALSE]

NameOf(bytes) ==
    LET used == {k \in DOMAIN bytes : bytes[k] # 0}
    IN  SubSeq(bytes, 1, IF used = {} THEN 0 ELSE Max(used))

TaskOf(bytes) ==
    [name  |-> NameOf(SubSeq(bytes, 1, NameLen)),
     field |-> [f \in TaskFields |->
        CASE f = "state" -> bytes[17]
          [] f = "priority" -> bytes[18]
          [] f = "stack_hwm_words" -> FromLe(SubSeq(bytes, 19, 20))
          [] f = "runtime_ticks" -> FromLe(SubSeq(bytes, 21, 24))]]

(* _parse_keyframe_payload answers None unless the length is the one the    *)
(* task count asks for.                                                     *)
ParsesAsKeyframe(p) ==
    /\ Len(p) >= 16
    /\ p[7] <= MaxTasks
    /\ Len(p) = 7 + 24 * p[7] + 9

ParsedKeyframe(p) ==
    [tasks  |-> [i \in 0..(p[7] - 1) |-> TaskOf(SubSeq(p, 8 + 24 * i, 31 + 24 * i))],
     memory |-> LET m == SubSeq(p, 8 + 24 * p[7], Len(p)) IN
                [f \in MemoryFields |->
                   CASE f = "heap_free_bytes" -> FromLe(SubSeq(m, 1, 4))
                     [] f = "heap_min_ever_bytes" -> FromLe(SubSeq(m, 5, 8))
                     [] f = "cpu_utilization_pct" -> m[9]],
     timestamp   |-> FromLe(SubSeq(p, 3, 6)),
     hasKeyframe |-> TRUE]

(* One turn of the loop of _apply_delta_payload, which stands at a tag:     *)
(* entries for slots the state does not have are skipped; an unknown field  *)
(* or a value cut short ends the loop.                                      *)
DeltaTurn(p, c) ==
    LET slot  == p[c.at] \div 16
        id    == p[c.at] % 16
        known == id \in (IF slot = SystemSlot THEN 5..7 ELSE 1..4)
        f     == FieldOrder[id]
        next  == c.at + 1 + (IF known THEN Width(f) ELSE 0)
        value == FromLe(SubSeq(p, c.at + 1, next - 1))
    IN  IF c.at > Len(p) THEN c
        ELSE IF slot # SystemSlot /\ slot \notin DOMAIN c.state.tasks
        THEN [c EXCEPT !.at = next]
        ELSE IF ~known \/ next > Len(p) + 1
        THEN [c EXCEPT !.at = Len(p) + 1]
        ELSE IF slot = SystemSlot
        THEN [at |-> next, state |-> [c.state EXCEPT !.memory[f] = value]]
        ELSE [at |-> next, state |-> [c.state EXCEPT !.tasks[slot].field[f] = value]]

AppliedDelta(p, st) ==
    LET turn[k \in 0..Len(p)] ==
            IF k = 0 THEN [at |-> 1, state |-> st] ELSE DeltaTurn(p, turn[k - 1])
    IN  turn[Len(p)].state

(* StateManager.update *)
Updated(st, bytes) ==
    LET type == bytes[4]  p == PayloadOf(bytes) IN
    CASE type = Keyframe /\ ParsesAsKeyframe(p) -> ParsedKeyframe(p)
      [] type = Delta /\ st.hasKeyframe ->
            [AppliedDelta(p, st) EXCEPT !.timestamp = FromLe(SubSeq(bytes, 7, 10))]
      [] OTHER -> st

-----------------------------------------------------------------------------
(* The crash diagnostics. *)

CrashReasonMaxLen == 64   \* CRASH_REASON_MAX_LEN

CrashPrefix ==   \* "STACK OVERFLOW: "
    <<83, 84, 65, 67, 75, 32, 79, 86, 69, 82, 70, 76, 79, 87, 58, 32>>

CrashText(name) == CrashPrefix \o (IF name = NULL THEN <<>> ELSE name)

(* Mutation: the text may fill the buffer, with no room for the zero. *)
CrashReasonFull(name, buffer) ==
    [k \in DOMAIN buffer |-> IF k <= Len(CrashText(name)) THEN CrashText(name)[k] ELSE buffer[k]]

(* The buffer after the two copying loops and the zero *)
CrashReason(name, buffer) ==
    LET text == CrashText(name)
        end  == IF Len(text) < CrashReasonMaxLen THEN Len(text) + 1 ELSE CrashReasonMaxLen
    IN  [k \in DOMAIN buffer |->
            IF k < end THEN text[k] ELSE IF k = end THEN 0 ELSE buffer[k]]

-----------------------------------------------------------------------------
Init ==
    /\ source \in {"agent", "mock"}
    /\ device \in Snapshots
    /\ sentAt = <<0, 0>>
    /\ seq \in FirstSeqs
    /\ frames = 0
    /\ frame = <<>>
    /\ hit = <<>>
    /\ host = NoState
    /\ synced = FALSE
    /\ crash = [k \in 1..CrashReasonMaxLen |-> 0]
    /\ culprit = NoCulprit

(* One cycle of the agent; the first frame is a keyframe and later ones are *)
(* when they are forced or the topology has changed. An empty delta is not  *)
(* sent.                                                                    *)
AgentSends ==
    /\ source = "agent" /\ culprit = NoCulprit /\ frame = <<>> /\ frames < MaxFrames
    /\ \E s \in Snapshots, force \in BOOLEAN, t \in Timestamps :
          LET keyframe == force \/ frames = 0 \/ ~SameTopology(s, device)
              payload == IF keyframe THEN KeyframePayload(s, seq, t) ELSE DeltaPayload(s, device)
          IN  /\ device' = s
              /\ IF payload = <<>> THEN UNCHANGED <<frame, sentAt>>
                 ELSE /\ frame' = FramePacket(IF keyframe THEN Keyframe ELSE Delta,
                                              seq, t, payload)
                      /\ sentAt' = t
    /\ seq' = (seq + 1) % SeqMod
    /\ frames' = frames + 1
    /\ UNCHANGED <<source, hit, host, synced, crashVars>>

(* The name a task has on the host *)
Truncated(name) == SubSeq(name, 1, IF Len(name) < NameLen THEN Len(name) ELSE NameLen - 1)

(* One turn of the loop of mock_device.py: always a keyframe. The clock is  *)
(* read twice, for the header and for the payload.                          *)
MockSends ==
    /\ source = "mock" /\ frame = <<>> /\ frames < MaxFrames
    /\ \E s \in MockSnapshots, t, u \in Timestamps :
          /\ device' = [s EXCEPT !.tasks =
                           [i \in Slots(s) |-> [s.tasks[i] EXCEPT !.name = Truncated(@)]]]
          /\ sentAt' = u
          /\ frame' = FramePacket(Keyframe, seq, t, KeyframePayload(s, seq, u))
    /\ seq' = (seq + 1) % SeqMod
    /\ frames' = frames + 1
    /\ UNCHANGED <<source, hit, host, synced, crashVars>>

(* Where damage may begin. The length is left alone: a damaged length is a  *)
(* frame of another length, which is the concern of PacketDecoder.          *)
DamagedAt(bytes) == {i \in 1..(Len(bytes) - 1) : {i, i + 1} \cap {11, 12} = {}}

Struck(bytes, i, e) ==
    [bytes EXCEPT ![i] = Number(Xor(Bits[@], e[1])), ![i + 1] = Number(Xor(Bits[@], e[2]))]

Damage ==
    /\ frame # <<>> /\ hit = <<>> /\ Len(frame) <= MaxDamaged
    /\ \E i \in DamagedAt(frame), e \in Errors :
          /\ frame' = Struck(frame, i, e)
          /\ hit' = <<i, e>>
    /\ UNCHANGED <<source, device, sentAt, seq, frames, host, synced, crashVars>>

Deliver ==
    /\ frame # <<>>
    /\ IF Accepted(frame)
       THEN /\ host' = Updated(host, frame)
            /\ synced' = (hit = <<>> /\ (synced \/ frame[4] = Keyframe))
       ELSE /\ synced' = FALSE
            /\ UNCHANGED host
    /\ frame' = <<>>
    /\ hit' = <<>>
    /\ UNCHANGED <<source, device, sentAt, seq, frames, crashVars>>

(* vApplicationStackOverflowHook: it spins when it has copied the name, so  *)
(* the agent sends nothing more. The overflow may have reached the name.    *)
(* The DMA finishes the frame it has, as if nothing had happened; only the  *)
(* moments between two frames are looked at.                                *)
StackOverflow ==
    /\ source = "agent" /\ culprit = NoCulprit /\ frame = <<>>
    /\ \E name \in OverflowNames :
          /\ crash' = CrashReason(name, crash)
          /\ culprit' = name
    /\ UNCHANGED <<source, device, sentAt, seq, frames, frame, hit, host, synced>>

Next == AgentSends \/ MockSends \/ Damage \/ Deliver \/ StackOverflow

Spec == Init /\ [][Next]_vars

-----------------------------------------------------------------------------
(* Bytes are bytes, the sequence number wraps with its width and only a     *)
(* frame on the line is damaged (framer.c:46-55, snapshot.c:40).            *)
TypeOK ==
    /\ source \in {"agent", "mock"}
    /\ seq \in 0..(SeqMod - 1)
    /\ frames \in 0..MaxFrames
    /\ \A i \in DOMAIN frame : frame[i] \in 0..255
    /\ hit # <<>> => frame # <<>>
    /\ {synced, host.hasKeyframe} \subseteq BOOLEAN

(* What the host reads is what the device wrote, in every byte of every     *)
(* width, for the tasks a delta has a tag for (encoder.c:71-233,            *)
(* state_manager.py:41-162, mock_device.py:34-69).                          *)
RoundTrip ==
    synced /\ frame = <<>> =>
        /\ host.timestamp = sentAt
        /\ host.memory = device.memory
        /\ SameTopology(host, device)
        /\ \A i \in Slots(device) : i < DeltaTasks =>
              host.tasks[i].field = device.tasks[i].field

(* Damage within two bytes that follow each other, neither of them a byte   *)
(* of the length, is never accepted, but for one error over the last byte   *)
(* of the payload and the first of the CRC: the CRC is sent low byte first, *)
(* so these two are not neighbours in the polynomial (framer.c:5-21, 61-65, *)
(* decoder.py:139-146).                                                     *)
DamageRejected ==
    hit # <<>> =>
        (Accepted(frame) <=> hit = <<Len(frame) - 2, <<{0, 3, 7}, {0, 5, 7}>>>>)

(* What a debugger reads in the buffer, up to the first zero, is the prefix *)
(* and the name, as much of it as fits, whatever the overflow has made of   *)
(* the name; before an overflow it reads nothing (hooks.c:45-94).           *)
CrashReadable ==
    LET zeros == {k \in DOMAIN crash : crash[k] = 0}
        read  == SubSeq(crash, 1, Min(zeros) - 1)
    IN  /\ zeros # {}
        /\ IF culprit = NoCulprit
           THEN read = <<>>
           ELSE /\ Seqs!IsPrefix(read, CrashText(culprit))
                /\ Len(read) < Len(CrashText(culprit)) => zeros = {CrashReasonMaxLen}

Abstract == INSTANCE Encoder WITH
    PayloadBytes <- 0, Torn <- "torn",
    lastSnapshot <- device, encoderInitialised <- frames > 0,
    lastEncodeWasKeyframe <- FALSE, payload <- frame

(* The agent's frames are as long as those of the abstract payloads of      *)
(* Encoder, by which its buffers are measured (encoder.c:36-39, 160-228).   *)
SizesAgree ==
    [][source = "agent" /\ frame = <<>> /\ frame' # <<>> =>
          Len(frame') = FrameSize(IF frame'[4] = Keyframe
                                  THEN Abstract!KeyframeOf(device')
                                  ELSE Abstract!DeltaOf(device', device))]_vars
=============================================================================
