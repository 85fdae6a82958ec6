---------------------------- MODULE PacketDecoder ----------------------------
(***************************************************************************)
(* bridge/decoder.py, the state machine that finds packets in the bytes of *)
(* the serial line, on a line that damages some of them.                   *)
(*                                                                         *)
(* A frame is an endless supply of the framer: sync bytes, header, payload *)
(* and CRC one after the other. The CRC is ideal: it is right exactly when *)
(* the bytes it covers are those of one frame, undamaged and in order,     *)
(* which the variable genuine records. (Bytes put in that happen to equal  *)
(* lost ones make a stream that less damage makes too.)                    *)
(***************************************************************************)
EXTENDS Integers, Sequences

CONSTANTS
    Byte,        \* the values of a byte
    Sync0,       \* SYNC_0 (0xAA)
    Sync1,       \* SYNC_1 (0x55)
    Version,     \* PROTOCOL_VERSION (1)
    HeaderSize,  \* HEADER_INFO_SIZE (10): the version comes first, the length last
    CrcSize,     \* CRC_SIZE (2)
    Frames,      \* the frames the agent sends
    MaxDamage,   \* bound: bytes the line damages
    MaxDrops     \* bound: the drop counter saturates here

FrameLength(f) == 2 + HeaderSize + f[2 + HeaderSize] + CrcSize

ASSUME DecoderAssumption ==
    /\ Byte \subseteq Nat
    /\ Sync0 \in Byte /\ Sync1 \in Byte /\ Version \in Byte
    /\ Sync0 # Sync1
    /\ HeaderSize \in Nat /\ HeaderSize >= 2
    /\ CrcSize \in Nat \ {0}
    /\ MaxDamage \in Nat
    /\ MaxDrops \in Nat
    /\ Frames # {}

(* frame_packet: what every frame looks like. *)
ASSUME FrameAssumption ==
    \A f \in Frames :
        /\ f \in Seq(Byte)
        /\ Len(f) >= 2 + HeaderSize
        /\ Len(f) = FrameLength(f)
        /\ f[1] = Sync0 /\ f[2] = Sync1 /\ f[3] = Version

VARIABLES
    frame,      \* the frame that is being sent
    pos,        \* its next byte
    whole,      \* none of its bytes was damaged so far, nor anything inserted
    hunting,    \* the decoder waited for sync bytes when its first byte came
    last,       \* whole, hunting and the outcome of the frame before
    damage,     \* bytes damaged so far
    dstate,     \* decoder._state
    header,     \* decoder._buffer
    payloadLen, \* len(decoder._payload_buffer)
    crcLen,     \* len(decoder._buffer_for_crc)
    genuine,    \* since the sync bytes: the bytes of one frame, undamaged
    drops       \* decoder._drop_count

lineVars == <<frame, pos, whole, hunting, last, damage>>
decoderVars == <<dstate, header, payloadLen, crcLen, genuine, drops>>
vars == <<lineVars, decoderVars>>

Init ==
    /\ frame \in Frames
    /\ pos = 1
    /\ whole = TRUE
    /\ hunting = TRUE
    /\ last = [whole |-> TRUE, hunting |-> TRUE, delivered |-> TRUE]
    /\ damage = 0
    /\ dstate = "WAIT_SYNC_0"
    /\ header = <<>>
    /\ payloadLen = 0
    /\ crcLen = 0
    /\ genuine = FALSE
    /\ drops = 0

-----------------------------------------------------------------------------
(* feed_byte, one operator per state; mine says that b is the undamaged    *)
(* byte at pos.                                                            *)

(* _reset_machine *)
ResetMachine ==
    /\ dstate' = "WAIT_SYNC_0"
    /\ header' = <<>>
    /\ payloadLen' = 0
    /\ crcLen' = 0
    /\ genuine' = FALSE

WaitSync0(b) ==
    /\ dstate' = IF b = Sync0 THEN "WAIT_SYNC_1" ELSE "WAIT_SYNC_0"
    /\ UNCHANGED <<header, payloadLen, crcLen, genuine, drops>>

(* Mutation: a second SYNC_0 is not taken for the first of a pair. *)
WaitSync1Once(b, mine) ==
    /\ dstate' = IF b = Sync1 THEN "READ_HEADER" ELSE "WAIT_SYNC_0"
    /\ header' = IF b = Sync1 THEN <<>> ELSE header
    /\ genuine' = (b = Sync1 /\ mine /\ pos = 2)
    /\ UNCHANGED <<payloadLen, crcLen, drops>>

WaitSync1(b, mine) ==
    /\ dstate' = CASE b = Sync1 -> "READ_HEADER"
                   [] b = Sync0 -> "WAIT_SYNC_1"
                   [] OTHER -> "WAIT_SYNC_0"
    /\ header' = IF b = Sync1 THEN <<>> ELSE header
    /\ genuine' = (b = Sync1 /\ mine /\ pos = 2)
    /\ UNCHANGED <<payloadLen, crcLen, drops>>

(* The header is complete: another version resets the machine uncounted,   *)
(* a length of 0 has no payload to read.                                   *)
HeaderComplete(h, mine) ==
    IF h[1] # Version
    THEN ResetMachine
    ELSE /\ header' = h
         /\ payloadLen' = 0
         /\ dstate' = IF h[HeaderSize] = 0 THEN "READ_CRC" ELSE "READ_PAYLOAD"
         /\ crcLen' = IF h[HeaderSize] = 0 THEN 0 ELSE crcLen
         /\ genuine' = (genuine /\ mine)

ReadHeader(b, mine) ==
    /\ IF Len(header) + 1 = HeaderSize
       THEN HeaderComplete(Append(header, b), mine)
       ELSE /\ header' = Append(header, b)
            /\ genuine' = (genuine /\ mine)
            /\ UNCHANGED <<dstate, payloadLen, crcLen>>
    /\ UNCHANGED drops

(* Mutation: the payload is one byte longer than the header says. *)
ReadPayloadOneMore(mine) ==
    /\ payloadLen' = payloadLen + 1
    /\ IF payloadLen > header[HeaderSize]
       THEN dstate' = "READ_CRC" /\ crcLen' = 0
       ELSE UNCHANGED <<dstate, crcLen>>
    /\ genuine' = (genuine /\ mine)
    /\ UNCHANGED <<header, drops>>

ReadPayload(mine) ==
    /\ payloadLen' = payloadLen + 1
    /\ IF payloadLen + 1 = header[HeaderSize]
       THEN dstate' = "READ_CRC" /\ crcLen' = 0
       ELSE UNCHANGED <<dstate, crcLen>>
    /\ genuine' = (genuine /\ mine)
    /\ UNCHANGED <<header, drops>>

(* The last byte of the CRC: feed_byte returns a packet, or counts a drop. *)
CrcComplete == dstate = "READ_CRC" /\ crcLen + 1 = CrcSize

ReadCrc(mine) ==
    IF CrcComplete
    THEN /\ ResetMachine
         /\ drops' = IF ~(genuine /\ mine) /\ drops < MaxDrops THEN drops + 1 ELSE drops
    ELSE /\ crcLen' = crcLen + 1
         /\ genuine' = (genuine /\ mine)
         /\ UNCHANGED <<dstate, header, payloadLen, drops>>

FeedByte(b, mine) ==
    \/ dstate = "WAIT_SYNC_0" /\ WaitSync0(b)
    \/ dstate = "WAIT_SYNC_1" /\ WaitSync1(b, mine)
    \/ dstate = "READ_HEADER" /\ ReadHeader(b, mine)
    \/ dstate = "READ_PAYLOAD" /\ ReadPayload(mine)
    \/ dstate = "READ_CRC" /\ ReadCrc(mine)

(* feed_byte returns a packet for the byte at pos. *)
Delivers(mine) == CrcComplete /\ genuine /\ mine

-----------------------------------------------------------------------------
(* The line. *)

Hunting(st) == st \in {"WAIT_SYNC_0", "WAIT_SYNC_1"}

(* The line goes on to the next byte; ok says that this one came through.  *)
Advance(ok) ==
    IF pos < Len(frame)
    THEN /\ pos' = pos + 1
         /\ whole' = (whole /\ ok)
         /\ UNCHANGED <<frame, hunting, last>>
    ELSE /\ frame' \in Frames
         /\ pos' = 1
         /\ whole' = TRUE
         /\ hunting' = Hunting(dstate')
         /\ last' = [whole |-> whole /\ ok, hunting |-> hunting,
                     delivered |-> Delivers(ok)]

(* A byte arrives as it was sent. *)
Arrive ==
    /\ FeedByte(frame[pos], TRUE)
    /\ Advance(TRUE)
    /\ UNCHANGED damage

(* A byte arrives as another one. *)
Corrupt ==
    /\ damage < MaxDamage
    /\ damage' = damage + 1
    /\ \E b \in Byte \ {frame[pos]} : FeedByte(b, FALSE)
    /\ Advance(FALSE)

(* A byte gets lost. *)
Lose ==
    /\ damage < MaxDamage
    /\ damage' = damage + 1
    /\ genuine' = FALSE
    /\ UNCHANGED <<dstate, header, payloadLen, crcLen, drops>>
    /\ Advance(FALSE)

(* A byte arrives that was not sent. *)
Insert ==
    /\ damage < MaxDamage
    /\ damage' = damage + 1
    /\ \E b \in Byte : FeedByte(b, FALSE)
    /\ whole' = (whole /\ pos = 1)
    /\ hunting' = IF pos = 1 THEN Hunting(dstate') ELSE hunting
    /\ UNCHANGED <<frame, pos, last>>

Next == Arrive \/ Corrupt \/ Lose \/ Insert

Spec == Init /\ [][Next]_vars

(* The agent sends for ever, and in the end the line is quiet. *)
FairSpec == Spec /\ WF_vars(Arrive)

-----------------------------------------------------------------------------
LineTyped ==
    /\ frame \in Frames
    /\ pos \in 1..Len(frame)
    /\ whole \in BOOLEAN
    /\ hunting \in BOOLEAN
    /\ last \in [whole : BOOLEAN, hunting : BOOLEAN, delivered : BOOLEAN]
    /\ damage \in 0..MaxDamage

DecoderTyped ==
    /\ dstate \in {"WAIT_SYNC_0", "WAIT_SYNC_1", "READ_HEADER", "READ_PAYLOAD", "READ_CRC"}
    /\ header \in Seq(Byte)
    /\ dstate = "READ_HEADER" => Len(header) < HeaderSize
    /\ dstate \in {"READ_PAYLOAD", "READ_CRC"} => Len(header) = HeaderSize
    /\ payloadLen \in Nat
    /\ dstate = "READ_PAYLOAD" => payloadLen < header[HeaderSize]
    /\ crcLen \in 0..(CrcSize - 1)
    /\ genuine \in BOOLEAN
    /\ drops \in 0..MaxDrops

(* Every variable has its type, and each of the counters of the machine is *)
(* short of the size it counts to (decoder.py:55-80, 107-139).             *)
TypeOK == LineTyped /\ DecoderTyped

(* A frame that arrives whole at a decoder that waits for sync bytes is     *)
(* delivered, whatever came before it and whatever its payload contains,    *)
(* sync bytes too (decoder.py:92-161).                                      *)
HuntingFindsFrame == last.whole /\ last.hunting => last.delivered

(* On a line that damages nothing every frame is delivered and no drop is   *)
(* counted (decoder.py:107-161).                                            *)
CleanLineExact == damage = 0 => last.delivered /\ drops = 0

(* No two bytes of a frame in a row look like the start of one but its own *)
SyncFree(f) == \A i \in 2..(Len(f) - 1) : <<f[i], f[i + 1]>> # <<Sync0, Sync1>>

(* After any damage and any frames, frames are delivered again for ever if  *)
(* in the end they have no sync bytes inside (decoder.py:97-105, 143-146):  *)
(* a payload that forges a header can keep the machine out of step as long  *)
(* as it is repeated.                                                       *)
ResyncsEventually ==
    <>[]SyncFree(frame) => []<>(pos = 1 /\ last.delivered)

-----------------------------------------------------------------------------
(* How far the decoder is into a frame that it hunted for and that is whole *)
(* so far.                                                                  *)
InStep ==
    /\ pos = 1 => Hunting(dstate)
    /\ pos = 2 => dstate = "WAIT_SYNC_1"
    /\ pos \in 3..(2 + HeaderSize) =>
          /\ dstate = "READ_HEADER"
          /\ Len(header) = pos - 3
    /\ pos > 2 =>
          /\ genuine
          /\ \A i \in DOMAIN header : header[i] = frame[i + 2]
    /\ pos > 2 + HeaderSize =>
          LET n == frame[2 + HeaderSize]
              k == pos - (3 + HeaderSize)
          IN  /\ Len(header) = HeaderSize
              /\ k < n => dstate = "READ_PAYLOAD" /\ payloadLen = k
              /\ k >= n => dstate = "READ_CRC" /\ crcLen = k - n

DecoderInv == TypeOK /\ (whole /\ hunting => InStep) /\ HuntingFindsFrame

(* On a line without damage every frame is hunted for and whole. *)
CleanInv ==
    DecoderInv /\ (damage = 0 => whole /\ hunting) /\ CleanLineExact

=============================================================================
