------------------------ MODULE PacketDecoder_proofs ------------------------
(***************************************************************************)
(* A decoder that hunts finds the next whole frame, for any bytes, header, *)
(* CRC and frames, and on a clean line it delivers them all.               *)
(***************************************************************************)
EXTENDS PacketDecoder, TLAPS

(* The lengths of a frame in numbers. *)
LEMMA FrameFacts ==
    ASSUME NEW f \in Frames
    PROVE  /\ f \in Seq(Byte)
           /\ f[2 + HeaderSize] \in Nat
           /\ Len(f) = 2 + HeaderSize + f[2 + HeaderSize] + CrcSize
           /\ Len(f) \in Nat
           /\ \A i \in 1..Len(f) : f[i] \in Byte
           /\ f[1] = Sync0 /\ f[2] = Sync1 /\ f[3] = Version
<1>1. /\ f \in Seq(Byte)
      /\ Len(f) >= 2 + HeaderSize
      /\ Len(f) = 2 + HeaderSize + f[2 + HeaderSize] + CrcSize
      /\ f[1] = Sync0 /\ f[2] = Sync1 /\ f[3] = Version
    BY FrameAssumption DEF FrameLength
<1>2. \A i \in 1..Len(f) : f[i] \in Byte
    BY <1>1
<1>3. Byte \subseteq Nat /\ HeaderSize \in Nat /\ HeaderSize >= 2
    BY DecoderAssumption
<1>4. Len(f) \in Nat
    BY <1>1
<1>5. 2 + HeaderSize \in 1..Len(f)
    BY <1>1, <1>3, <1>4
<1> QED
    BY <1>1, <1>2, <1>3, <1>4, <1>5

LEMMA CounterZero == <<>> \in Seq(Byte) /\ 0 \in 0..(CrcSize - 1) /\ 0 \in 0..MaxDrops
BY DecoderAssumption

LEMMA InitTyped == Init => TypeOK
<1> SUFFICES ASSUME Init
             PROVE  TypeOK
    OBVIOUS
<1> USE DecoderAssumption
<1>1. 1 \in 1..Len(frame)
    BY FrameFacts DEF Init
<1>2. LineTyped
    BY <1>1 DEF Init, LineTyped
<1>3. <<>> \in Seq(Byte) /\ 0 \in 0..(CrcSize - 1) /\ 0 \in 0..MaxDrops
    BY CounterZero
<1>4. DecoderTyped
    BY <1>3 DEF Init, DecoderTyped
<1> QED
    BY <1>2, <1>4 DEF TypeOK

(* feed_byte keeps the types of the decoder. *)
LEMMA FeedTyped ==
    ASSUME DecoderTyped, NEW b \in Byte, NEW mine \in BOOLEAN, FeedByte(b, mine)
    PROVE  DecoderTyped'
<1> USE DecoderAssumption
<1>0. <<>> \in Seq(Byte) /\ Append(header, b) \in Seq(Byte)
    BY DEF DecoderTyped
<1>1. ASSUME dstate = "WAIT_SYNC_0", WaitSync0(b)
      PROVE  DecoderTyped'
    BY <1>1 DEF DecoderTyped, WaitSync0
<1>2. ASSUME dstate = "WAIT_SYNC_1", WaitSync1(b, mine)
      PROVE  DecoderTyped'
    BY <1>0, <1>2 DEF DecoderTyped, WaitSync1
<1>3. ASSUME ResetMachine, drops' \in 0..MaxDrops
      PROVE  DecoderTyped'
    BY <1>3, CounterZero DEF DecoderTyped, ResetMachine
<1>4. ASSUME dstate = "READ_HEADER", ReadHeader(b, mine)
      PROVE  DecoderTyped'
    <2> DEFINE h == Append(header, b)
    <2>1. drops' \in 0..MaxDrops
        BY <1>4 DEF ReadHeader, DecoderTyped
    <2>2. Len(header) \in Nat /\ Len(header) < HeaderSize /\ Len(h) = Len(header) + 1
        BY <1>4 DEF DecoderTyped
    <2>3. CASE Len(header) + 1 = HeaderSize
        <3>1. HeaderComplete(h, mine)
            BY <1>4, <2>3 DEF ReadHeader
        <3>2. CASE h[1] # Version
            BY <3>1, <3>2, <2>1, <1>3 DEF HeaderComplete
        <3>3. CASE h[1] = Version
            <4>1. h[HeaderSize] \in Nat
                BY <2>2, <2>3
            <4>2. /\ header' = h /\ payloadLen' = 0
                  /\ dstate' = IF h[HeaderSize] = 0 THEN "READ_CRC" ELSE "READ_PAYLOAD"
                  /\ crcLen' = IF h[HeaderSize] = 0 THEN 0 ELSE crcLen
                  /\ genuine' = (genuine /\ mine)
                BY <3>1, <3>3 DEF HeaderComplete
            <4> HIDE DEF h
            <4>3. h \in Seq(Byte) /\ Len(h) = HeaderSize
                BY <1>0, <2>2, <2>3 DEF h
            <4>4. crcLen' \in 0..(CrcSize - 1)
                BY <4>2 DEF DecoderTyped
            <4> QED
                BY <4>1, <4>2, <4>3, <4>4, <2>1 DEF DecoderTyped
        <3> QED
            BY <3>2, <3>3
    <2>4. CASE Len(header) + 1 # HeaderSize
        <3>1. header' = h /\ UNCHANGED <<dstate, payloadLen, crcLen>>
              /\ genuine' = (genuine /\ mine)
            BY <1>4, <2>4 DEF ReadHeader
        <3> QED
            BY <1>0, <1>4, <2>1, <2>2, <2>4, <3>1 DEF DecoderTyped
    <2> QED
        BY <2>3, <2>4
<1>5. ASSUME dstate = "READ_PAYLOAD", ReadPayload(mine)
      PROVE  DecoderTyped'
    <2>1. header[HeaderSize] \in Nat
        <3>1. header \in Seq(Byte) /\ Len(header) = HeaderSize
            BY <1>5 DEF DecoderTyped
        <3>2. HeaderSize \in 1..Len(header)
            BY <3>1
        <3>3. header[HeaderSize] \in Byte
            BY <3>1, <3>2
        <3> QED
            BY <3>3
    <2> QED
        BY <1>5, <2>1 DEF DecoderTyped, ReadPayload
<1>6. ASSUME dstate = "READ_CRC", ReadCrc(mine)
      PROVE  DecoderTyped'
    <2>1. CASE CrcComplete
        <3>1. ResetMachine /\ drops' \in 0..MaxDrops
            BY <1>6, <2>1 DEF ReadCrc, DecoderTyped
        <3> QED
            BY <3>1, <1>3
    <2>2. CASE ~CrcComplete
        BY <1>6, <2>2 DEF ReadCrc, CrcComplete, DecoderTyped
    <2> QED
        BY <2>1, <2>2
<1> QED
    BY <1>1, <1>2, <1>4, <1>5, <1>6 DEF FeedByte

(* The line goes on within its types. *)
LEMMA AdvanceTyped ==
    ASSUME LineTyped, NEW ok \in BOOLEAN, Advance(ok), damage' \in 0..MaxDamage,
           genuine \in BOOLEAN
    PROVE  LineTyped'
<1>1. CASE pos < Len(frame)
    <2>1. Len(frame) \in Nat
        BY FrameFacts DEF LineTyped
    <2> QED
        BY <1>1, <2>1 DEF LineTyped, Advance
<1>2. CASE ~(pos < Len(frame))
    <2>1. /\ frame' \in Frames
          /\ pos' = 1
          /\ whole' = TRUE
          /\ hunting' = Hunting(dstate')
          /\ last' = [whole |-> whole /\ ok, hunting |-> hunting,
                      delivered |-> Delivers(ok)]
        BY <1>2 DEF Advance
    <2>2. 1 \in 1..Len(frame')
        BY <2>1, FrameFacts, DecoderAssumption
    <2>3. Hunting(dstate') \in BOOLEAN
        BY DEF Hunting
    <2>4. Delivers(ok) \in BOOLEAN
        BY DEF Delivers
    <2> QED
        BY <2>1, <2>2, <2>3, <2>4 DEF LineTyped
<1> QED
    BY <1>1, <1>2

LEMMA ArriveTyped ==
    ASSUME TypeOK, NEW b \in Byte, NEW ok \in BOOLEAN, FeedByte(b, ok), Advance(ok),
           damage' \in 0..MaxDamage
    PROVE  TypeOK'
<1>1. DecoderTyped'
    BY FeedTyped DEF TypeOK
<1>2. LineTyped'
    BY AdvanceTyped DEF TypeOK, DecoderTyped
<1> QED
    BY <1>1, <1>2 DEF TypeOK

LEMMA NextTyped == TypeOK /\ [Next]_vars => TypeOK'
<1> SUFFICES ASSUME TypeOK, [Next]_vars
             PROVE  TypeOK'
    OBVIOUS
<1> USE DecoderAssumption
<1>0. frame[pos] \in Byte
    BY FrameFacts DEF TypeOK, LineTyped
<1>1. CASE Arrive
    <2>1. damage' \in 0..MaxDamage
        BY <1>1 DEF Arrive, TypeOK, LineTyped
    <2> QED
        BY <1>0, <1>1, <2>1, ArriveTyped DEF Arrive
<1>2. damage < MaxDamage => damage + 1 \in 0..MaxDamage
    BY DEF TypeOK, LineTyped
<1>3. CASE Corrupt
    <2>1. damage' \in 0..MaxDamage
        BY <1>2, <1>3 DEF Corrupt
    <2>2. PICK b \in Byte : FeedByte(b, FALSE)
        BY <1>3 DEF Corrupt
    <2> QED
        BY <1>3, <2>1, <2>2, ArriveTyped DEF Corrupt
<1>4. CASE Lose
    <2>1. damage' \in 0..MaxDamage
        BY <1>2, <1>4 DEF Lose
    <2>2. LineTyped'
        BY <1>4, <2>1, AdvanceTyped DEF Lose, TypeOK, DecoderTyped
    <2>3. DecoderTyped'
        BY <1>4 DEF Lose, TypeOK, DecoderTyped
    <2> QED
        BY <2>2, <2>3 DEF TypeOK
<1>5. CASE Insert
    <2>1. damage' \in 0..MaxDamage
        BY <1>2, <1>5 DEF Insert
    <2>2. PICK b \in Byte : FeedByte(b, FALSE)
        BY <1>5 DEF Insert
    <2>3. DecoderTyped'
        BY <2>2, FeedTyped DEF TypeOK
    <2>4. hunting' \in BOOLEAN /\ whole' \in BOOLEAN
        <3>1. /\ whole' = (whole /\ pos = 1)
              /\ hunting' = IF pos = 1 THEN Hunting(dstate') ELSE hunting
            BY <1>5 DEF Insert
        <3>2. Hunting(dstate') \in BOOLEAN /\ hunting \in BOOLEAN
            BY DEF Hunting, TypeOK, LineTyped
        <3> QED
            BY <3>1, <3>2
    <2>5. LineTyped'
        BY <1>5, <2>1, <2>4 DEF Insert, TypeOK, LineTyped
    <2> QED
        BY <2>3, <2>5 DEF TypeOK
<1>6. CASE UNCHANGED vars
    BY <1>6 DEF vars, lineVars, decoderVars, TypeOK, LineTyped, DecoderTyped
<1> QED
    BY <1>1, <1>3, <1>4, <1>5, <1>6 DEF Next

(* Every counter of the machine stays short of what it counts to, whatever  *)
(* the line does (decoder.py:107-139).                                      *)
THEOREM TypeCorrect == Spec => []TypeOK
BY InitTyped, NextTyped, PTL DEF Spec

-----------------------------------------------------------------------------
(* Hunting for a frame: its first byte is taken for what it is. *)
LEMMA FirstByte ==
    ASSUME Hunting(dstate), FeedByte(Sync0, TRUE)
    PROVE  dstate' = "WAIT_SYNC_1"
<1>1. Sync0 # Sync1
    BY DecoderAssumption
<1> QED
    BY <1>1 DEF Hunting, FeedByte, WaitSync0, WaitSync1

LEMMA SecondByte ==
    ASSUME dstate = "WAIT_SYNC_1", pos = 2, FeedByte(Sync1, TRUE)
    PROVE  dstate' = "READ_HEADER" /\ header' = <<>> /\ genuine'
<1>1. WaitSync1(Sync1, TRUE)
    BY DEF FeedByte
<1>2. genuine' = (Sync1 = Sync1 /\ TRUE /\ pos = 2)
    BY <1>1 DEF WaitSync1
<1>3. genuine'
    BY <1>2
<1>4. dstate' = "READ_HEADER" /\ header' = <<>>
    BY <1>1, DecoderAssumption DEF WaitSync1
<1> QED
    BY <1>3, <1>4

(* The header, byte by byte; with its last one the length is known. *)
LEMMA HeaderByte ==
    ASSUME TypeOK, dstate = "READ_HEADER", genuine, pos \in 3..(2 + HeaderSize),
           Len(header) = pos - 3,
           \A i \in DOMAIN header : header[i] = frame[i + 2],
           FeedByte(frame[pos], TRUE)
    PROVE  /\ genuine'
           /\ Len(header') = pos - 2
           /\ \A i \in DOMAIN header' : header'[i] = frame[i + 2]
           /\ pos < 2 + HeaderSize => dstate' = "READ_HEADER"
           /\ pos = 2 + HeaderSize =>
                 IF frame[2 + HeaderSize] = 0
                 THEN dstate' = "READ_CRC" /\ crcLen' = 0
                 ELSE dstate' = "READ_PAYLOAD" /\ payloadLen' = 0
<1> USE DecoderAssumption
<1> DEFINE h == Append(header, frame[pos])
<1>1. /\ header \in Seq(Byte) /\ frame[pos] \in Byte
      /\ pos \in Nat
    BY FrameFacts DEF TypeOK, LineTyped, DecoderTyped
<1>2. /\ h \in Seq(Byte) /\ Len(h) = pos - 2
      /\ \A i \in DOMAIN h : h[i] = frame[i + 2]
    BY <1>1
<1>3. ReadHeader(frame[pos], TRUE)
    BY DEF FeedByte
<1>4. CASE pos < 2 + HeaderSize
    <2>1. header' = h /\ UNCHANGED dstate /\ genuine'
        <3>1. Len(header) + 1 # HeaderSize
            BY <1>1, <1>4
        <3>2. genuine' = (genuine /\ TRUE)
            BY <1>3, <3>1 DEF ReadHeader
        <3> QED
            BY <1>3, <3>1, <3>2 DEF ReadHeader
    <2> QED
        BY <1>2, <1>4, <2>1
<1>5. CASE pos = 2 + HeaderSize
    <2>1. HeaderComplete(h, TRUE)
        <3>1. Len(header) + 1 = HeaderSize
            BY <1>1, <1>5
        <3> QED
            BY <1>3, <3>1 DEF ReadHeader
    <2>2. Len(h) = HeaderSize /\ DOMAIN h = 1..HeaderSize
        BY <1>2, <1>5
    <2>3. h[1] = frame[3] /\ h[HeaderSize] = frame[2 + HeaderSize]
        BY <1>2, <2>2
    <2>4. h[1] = Version
        BY <2>3, FrameFacts DEF TypeOK, LineTyped
    <2>5. genuine' = (genuine /\ TRUE)
        BY <2>1, <2>4 DEF HeaderComplete
    <2>6. /\ header' = h /\ payloadLen' = 0 /\ genuine'
          /\ dstate' = IF frame[2 + HeaderSize] = 0 THEN "READ_CRC" ELSE "READ_PAYLOAD"
          /\ crcLen' = IF frame[2 + HeaderSize] = 0 THEN 0 ELSE crcLen
        BY <2>1, <2>3, <2>4, <2>5 DEF HeaderComplete
    <2> QED
        BY <1>2, <1>5, <2>6
<1> QED
    BY <1>1, <1>4, <1>5

(* The payload, as many bytes as the header says. *)
LEMMA PayloadByte ==
    ASSUME dstate = "READ_PAYLOAD", genuine, NEW b, FeedByte(b, TRUE)
    PROVE  /\ genuine' /\ UNCHANGED header
           /\ payloadLen' = payloadLen + 1
           /\ payloadLen + 1 = header[HeaderSize] => dstate' = "READ_CRC" /\ crcLen' = 0
           /\ payloadLen + 1 # header[HeaderSize] => dstate' = "READ_PAYLOAD"
<1>1. ReadPayload(TRUE)
    BY DEF FeedByte
<1>2. genuine' = (genuine /\ TRUE)
    BY <1>1 DEF ReadPayload
<1>3. genuine'
    BY <1>2
<1> QED
    BY <1>1, <1>3 DEF ReadPayload

LEMMA CrcByte ==
    ASSUME dstate = "READ_CRC", genuine, crcLen + 1 # CrcSize, NEW b, FeedByte(b, TRUE)
    PROVE  /\ genuine' /\ UNCHANGED header
           /\ dstate' = "READ_CRC" /\ crcLen' = crcLen + 1
<1>1. ReadCrc(TRUE) /\ ~CrcComplete
    BY DEF FeedByte, CrcComplete
<1>2. genuine' = (genuine /\ TRUE)
    BY <1>1 DEF ReadCrc
<1>3. genuine'
    BY <1>2
<1> QED
    BY <1>1, <1>3 DEF ReadCrc

(* In step with a frame the decoder stays in step to its last byte. *)
LEMMA StaysInStep ==
    ASSUME TypeOK, TypeOK', InStep, FeedByte(frame[pos], TRUE),
           frame' = frame, pos' = pos + 1
    PROVE  InStep'
<1> USE DecoderAssumption
<1> DEFINE n == frame[2 + HeaderSize]
           k == pos - (3 + HeaderSize)
<1>1. /\ pos \in Nat /\ pos >= 1
      /\ n \in Nat
      /\ frame[1] = Sync0 /\ frame[2] = Sync1
    BY FrameFacts DEF TypeOK, LineTyped
<1>2. CASE pos = 1
    <2>1. dstate' = "WAIT_SYNC_1"
        BY <1>1, <1>2, FirstByte DEF InStep
    <2> QED
        BY <1>1, <1>2, <2>1 DEF InStep
<1>3. CASE pos = 2
    <2>1. dstate' = "READ_HEADER" /\ header' = <<>> /\ genuine'
        BY <1>1, <1>3, SecondByte DEF InStep
    <2> QED
        BY <1>1, <1>3, <2>1 DEF InStep
<1>4. CASE pos \in 3..(2 + HeaderSize)
    <2>1. /\ genuine'
          /\ Len(header') = pos - 2
          /\ \A i \in DOMAIN header' : header'[i] = frame[i + 2]
          /\ pos < 2 + HeaderSize => dstate' = "READ_HEADER"
          /\ pos = 2 + HeaderSize =>
                IF n = 0
                THEN dstate' = "READ_CRC" /\ crcLen' = 0
                ELSE dstate' = "READ_PAYLOAD" /\ payloadLen' = 0
        BY <1>1, <1>4, HeaderByte DEF InStep
    <2>2. CASE pos < 2 + HeaderSize
        BY <1>1, <1>4, <2>1, <2>2 DEF InStep
    <2>3. CASE pos = 2 + HeaderSize
        BY <1>1, <1>4, <2>1, <2>3 DEF InStep
    <2> QED
        BY <1>4, <2>2, <2>3
<1>5. CASE pos > 2 + HeaderSize
    <2>1. /\ genuine
          /\ \A i \in DOMAIN header : header[i] = frame[i + 2]
          /\ Len(header) = HeaderSize
          /\ k < n => dstate = "READ_PAYLOAD" /\ payloadLen = k
          /\ k >= n => dstate = "READ_CRC" /\ crcLen = k - n
        BY <1>1, <1>5 DEF InStep
    <2>2. header \in Seq(Byte) /\ k \in Nat
        BY <1>1, <1>5 DEF TypeOK, DecoderTyped
    <2>3. header[HeaderSize] = n
        BY <2>1, <2>2
    <2>4. CASE k < n
        <3>1. /\ genuine' /\ UNCHANGED header
              /\ payloadLen' = payloadLen + 1
              /\ payloadLen + 1 = n => dstate' = "READ_CRC" /\ crcLen' = 0
              /\ payloadLen + 1 # n => dstate' = "READ_PAYLOAD"
            BY <2>1, <2>3, <2>4, PayloadByte
        <3> QED
            BY <1>1, <1>5, <2>1, <2>2, <2>4, <3>1 DEF InStep
    <2>5. CASE k >= n
        <3>1. crcLen + 1 # CrcSize
            <4>1. pos' \in 1..Len(frame')
                BY DEF TypeOK, LineTyped
            <4>2. Len(frame) = 2 + HeaderSize + n + CrcSize
                BY FrameFacts DEF TypeOK, LineTyped
            <4> QED
                BY <1>1, <2>1, <2>5, <4>1, <4>2
        <3>2. /\ genuine' /\ UNCHANGED header
              /\ dstate' = "READ_CRC" /\ crcLen' = crcLen + 1
            BY <2>1, <2>5, <3>1, CrcByte
        <3> QED
            BY <1>1, <1>5, <2>1, <2>2, <2>5, <3>2 DEF InStep
    <2> QED
        BY <1>1, <2>2, <2>4, <2>5
<1> QED
    BY <1>1, <1>2, <1>3, <1>4, <1>5

(* At the last byte of a frame it is in step with, the decoder delivers. *)
LEMMA LastByteDelivers ==
    ASSUME TypeOK, InStep, ~(pos < Len(frame))
    PROVE  Delivers(TRUE)
<1> USE DecoderAssumption
<1>1. /\ frame[2 + HeaderSize] \in Nat
      /\ Len(frame) = 2 + HeaderSize + frame[2 + HeaderSize] + CrcSize
      /\ pos \in 1..Len(frame)
    BY FrameFacts DEF TypeOK, LineTyped
<1> DEFINE n == frame[2 + HeaderSize]
<1> DEFINE k == pos - (3 + HeaderSize)
<1>6. pos = 2 + HeaderSize + n + CrcSize
    BY <1>1
<1>2. /\ pos > 2 /\ pos > 2 + HeaderSize
      /\ k >= n /\ k - n = CrcSize - 1
    <2>1. n \in Nat /\ HeaderSize \in Nat /\ CrcSize \in Nat \ {0}
        BY <1>1
    <2> HIDE DEF n
    <2> QED
        BY <1>6, <2>1
<1>3. /\ pos > 2 => genuine
      /\ pos > 2 + HeaderSize => (k >= n => dstate = "READ_CRC" /\ crcLen = k - n)
    BY Zenon DEF InStep
<1>4. genuine /\ dstate = "READ_CRC" /\ crcLen = CrcSize - 1
    BY <1>2, <1>3
<1>5. crcLen + 1 = CrcSize
    BY <1>4
<1> QED
    BY <1>4, <1>5 DEF Delivers, CrcComplete

-----------------------------------------------------------------------------
LEMMA InitDecoderInv == Init => DecoderInv
<1>1. Init => InStep
    BY DecoderAssumption DEF Init, InStep, Hunting
<1> QED
    BY <1>1, InitTyped DEF DecoderInv, Init, HuntingFindsFrame

(* A new frame begins: being in step is waiting for its first byte. *)
LEMMA NewFrame ==
    ASSUME pos' = 1, hunting' = Hunting(dstate')
    PROVE  hunting' => InStep'
BY DecoderAssumption DEF InStep

LEMMA NextDecoderInv == DecoderInv /\ [Next]_vars => DecoderInv'
<1> SUFFICES ASSUME DecoderInv, [Next]_vars
             PROVE  DecoderInv'
    OBVIOUS
<1> USE DecoderAssumption
<1>1. TypeOK /\ TypeOK'
    BY NextTyped DEF DecoderInv
<1>2. ASSUME NEW ok \in BOOLEAN, Advance(ok), ok => FeedByte(frame[pos], TRUE)
      PROVE  DecoderInv'
    <2>1. CASE pos < Len(frame)
        <3>1. /\ pos' = pos + 1 /\ whole' = (whole /\ ok)
              /\ UNCHANGED <<frame, hunting, last>>
            BY <1>2, <2>1 DEF Advance
        <3>2. ASSUME whole', hunting'
              PROVE  InStep'
            <4>1. whole /\ ok /\ hunting
                BY <3>1, <3>2
            <4>2. InStep /\ FeedByte(frame[pos], TRUE)
                BY <1>2, <4>1 DEF DecoderInv
            <4> QED
                BY <1>1, <3>1, <4>2, StaysInStep
        <3>3. HuntingFindsFrame'
            BY <3>1 DEF DecoderInv, HuntingFindsFrame
        <3> QED
            BY <1>1, <3>2, <3>3 DEF DecoderInv
    <2>2. CASE ~(pos < Len(frame))
        <3>1. /\ pos' = 1 /\ hunting' = Hunting(dstate')
              /\ last' = [whole |-> whole /\ ok, hunting |-> hunting,
                          delivered |-> Delivers(ok)]
            BY <1>2, <2>2 DEF Advance
        <3>2. hunting' => InStep'
            BY <3>1, NewFrame
        <3>3. ASSUME whole /\ ok, hunting
              PROVE  Delivers(ok)
            <4>1. InStep /\ ok = TRUE
                BY <3>3 DEF DecoderInv
            <4> QED
                BY <1>1, <2>2, <4>1, LastByteDelivers
        <3>4. HuntingFindsFrame'
            BY <3>1, <3>3 DEF HuntingFindsFrame
        <3> QED
            BY <1>1, <3>2, <3>4 DEF DecoderInv
    <2> QED
        BY <2>1, <2>2
<1>3. CASE Arrive
    BY <1>2, <1>3 DEF Arrive
<1>4. CASE Corrupt
    BY <1>2, <1>4 DEF Corrupt
<1>5. CASE Lose
    BY <1>2, <1>5 DEF Lose
<1>6. CASE Insert
    <2>1. /\ whole' = (whole /\ pos = 1)
          /\ hunting' = IF pos = 1 THEN Hunting(dstate') ELSE hunting
          /\ UNCHANGED <<pos, last>>
        BY <1>6 DEF Insert
    <2>2. whole' /\ hunting' => InStep'
        BY <2>1, NewFrame
    <2>3. HuntingFindsFrame'
        BY <2>1 DEF DecoderInv, HuntingFindsFrame
    <2> QED
        BY <1>1, <2>2, <2>3 DEF DecoderInv
<1>7. CASE UNCHANGED vars
    BY <1>1, <1>7 DEF vars, lineVars, decoderVars, DecoderInv, InStep, Hunting,
                      HuntingFindsFrame
<1> QED
    BY <1>3, <1>4, <1>5, <1>6, <1>7 DEF Next

(* Whatever the line did before and whatever the payload contains, a whole *)
(* frame that meets a hunting decoder is delivered (decoder.py:92-161).    *)
THEOREM HuntingFindsFrameCorrect == Spec => []HuntingFindsFrame
<1>1. DecoderInv => HuntingFindsFrame
    BY DEF DecoderInv
<1> QED
    BY <1>1, InitDecoderInv, NextDecoderInv, PTL DEF Spec

-----------------------------------------------------------------------------
(* While nothing was damaged, no frame is anything but whole and hunted for: *)
(* the last byte of a frame leaves the decoder hunting.                      *)
LEMMA LastByteHunts ==
    ASSUME TypeOK, Delivers(TRUE), NEW b, FeedByte(b, TRUE)
    PROVE  Hunting(dstate') /\ UNCHANGED drops
<1>1. dstate = "READ_CRC" /\ CrcComplete /\ genuine
    BY DEF Delivers, CrcComplete
<1>2. ReadCrc(TRUE)
    BY <1>1 DEF FeedByte
<1> QED
    BY <1>1, <1>2 DEF ReadCrc, ResetMachine, Hunting

LEMMA MiddleByteCountsNothing ==
    ASSUME TypeOK, InStep, pos < Len(frame), FeedByte(frame[pos], TRUE)
    PROVE  UNCHANGED drops
<1> USE DecoderAssumption
<1>1. /\ frame[2 + HeaderSize] \in Nat
      /\ Len(frame) = 2 + HeaderSize + frame[2 + HeaderSize] + CrcSize
      /\ pos \in 1..Len(frame)
    BY FrameFacts DEF TypeOK, LineTyped
<1> DEFINE n == frame[2 + HeaderSize]
<1> DEFINE k == pos - (3 + HeaderSize)
<1>4. /\ pos = 1 => Hunting(dstate)
      /\ pos = 2 => dstate = "WAIT_SYNC_1"
      /\ pos \in 3..(2 + HeaderSize) => dstate = "READ_HEADER"
      /\ pos > 2 + HeaderSize =>
            /\ k < n => dstate = "READ_PAYLOAD"
            /\ k >= n => dstate = "READ_CRC" /\ crcLen = k - n
    BY Zenon DEF InStep
<1>2. dstate = "READ_CRC" => crcLen + 1 # CrcSize
    <2>1. CASE pos <= 2 + HeaderSize
        <3>1. dstate # "READ_CRC"
            BY <1>1, <1>4, <2>1 DEF Hunting
        <3> QED
            BY <3>1
    <2>2. CASE pos > 2 + HeaderSize
        <3>1. k \in Int /\ k < n + CrcSize - 1
            BY <1>1
        <3>2. CASE k < n
            BY <1>4, <2>2, <3>2
        <3>3. CASE k >= n
            BY <1>1, <1>4, <2>2, <3>1, <3>3
        <3> QED
            BY <1>1, <3>1, <3>2, <3>3
    <2> QED
        BY <1>1, <2>1, <2>2
<1>3. ~CrcComplete
    BY <1>2 DEF CrcComplete
<1> QED
    BY <1>3 DEF FeedByte, WaitSync0, WaitSync1, ReadHeader, ReadPayload, ReadCrc

(* On a line without damage every frame is delivered and no drop counted,  *)
(* for any frames (decoder.py:107-161).                                    *)
THEOREM CleanLineCorrect == Spec => []CleanLineExact
<1> USE DecoderAssumption
<1>1. Init => CleanInv
    BY InitDecoderInv DEF Init, CleanInv, CleanLineExact
<1>2. CleanInv /\ [Next]_vars => CleanInv'
    <2> SUFFICES ASSUME CleanInv, [Next]_vars
                 PROVE  CleanInv'
        OBVIOUS
    <2>1. DecoderInv' /\ TypeOK
        BY NextDecoderInv DEF CleanInv, DecoderInv
    <2>2. CASE Corrupt \/ Lose \/ Insert
        <3>1. damage' # 0
            <4>1. damage \in Nat
                BY <2>1 DEF TypeOK, LineTyped
            <4>2. damage' = damage + 1
                BY <2>2 DEF Corrupt, Lose, Insert
            <4> QED
                BY <4>1, <4>2
        <3> QED
            BY <2>1, <3>1 DEF CleanInv, CleanLineExact
    <2>3. CASE Arrive /\ damage = 0
        <3>1. /\ FeedByte(frame[pos], TRUE) /\ Advance(TRUE) /\ damage' = damage
              /\ whole /\ hunting /\ InStep /\ last.delivered /\ drops = 0
            BY <2>3 DEF Arrive, CleanInv, CleanLineExact, DecoderInv
        <3>2. CASE pos < Len(frame)
            <4>1. whole' = (whole /\ TRUE) /\ UNCHANGED <<hunting, last>>
                BY <3>1, <3>2 DEF Advance
            <4>2. UNCHANGED drops
                BY <2>1, <3>1, <3>2, MiddleByteCountsNothing
            <4>3. whole' /\ hunting'
                BY <3>1, <4>1
            <4> QED
                BY <2>1, <3>1, <4>1, <4>2, <4>3 DEF CleanInv, CleanLineExact
        <3>3. CASE ~(pos < Len(frame))
            <4>1. whole' = TRUE /\ hunting' = Hunting(dstate')
                BY <3>1, <3>3 DEF Advance
            <4>5. last' = [whole |-> whole /\ TRUE, hunting |-> hunting,
                           delivered |-> Delivers(TRUE)]
                BY <3>1, <3>3 DEF Advance
            <4>2. Delivers(TRUE)
                BY <2>1, <3>1, <3>3, LastByteDelivers
            <4>3. Hunting(dstate') /\ UNCHANGED drops
                BY <2>1, <3>1, <4>2, LastByteHunts
            <4>4. last'.delivered
                BY <4>2, <4>5
            <4> QED
                BY <2>1, <3>1, <4>1, <4>3, <4>4 DEF CleanInv, CleanLineExact
        <3> QED
            BY <3>2, <3>3
    <2>4. CASE Arrive /\ damage # 0
        BY <2>1, <2>4 DEF Arrive, CleanInv, CleanLineExact
    <2>5. CASE UNCHANGED vars
        BY <2>1, <2>5 DEF vars, lineVars, decoderVars, CleanInv, CleanLineExact
    <2> QED
        BY <2>2, <2>3, <2>4, <2>5 DEF Next
<1>3. CleanInv => CleanLineExact
    BY DEF CleanInv
<1> QED
    BY <1>1, <1>2, <1>3, PTL DEF Spec
=============================================================================
