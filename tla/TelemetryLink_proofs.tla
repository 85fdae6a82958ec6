------------------------ MODULE TelemetryLink_proofs ------------------------
(***************************************************************************)
(* Theorems about TelemetryLink, for every value of its constants: types,  *)
(* what the host shows, the order of the packets, what the sequence check  *)
(* knows, and that the link implements Mirror.                             *)
(***************************************************************************)
EXTENDS TelemetryLink, SequenceTheorems, TLAPS

-----------------------------------------------------------------------------
(* Remainders by a modulus m, for every m. *)

LEMMA ModSmall ==
    ASSUME NEW m \in Nat \ {0}, NEW x \in 0..(m - 1)
    PROVE  x % m = x
OBVIOUS

LEMMA DivMod ==
    ASSUME NEW m \in Nat \ {0}, NEW x \in Nat
    PROVE  \E q \in Nat, r \in 0..(m - 1) : q = x \div m /\ r = x % m /\ x = m * q + r
<1> DEFINE q == x \div m
           r == x % m
<1>1. q \in Nat /\ r \in 0..(m - 1) /\ x = m * q + r
    OBVIOUS
<1> HIDE DEF q, r
<1>2. q = x \div m /\ r = x % m
    BY DEF q, r
<1> QED
    BY <1>1, <1>2

LEMMA ModUnique ==
    ASSUME NEW m \in Nat \ {0}, NEW q \in Nat, NEW r \in 0..(m - 1)
    PROVE  (m * q + r) % m = r
<1> DEFINE x == m * q + r
<1>1. x \in Nat
    OBVIOUS
<1>2. PICK p \in Nat, s \in 0..(m - 1) : s = x % m /\ x = m * p + s
    BY <1>1, DivMod
<1> HIDE DEF x
<1>3. m * q + r = m * p + s
    BY <1>2 DEF x
<1>4. p = q
    <2>1. CASE p >= q + 1
        <3>1. m * p >= m * (q + 1)
            BY <2>1
        <3> QED
            BY <1>3, <3>1
    <2>2. CASE q >= p + 1
        <3>1. m * q >= m * (p + 1)
            BY <2>2
        <3> QED
            BY <1>3, <3>1
    <2> QED
        BY <2>1, <2>2
<1>5. s = r
    BY <1>3, <1>4
<1> QED
    BY <1>2, <1>5 DEF x

LEMMA ProductMonotone ==
    ASSUME NEW c \in Nat, NEW a \in Nat, NEW b \in Nat, a <= b
    PROVE  c * a <= c * b
OBVIOUS

(* A counter that wraps stays the remainder of the count. *)
LEMMA ModSuccessor ==
    ASSUME NEW m \in Nat \ {0}, NEW n \in Nat
    PROVE  ((n % m) + 1) % m = (n + 1) % m
<1>1. PICK q \in Nat, r \in 0..(m - 1) : r = n % m /\ n = m * q + r
    BY DivMod
<1>2. CASE r + 1 < m
    <2>1. r + 1 \in 0..(m - 1) /\ n + 1 = m * q + (r + 1)
        BY <1>1, <1>2
    <2>2. (m * q + (r + 1)) % m = r + 1
        BY <2>1, ModUnique
    <2>3. (r + 1) % m = r + 1
        BY <2>1, ModSmall
    <2> QED
        BY <1>1, <2>1, <2>2, <2>3
<1>3. CASE r + 1 = m
    <2>1. n + 1 = m * (q + 1) + 0 /\ q + 1 \in Nat /\ 0 \in 0..(m - 1)
        BY <1>1, <1>3
    <2>2. (m * (q + 1) + 0) % m = 0
        BY <2>1, ModUnique
    <2>3. m = m * 1 + 0
        OBVIOUS
    <2>4. (m * 1 + 0) % m = 0
        BY <2>1, ModUnique
    <2>5. (r + 1) % m = 0
        BY <1>3, <2>3, <2>4
    <2> QED
        BY <1>1, <2>1, <2>2, <2>5
<1> QED
    BY <1>1, <1>2, <1>3

(* Two counts less than m apart have different remainders. *)
LEMMA ModClose ==
    ASSUME NEW m \in Nat \ {0}, NEW x \in Nat, NEW y \in Nat,
           x % m = y % m, x <= y, y < x + m
    PROVE  x = y
<1>1. PICK q \in Nat, r \in 0..(m - 1) : r = x % m /\ x = m * q + r
    BY DivMod
<1>2. PICK p \in Nat, s \in 0..(m - 1) : s = y % m /\ y = m * p + s
    BY DivMod
<1>3. r = s
    BY <1>1, <1>2
<1>4. CASE p >= q + 1
    <2>1. m * p >= m * (q + 1)
        BY <1>4, ProductMonotone
    <2>2. m * (q + 1) = m * q + m
        OBVIOUS
    <2> QED
        BY <1>1, <1>2, <1>3, <2>1, <2>2
<1>5. CASE p <= q
    <2>1. m * p <= m * q
        BY <1>5, ProductMonotone
    <2> QED
        BY <1>1, <1>2, <1>3, <2>1
<1> QED
    BY <1>4, <1>5

-----------------------------------------------------------------------------
(* The inductive invariants. *)

(* The packets that are somewhere between the task and the state. *)
InFlight ==
    {framed, dma.sent} \cup {dma.over[i] : i \in DOMAIN dma.over}
    \cup {line[i] : i \in DOMAIN line} \cup {batch[i].packet : i \in DOMAIN batch}

(* The flag the header is read from describes the payload once the encoder *)
(* has returned, and cannot say keyframe of a delta before.                *)
FlagGood ==
    /\ pc = "commit" /\ payload.type = "delta" => ~lastEncodeWasKeyframe
    /\ pc \in {"frame", "copy"} => (lastEncodeWasKeyframe <=> payload.type = "keyframe")

HeadersGood == \A p \in InFlight : p.type = p.payload.type

(* Types and headers: the bridge applies a delta header to a delta payload *)
(* only, so the state is well formed because headers are right.            *)
TypeInv == TypeOK /\ FlagGood /\ HeadersGood

(* The host shows the cycle c or may still come to show it. *)
Used(c) ==
    /\ c > 0
    /\ \/ hasKeyframe /\ state.timestamp = c
       \/ \E p \in InFlight : p.cycle = c

(* The payload p carries the cycle c to a host that shows the cycle before; *)
(* no host does if that one was never sent.                                 *)
Carries(p, c) ==
    \/ p = KeyframeOf(captured[c])
    \/ /\ p.type = "delta"
       /\ Used(c - 1) =>
             /\ SameTopology(captured[c], captured[c - 1])
             /\ p = DeltaOf(captured[c], captured[c - 1])

PacketsGood ==
    \A p \in InFlight \ {Unframed} :
        p.cycle \in 1..Cycle /\ Carries(p.payload, p.cycle)

(* Before the frame of the cycle is written nobody can have its packet, and *)
(* the baseline is either the cycle before or a cycle the host cannot have. *)
BaselineGood ==
    /\ pc \in {"encode", "commit", "frame", "copy"} => ~Used(Cycle)
    /\ pc = "encode" /\ encoderInitialised /\ Used(Cycle - 1)
          => lastSnapshot = captured[Cycle - 1]
    /\ pc \in {"none", "sleep"} /\ encoderInitialised /\ Used(Cycle)
          => lastSnapshot = captured[Cycle]
    /\ pc \in {"frame", "copy", "send"} => lastSnapshot = current

PayloadGood == pc \in {"commit", "frame", "copy"} => Carries(payload, Cycle)

StateGood ==
    hasKeyframe => state.timestamp \in 1..Cycle /\ SyncedStateExact

LinkInv == TypeInv /\ PacketsGood /\ BaselineGood /\ PayloadGood /\ StateGood

(* The frames of the transfer: the one it was started on, and those written *)
(* over it since.                                                           *)
Transferred == ({dma.sent} \cup {dma.over[i] : i \in DOMAIN dma.over}) \ {Unframed}

(* Packets overtake nothing: on the way from the task to the state they are *)
(* in the order of their cycles.                                            *)
OrderInv ==
    /\ pc = "send" => framed.cycle = Cycle
    /\ ~dma.active => dma.sent = Unframed /\ dma.over = <<>>
    /\ \A p \in Transferred :
          /\ \A i \in DOMAIN line : line[i].cycle <= p.cycle
          /\ \A i \in DOMAIN batch : batch[i].packet.cycle <= p.cycle
          /\ state.timestamp <= p.cycle
    /\ \A i, j \in DOMAIN line : i <= j => line[i].cycle <= line[j].cycle
    /\ \A i \in DOMAIN line : \A j \in DOMAIN batch : batch[j].packet.cycle <= line[i].cycle
    /\ \A i \in DOMAIN line : state.timestamp <= line[i].cycle
    /\ \A i, j \in DOMAIN batch :
          i <= j => batch[i].packet.cycle <= batch[j].packet.cycle
    /\ \A i \in DOMAIN batch : state.timestamp <= batch[i].packet.cycle
    /\ state.timestamp <= Cycle

(* The cycle of the packet decoded before the i-th of the chunk, once the   *)
(* host has a keyframe.                                                     *)
CycleBefore(i) == IF i = 1 THEN state.timestamp ELSE batch[i - 1].packet.cycle

(* The sequence check compares the numbers of consecutive packets.          *)
SequenceInv ==
    /\ \A p \in InFlight \ {Unframed} : p.seq = SeqOf(p.cycle)
    /\ batch # <<>> => lastSeq = SeqOf(batch[Len(batch)].packet.cycle)
    /\ batch = <<>> /\ hasKeyframe => lastSeq = SeqOf(state.timestamp)
    /\ \A i \in DOMAIN batch : i > 1 \/ hasKeyframe =>
          (batch[i].gap <=> SeqOf(batch[i].packet.cycle) # (SeqOf(CycleBefore(i)) + 1) % SeqMod)

-----------------------------------------------------------------------------
(* The data. *)

(* The zeroed snapshot encoder_init leaves behind is a snapshot of no task. *)
LEMMA ZeroIsSnapshot == ZeroSnapshot \in Snapshot
<1>1. [f \in MemoryFields |-> 0] \in Memory
  BY WireAssumption DEF Memory
<1>2. [i \in {} |-> 0] \in [0..(0 - 1) -> Task]
  OBVIOUS
<1>3. [i \in {} |-> 0] \in TaskTables
  BY <1>2, WireAssumption DEF TaskTables
<1> QED
  BY <1>1, <1>3 DEF ZeroSnapshot, Snapshot

(* A task table is a function from its slots to tasks. *)
LEMMA TableFacts ==
  ASSUME NEW t \in TaskTables
  PROVE  /\ DOMAIN t \subseteq 0..(MaxTasks - 1)
         /\ t \in [DOMAIN t -> Task]
  BY WireAssumption DEF TaskTables

(* A keyframe of a snapshot is a payload. *)
LEMMA KeyframeIsPayload ==
  ASSUME NEW s \in Snapshot
  PROVE  KeyframeOf(s) \in Payload
  BY DEF KeyframeOf, Payload, Snapshot

(* So is every delta, complete or not. *)
LEMMA DeltaIsPayload ==
  ASSUME NEW s \in Snapshot, NEW pairs \in SUBSET DeltaPairs(s),
         NEW fields \in SUBSET MemoryFields
  PROVE  DeltaWith(s, pairs, fields) \in Payload
<1>1. /\ s.tasks \in TaskTables /\ s.memory \in Memory
  BY DEF Snapshot
<1>2. [x \in pairs |-> s.tasks[x[1]].field[x[2]]] \in DeltaTable
  <2>0. Slots(s) \subseteq 0..(MaxTasks - 1)
    BY <1>1, TableFacts DEF Slots
  <2>1. ASSUME NEW x \in pairs PROVE x \in (0..(DeltaTasks - 1)) \X TaskFields
    <3>1. PICK i \in Slots(s), f \in TaskFields : i < DeltaTasks /\ x = <<i, f>>
      BY DEF DeltaPairs
    <3> QED
      BY <3>1, <2>0, WireAssumption
  <2>2. ASSUME NEW x \in pairs PROVE s.tasks[x[1]].field[x[2]] \in Words
    <3>1. x[1] \in DOMAIN s.tasks /\ x[2] \in TaskFields
      BY DEF DeltaPairs, Slots
    <3>2. s.tasks[x[1]] \in Task
      BY <3>1, <1>1, TableFacts
    <3> QED
      BY <3>1, <3>2 DEF Task
  <2> QED
    BY <2>1, <2>2 DEF DeltaTable
<1>3. [f \in fields |-> s.memory[f]] \in UNION {[S -> Words] : S \in SUBSET MemoryFields}
  BY <1>1 DEF Memory
<1> QED
  BY <1>2, <1>3 DEF DeltaWith, Payload

(* Applying a delta keeps a state well formed. *)
LEMMA AppliedTyped ==
  ASSUME NEW p \in Payload, p.type = "delta", NEW t \in TaskTables, NEW m \in Memory
  PROVE  AppliedTasks(p, t) \in TaskTables /\ AppliedMemory(p, m) \in Memory
<1>1. /\ p.changes \in DeltaTable
      /\ p.memory \in UNION {[S -> Words] : S \in SUBSET MemoryFields}
  BY DEF Payload
<1>2. \A x \in DOMAIN p.changes : p.changes[x] \in Words
  BY <1>1 DEF DeltaTable
<1>3. \A f \in DOMAIN p.memory : p.memory[f] \in Words
  BY <1>1
<1>4. PICK n \in 0..MaxTasks : t \in [0..(n - 1) -> Task]
  BY DEF TaskTables
<1>5. ASSUME NEW i \in DOMAIN t
      PROVE  AppliedTasks(p, t)[i] \in Task
  <2>1. t[i] \in Task
    BY <1>4
  <2> QED
    BY <2>1, <1>2 DEF Task, AppliedTasks
<1>6. AppliedTasks(p, t) \in [0..(n - 1) -> Task]
  BY <1>4, <1>5 DEF AppliedTasks
<1>7. AppliedMemory(p, m) \in Memory
  BY <1>3 DEF Memory, AppliedMemory
<1> QED
  BY <1>6, <1>7 DEF TaskTables

-----------------------------------------------------------------------------
(* Type correctness. *)

(* What a step leaves alone keeps its type. *)
LEMMA EncoderFrame ==
  ASSUME EncoderTyped, UNCHANGED encoderVars
  PROVE  EncoderTyped'
  BY DEF EncoderTyped, encoderVars

LEMMA TaskFrame ==
  ASSUME TaskTyped, UNCHANGED <<initialised, running, pc, loopCount, captured, payload>>
  PROVE  TaskTyped'
  BY DEF TaskTyped, Cycle

LEMMA WireFrame ==
  ASSUME WireTyped, UNCHANGED <<framed, dma, txDrops, line>>, pc' # "send"
  PROVE  WireTyped'
  BY DEF WireTyped

LEMMA BridgeFrame ==
  ASSUME BridgeTyped, UNCHANGED bridgeVars
  PROVE  BridgeTyped'
  BY DEF BridgeTyped, bridgeVars

(* The snapshot of the running cycle is one. *)
LEMMA CurrentIsSnapshot ==
  ASSUME TaskTyped, Cycle >= 1
  PROVE  current \in Snapshots /\ current \in Snapshot
<1>1. captured \in Seq(Snapshots)
  BY DEF TaskTyped
<1>2. Cycle \in 1..Len(captured)
  BY <1>1 DEF Cycle
<1> QED
  BY <1>1, <1>2, AgentAssumption DEF current

(* loop_count wraps within its type. *)
LEMMA EndCycleTyped ==
  ASSUME TaskTyped, EndCycle
  PROVE  loopCount' \in 0..(LoopMod - 1)
<1>1. (loopCount + 1) % LoopMod \in 0..(LoopMod - 1)
  BY AgentAssumption DEF TaskTyped
<1> QED
  BY <1>1 DEF EndCycle

(* A payload that is written keeps the encoder typed. *)
LEMMA WriteTyped ==
  ASSUME EncoderTyped, NEW p \in Payload, Write(p)
  PROVE  EncoderTyped'
<1>1. lastSnapshot' \in Snapshot \cup {Torn} /\ payload' \in Payload \cup {NoPayload}
  BY DEF EncoderTyped, Write
<1>2. encoderInitialised' \in BOOLEAN /\ lastEncodeWasKeyframe' \in BOOLEAN
  BY DEF EncoderTyped, Write
<1> QED
  BY <1>1, <1>2 DEF EncoderTyped

LEMMA EncodeStartTyped ==
  ASSUME EncoderTyped, TaskTyped, Cycle >= 1, EncodeStart(current, ForceKeyframe)
  PROVE  EncoderTyped'
<1>1. current \in Snapshot
  BY CurrentIsSnapshot
<1>2. CASE Write(KeyframeOf(current))
  BY <1>1, <1>2, KeyframeIsPayload, WriteTyped
<1>3. CASE Write(DeltaOf(current, lastSnapshot))
  <2>1. DeltaOf(current, lastSnapshot) \in Payload
    BY <1>1, DeltaIsPayload DEF DeltaOf
  <2> QED
    BY <1>3, <2>1, WriteTyped
<1>4. CASE \E pairs \in SUBSET DeltaPairs(current), fields \in SUBSET MemoryFields :
             Write(DeltaWith(current, pairs, fields))
  <2>1. PICK pairs \in SUBSET DeltaPairs(current), fields \in SUBSET MemoryFields :
             Write(DeltaWith(current, pairs, fields))
    BY <1>4
  <2>2. DeltaWith(current, pairs, fields) \in Payload
    BY <1>1, DeltaIsPayload
  <2> QED
    BY <2>1, <2>2, WriteTyped
<1> QED
  BY <1>2, <1>3, <1>4 DEF EncodeStart

LEMMA TypeInit == Init => TypeInv
<1> SUFFICES ASSUME Init PROVE TypeInv
  OBVIOUS
<1> USE DEF Init, AgentInit, BridgeInit, EncoderInit
<1>1. EncoderTyped
  BY ZeroIsSnapshot DEF EncoderTyped
<1>2. TaskTyped
  <2>1. captured \in Seq(Snapshots) /\ Cycle = 0
    BY DEF Cycle
  <2>2. 0 \in 0..(LoopMod - 1) /\ 0 \in 0..MaxCycles
    BY AgentAssumption
  <2>3. initialised = FALSE /\ running = FALSE /\ pc = "none" /\ loopCount = 0
    OBVIOUS
  <2> QED
    BY <2>1, <2>2, <2>3 DEF TaskTyped
<1>3. WireTyped
  <2>1. dma \in [active : BOOLEAN, sent : Packet \cup {Unframed}, dirty : BOOLEAN,
                 over : Seq(Packet)] /\ ~dma.active
    BY DEF Idle
  <2>2. framed = Unframed /\ pc = "none" /\ txDrops = 0 /\ line = <<>>
    OBVIOUS
  <2> QED
    BY <2>1, <2>2 DEF WireTyped
<1>4. BridgeTyped
  <2>1. state \in [tasks : TaskTables, memory : Memory, timestamp : Nat,
                   packet_count : Nat, drop_count : Nat]
    BY ZeroIsSnapshot DEF EmptyState, ZeroSnapshot, Snapshot
  <2>2. -1 \in -1..(SeqMod - 1)
    BY WireAssumption
  <2>3. batch \in Seq([packet : Packet, gap : BOOLEAN])
    OBVIOUS
  <2>4. bridgePc = "read" /\ lastSeq = -1 /\ gapCount = 0
    OBVIOUS
  <2>5. hasKeyframe = FALSE /\ clean = FALSE /\ contiguous = FALSE /\ outage = FALSE
    OBVIOUS
  <2>6. lastSeq \in -1..(SeqMod - 1)
    BY <2>2, <2>4
  <2>7. /\ hasKeyframe \in BOOLEAN /\ clean \in BOOLEAN /\ contiguous \in BOOLEAN
        /\ outage \in BOOLEAN
    BY <2>5
  <2>8. gapCount \in Nat /\ bridgePc \in {"read", "handle"} /\ bridgePc # "handle"
    BY <2>4
  <2> QED
    BY <2>1, <2>3, <2>6, <2>7, <2>8 DEF BridgeTyped
<1>5. FlagGood
  BY DEF FlagGood
<1>6. HeadersGood
  <2>1. framed = Unframed /\ dma.sent = Unframed /\ dma.over = <<>>
    BY DEF Idle
  <2>2. DOMAIN dma.over = {} /\ DOMAIN line = {} /\ DOMAIN batch = {}
    BY <2>1
  <2>3. InFlight = {Unframed}
    BY <2>1, <2>2 DEF InFlight
  <2> QED
    BY <2>3 DEF HeadersGood, Unframed, NoPayload
<1> QED
  BY <1>1, <1>2, <1>3, <1>4, <1>5, <1>6 DEF TypeInv, TypeOK

(* The agent's steps, one by one. *)
LEMMA StartTyped ==
  ASSUME TypeOK, Start, UNCHANGED bridgeVars
  PROVE  TypeOK'
<1> USE DEF TypeOK
<1>1. EncoderTyped'
  <2>1. CASE initialised
    BY <2>1, EncoderFrame DEF Start
  <2>2. CASE ~initialised
    BY <2>2, ZeroIsSnapshot DEF Start, EncoderReset, EncoderTyped
  <2> QED
    BY <2>1, <2>2
<1>2. TaskTyped'
  <2>1. pc = "none" /\ UNCHANGED captured /\ Cycle' = Cycle
    BY DEF Start, TaskTyped, Cycle
  <2>2. 0 \in 0..(LoopMod - 1)
    BY AgentAssumption
  <2>3. initialised' \in BOOLEAN
    BY DEF Start
  <2>4. CASE running' = TRUE /\ pc' = "sleep" /\ loopCount' = 0
    BY <2>1, <2>2, <2>3, <2>4 DEF TaskTyped
  <2>5. CASE UNCHANGED <<running, pc, loopCount>>
    BY <2>1, <2>3, <2>5 DEF TaskTyped
  <2> QED
    BY <2>4, <2>5 DEF Start
<1>3. pc' # "send"
  BY DEF Start, TaskTyped
<1>4. WireTyped'
  BY <1>3, WireFrame DEF Start
<1> QED
  BY <1>1, <1>2, <1>4, BridgeFrame

LEMMA StopTyped ==
  ASSUME TypeOK, Stop, UNCHANGED bridgeVars
  PROVE  TypeOK'
<1> USE DEF TypeOK
<1>1. EncoderTyped' /\ WireTyped'
  BY EncoderFrame, WireFrame DEF Stop
<1>2. TaskTyped'
  <2>1. 0 \in 0..(LoopMod - 1) /\ Cycle' = Cycle
    BY AgentAssumption DEF Stop, Cycle
  <2> QED
    BY <2>1 DEF Stop, TaskTyped
<1> QED
  BY <1>1, <1>2, BridgeFrame

LEMMA CaptureTyped ==
  ASSUME TypeOK, Capture, UNCHANGED bridgeVars
  PROVE  TypeOK'
<1> USE DEF TypeOK
<1>1. EncoderTyped' /\ WireTyped'
  BY EncoderFrame, WireFrame DEF Capture
<1>2. TaskTyped'
  <2>1. PICK s \in Snapshots : captured' = Append(captured, s)
    BY DEF Capture
  <2>2. captured' \in Seq(Snapshots) /\ Cycle' = Cycle + 1
    BY <2>1 DEF TaskTyped, Cycle
  <2>3. Cycle' \in 0..MaxCycles /\ Cycle' >= 1
    BY <2>2, AgentAssumption DEF TaskTyped, Capture
  <2> QED
    BY <2>2, <2>3 DEF TaskTyped, Capture
<1> QED
  BY <1>1, <1>2, BridgeFrame

LEMMA EncodeTyped ==
  ASSUME TypeOK, Encode, UNCHANGED bridgeVars
  PROVE  TypeOK'
<1> USE DEF TypeOK
<1>1. Cycle >= 1 /\ Cycle' = Cycle
  BY DEF TaskTyped, Encode, Cycle
<1>2. EncoderTyped'
  BY <1>1, EncodeStartTyped DEF Encode
<1>3. CASE payload'.type = "none"
  <2>1. pc' = "sleep" /\ loopCount' \in 0..(LoopMod - 1)
    BY <1>3, EndCycleTyped DEF Encode, EndCycle
  <2>2. TaskTyped'
    BY <1>1, <2>1 DEF TaskTyped, Encode
  <2>3. WireTyped'
    BY <2>1, WireFrame DEF Encode
  <2> QED
    BY <1>2, <2>2, <2>3, BridgeFrame
<1>4. CASE payload'.type # "none"
  <2>1. payload' \in Payload
    BY <1>2, <1>4 DEF NoPayload, EncoderTyped
  <2>2. TaskTyped'
    BY <1>1, <1>4, <2>1 DEF TaskTyped, Encode
  <2>3. WireTyped'
    BY <1>4, WireFrame DEF Encode
  <2> QED
    BY <1>2, <2>2, <2>3, BridgeFrame
<1> QED
  BY <1>3, <1>4

LEMMA CommitTyped ==
  ASSUME TypeOK, Commit, UNCHANGED bridgeVars
  PROVE  TypeOK'
<1> USE DEF TypeOK
<1>1. Cycle >= 1 /\ Cycle' = Cycle
  BY DEF TaskTyped, Commit, Cycle
<1>2. EncoderTyped'
  <2>1. lastSnapshot' \in Snapshot
    BY <1>1, CurrentIsSnapshot DEF Commit, EncodeFinish
  <2>2. UNCHANGED payload
    BY DEF Commit, EncodeFinish
  <2>3. encoderInitialised' \in BOOLEAN /\ lastEncodeWasKeyframe' \in BOOLEAN
    BY DEF Commit, EncodeFinish, EncoderTyped
  <2> QED
    BY <2>1, <2>2, <2>3 DEF EncoderTyped
<1>3. payload' \in Payload
  BY DEF Commit, EncodeFinish, TaskTyped
<1>4. pc' \in {"sleep", "frame"} /\ loopCount' \in 0..(LoopMod - 1)
  <2>1. CASE EmptyDelta(payload)
    BY <2>1, EndCycleTyped DEF Commit, EndCycle
  <2>2. CASE ~EmptyDelta(payload)
    BY <2>2 DEF Commit, TaskTyped
  <2> QED
    BY <2>1, <2>2
<1>5. TaskTyped'
  BY <1>1, <1>3, <1>4 DEF TaskTyped, Commit
<1>6. WireTyped'
  BY <1>4, WireFrame DEF Commit
<1> QED
  BY <1>2, <1>5, <1>6, BridgeFrame

(* The transfer keeps its type when only its dirty mark changes. *)
LEMMA FrameStartTyped ==
  ASSUME TypeOK, FrameStart, UNCHANGED bridgeVars
  PROVE  TypeOK'
<1> USE DEF TypeOK
<1>1. Cycle >= 1 /\ Cycle' = Cycle
  BY DEF TaskTyped, FrameStart, Cycle
<1>2. EncoderTyped'
  BY EncoderFrame DEF FrameStart
<1>3. pc' \in {"sleep", "copy"} /\ loopCount' \in 0..(LoopMod - 1)
  <2>1. CASE FrameSize(payload) > FrameBytes
    BY <2>1, EndCycleTyped DEF FrameStart, EndCycle
  <2>2. CASE ~(FrameSize(payload) > FrameBytes)
    BY <2>2 DEF FrameStart, TaskTyped
  <2> QED
    BY <2>1, <2>2
<1>4. payload' = payload /\ payload \in Payload
  BY DEF FrameStart, TaskTyped, encoderVars
<1>5. TaskTyped'
  BY <1>1, <1>3, <1>4 DEF TaskTyped, FrameStart
<1>6. WireTyped'
  <2>1. CASE UNCHANGED <<framed, dma>>
    BY <1>3, <2>1, WireFrame DEF FrameStart
  <2>2. CASE framed' = Unframed /\ dma' = [dma EXCEPT !.dirty = dma.active]
    BY <1>3, <2>2 DEF FrameStart, WireTyped
  <2> QED
    BY <2>1, <2>2 DEF FrameStart
<1> QED
  BY <1>2, <1>5, <1>6, BridgeFrame

LEMMA FrameFinishTyped ==
  ASSUME TypeOK, FrameFinish, UNCHANGED bridgeVars
  PROVE  TypeOK' /\ framed' \in Packet
<1> USE DEF TypeOK
<1>1. Cycle \in 1..MaxCycles /\ Cycle' = Cycle
  BY AgentAssumption DEF TaskTyped, FrameFinish, Cycle
<1>2. EncoderTyped'
  BY EncoderFrame DEF FrameFinish
<1>3. TaskTyped'
  BY <1>1 DEF TaskTyped, FrameFinish, encoderVars
<1>4. framed' \in Packet
  <2>1. SeqOf(Cycle) \in 0..(SeqMod - 1)
    BY <1>1, WireAssumption, AgentAssumption DEF SeqOf
  <2>2. payload \in Payload
    BY DEF FrameFinish, TaskTyped
  <2> QED
    BY <1>1, <2>1, <2>2 DEF FrameFinish, FramePacket, Packet
<1>5. WireTyped'
  <2>1. (IF dma.active THEN Append(dma.over, framed') ELSE dma.over) \in Seq(Packet)
    BY <1>4 DEF WireTyped
  <2>2. dma' = [dma EXCEPT !.over = IF dma.active THEN Append(dma.over, framed') ELSE dma.over]
    BY DEF FrameFinish
  <2>3. dma' \in [active : BOOLEAN, sent : Packet \cup {Unframed}, dirty : BOOLEAN,
                  over : Seq(Packet)]
        /\ dma'.active = dma.active /\ dma'.sent = dma.sent
    BY <2>1, <2>2 DEF WireTyped
  <2> QED
    BY <1>4, <2>3 DEF WireTyped, FrameFinish
<1> QED
  BY <1>2, <1>3, <1>4, <1>5, BridgeFrame

LEMMA SendTyped ==
  ASSUME TypeOK, Send, UNCHANGED bridgeVars
  PROVE  TypeOK'
<1> USE DEF TypeOK
<1>1. Cycle' = Cycle
  BY DEF Send, Cycle
<1>2. EncoderTyped'
  BY EncoderFrame DEF Send
<1>3. loopCount' \in 0..(LoopMod - 1) /\ pc' = "sleep"
  BY EndCycleTyped DEF Send, EndCycle
<1>4. TaskTyped'
  BY <1>1, <1>3 DEF TaskTyped, Send, encoderVars
<1>5. txDrops' \in Nat
  BY DEF Send, WireTyped
<1>6. dma' \in [active : BOOLEAN, sent : Packet \cup {Unframed}, dirty : BOOLEAN,
                over : Seq(Packet)]
      /\ (dma'.active => dma'.sent \in Packet)
  <2>1. framed \in Packet
    BY DEF Send, WireTyped
  <2>2. CASE dma' = [Idle EXCEPT !.active = TRUE, !.sent = framed]
    <3>1. dma' = [active |-> TRUE, sent |-> framed, dirty |-> FALSE, over |-> <<>>]
      BY <2>2 DEF Idle
    <3>2. <<>> \in Seq(Packet)
      OBVIOUS
    <3> QED
      BY <2>1, <3>1, <3>2
  <2>3. CASE UNCHANGED dma
    BY <2>3 DEF WireTyped
  <2> QED
    BY <2>2, <2>3 DEF Send
<1>7. WireTyped'
  BY <1>3, <1>5, <1>6 DEF WireTyped, Send
<1> QED
  BY <1>2, <1>4, <1>7, BridgeFrame

LEMMA TransferTyped ==
  ASSUME TypeOK, Transfer, UNCHANGED bridgeVars
  PROVE  TypeOK'
<1> USE DEF TypeOK
<1>1. EncoderTyped'
  BY EncoderFrame DEF Transfer
<1>2. TaskTyped'
  BY TaskFrame DEF Transfer, encoderVars
<1>3. line' \in Seq(Packet)
  <2>1. dma.sent \in Packet
    BY DEF Transfer, WireTyped
  <2>2. \A i \in DOMAIN dma.over : dma.over[i] \in Packet
    BY DEF WireTyped
  <2>3. line \in Seq(Packet)
    BY DEF WireTyped
  <2>4. line' = line \/ \E p \in Packet : line' = Append(line, p)
    BY Zenon, <2>1, <2>2 DEF Transfer
  <2> QED
    BY <2>3, <2>4
<1>4. dma' \in [active : BOOLEAN, sent : Packet \cup {Unframed}, dirty : BOOLEAN,
                over : Seq(Packet)] /\ ~dma'.active
  BY DEF Transfer, Idle
<1>5. WireTyped'
  BY <1>3, <1>4 DEF WireTyped, Transfer
<1> QED
  BY <1>1, <1>2, <1>5, BridgeFrame

(* The host's steps. *)
LEMMA ReceiveTyped ==
  ASSUME TypeOK, Receive
  PROVE  TypeOK'
<1> USE DEF TypeOK
<1>1. EncoderTyped' /\ TaskTyped'
  BY EncoderFrame, TaskFrame DEF Receive, encoderVars
<1>2. Head(line) \in Packet /\ Tail(line) \in Seq(Packet)
  <2>1. line \in Seq(Packet) /\ line # <<>>
    BY DEF Receive, WireTyped
  <2> QED
    BY <2>1, HeadTailProperties
<1>3. WireTyped'
  BY <1>2 DEF WireTyped, Receive
<1>4. BridgeTyped'
  <2> DEFINE p == Head(line)
             mark == [packet |-> p, gap |-> SequenceGap(p)]
  <2>1. /\ bridgePc = "read" /\ lastSeq' = p.seq /\ batch' = Append(batch, mark)
        /\ gapCount' = gapCount + (IF SequenceGap(p) THEN 1 ELSE 0)
        /\ UNCHANGED <<bridgePc, state, hasKeyframe, clean, contiguous, outage>>
    BY DEF Receive, Decode
  <2>2. SequenceGap(p) \in BOOLEAN
    BY DEF SequenceGap
  <2>3. mark \in [packet : Packet, gap : BOOLEAN]
    BY <1>2, <2>2
  <2>4. batch' \in Seq([packet : Packet, gap : BOOLEAN])
    BY <2>1, <2>3 DEF BridgeTyped
  <2>5. lastSeq' \in -1..(SeqMod - 1)
    <3>1. p.seq \in 0..(SeqMod - 1)
      BY <1>2 DEF Packet
    <3> QED
      BY <2>1, <3>1, WireAssumption
  <2>6. gapCount' \in Nat
    BY <2>1 DEF BridgeTyped
  <2> QED
    BY <2>1, <2>4, <2>5, <2>6 DEF BridgeTyped
<1> QED
  BY <1>1, <1>3, <1>4

LEMMA ChunkDecodedTyped ==
  ASSUME TypeOK, ChunkDecoded, UNCHANGED agentVars
  PROVE  TypeOK'
<1> USE DEF TypeOK
<1>1. EncoderTyped' /\ TaskTyped' /\ WireTyped'
  <2>1. UNCHANGED pc /\ UNCHANGED encoderVars
    BY DEF agentVars
  <2>2. EncoderTyped' /\ TaskTyped'
    BY <2>1, EncoderFrame, TaskFrame DEF agentVars, encoderVars
  <2> QED
    BY <2>1, <2>2 DEF WireTyped, agentVars
<1>2. BridgeTyped'
  BY DEF BridgeTyped, ChunkDecoded
<1> QED
  BY <1>1, <1>2

(* The packet the loop of handle_packets is at. *)
LEMMA HandledPacket ==
  ASSUME BridgeTyped, Handle
  PROVE  /\ Head(batch) = batch[1] /\ 1 \in DOMAIN batch
         /\ Head(batch).packet \in Packet /\ Head(batch).gap \in BOOLEAN
         /\ Tail(batch) \in Seq([packet : Packet, gap : BOOLEAN])
         /\ Len(Tail(batch)) = Len(batch) - 1
<1> DEFINE Mark == [packet : Packet, gap : BOOLEAN]
<1>1. batch \in Seq(Mark) /\ batch # <<>>
  BY DEF BridgeTyped, Handle
<1>2. /\ Head(batch) \in Mark /\ Tail(batch) \in Seq(Mark)
      /\ Len(Tail(batch)) = Len(batch) - 1
  <2> HIDE DEF Mark
  <2> QED
    BY <1>1, HeadTailProperties
<1>3. Head(batch) = batch[1] /\ 1 \in DOMAIN batch
  <2> HIDE DEF Mark
  <2> QED
    BY <1>1
<1> QED
  BY <1>2, <1>3

LEMMA HandleTyped ==
  ASSUME TypeInv, Handle, UNCHANGED agentVars
  PROVE  TypeOK'
<1> USE DEF TypeOK, TypeInv
<1>1. EncoderTyped' /\ TaskTyped' /\ WireTyped'
  <2>1. UNCHANGED pc /\ UNCHANGED encoderVars
    BY DEF agentVars
  <2>2. EncoderTyped' /\ TaskTyped'
    BY <2>1, EncoderFrame, TaskFrame DEF agentVars, encoderVars
  <2> QED
    BY <2>1, <2>2 DEF WireTyped, agentVars
<1> DEFINE p == Head(batch).packet
           States == [tasks : TaskTables, memory : Memory, timestamp : Nat,
                      packet_count : Nat, drop_count : Nat]
<1>2. p \in Packet /\ p.payload \in Payload /\ p.cycle \in Nat
  BY HandledPacket, AgentAssumption DEF Packet
<1>3. p.type = p.payload.type
  <2>1. p \in InFlight
    BY HandledPacket DEF InFlight
  <2> QED
    BY <2>1 DEF HeadersGood
<1>4. DropRecorded(state) \in States
  BY DEF DropRecorded, BridgeTyped
<1>5. ASSUME NEW s \in States PROVE Updated(p, s) \in States
  <2>1. CASE p.type = "keyframe"
    BY <1>2, <1>3, <2>1 DEF Updated, ParsesAsKeyframe, Payload
  <2>2. CASE p.type = "delta"
    <3>1. /\ AppliedTasks(p.payload, s.tasks) \in TaskTables
          /\ AppliedMemory(p.payload, s.memory) \in Memory
      BY <1>2, <1>3, <2>2, AppliedTyped
    <3> QED
      BY <1>2, <2>2, <3>1 DEF Updated
  <2> QED
    BY <1>2, <2>1, <2>2 DEF Packet
<1>6. state' \in States
  BY <1>4, <1>5 DEF Handle
<1>7. /\ hasKeyframe' \in BOOLEAN /\ clean' \in BOOLEAN /\ contiguous' \in BOOLEAN
      /\ outage' \in BOOLEAN /\ bridgePc' \in {"read", "handle"}
  <2>1. bridgePc' \in {"read", "handle"}
    BY DEF Handle
  <2>2. hasKeyframe' \in BOOLEAN
    BY Zenon DEF Handle
  <2>3. clean' \in BOOLEAN
    BY Zenon DEF Handle
  <2>4. contiguous' \in BOOLEAN
    BY Zenon DEF Handle
  <2>5. outage' \in BOOLEAN
    BY Zenon DEF Handle
  <2> QED
    BY <2>1, <2>2, <2>3, <2>4, <2>5
<1>8. batch' = Tail(batch) /\ (bridgePc' = "handle" => batch' # <<>>)
  <2>1. batch' = Tail(batch) /\ (bridgePc' = "handle" => Len(batch) # 1)
    BY DEF Handle
  <2>2. Len(batch) \in Nat
    BY DEF BridgeTyped
  <2>3. Tail(batch) = <<>> => Len(batch) - 1 = 0
    BY HandledPacket
  <2> QED
    BY <2>1, <2>2, <2>3
<1>9. BridgeTyped'
  BY <1>6, <1>7, <1>8, HandledPacket DEF BridgeTyped, Handle
<1> QED
  BY <1>1, <1>9

(* Every step keeps the types. *)
LEMMA TypeStep == TypeInv /\ [Next]_vars => TypeOK'
<1> SUFFICES ASSUME TypeInv, [Next]_vars PROVE TypeOK'
  OBVIOUS
<1>1. TypeOK
  BY DEF TypeInv
<1>2. CASE AgentNext /\ UNCHANGED bridgeVars
  BY <1>1, <1>2, StartTyped, StopTyped, CaptureTyped, EncodeTyped, CommitTyped,
     FrameStartTyped, FrameFinishTyped, SendTyped, TransferTyped
  DEF AgentNext, TelemetryTask
<1>3. CASE Receive
  BY <1>1, <1>3, ReceiveTyped
<1>4. CASE (ChunkDecoded \/ Handle) /\ UNCHANGED agentVars
  BY <1>1, <1>4, ChunkDecodedTyped, HandleTyped
<1>5. CASE UNCHANGED vars
  <2>1. EncoderTyped' /\ TaskTyped' /\ BridgeTyped'
    BY <1>1, <1>5, EncoderFrame, TaskFrame, BridgeFrame
    DEF TypeOK, vars, agentVars, encoderVars
  <2>2. WireTyped'
    BY <1>1, <1>5 DEF TypeOK, vars, agentVars, WireTyped
  <2> QED
    BY <2>1, <2>2 DEF TypeOK
<1> QED
  BY <1>2, <1>3, <1>4, <1>5 DEF Next

-----------------------------------------------------------------------------
(* Packets in flight. *)

(* A step that starts, loses, delivers or handles packets makes none: all *)
(* packets come from FrameFinish.                                          *)
LEMMA InFlightStep ==
  ASSUME TypeInv, [Next]_vars
  PROVE  \/ InFlight' \subseteq InFlight \cup {Unframed}
         \/ /\ FrameFinish /\ UNCHANGED bridgeVars
            /\ InFlight' \subseteq InFlight \cup {framed'}
<1> USE DEF TypeInv, TypeOK
<1>1. CASE UNCHANGED <<framed, dma, line, batch>>
  BY <1>1 DEF InFlight
<1>2. CASE FrameStart /\ UNCHANGED bridgeVars
  <2>1. /\ framed' \in {framed, Unframed} /\ dma'.sent = dma.sent /\ dma'.over = dma.over
        /\ UNCHANGED <<line, batch>>
    BY <1>2 DEF FrameStart, WireTyped, bridgeVars
  <2> QED
    BY <2>1 DEF InFlight
<1>3. CASE FrameFinish /\ UNCHANGED bridgeVars
  <2>1. /\ dma'.sent = dma.sent /\ UNCHANGED <<line, batch>>
        /\ dma'.over \in {dma.over, Append(dma.over, framed')}
    BY <1>3 DEF FrameFinish, WireTyped, bridgeVars
  <2>2. dma.over \in Seq(Packet)
    BY DEF WireTyped
  <2>3. \A i \in DOMAIN dma'.over :
            dma'.over[i] = framed' \/ (i \in DOMAIN dma.over /\ dma'.over[i] = dma.over[i])
    BY <2>1, <2>2
  <2> QED
    BY <1>3, <2>1, <2>3 DEF InFlight
<1>4. CASE Send /\ UNCHANGED bridgeVars
  <2>1. UNCHANGED <<framed, line, batch>>
    BY <1>4 DEF Send, bridgeVars
  <2>2. CASE dma' = [Idle EXCEPT !.active = TRUE, !.sent = framed]
    <3>1. dma'.sent = framed /\ dma'.over = <<>>
      BY <2>2 DEF Idle
    <3> QED
      BY <2>1, <3>1 DEF InFlight
  <2>3. CASE UNCHANGED dma
    BY <1>1, <2>1, <2>3
  <2> QED
    BY <1>4, <2>2, <2>3 DEF Send
<1>5. CASE Transfer /\ UNCHANGED bridgeVars
  <2>1. dma'.sent = Unframed /\ dma'.over = <<>> /\ UNCHANGED <<framed, batch>>
    BY <1>5 DEF Transfer, Idle, bridgeVars
  <2>2. line \in Seq(Packet)
    BY DEF WireTyped
  <2>3. ASSUME NEW q \in InFlight, line' = Append(line, q)
        PROVE  InFlight' \subseteq InFlight \cup {Unframed}
    <3>1. \A i \in DOMAIN line' : line'[i] = q \/ (i \in DOMAIN line /\ line'[i] = line[i])
      BY <2>2, <2>3
    <3> QED
      BY <2>1, <3>1 DEF InFlight
  <2>4. CASE line' = line
    BY <2>1, <2>4 DEF InFlight
  <2>5. CASE line' = Append(line, dma.sent)
    BY <2>3, <2>5 DEF InFlight
  <2>6. CASE \E i \in DOMAIN dma.over : line' = Append(line, dma.over[i])
    BY <2>3, <2>6 DEF InFlight
  <2> QED
    BY <1>5, <2>4, <2>5, <2>6 DEF Transfer
<1>6. CASE Receive
  <2>1. UNCHANGED <<framed, dma>> /\ line # <<>> /\ line' = Tail(line)
    BY <1>6 DEF Receive
  <2>2. line \in Seq(Packet) /\ batch \in Seq([packet : Packet, gap : BOOLEAN])
    BY DEF WireTyped, BridgeTyped
  <2>3. batch' = Append(batch, [packet |-> Head(line), gap |-> SequenceGap(Head(line))])
    BY <1>6 DEF Receive, Decode
  <2>4. Head(line) = line[1] /\ 1 \in DOMAIN line
    BY <2>1, <2>2
  <2>5. \A i \in DOMAIN line' : i + 1 \in DOMAIN line /\ line'[i] = line[i + 1]
    BY <2>1, <2>2
  <2>6. \A i \in DOMAIN batch' : \/ batch'[i].packet = Head(line)
                                 \/ i \in DOMAIN batch /\ batch'[i] = batch[i]
    BY <2>2, <2>3
  <2> QED
    BY <2>1, <2>4, <2>5, <2>6 DEF InFlight
<1>7. CASE Handle /\ UNCHANGED agentVars
  <2>1. UNCHANGED <<framed, dma, line>> /\ batch' = Tail(batch) /\ batch # <<>>
    BY <1>7 DEF Handle, agentVars, BridgeTyped
  <2>2. batch \in Seq([packet : Packet, gap : BOOLEAN])
    BY DEF BridgeTyped
  <2>3. \A i \in DOMAIN batch' : i + 1 \in DOMAIN batch /\ batch'[i] = batch[i + 1]
    BY <2>1, <2>2
  <2> QED
    BY <2>1, <2>3 DEF InFlight
<1>8. CASE (Start \/ Stop \/ Capture \/ Encode \/ Commit) /\ UNCHANGED bridgeVars
  BY <1>1, <1>8 DEF Start, Stop, Capture, Encode, Commit, bridgeVars
<1>9. CASE ChunkDecoded /\ UNCHANGED agentVars
  BY <1>1, <1>9 DEF ChunkDecoded, agentVars
<1>10. CASE UNCHANGED vars
  BY <1>1, <1>10 DEF vars, agentVars, bridgeVars
<1> QED
  BY <1>2, <1>3, <1>4, <1>5, <1>6, <1>7, <1>8, <1>9, <1>10
  DEF Next, AgentNext, TelemetryTask

-----------------------------------------------------------------------------
(* Headers. *)

(* A delta clears the flag before it is written, and a keyframe sets it when *)
(* the encoder returns.                                                      *)
LEMMA FlagStep == TypeInv /\ [Next]_vars => FlagGood'
<1> SUFFICES ASSUME TypeInv, [Next]_vars PROVE FlagGood'
  OBVIOUS
<1> USE DEF TypeInv, TypeOK
<1>1. CASE Encode /\ UNCHANGED bridgeVars
  <2>1. ASSUME NEW p, Write(p), payload'.type = "delta" PROVE ~lastEncodeWasKeyframe'
    <3>1. lastEncodeWasKeyframe' = (lastEncodeWasKeyframe /\ p.type = "keyframe")
      BY <2>1 DEF Write
    <3>2. p.type = "delta"
      BY <2>1 DEF Write, NoPayload
    <3> QED
      BY <3>1, <3>2
  <2>2. payload'.type = "delta" => ~lastEncodeWasKeyframe'
    BY <1>1, <2>1 DEF Encode, EncodeStart
  <2>3. pc' \in {"sleep", "commit"}
    BY <1>1 DEF Encode, EndCycle
  <2> QED
    BY <2>2, <2>3 DEF FlagGood
<1>2. CASE Commit /\ UNCHANGED bridgeVars
  <2>1. pc' \in {"sleep", "frame"} /\ UNCHANGED payload
    BY <1>2 DEF Commit, EndCycle, EncodeFinish
  <2>2. payload.type \in {"keyframe", "delta"}
    BY <1>2 DEF Commit, TaskTyped, Payload
  <2>3. lastEncodeWasKeyframe' = (lastEncodeWasKeyframe \/ payload.type = "keyframe")
    BY <1>2 DEF Commit, EncodeFinish
  <2>4. payload.type = "delta" => ~lastEncodeWasKeyframe
    BY <1>2 DEF Commit, FlagGood
  <2>5. lastEncodeWasKeyframe' <=> payload'.type = "keyframe"
    BY <2>1, <2>2, <2>3, <2>4
  <2> QED
    BY <2>1, <2>5 DEF FlagGood
<1>3. CASE FrameStart /\ UNCHANGED bridgeVars
  <2>1. UNCHANGED <<payload, lastEncodeWasKeyframe>> /\ pc = "frame" /\ pc' # "commit"
    BY <1>3 DEF FrameStart, EndCycle, encoderVars
  <2> QED
    BY <2>1 DEF FlagGood
<1>4. CASE (Start \/ Stop \/ Capture \/ FrameFinish \/ Send) /\ UNCHANGED bridgeVars
  <2>1. pc' \notin {"commit", "frame", "copy"}
    BY <1>4 DEF Start, Stop, Capture, FrameFinish, Send, EndCycle, TaskTyped
  <2> QED
    BY <2>1 DEF FlagGood
<1>5. CASE UNCHANGED <<pc, payload, lastEncodeWasKeyframe>>
  BY <1>5 DEF FlagGood
<1> QED
  BY <1>1, <1>2, <1>3, <1>4, <1>5
  DEF Next, AgentNext, TelemetryTask, Transfer, Receive, vars, agentVars, encoderVars

LEMMA HeadersStep == TypeInv /\ [Next]_vars => HeadersGood'
<1> SUFFICES ASSUME TypeInv, [Next]_vars PROVE HeadersGood'
  OBVIOUS
<1>1. \A p \in InFlight \cup {Unframed} : p.type = p.payload.type
  BY DEF TypeInv, HeadersGood, Unframed, NoPayload
<1>2. ASSUME FrameFinish PROVE framed'.type = framed'.payload.type
  <2>1. payload.type \in {"keyframe", "delta"}
    BY <1>2 DEF TypeInv, TypeOK, TaskTyped, FrameFinish, Payload
  <2>2. lastEncodeWasKeyframe <=> payload.type = "keyframe"
    BY <1>2 DEF TypeInv, FlagGood, FrameFinish
  <2> QED
    BY <1>2, <2>1, <2>2 DEF FrameFinish, FramePacket
<1> QED
  BY <1>1, <1>2, InFlightStep DEF HeadersGood

LEMMA TypeInvStep == TypeInv /\ [Next]_vars => TypeInv'
  BY TypeStep, FlagStep, HeadersStep DEF TypeInv

LEMMA TypeInvariant == Spec => []TypeInv
  BY TypeInit, TypeInvStep, PTL DEF Spec

(* Types are right for every size of table, buffer, counter and line.        *)
THEOREM TypeCorrect == Spec => []TypeOK
<1>1. TypeInv => TypeOK
  BY DEF TypeInv
<1> QED
  BY <1>1, TypeInvariant, PTL

(* The header of every frame names the layout of its payload, wherever the *)
(* frame is, and wherever the task was deleted before.                     *)
THEOREM HeadersCorrect == Spec => []HeaderMatchesPayload
<1>1. TypeInv => HeaderMatchesPayload
  BY DEF TypeInv, HeadersGood, InFlight, HeaderMatchesPayload
<1> QED
  BY <1>1, TypeInvariant, PTL

-----------------------------------------------------------------------------
(* The drop count. *)

(* The manager's count lags behind the decoder's by at most one for every  *)
(* packet that is still to be handled.                                     *)
DropLag == gapCount - state.drop_count \in 0..Len(batch)

LEMMA DropLagInit == Init => DropLag
  BY DEF Init, BridgeInit, EmptyState, DropLag

LEMMA DropLagStep == TypeInv /\ DropLag /\ [Next]_vars => DropLag'
<1> SUFFICES ASSUME TypeInv, DropLag, [Next]_vars PROVE DropLag'
  OBVIOUS
<1>1. /\ gapCount \in Nat /\ state.drop_count \in Nat /\ Len(batch) \in Nat
      /\ batch \in Seq([packet : Packet, gap : BOOLEAN])
  BY DEF TypeInv, TypeOK, BridgeTyped
<1>2. CASE Receive
  <2>1. gapCount' \in {gapCount, gapCount + 1} /\ UNCHANGED state
    BY <1>1, <1>2 DEF Receive, Decode
  <2>2. Len(batch') = Len(batch) + 1
    <3>1. batch' = Append(batch, [packet |-> Head(line), gap |-> SequenceGap(Head(line))])
      BY <1>2 DEF Receive, Decode
    <3>2. \A mark : Len(Append(batch, mark)) = Len(batch) + 1
      BY <1>1
    <3> QED
      BY <3>1, <3>2
  <2> QED
    BY <1>1, <2>1, <2>2 DEF DropLag
<1>3. CASE Handle /\ UNCHANGED agentVars
  <2>1. UNCHANGED gapCount /\ Len(batch') = Len(batch) - 1
    BY <1>3, HandledPacket DEF Handle, TypeInv, TypeOK
  <2>2. Len(batch) > 0
    BY <1>1, <1>3 DEF Handle, TypeInv, TypeOK, BridgeTyped
  <2>3. DropRecorded(state).drop_count =
           IF gapCount > state.drop_count THEN state.drop_count + 1 ELSE state.drop_count
    BY DEF DropRecorded, TypeInv, TypeOK, BridgeTyped
  <2>4. ASSUME NEW p,
               NEW s \in [tasks : TaskTables, memory : Memory, timestamp : Nat,
                          packet_count : Nat, drop_count : Nat]
        PROVE  Updated(p, s).drop_count = s.drop_count
    BY DEF Updated
  <2>5. DropRecorded(state) \in [tasks : TaskTables, memory : Memory, timestamp : Nat,
                                 packet_count : Nat, drop_count : Nat]
    BY DEF DropRecorded, TypeInv, TypeOK, BridgeTyped
  <2>6. state'.drop_count = DropRecorded(state).drop_count
    BY <1>3, <2>4, <2>5 DEF Handle
  <2> QED
    BY <1>1, <2>1, <2>2, <2>3, <2>6 DEF DropLag
<1>4. CASE UNCHANGED <<gapCount, state, batch>>
  BY <1>4 DEF DropLag
<1> QED
  BY <1>2, <1>3, <1>4 DEF Next, ChunkDecoded, vars, bridgeVars

(* The drops the bridge exports are the gaps the decoder counted, whatever *)
(* the size of the chunks the packets came in.                             *)
THEOREM DropCountCorrect == Spec => []DropCountCatchesUp
<1>1. TypeInv /\ DropLag => DropCountCatchesUp
  BY DEF TypeInv, TypeOK, BridgeTyped, DropLag, DropCountCatchesUp
<1> QED
  BY <1>1, TypeInvariant, DropLagInit, DropLagStep, PTL DEF Spec

(* No step lets the drops overtake the packets. *)
LEMMA LossRatioStep == TypeInv /\ LossRatioIsFraction /\ [Next]_vars => LossRatioIsFraction'
<1> SUFFICES ASSUME TypeInv, LossRatioIsFraction, [Next]_vars
             PROVE  LossRatioIsFraction'
  OBVIOUS
<1> DEFINE States == [tasks : TaskTables, memory : Memory, timestamp : Nat,
                      packet_count : Nat, drop_count : Nat]
<1>1. state \in States
  BY DEF TypeInv, TypeOK, BridgeTyped
<1>2. CASE Handle /\ UNCHANGED agentVars
  <2>1. /\ DropRecorded(state) \in States
        /\ DropRecorded(state).packet_count = state.packet_count
        /\ DropRecorded(state).drop_count <= state.drop_count + 1
    BY <1>1 DEF DropRecorded
  <2>2. ASSUME NEW p, NEW s \in States
        PROVE  /\ Updated(p, s).packet_count = s.packet_count + 1
               /\ Updated(p, s).drop_count = s.drop_count
    BY <2>2 DEF Updated
  <2>3. /\ state'.packet_count = state.packet_count + 1
        /\ state'.drop_count <= state.drop_count + 1
    BY <1>2, <2>1, <2>2 DEF Handle
  <2>4. state' \in States
    BY TypeStep DEF TypeOK, BridgeTyped
  <2> QED
    BY <1>1, <2>3, <2>4 DEF LossRatioIsFraction
<1>3. CASE UNCHANGED state
  BY <1>3 DEF LossRatioIsFraction
<1> QED
  BY <1>2, <1>3 DEF Next, Receive, Decode, ChunkDecoded, vars, bridgeVars

(* The exported loss ratio is never above 1 (prometheus_exporter.py:112):   *)
(* each packet adds one to its denominator and at most one drop.            *)
THEOREM LossRatioCorrect == Spec => []LossRatioIsFraction
<1>1. Init => LossRatioIsFraction
  BY DEF Init, BridgeInit, EmptyState, LossRatioIsFraction
<1> QED
  BY <1>1, TypeInvariant, LossRatioStep, PTL DEF Spec

-----------------------------------------------------------------------------
(* What the host shows. *)

(* The delta between two snapshots of one topology, applied to what shows  *)
(* the first, shows the second.                                            *)
LEMMA DeltaApplies ==
  ASSUME NEW s \in Snapshot, NEW last \in Snapshot, SameTopology(s, last),
         NEW st, st.tasks \in TaskTables, st.memory \in Memory, Shows(st, last),
         NEW st2, st2.tasks = AppliedTasks(DeltaOf(s, last), st.tasks),
         st2.memory = AppliedMemory(DeltaOf(s, last), st.memory)
  PROVE  Shows(st2, s)
<1> DEFINE d == DeltaOf(s, last)
           Pairs == {x \in DeltaPairs(s) :
                       s.tasks[x[1]].field[x[2]] # last.tasks[x[1]].field[x[2]]}
           Fields == {f \in MemoryFields : s.memory[f] # last.memory[f]}
<1>1. d.changes = [x \in Pairs |-> s.tasks[x[1]].field[x[2]]]
      /\ d.memory = [f \in Fields |-> s.memory[f]]
  BY DEF DeltaOf, DeltaWith
<1>2. s.memory \in Memory /\ last.memory \in Memory /\ s.tasks \in TaskTables
      /\ last.tasks \in TaskTables
  BY DEF Snapshot
<1>3. st2.memory = s.memory
  <2>1. \A f \in MemoryFields : AppliedMemory(d, st.memory)[f] = s.memory[f]
    BY <1>1 DEF AppliedMemory, Shows
  <2>2. AppliedMemory(d, st.memory) = [f \in MemoryFields |-> s.memory[f]]
    BY <2>1 DEF AppliedMemory
  <2> QED
    BY <1>2, <2>2 DEF Memory
<1>4. SameTopology(st2, s)
  BY DEF SameTopology, Shows, AppliedTasks, Slots
<1>5. ASSUME NEW i \in Slots(s), i < DeltaTasks PROVE st2.tasks[i].field = s.tasks[i].field
  <2>1. i \in DOMAIN st.tasks /\ i \in Slots(last)
        /\ st.tasks[i].field = last.tasks[i].field
    BY <1>5 DEF Shows, SameTopology, Slots
  <2>2. \A f \in TaskFields : <<i, f>> \in DeltaPairs(s)
    BY <1>5 DEF DeltaPairs
  <2>3. ASSUME NEW f \in TaskFields
        PROVE  (IF <<i, f>> \in DOMAIN d.changes
                THEN d.changes[<<i, f>>] ELSE st.tasks[i].field[f]) = s.tasks[i].field[f]
    BY <1>1, <2>1, <2>2
  <2>4. st2.tasks[i].field = [f \in TaskFields |->
            IF <<i, f>> \in DOMAIN d.changes
            THEN d.changes[<<i, f>>] ELSE st.tasks[i].field[f]]
    <3>1. st2.tasks = AppliedTasks(d, st.tasks)
      OBVIOUS
    <3> HIDE DEF d
    <3>2. AppliedTasks(d, st.tasks)[i] =
             [name  |-> st.tasks[i].name,
              field |-> [f \in TaskFields |->
                 IF <<i, f>> \in DOMAIN d.changes
                 THEN d.changes[<<i, f>>] ELSE st.tasks[i].field[f]]]
      BY <2>1 DEF AppliedTasks
    <3> QED
      BY <3>1, <3>2
  <2>5. s.tasks[i].field \in [TaskFields -> Words]
    BY <1>2, TableFacts DEF Task, Slots
  <2> QED
    BY <2>3, <2>4, <2>5
<1> QED
  BY <1>3, <1>4, <1>5 DEF Shows

(* A capture is only added: what the cycles before were does not change. *)
LEMMA CapturedStep ==
  ASSUME TypeInv, [Next]_vars
  PROVE  /\ captured \in Seq(Snapshots) /\ Cycle \in Nat /\ Cycle' \in Nat
         /\ Cycle' = Cycle \/ (Capture /\ UNCHANGED bridgeVars /\ Cycle' = Cycle + 1)
         /\ \A c \in 1..Cycle : captured'[c] = captured[c] /\ captured[c] \in Snapshot
<1>1. captured \in Seq(Snapshots)
  BY DEF TypeInv, TypeOK, TaskTyped
<1>2. \A c \in 1..Cycle : captured[c] \in Snapshot
  BY <1>1, AgentAssumption DEF Cycle
<1>3. CASE Capture /\ UNCHANGED bridgeVars
  <2>1. PICK s \in Snapshots : captured' = Append(captured, s)
    BY <1>3 DEF Capture
  <2> QED
    BY <1>1, <1>2, <1>3, <2>1 DEF Cycle
<1>4. CASE UNCHANGED captured
  BY <1>1, <1>2, <1>4 DEF Cycle
<1> QED
  BY <1>3, <1>4
  DEF Next, AgentNext, TelemetryTask, Start, Stop, Encode, Commit, FrameStart,
      FrameFinish, Send, Transfer, Receive, vars, agentVars

(* Only the step that completes the frame of the cycle lets the host have  *)
(* a cycle it could not have before.                                       *)
LEMMA UsedStep ==
  ASSUME TypeInv, [Next]_vars, NEW c, Used(c)'
  PROVE  Used(c) \/ (FrameFinish /\ c = Cycle)
<1>1. CASE hasKeyframe' /\ state'.timestamp = c
  <2>1. CASE Handle /\ UNCHANGED agentVars
    <3> DEFINE p == Head(batch).packet
    <3>1. p \in InFlight
      BY <2>1, HandledPacket DEF TypeInv, TypeOK, InFlight
    <3>2. p.type \in {"keyframe", "delta"} /\ p.type = p.payload.type
      BY <2>1, <3>1, HandledPacket DEF TypeInv, TypeOK, HeadersGood, Packet
    <3>3. hasKeyframe \/ p.type = "keyframe"
      BY <1>1, <2>1 DEF Handle
    <3>4. ASSUME NEW s PROVE Updated(p, s).timestamp = p.cycle
      BY <3>2, <3>3 DEF Updated, ParsesAsKeyframe
    <3>5. c = p.cycle
      BY <1>1, <2>1, <3>4 DEF Handle
    <3> QED
      BY <3>1, <3>5 DEF Used
  <2>2. CASE UNCHANGED <<state, hasKeyframe>>
    BY <1>1, <2>2 DEF Used
  <2> QED
    BY <2>1, <2>2 DEF Next, Receive, Decode, ChunkDecoded, vars, bridgeVars
<1>2. CASE \E p \in InFlight' : p.cycle = c
  <2>1. PICK p \in InFlight' : p.cycle = c
    BY <1>2
  <2>2. c > 0 /\ c # Unframed.cycle
    BY DEF Used, Unframed
  <2>3. CASE p \in InFlight
    BY <2>1, <2>2, <2>3 DEF Used
  <2>4. CASE FrameFinish /\ p = framed'
    BY <2>1, <2>4 DEF FrameFinish, FramePacket
  <2> QED
    BY <2>1, <2>2, <2>3, <2>4, InFlightStep
<1> QED
  BY <1>1, <1>2 DEF Used

(* What carries a cycle to the host goes on doing so. *)
LEMMA CarriesStep ==
  ASSUME TypeInv, [Next]_vars, NEW p, NEW c \in 1..Cycle, Carries(p, c)
  PROVE  Carries(p, c)'
<1>1. captured'[c] = captured[c]
  BY CapturedStep
<1>2. CASE p = KeyframeOf(captured[c])
  BY <1>1, <1>2 DEF Carries
<1>3. CASE p # KeyframeOf(captured[c])
  <2>1. SUFFICES ASSUME Used(c - 1)'
                 PROVE  /\ SameTopology(captured[c], captured[c - 1])'
                        /\ p = DeltaOf(captured[c], captured[c - 1])'
    BY <1>3 DEF Carries
  <2>2. Used(c - 1) /\ c - 1 \in 1..Cycle
    <3>1. c - 1 # Cycle /\ c - 1 \in Int /\ c \in Int
      BY CapturedStep
    <3>2. Used(c - 1)
      BY <2>1, <3>1, UsedStep
    <3>3. c - 1 > 0
      BY <3>2 DEF Used
    <3> QED
      BY <3>1, <3>2, <3>3, CapturedStep
  <2>3. captured'[c - 1] = captured[c - 1]
    BY <2>2, CapturedStep
  <2> QED
    BY <1>1, <1>3, <2>2, <2>3 DEF Carries
<1> QED
  BY <1>2, <1>3

LEMMA PacketsStep == LinkInv /\ [Next]_vars => PacketsGood'
<1> SUFFICES ASSUME LinkInv, [Next]_vars, NEW p \in InFlight', p # Unframed
             PROVE  p.cycle \in 1..Cycle' /\ Carries(p.payload, p.cycle)'
  BY DEF PacketsGood, Unframed
<1> USE DEF LinkInv
<1>1. \A c \in 1..Cycle : c \in 1..Cycle'
  BY CapturedStep
<1>2. CASE p \in InFlight
  <2>1. p.cycle \in 1..Cycle /\ Carries(p.payload, p.cycle)
    BY <1>2 DEF PacketsGood
  <2> QED
    BY <1>1, <2>1, CarriesStep
<1>3. CASE FrameFinish /\ p = framed'
  <2>1. p.cycle = Cycle /\ p.payload = payload
    BY <1>3 DEF FrameFinish, FramePacket
  <2>2. Carries(payload, Cycle) /\ Cycle \in 1..Cycle
    BY <1>3, CapturedStep DEF FrameFinish, PayloadGood, TypeInv, TypeOK, TaskTyped
  <2> QED
    BY <1>1, <2>1, <2>2, CarriesStep
<1> QED
  BY <1>2, <1>3, InFlightStep

(* A cycle that is not captured yet cannot be used. *)
LEMMA NotYetUsed ==
  ASSUME LinkInv, NEW c \in Int, c > Cycle
  PROVE  ~Used(c)
<1>1. Cycle \in Nat
  BY DEF LinkInv, TypeInv, TypeOK, TaskTyped
<1>2. ASSUME hasKeyframe PROVE state.timestamp # c
  BY <1>1, <1>2 DEF LinkInv, StateGood
<1>3. ASSUME NEW p \in InFlight PROVE p.cycle # c
  <2>1. CASE p = Unframed
    BY <1>1, <2>1 DEF Unframed
  <2>2. CASE p # Unframed
    BY <1>1, <1>3, <2>2 DEF LinkInv, PacketsGood
  <2> QED
    BY <2>1, <2>2
<1> QED
  BY <1>2, <1>3 DEF Used

(* UsedStep for the cycle that is running and for the one before. *)
LEMMA UsedCycleStep ==
  ASSUME TypeInv, [Next]_vars, Cycle' = Cycle
  PROVE  /\ Used(Cycle)' => Used(Cycle) \/ FrameFinish
         /\ Used(Cycle - 1)' => Used(Cycle - 1)
<1>1. Cycle \in Nat
  BY CapturedStep
<1>2. PICK c \in Nat : c = Cycle
  BY <1>1
<1>3. PICK b \in Int : b = Cycle - 1
  BY <1>1
<1>4. (Used(Cycle)' => Used(c)') /\ (Used(Cycle - 1)' => Used(b)')
  BY <1>2, <1>3 DEF Used
<1>5. b # Cycle
  BY <1>1, <1>3
<1> QED
  BY <1>2, <1>3, <1>4, <1>5, UsedStep

LEMMA BaselineStep == LinkInv /\ [Next]_vars => BaselineGood'
<1> SUFFICES ASSUME LinkInv, [Next]_vars PROVE BaselineGood'
  OBVIOUS
<1> USE DEF LinkInv, TypeInv, TypeOK
<1>1. CASE Capture /\ UNCHANGED bridgeVars
  <2>1. pc = "sleep" /\ pc' = "encode" /\ UNCHANGED encoderVars
    BY <1>1 DEF Capture
  <2>2. Cycle \in Nat /\ Cycle' = Cycle + 1
    <3>1. \A s : Len(Append(captured, s)) = Len(captured) + 1
      BY CapturedStep
    <3> QED
      BY <1>1, <3>1, CapturedStep DEF Capture, Cycle
  <2>3. PICK b \in Nat : b = Cycle
    BY <2>2
  <2>4. PICK c \in Nat : c = Cycle + 1
    BY <2>2
  <2>5. ~FrameFinish
    BY <2>1 DEF FrameFinish
  <2>6. ~Used(Cycle)'
    <3>1. ~Used(c)
      BY <2>2, <2>4, NotYetUsed
    <3>2. ~Used(c)'
      BY <2>5, <3>1, UsedStep
    <3> QED
      BY <2>2, <2>4, <3>2 DEF Used
  <2>7. ASSUME encoderInitialised', Used(Cycle - 1)'
        PROVE  lastSnapshot' = (captured[Cycle - 1])'
    <3>1. Used(b)'
      BY <2>2, <2>3, <2>7 DEF Used
    <3>2. Used(b) /\ Used(Cycle)
      BY <2>3, <2>5, <3>1, UsedStep
    <3>3. lastSnapshot = captured[Cycle]
      BY <2>1, <2>7, <3>2 DEF BaselineGood, encoderVars
    <3>4. Cycle \in 1..Cycle
      BY <2>2, <3>2 DEF Used
    <3>5. captured'[Cycle] = captured[Cycle] /\ (Cycle - 1)' = Cycle
      BY <2>2, <3>4, CapturedStep
    <3> QED
      BY <2>1, <3>3, <3>5 DEF encoderVars
  <2> QED
    BY <2>1, <2>6, <2>7 DEF BaselineGood
<1>2. CASE UNCHANGED <<pc, captured, lastSnapshot, encoderInitialised>> /\ ~FrameFinish
  <2>1. Cycle' = Cycle /\ current' = current /\ captured' = captured
    BY <1>2 DEF Cycle, current
  <2>2. (captured[Cycle - 1])' = captured[Cycle - 1] /\ (captured[Cycle])' = captured[Cycle]
    BY <2>1
  <2> QED
    BY <1>2, <2>1, <2>2, UsedCycleStep DEF BaselineGood
<1>3. CASE UNCHANGED captured /\ pc' \in {"none", "sleep"}
           /\ ~encoderInitialised'
  BY <1>3 DEF BaselineGood
<1>4. CASE /\ UNCHANGED captured /\ ~FrameFinish
           /\ pc \in {"encode", "commit", "frame", "copy"}
           /\ pc' \in {"none", "sleep", "commit", "frame", "copy"}
           /\ (pc' \in {"frame", "copy"} => lastSnapshot' = current')
  <2>1. Cycle' = Cycle
    BY <1>4 DEF Cycle
  <2>2. ~Used(Cycle)'
    BY <1>4, <2>1, UsedCycleStep DEF BaselineGood
  <2> QED
    BY <1>4, <2>2 DEF BaselineGood
<1>5. CASE /\ UNCHANGED <<captured, lastSnapshot>> /\ ~FrameFinish
           /\ pc = "send" /\ pc' \in {"none", "sleep"}
  <2>1. Cycle' = Cycle /\ captured' = captured
    BY <1>5 DEF Cycle
  <2>2. lastSnapshot' = (captured[Cycle])'
    BY <1>5, <2>1 DEF BaselineGood, current
  <2> QED
    BY <1>5, <2>2 DEF BaselineGood
<1>6. CASE FrameFinish /\ UNCHANGED bridgeVars
  <2>1. pc = "copy" /\ pc' = "send" /\ UNCHANGED <<captured, lastSnapshot>>
    BY <1>6 DEF FrameFinish, encoderVars
  <2>2. current' = current
    BY <2>1 DEF current, Cycle
  <2> QED
    BY <2>1, <2>2 DEF BaselineGood
<1>7. CASE Start /\ UNCHANGED bridgeVars
  <2>1. pc = "none" /\ pc' \in {"none", "sleep"} /\ ~FrameFinish
    BY <1>7 DEF Start, TaskTyped, FrameFinish
  <2>2. CASE initialised
    <3>1. UNCHANGED <<captured, lastSnapshot, encoderInitialised>> /\ Cycle' = Cycle
      BY <1>7, <2>2 DEF Start, encoderVars, Cycle
    <3>2. (captured[Cycle])' = captured[Cycle]
      BY <3>1
    <3> QED
      BY <2>1, <3>1, <3>2, UsedCycleStep DEF BaselineGood
  <2>3. CASE ~initialised
    BY <1>3, <1>7, <2>1, <2>3 DEF Start, EncoderReset
  <2> QED
    BY <2>2, <2>3
<1>8. CASE Stop /\ UNCHANGED bridgeVars
  <2>1. /\ pc # "none" /\ pc' = "none" /\ ~FrameFinish
        /\ UNCHANGED <<captured, lastSnapshot, encoderInitialised>>
    BY <1>8 DEF Stop, TaskTyped, FrameFinish, encoderVars
  <2>2. CASE pc = "sleep"
    <3>1. Cycle' = Cycle /\ (captured[Cycle])' = captured[Cycle]
      BY <2>1 DEF Cycle
    <3> QED
      BY <2>1, <2>2, <3>1, UsedCycleStep DEF BaselineGood
  <2>3. CASE pc # "sleep"
    BY <1>4, <1>5, <2>1, <2>3 DEF TaskTyped
  <2> QED
    BY <2>2, <2>3
<1>9. CASE Encode /\ UNCHANGED bridgeVars
  BY <1>4, <1>9 DEF Encode, EndCycle, FrameFinish
<1>10. CASE Commit /\ UNCHANGED bridgeVars
  <2>1. lastSnapshot' = current' /\ UNCHANGED captured
    BY <1>10 DEF Commit, EncodeFinish, current, Cycle
  <2> QED
    BY <1>4, <1>10, <2>1 DEF Commit, EndCycle, FrameFinish
<1>11. CASE FrameStart /\ UNCHANGED bridgeVars
  <2>1. pc = "frame" /\ pc' \in {"sleep", "copy"} /\ UNCHANGED <<captured, lastSnapshot>>
    BY <1>11 DEF FrameStart, EndCycle, encoderVars
  <2>2. lastSnapshot' = current'
    BY <2>1 DEF BaselineGood, current, Cycle
  <2> QED
    BY <1>4, <1>11, <2>1, <2>2 DEF FrameStart, FrameFinish
<1>12. CASE Send /\ UNCHANGED bridgeVars
  BY <1>5, <1>12 DEF Send, EndCycle, FrameFinish, encoderVars
<1>13. CASE Transfer \/ Receive \/ UNCHANGED agentVars
  <2>1. UNCHANGED <<pc, captured, lastSnapshot, encoderInitialised, framed, dma>>
        \/ Transfer \/ Receive
    BY <1>13 DEF agentVars, encoderVars
  <2>2. UNCHANGED <<pc, captured, lastSnapshot, encoderInitialised>>
    BY <2>1 DEF Transfer, Receive, encoderVars
  <2>3. ~FrameFinish
    BY <2>2 DEF FrameFinish
  <2> QED
    BY <1>2, <2>2, <2>3
<1> QED
  BY <1>1, <1>6, <1>7, <1>8, <1>9, <1>10, <1>11, <1>12, <1>13
  DEF Next, AgentNext, TelemetryTask, vars

(* CarriesStep for the cycle that is running. *)
LEMMA CarriesCycleStep ==
  ASSUME TypeInv, [Next]_vars, Cycle' = Cycle, Cycle >= 1, NEW p, Carries(p, Cycle)
  PROVE  Carries(p, Cycle)'
<1>1. Cycle \in Nat /\ captured' = captured
  <2>1. Cycle \in Nat /\ ~Capture
    <3>1. \A s : Len(Append(captured, s)) = Len(captured) + 1
      BY CapturedStep
    <3> QED
      BY <3>1, CapturedStep DEF Capture, Cycle
  <2> QED
    BY <2>1 DEF Next, AgentNext, TelemetryTask, Start, Stop, Encode, Commit, FrameStart,
       FrameFinish, Send, Transfer, Receive, vars, agentVars
<1>2. PICK c \in 1..Cycle : c = Cycle
  BY <1>1
<1>3. Carries(p, c)'
  BY <1>2, CarriesStep
<1> QED
  BY <1>2, <1>3 DEF Carries

(* The payload of a cycle carries it: a keyframe always, a delta because   *)
(* its baseline is the cycle the host has, if the host has one.            *)
LEMMA PayloadStep == LinkInv /\ [Next]_vars => PayloadGood'
<1> SUFFICES ASSUME LinkInv, [Next]_vars, pc' \in {"commit", "frame", "copy"}
             PROVE  Carries(payload, Cycle)'
  BY DEF PayloadGood
<1> USE DEF LinkInv, TypeInv, TypeOK
<1>1. CASE Encode /\ UNCHANGED bridgeVars
  <2>1. /\ pc = "encode" /\ Cycle >= 1 /\ Cycle' = Cycle /\ payload'.type # "none"
        /\ EncodeStart(current, ForceKeyframe)
    BY <1>1 DEF Encode, EndCycle, TaskTyped, Cycle
  <2>2. ASSUME NEW p, Write(p) PROVE payload' = p
    BY <2>1, <2>2 DEF Write, NoPayload
  <2>3. Carries(payload', Cycle)
    <3>1. CASE Write(KeyframeOf(current))
      BY <2>2, <3>1 DEF Carries, current
    <3>2. CASE /\ encoderInitialised /\ SameTopology(current, lastSnapshot)
               /\ Write(DeltaOf(current, lastSnapshot))
      <4>1. payload' = DeltaOf(current, lastSnapshot)
        BY <2>2, <3>2
      <4>2. Used(Cycle - 1) => lastSnapshot = captured[Cycle - 1]
        BY <2>1, <3>2 DEF BaselineGood
      <4> QED
        BY <3>2, <4>1, <4>2 DEF Carries, current, DeltaOf, DeltaWith
    <3>3. CASE /\ encoderInitialised /\ lastSnapshot = Torn
               /\ \E pairs \in SUBSET DeltaPairs(current), fields \in SUBSET MemoryFields :
                     Write(DeltaWith(current, pairs, fields))
      <4>1. payload'.type = "delta"
        BY <2>2, <3>3 DEF DeltaWith
      <4>2. ~Used(Cycle - 1)
        <5>1. SUFFICES ASSUME Used(Cycle - 1) PROVE FALSE
          OBVIOUS
        <5>2. lastSnapshot = captured[Cycle - 1] /\ Cycle - 1 \in 1..Cycle
          BY <2>1, <3>3, <5>1, CapturedStep DEF BaselineGood, Used
        <5> QED
          BY <3>3, <5>2, CapturedStep, EncoderAssumption
      <4> QED
        BY <4>1, <4>2 DEF Carries
    <3> QED
      BY <2>1, <3>1, <3>2, <3>3 DEF EncodeStart
  <2>4. PICK p : p = payload'
    OBVIOUS
  <2>5. Carries(p, Cycle)'
    BY <2>1, <2>3, <2>4, CarriesCycleStep
  <2> QED
    BY <2>4, <2>5 DEF Carries
<1>2. CASE /\ pc \in {"commit", "frame", "copy"}
           /\ UNCHANGED <<payload, captured>>
  <2>1. Cycle' = Cycle /\ Cycle >= 1 /\ Carries(payload, Cycle)
    BY <1>2 DEF Cycle, PayloadGood, TaskTyped
  <2>2. PICK p : p = payload
    OBVIOUS
  <2>3. Carries(p, Cycle)'
    BY <2>1, <2>2, CarriesCycleStep
  <2> QED
    BY <1>2, <2>2, <2>3 DEF Carries
<1>3. CASE (Start \/ Stop \/ Capture \/ FrameFinish \/ Send) /\ UNCHANGED bridgeVars
  BY <1>3 DEF Start, Stop, Capture, FrameFinish, Send, EndCycle, TaskTyped
<1>4. CASE Commit /\ UNCHANGED bridgeVars
  BY <1>2, <1>4 DEF Commit, EncodeFinish
<1>5. CASE FrameStart /\ UNCHANGED bridgeVars
  BY <1>2, <1>5 DEF FrameStart, encoderVars
<1>6. CASE Transfer \/ Receive \/ UNCHANGED agentVars
  BY <1>2, <1>6 DEF Transfer, Receive, agentVars, encoderVars
<1> QED
  BY <1>1, <1>3, <1>4, <1>5, <1>6 DEF Next, AgentNext, TelemetryTask, vars

LEMMA StateStep == LinkInv /\ [Next]_vars => StateGood'
<1> SUFFICES ASSUME LinkInv, [Next]_vars, hasKeyframe'
             PROVE  state'.timestamp \in 1..Cycle' /\ SyncedStateExact'
  BY DEF StateGood
<1> USE DEF LinkInv, TypeInv, TypeOK
<1>1. CASE UNCHANGED <<state, hasKeyframe, contiguous>>
  <2>1. state.timestamp \in 1..Cycle /\ SyncedStateExact
    BY <1>1 DEF StateGood
  <2>2. captured'[state.timestamp] = captured[state.timestamp]
        /\ state.timestamp \in 1..Cycle'
    BY <2>1, CapturedStep
  <2> QED
    BY <1>1, <2>1, <2>2 DEF SyncedStateExact, Shows, SameTopology
<1>2. CASE Handle /\ UNCHANGED agentVars
  <2> DEFINE p == Head(batch).packet
             s == DropRecorded(state)
             c == p.cycle
  <2>1. p \in InFlight /\ p \in Packet /\ p # Unframed
    BY <1>2, HandledPacket DEF InFlight, Packet, Unframed
  <2>2. c \in 1..Cycle /\ Carries(p.payload, c) /\ p.type = p.payload.type
    BY <2>1 DEF PacketsGood, HeadersGood
  <2>3. /\ captured' = captured /\ Cycle' = Cycle
        /\ captured[c] \in Snapshot /\ c \in Int
    BY <1>2, <2>2, CapturedStep DEF agentVars, Cycle
  <2>4. s.tasks = state.tasks /\ s.memory = state.memory /\ s.timestamp = state.timestamp
    BY DEF DropRecorded, BridgeTyped
  <2>5. state' = Updated(p, s)
    BY <1>2 DEF Handle
  <2>6. CASE p.type = "keyframe"
    <3>1. p.payload = KeyframeOf(captured[c])
      BY <2>2, <2>6 DEF Carries
    <3>2. state'.timestamp = c
      BY <2>2, <2>5, <2>6 DEF Updated, ParsesAsKeyframe
    <3>3. state'.tasks = captured[c].tasks /\ state'.memory = captured[c].memory
      BY <2>2, <2>5, <2>6, <3>1 DEF Updated, ParsesAsKeyframe, KeyframeOf
    <3>4. Shows(state', captured'[state'.timestamp])
      BY <2>3, <3>2, <3>3 DEF Shows, SameTopology, Slots
    <3> QED
      BY <2>2, <2>3, <3>2, <3>4 DEF SyncedStateExact
  <2>7. CASE p.type = "delta"
    <3>1. hasKeyframe
      BY <1>2, <2>7 DEF Handle
    <3>2. /\ state'.timestamp = c
          /\ state'.tasks = AppliedTasks(p.payload, state.tasks)
          /\ state'.memory = AppliedMemory(p.payload, state.memory)
      BY <2>4, <2>5, <2>7, <3>1 DEF Updated
    <3>3. ASSUME contiguous' PROVE Shows(state', captured[c])
      <4>1. contiguous /\ c = state.timestamp + 1
        BY <1>2, <2>7, <3>3 DEF Handle
      <4>2. /\ state.timestamp \in 1..Cycle /\ c - 1 = state.timestamp
            /\ Shows(state, captured[c - 1])
        BY <2>3, <3>1, <4>1 DEF StateGood, SyncedStateExact, BridgeTyped
      <4>3. Used(c - 1)
        BY <3>1, <4>2 DEF Used
      <4>4. p.payload # KeyframeOf(captured[c])
        BY <2>2, <2>7 DEF KeyframeOf
      <4>5. /\ SameTopology(captured[c], captured[c - 1])
            /\ p.payload = DeltaOf(captured[c], captured[c - 1])
        BY <2>2, <4>3, <4>4 DEF Carries
      <4>6. captured[c - 1] \in Snapshot /\ state.tasks \in TaskTables
            /\ state.memory \in Memory
        BY <4>2, CapturedStep DEF BridgeTyped
      <4>7. PICK st2 : st2 = state'
        OBVIOUS
      <4>8. Shows(st2, captured[c])
        BY <2>3, <3>2, <4>2, <4>5, <4>6, <4>7, DeltaApplies
      <4> QED
        BY <4>7, <4>8
    <3> QED
      BY <2>2, <2>3, <3>2, <3>3 DEF SyncedStateExact
  <2> QED
    BY <2>1, <2>6, <2>7 DEF Packet
<1> QED
  BY <1>1, <1>2
  DEF Next, Receive, Decode, ChunkDecoded, vars, bridgeVars

LEMMA LinkInit == Init => LinkInv
<1> SUFFICES ASSUME Init PROVE LinkInv
  OBVIOUS
<1>1. TypeInv
  BY TypeInit
<1>2. framed = Unframed /\ dma.sent = Unframed /\ dma.over = <<>> /\ line = <<>> /\ batch = <<>>
  BY DEF Init, AgentInit, BridgeInit, Idle
<1>3. InFlight = {Unframed}
  BY <1>2 DEF InFlight
<1>4. pc = "none" /\ encoderInitialised = FALSE /\ hasKeyframe = FALSE
  BY DEF Init, AgentInit, BridgeInit, EncoderInit
<1> QED
  BY <1>1, <1>3, <1>4
  DEF LinkInv, PacketsGood, BaselineGood, PayloadGood, StateGood

LEMMA LinkStep == LinkInv /\ [Next]_vars => LinkInv'
  BY TypeInvStep, PacketsStep, BaselineStep, PayloadStep, StateStep DEF LinkInv

LEMMA LinkInvariant == Spec => []LinkInv
  BY LinkInit, LinkStep, PTL DEF Spec

(* When no cycle is missing since the last keyframe, the state the bridge   *)
(* exports is the snapshot it names, for every buffer size, every keyframe  *)
(* interval, every task table and every width of the sequence number:      *)
(* whatever is dropped, torn, overwritten or restarted.                     *)
THEOREM SyncedStateCorrect == Spec => []SyncedStateExact
<1>1. LinkInv => SyncedStateExact
  BY DEF LinkInv, StateGood, SyncedStateExact
<1> QED
  BY <1>1, LinkInvariant, PTL

-----------------------------------------------------------------------------
(* The torn baseline. *)

(* A torn baseline is the one being replaced, or the next comparison comes *)
(* in the first cycle of a new task.                                       *)
TornGood ==
    lastSnapshot = Torn =>
        pc = "commit" \/ (pc \in {"none", "sleep", "encode"} /\ loopCount = 0)

LEMMA TornInit == Init => TornGood
  BY ZeroIsSnapshot, EncoderAssumption DEF Init, AgentInit, EncoderInit, TornGood

LEMMA TornStep ==
  ASSUME BuffersFit, TypeInv, TornGood, [Next]_vars
  PROVE  TornGood'
<1> USE DEF TypeInv, TypeOK
<1>1. CASE Encode /\ UNCHANGED bridgeVars
  <2>1. current \in Snapshots /\ pc = "encode"
    BY <1>1, CurrentIsSnapshot DEF Encode, TaskTyped
  <2>2. CASE payload'.type # "none"
    BY <1>1, <2>2 DEF Encode, TornGood
  <2>3. CASE payload'.type = "none"
    <3>1. ~Write(KeyframeOf(current))
      BY <2>1, <2>3 DEF Write, BuffersFit, KeyframeOf
    <3>2. ~ForceKeyframe
      BY <1>1, <3>1 DEF Encode, EncodeStart
    <3>3. 0 % KeyframeInterval = 0
      BY AgentAssumption
    <3>4. lastSnapshot # Torn
      BY <2>1, <3>2, <3>3 DEF TornGood, ForceKeyframe
    <3>5. ASSUME NEW p, Write(p), p.type # "none" PROVE lastSnapshot' = lastSnapshot
      BY <2>3, <3>5 DEF Write
    <3>6. lastSnapshot' = lastSnapshot
      BY <1>1, <3>1, <3>4, <3>5 DEF Encode, EncodeStart, DeltaOf, DeltaWith
    <3> QED
      BY <3>4, <3>6 DEF TornGood
  <2> QED
    BY <2>2, <2>3
<1>2. CASE Commit /\ UNCHANGED bridgeVars
  <2>1. lastSnapshot' \in Snapshot
    BY <1>2, CurrentIsSnapshot DEF Commit, EncodeFinish, TaskTyped
  <2> QED
    BY <2>1, EncoderAssumption DEF TornGood
<1>3. CASE (FrameStart \/ FrameFinish \/ Send) /\ UNCHANGED bridgeVars
  BY <1>3 DEF FrameStart, FrameFinish, Send, encoderVars, TornGood
<1>4. CASE Capture /\ UNCHANGED bridgeVars
  BY <1>4 DEF Capture, encoderVars, TornGood
<1>5. CASE Stop /\ UNCHANGED bridgeVars
  BY <1>5 DEF Stop, TornGood
<1>6. CASE Start /\ UNCHANGED bridgeVars
  <2>1. CASE ~initialised
    BY <1>6, <2>1, ZeroIsSnapshot, EncoderAssumption DEF Start, EncoderReset, TornGood
  <2>2. CASE initialised
    <3>1. lastSnapshot' = lastSnapshot /\ pc = "none"
      BY <1>6, <2>2 DEF Start, encoderVars, TaskTyped
    <3>2. (pc' = "sleep" /\ loopCount' = 0) \/ UNCHANGED <<pc, loopCount>>
      BY <1>6 DEF Start
    <3> QED
      BY <3>1, <3>2 DEF TornGood
  <2> QED
    BY <2>1, <2>2
<1>7. CASE Transfer \/ Receive \/ UNCHANGED agentVars
  <2>1. UNCHANGED <<pc, loopCount, lastSnapshot>>
    BY <1>7 DEF Transfer, Receive, agentVars, encoderVars
  <2> QED
    BY <2>1 DEF TornGood
<1> QED
  BY <1>1, <1>2, <1>3, <1>4, <1>5, <1>6, <1>7
  DEF Next, AgentNext, TelemetryTask, vars

(* If keyframes fit the buffers, no snapshot is ever compared with a torn   *)
(* baseline, wherever the task was deleted.                                 *)
THEOREM TornBaselineNeverUsed ==
  ASSUME BuffersFit
  PROVE  Spec => []TornBaselineUnused
<1>1. TypeInv /\ TornGood => TornBaselineUnused
  <2>1. 0 % KeyframeInterval = 0
    BY AgentAssumption
  <2> QED
    BY <2>1 DEF TornGood, TornBaselineUnused, ForceKeyframe
<1>2. TypeInv /\ TornGood /\ [Next]_vars => TornGood'
  BY TornStep
<1> QED
  BY <1>1, <1>2, TypeInvariant, TornInit, PTL DEF Spec

-----------------------------------------------------------------------------
(* Nothing is overtaken. *)

LEMMA OrderInit == Init => OrderInv
<1> SUFFICES ASSUME Init PROVE OrderInv
  OBVIOUS
<1>1. /\ dma.active = FALSE /\ dma.sent = Unframed /\ dma.over = <<>>
      /\ line = <<>> /\ batch = <<>> /\ state.timestamp = 0 /\ pc = "none" /\ Cycle = 0
  BY DEF Init, AgentInit, BridgeInit, Idle, EmptyState, Cycle
<1>2. Transferred = {} /\ DOMAIN line = {} /\ DOMAIN batch = {}
  BY <1>1 DEF Transferred
<1> QED
  BY <1>1, <1>2 DEF OrderInv

(* The numbers an invariant about the order compares. *)
LEMMA CyclesTyped ==
  ASSUME TypeInv, PacketsGood
  PROVE  /\ line \in Seq(Packet) /\ batch \in Seq([packet : Packet, gap : BOOLEAN])
         /\ dma.over \in Seq(Packet)
         /\ state.timestamp \in Nat /\ Cycle \in Nat
         /\ \A i \in DOMAIN line : line[i].cycle \in 1..Cycle
         /\ \A i \in DOMAIN batch : batch[i].packet.cycle \in 1..Cycle
         /\ \A p \in Transferred : p \in InFlight /\ p.cycle \in 1..Cycle
         /\ framed # Unframed => framed.cycle \in 1..Cycle
<1>1. /\ line \in Seq(Packet) /\ batch \in Seq([packet : Packet, gap : BOOLEAN])
      /\ dma.over \in Seq(Packet) /\ state.timestamp \in Nat /\ Cycle \in Nat
  BY AgentAssumption DEF TypeInv, TypeOK, WireTyped, BridgeTyped, TaskTyped
<1>2. \A p \in Packet : p # Unframed
  BY DEF Packet, Unframed
<1>3. \A i \in DOMAIN line : line[i] \in InFlight \ {Unframed}
  BY <1>1, <1>2 DEF InFlight
<1>4. \A i \in DOMAIN batch : batch[i].packet \in InFlight \ {Unframed}
  <2> DEFINE Mark == [packet : Packet, gap : BOOLEAN]
  <2>1. \A i \in DOMAIN batch : batch[i] \in Mark
    <3>1. batch \in Seq(Mark)
      BY <1>1
    <3> HIDE DEF Mark
    <3> QED
      BY <3>1
  <2>2. \A i \in DOMAIN batch : batch[i].packet \in Packet
    BY <2>1
  <2> QED
    BY <2>2, <1>2 DEF InFlight
<1>5. Transferred \subseteq InFlight \ {Unframed}
  BY DEF Transferred, InFlight
<1>6. framed \in InFlight
  BY DEF InFlight
<1> QED
  BY <1>1, <1>3, <1>4, <1>5, <1>6 DEF PacketsGood

(* Steps that move no packet and end no cycle. *)
LEMMA OrderFrame ==
  ASSUME OrderInv, UNCHANGED <<line, batch, state>>, pc' # "send",
         dma'.active = dma.active, dma'.sent = dma.sent, dma'.over = dma.over,
         Cycle \in Nat, Cycle' \in Nat, Cycle' >= Cycle, state.timestamp \in Nat
  PROVE  OrderInv'
<1>1. Transferred' = Transferred
  BY DEF Transferred
<1> QED
  BY <1>1 DEF OrderInv

LEMMA OrderStep == LinkInv /\ OrderInv /\ [Next]_vars => OrderInv'
<1> SUFFICES ASSUME LinkInv, OrderInv, [Next]_vars PROVE OrderInv'
  OBVIOUS
<1> USE DEF LinkInv, TypeInv, TypeOK
<1>1. Cycle \in Nat /\ Cycle' \in Nat /\ Cycle' >= Cycle /\ state.timestamp \in Nat
  BY CapturedStep, CyclesTyped
<1>2. CASE (Start \/ Stop \/ Capture \/ Encode \/ Commit) /\ UNCHANGED bridgeVars
  <2>1. pc' # "send" /\ UNCHANGED <<line, batch, state, dma>>
    BY <1>2 DEF Start, Stop, Capture, Encode, Commit, EndCycle, TaskTyped, bridgeVars
  <2> QED
    BY <2>1, <1>1, OrderFrame
<1>3. CASE FrameStart /\ UNCHANGED bridgeVars
  <2>1. /\ pc' # "send" /\ UNCHANGED <<line, batch, state>>
        /\ dma'.active = dma.active /\ dma'.sent = dma.sent /\ dma'.over = dma.over
    BY <1>3 DEF FrameStart, EndCycle, WireTyped, bridgeVars
  <2> QED
    BY <2>1, <1>1, OrderFrame
<1>4. CASE FrameFinish /\ UNCHANGED bridgeVars
  <2>1. /\ UNCHANGED <<line, batch, state>> /\ Cycle' = Cycle
        /\ dma'.active = dma.active /\ dma'.sent = dma.sent
        /\ dma'.over = IF dma.active THEN Append(dma.over, framed') ELSE dma.over
        /\ framed'.cycle = Cycle
    BY <1>4 DEF FrameFinish, FramePacket, WireTyped, Cycle, bridgeVars
  <2>2. \A i \in DOMAIN dma'.over :
            dma'.over[i] = framed' \/ (i \in DOMAIN dma.over /\ dma'.over[i] = dma.over[i])
    BY <2>1, CyclesTyped
  <2>3. \A p \in Transferred' : p \in Transferred \/ p.cycle = Cycle
    BY <2>1, <2>2 DEF Transferred
  <2>4. ~dma'.active => dma'.sent = Unframed /\ dma'.over = <<>>
    BY <2>1 DEF OrderInv
  <2>5. \A p \in Transferred' :
            /\ \A i \in DOMAIN line : line[i].cycle <= p.cycle
            /\ \A i \in DOMAIN batch : batch[i].packet.cycle <= p.cycle
            /\ state.timestamp <= p.cycle
    BY <2>3, CyclesTyped DEF OrderInv
  <2> QED
    BY <2>1, <2>4, <2>5 DEF OrderInv
<1>5. CASE Send /\ UNCHANGED bridgeVars
  <2>1. UNCHANGED <<line, batch, state>> /\ Cycle' = Cycle /\ pc = "send" /\ pc' # "send"
    BY <1>5 DEF Send, EndCycle, Cycle, bridgeVars
  <2>2. CASE dma' = [Idle EXCEPT !.active = TRUE, !.sent = framed]
    <3>1. dma'.active /\ dma'.sent = framed /\ dma'.over = <<>>
      BY <2>2 DEF Idle
    <3>2. Transferred' \subseteq {framed} /\ framed.cycle = Cycle
      BY <2>1, <3>1 DEF Transferred, OrderInv
    <3>3. \A p \in Transferred' :
              /\ \A i \in DOMAIN line : line[i].cycle <= p.cycle
              /\ \A i \in DOMAIN batch : batch[i].packet.cycle <= p.cycle
              /\ state.timestamp <= p.cycle
      BY <3>2, CyclesTyped DEF OrderInv
    <3> QED
      BY <2>1, <3>1, <3>3 DEF OrderInv
  <2>3. CASE UNCHANGED dma
    BY <1>1, <2>1, <2>3, OrderFrame
  <2> QED
    BY <1>5, <2>2, <2>3 DEF Send
<1>6. CASE Transfer /\ UNCHANGED bridgeVars
  <2>1. /\ UNCHANGED <<batch, state, pc, framed>> /\ Cycle' = Cycle
        /\ dma'.active = FALSE /\ dma'.sent = Unframed /\ dma'.over = <<>>
    BY <1>6 DEF Transfer, Idle, Cycle, bridgeVars
  <2>2. Transferred' = {}
    BY <2>1 DEF Transferred
  <2>3. CASE line' = line
    BY <2>1, <2>2, <2>3 DEF OrderInv
  <2>4. ASSUME NEW q \in Transferred, line' = Append(line, q) PROVE OrderInv'
    <3>1. \A i \in DOMAIN line' : \/ i \in DOMAIN line /\ line'[i] = line[i]
                                  \/ i = Len(line) + 1 /\ line'[i] = q
      BY <2>4, CyclesTyped
    <3>2. \A i \in DOMAIN line : i < Len(line) + 1 /\ i \in Nat
      BY CyclesTyped
    <3>3. q.cycle \in Nat /\ Len(line) + 1 \in Nat
      BY CyclesTyped
    <3>4. \A i, j \in DOMAIN line' : i <= j => line'[i].cycle <= line'[j].cycle
      BY <3>1, <3>2, <3>3 DEF OrderInv
    <3>5. \A i \in DOMAIN line' :
             /\ \A j \in DOMAIN batch : batch[j].packet.cycle <= line'[i].cycle
             /\ state.timestamp <= line'[i].cycle
      BY <3>1 DEF OrderInv
    <3> QED
      BY <2>1, <2>2, <3>4, <3>5 DEF OrderInv
  <2>5. CASE line' = Append(line, dma.sent)
    <3>1. dma.sent \in Transferred
      BY <1>6 DEF Transfer, WireTyped, Packet, Unframed, Transferred
    <3> QED
      BY <3>1, <2>4, <2>5
  <2>6. CASE \E i \in DOMAIN dma.over : line' = Append(line, dma.over[i])
    <3>1. PICK i \in DOMAIN dma.over : line' = Append(line, dma.over[i])
      BY <2>6
    <3>2. dma.over[i] \in Packet
      BY CyclesTyped
    <3>3. dma.over[i] \in Transferred
      BY <3>2 DEF Packet, Unframed, Transferred
    <3> QED
      BY <3>1, <3>3, <2>4
  <2> QED
    BY <1>6, <2>3, <2>5, <2>6 DEF Transfer
<1>7. CASE Receive
  <2>1. /\ UNCHANGED <<pc, framed, dma, state>> /\ Cycle' = Cycle
        /\ line # <<>> /\ line' = Tail(line)
        /\ batch' = Append(batch, [packet |-> Head(line), gap |-> SequenceGap(Head(line))])
    BY <1>7 DEF Receive, Decode, Cycle
  <2>2. Transferred' = Transferred
    BY <2>1 DEF Transferred
  <2>3. \A i \in DOMAIN line' : /\ i + 1 \in DOMAIN line /\ line'[i] = line[i + 1]
                                /\ i \in Nat /\ 1 <= i + 1
    BY <2>1, CyclesTyped
  <2>4. Head(line) = line[1] /\ 1 \in DOMAIN line
    BY <2>1, CyclesTyped
  <2>5. \A i \in DOMAIN batch' : \/ i \in DOMAIN batch /\ batch'[i] = batch[i]
                                 \/ i = Len(batch) + 1 /\ batch'[i].packet = line[1]
    BY <2>1, <2>4, CyclesTyped
  <2>6. \A i \in DOMAIN batch : i < Len(batch) + 1 /\ i \in Nat
    BY CyclesTyped
  <2>7. line[1].cycle \in Nat /\ Len(batch) + 1 \in Nat
    BY <2>4, CyclesTyped
  <2>8. \A i, j \in DOMAIN line' : i <= j => line'[i].cycle <= line'[j].cycle
    BY <2>3 DEF OrderInv
  <2>9. \A i, j \in DOMAIN batch' :
           i <= j => batch'[i].packet.cycle <= batch'[j].packet.cycle
    BY <2>4, <2>5, <2>6, <2>7 DEF OrderInv
  <2>10. \A i \in DOMAIN line' :
            /\ \A j \in DOMAIN batch' : batch'[j].packet.cycle <= line'[i].cycle
            /\ state.timestamp <= line'[i].cycle
    BY <2>3, <2>4, <2>5 DEF OrderInv
  <2>11. \A i \in DOMAIN batch' : state.timestamp <= batch'[i].packet.cycle
    BY <2>4, <2>5 DEF OrderInv
  <2>12. \A p \in Transferred :
            /\ \A i \in DOMAIN line' : line'[i].cycle <= p.cycle
            /\ \A i \in DOMAIN batch' : batch'[i].packet.cycle <= p.cycle
            /\ state.timestamp <= p.cycle
    BY <2>3, <2>4, <2>5 DEF OrderInv
  <2> QED
    BY <2>1, <2>2, <2>8, <2>9, <2>10, <2>11, <2>12 DEF OrderInv
<1>8. CASE Handle /\ UNCHANGED agentVars
  <2> DEFINE p == Head(batch).packet
  <2>1. /\ UNCHANGED <<pc, framed, dma, line>> /\ Cycle' = Cycle
        /\ batch' = Tail(batch) /\ batch # <<>>
    BY <1>8 DEF Handle, agentVars, Cycle, BridgeTyped
  <2>2. Transferred' = Transferred
    BY <2>1 DEF Transferred
  <2>3. \A i \in DOMAIN batch' : /\ i + 1 \in DOMAIN batch /\ batch'[i] = batch[i + 1]
                                 /\ i \in Nat /\ 1 <= i + 1
    BY <2>1, CyclesTyped
  <2>4. p = batch[1].packet /\ 1 \in DOMAIN batch
    BY <1>8, HandledPacket
  <2>5. state'.timestamp \in {state.timestamp, p.cycle}
    <3>1. DropRecorded(state).timestamp = state.timestamp
      BY DEF DropRecorded, BridgeTyped
    <3>2. ASSUME NEW s PROVE Updated(p, s).timestamp \in {s.timestamp, p.cycle}
      BY DEF Updated
    <3> QED
      BY <1>8, <3>1, <3>2 DEF Handle
  <2>6. /\ state'.timestamp <= Cycle
        /\ \A q \in Transferred : state'.timestamp <= q.cycle
        /\ \A i \in DOMAIN line : state'.timestamp <= line[i].cycle
    BY <2>4, <2>5, CyclesTyped DEF OrderInv
  <2>7. \A i \in DOMAIN batch' : state'.timestamp <= batch'[i].packet.cycle
    BY <2>3, <2>4, <2>5 DEF OrderInv
  <2>8. \A i, j \in DOMAIN batch' :
           i <= j => batch'[i].packet.cycle <= batch'[j].packet.cycle
    BY <2>3 DEF OrderInv
  <2> QED
    BY <2>1, <2>2, <2>3, <2>6, <2>7, <2>8 DEF OrderInv
<1>9. CASE (ChunkDecoded /\ UNCHANGED agentVars) \/ UNCHANGED vars
  <2>1. UNCHANGED <<pc, framed, dma, line, batch, state, captured>>
    BY <1>9 DEF ChunkDecoded, vars, agentVars, bridgeVars
  <2> QED
    BY <2>1 DEF OrderInv, Transferred, Cycle
<1> QED
  BY <1>2, <1>3, <1>4, <1>5, <1>6, <1>7, <1>8, <1>9 DEF Next, AgentNext, TelemetryTask
LEMMA OrderInvariant == Spec => [](LinkInv /\ OrderInv)
  BY LinkInit, LinkStep, OrderInit, OrderStep, PTL DEF Spec

-----------------------------------------------------------------------------
(* The refinement. *)

(* A state that shows a snapshot looks to an observer as the snapshot does. *)
LEMMA ShowsVisible ==
  ASSUME NEW st, NEW s, Shows(st, s)
  PROVE  Visible(st) = Visible(s)
<1>1. st.memory = s.memory /\ Slots(st) = Slots(s)
  BY DEF Shows, SameTopology
<1>2. [i \in Slots(st) |-> st.tasks[i].name] = [i \in Slots(s) |-> s.tasks[i].name]
  BY <1>1 DEF Shows, SameTopology
<1>3. [i \in {j \in Slots(st) : j < DeltaTasks} |-> st.tasks[i].field]
      = [i \in {j \in Slots(s) : j < DeltaTasks} |-> s.tasks[i].field]
  BY <1>1 DEF Shows
<1> QED
  BY <1>1, <1>2, <1>3 DEF Visible

(* What the agent has published, as Mirror sees it. *)
Published == [c \in 1..Cycle |-> Visible(captured[c])]

LEMMA PublishedIsSequence ==
  ASSUME Cycle \in Nat
  PROVE  Len(Published) = Cycle /\ DOMAIN Published = 1..Cycle
<1>1. DOMAIN Published = 1..Cycle
  BY DEF Published
<1> QED
  BY <1>1

LEMMA MirrorInitial == Init => Abstract!MirrorInit
<1> SUFFICES ASSUME Init PROVE Abstract!MirrorInit
  OBVIOUS
<1>1. Cycle = 0 /\ state.timestamp = 0 /\ hasKeyframe = FALSE
  BY DEF Init, AgentInit, BridgeInit, EmptyState, Cycle
<1>2. [c \in 1..Cycle |-> Visible(captured[c])] = <<>>
  BY <1>1
<1> QED
  BY <1>1, <1>2 DEF Abstract!MirrorInit

(* A capture publishes a version; nothing else changes for the observer.   *)
LEMMA CapturePublishes ==
  ASSUME TypeInv, Capture, UNCHANGED bridgeVars
  PROVE  Abstract!Publish
<1>1. PICK s \in Snapshots : captured' = Append(captured, s)
  BY DEF Capture
<1>2. captured \in Seq(Snapshots) /\ Cycle \in Nat
  BY DEF TypeInv, TypeOK, TaskTyped, Cycle
<1>3. Cycle' = Cycle + 1 /\ \A c \in 1..Cycle : captured'[c] = captured[c]
  BY <1>1, <1>2 DEF Cycle
<1>4. Len(Published) = Cycle /\ Len(Published') = Cycle + 1
  BY <1>2, <1>3, PublishedIsSequence DEF Published
<1>5. SubSeq(Published', 1, Len(Published)) = Published
  BY <1>2, <1>3, <1>4 DEF Published
<1>6. UNCHANGED <<state, hasKeyframe, contiguous>>
  BY DEF bridgeVars
<1>7. Visible(state)' = Visible(state)
  BY <1>6 DEF Visible, Slots
<1> QED
  BY <1>4, <1>5, <1>6, <1>7 DEF Abstract!Publish, Published

(* Every other step lets the mirror follow, or does not concern it. *)
LEMMA OthersFollow ==
  ASSUME LinkInv, OrderInv, LinkInv', OrderInv', [Next]_vars, UNCHANGED captured
  PROVE  Abstract!Follow
<1> USE DEF LinkInv, TypeInv, TypeOK
<1>1. /\ state.timestamp \in Nat /\ Cycle \in Nat /\ Cycle' = Cycle
      /\ state'.timestamp \in Nat /\ state'.timestamp <= Cycle'
  BY CyclesTyped DEF Cycle, OrderInv, BridgeTyped
<1>2. state'.timestamp >= state.timestamp
  <2>1. CASE Handle /\ UNCHANGED agentVars
    <3> DEFINE p == Head(batch).packet
    <3>1. DropRecorded(state).timestamp = state.timestamp
      BY DEF DropRecorded, BridgeTyped
    <3>2. ASSUME NEW s PROVE Updated(p, s).timestamp \in {s.timestamp, p.cycle}
      BY DEF Updated
    <3>3. p = batch[1].packet /\ 1 \in DOMAIN batch
      BY <2>1, HandledPacket
    <3>4. p.cycle >= state.timestamp /\ p.cycle \in Nat
      BY <3>3, CyclesTyped DEF OrderInv
    <3> QED
      BY <1>1, <2>1, <3>1, <3>2, <3>4 DEF Handle
  <2>2. CASE UNCHANGED state
    BY <1>1, <2>2
  <2> QED
    BY <2>1, <2>2 DEF Next, Receive, Decode, ChunkDecoded, vars, bridgeVars
<1>3. ASSUME hasKeyframe', contiguous'
      PROVE  /\ state'.timestamp \in 1..Cycle
             /\ Visible(state') = Visible(captured[state'.timestamp])
  <2>1. state'.timestamp \in 1..Cycle /\ Shows(state', captured[state'.timestamp])
    BY <1>1, <1>3 DEF StateGood, SyncedStateExact, Shows, SameTopology
  <2> QED
    BY <2>1, ShowsVisible
<1>4. Len(Published) = Cycle /\ Published' = Published
  BY <1>1, PublishedIsSequence DEF Published
<1>5. \A c \in 1..Cycle : Published[c] = Visible(captured[c])
  BY DEF Published
<1>6. (hasKeyframe /\ contiguous)' \in BOOLEAN
  BY DEF BridgeTyped
<1> QED
  BY <1>1, <1>2, <1>3, <1>4, <1>5, <1>6 DEF Abstract!Follow, Published

(* The bridge shows what the device was: never an older cycle after a newer  *)
(* one, and, when no cycle is missing since the last keyframe, the cycle it  *)
(* names, for every width of the sequence number, size of the buffers,       *)
(* length of the line and number of tasks.                                   *)
THEOREM LinkImplementsMirror == Spec => ImplementsMirror
<1>1. Init => Abstract!MirrorInit
  BY MirrorInitial
<1>2. /\ LinkInv /\ OrderInv /\ LinkInv' /\ OrderInv' /\ [Next]_vars
      => [Abstract!Publish \/ Abstract!Follow]_(Abstract!mirrorVars)
  <2> SUFFICES ASSUME LinkInv, OrderInv, LinkInv', OrderInv', [Next]_vars
               PROVE  Abstract!Publish \/ Abstract!Follow
    OBVIOUS
  <2>1. CASE Capture /\ UNCHANGED bridgeVars
    BY <2>1, CapturePublishes DEF LinkInv
  <2>2. CASE UNCHANGED captured
    BY <2>2, OthersFollow
  <2> QED
    BY <2>1, <2>2
    DEF Next, AgentNext, TelemetryTask, Start, Stop, Encode, Commit, FrameStart,
        FrameFinish, Send, Transfer, Receive, vars, agentVars
<1> QED
  BY <1>1, <1>2, OrderInvariant, PTL DEF Spec, ImplementsMirror, Abstract!MirrorSpec

-----------------------------------------------------------------------------
(* The sequence check. *)

(* Sequence numbers count the cycles. *)
LEMMA NumberRange ==
  ASSUME NEW c \in Nat
  PROVE  SeqOf(c) \in 0..(SeqMod - 1)
BY WireAssumption DEF SeqOf

LEMMA SeqOfNext ==
  ASSUME NEW c \in Nat \ {0}
  PROVE  (SeqOf(c) + 1) % SeqMod = SeqOf(c + 1)
<1>1. c - 1 \in Nat /\ (c - 1) + 1 = c /\ (c + 1) - 1 = c
  OBVIOUS
<1>2. (((c - 1) % SeqMod) + 1) % SeqMod = ((c - 1) + 1) % SeqMod
  BY <1>1, ModSuccessor, WireAssumption
<1> QED
  BY <1>1, <1>2 DEF SeqOf

(* They name a cycle among the next ones, the repeated one included. *)
LEMMA SeqOfExact ==
  ASSUME NEW c \in Nat \ {0}, NEW d \in Nat, c <= d, d <= c + SeqMod,
         SeqOf(d) = (SeqOf(c) + 1) % SeqMod
  PROVE  d = c + 1
<1>1. (d - 1) % SeqMod = c % SeqMod
  BY SeqOfNext DEF SeqOf
<1>2. SeqMod \in Nat \ {0} /\ SeqMod >= 2 /\ d - 1 \in Nat
  BY WireAssumption
<1>3. CASE c <= d - 1
  <2>1. d - 1 < c + SeqMod
    BY <1>2
  <2>2. c = d - 1
    BY <1>1, <1>2, <1>3, <2>1, ModClose
  <2> QED
    BY <2>2
<1>4. CASE d = c
  <2>1. d - 1 <= c /\ c < (d - 1) + SeqMod
    BY <1>2, <1>4
  <2>2. d - 1 = c
    BY <1>1, <1>2, <2>1, ModClose
  <2> QED
    BY <1>4, <2>2
<1> QED
  BY <1>3, <1>4

(* Once there is a keyframe every packet handled moves the timestamp. *)
LEMMA HandledCycle ==
  ASSUME TypeInv, Handle, hasKeyframe'
  PROVE  state'.timestamp = batch[1].packet.cycle
<1> DEFINE p == Head(batch).packet
<1>1. p = batch[1].packet /\ p \in InFlight
  BY HandledPacket DEF TypeInv, TypeOK, InFlight
<1>2. p.type \in {"keyframe", "delta"} /\ p.type = p.payload.type
  BY <1>1, HandledPacket DEF TypeInv, TypeOK, HeadersGood, Packet
<1>3. hasKeyframe \/ p.type = "keyframe"
  BY DEF Handle
<1>4. ASSUME NEW s PROVE Updated(p, s).timestamp = p.cycle
  BY <1>2, <1>3 DEF Updated, ParsesAsKeyframe
<1> QED
  BY <1>1, <1>4 DEF Handle

LEMMA SequenceInit == Init => SequenceInv
<1> SUFFICES ASSUME Init PROVE SequenceInv
  OBVIOUS
<1>1. /\ dma.sent = Unframed /\ dma.over = <<>> /\ framed = Unframed
      /\ line = <<>> /\ batch = <<>> /\ hasKeyframe = FALSE
  BY DEF Init, AgentInit, BridgeInit, Idle
<1>2. DOMAIN dma.over = {} /\ DOMAIN line = {} /\ DOMAIN batch = {}
  BY <1>1
<1>3. InFlight = {Unframed}
  BY <1>1, <1>2 DEF InFlight
<1> QED
  BY <1>1, <1>2, <1>3 DEF SequenceInv

LEMMA NumbersStep ==
  ASSUME LinkInv, SequenceInv, [Next]_vars
  PROVE  \A p \in InFlight' \ {Unframed} : p.seq = SeqOf(p.cycle)
<1>1. FrameFinish => framed'.seq = SeqOf(framed'.cycle)
  BY DEF FrameFinish, FramePacket
<1> QED
  BY <1>1, InFlightStep DEF LinkInv, SequenceInv

LEMMA SequenceStep == LinkInv /\ SequenceInv /\ [Next]_vars => SequenceInv'
<1> SUFFICES ASSUME LinkInv, SequenceInv, [Next]_vars PROVE SequenceInv'
  OBVIOUS
<1> USE DEF LinkInv, TypeInv, TypeOK
<1> DEFINE Mark == [packet : Packet, gap : BOOLEAN]
<1>1. batch \in Seq(Mark) /\ state.timestamp \in Nat
  BY DEF BridgeTyped
<1>2. (\A p \in InFlight \ {Unframed} : p.seq = SeqOf(p.cycle))'
  BY NumbersStep DEF Unframed, NoPayload, SeqOf
<1>3. CASE Receive
  <2> DEFINE p == Head(line)
  <2>0. PICK n \in Nat : n = Len(batch)
    BY <1>1
  <2>1. /\ line \in Seq(Packet) /\ line # <<>> /\ lastSeq' = p.seq
        /\ batch' = Append(batch, [packet |-> p, gap |-> SequenceGap(p)])
        /\ UNCHANGED <<state, hasKeyframe>>
    BY <1>3, CyclesTyped DEF Receive, Decode
  <2>2. p \in Packet /\ p \in InFlight
    BY <2>1 DEF InFlight
  <2>3. p # Unframed
    BY <2>2 DEF Packet, Unframed
  <2>4. p.seq = SeqOf(p.cycle)
    BY <2>2, <2>3 DEF SequenceInv
  <2> HIDE DEF Mark
  <2>5. /\ DOMAIN batch' = 1..(n + 1) /\ Len(batch') = n + 1
        /\ batch'[n + 1] = [packet |-> p, gap |-> SequenceGap(p)]
        /\ \A i \in 1..n : batch'[i] = batch[i]
        /\ DOMAIN batch = 1..n /\ (batch = <<>> <=> n = 0)
    BY <1>1, <2>0, <2>1
  <2>6. \A i \in 1..n : CycleBefore(i)' = CycleBefore(i)
    BY <2>1, <2>5 DEF CycleBefore
  <2>7. ASSUME n + 1 > 1 \/ hasKeyframe
        PROVE  SequenceGap(p) <=> p.seq # (SeqOf(CycleBefore(n + 1)') + 1) % SeqMod
    <3>1. CycleBefore(n + 1)' = IF n = 0 THEN state.timestamp ELSE batch[n].packet.cycle
      BY <2>1, <2>5 DEF CycleBefore
    <3>2. lastSeq = SeqOf(CycleBefore(n + 1)')
      BY <2>0, <2>5, <2>7, <3>1 DEF SequenceInv
    <3>3. CycleBefore(n + 1)' \in Nat
      BY <1>1, <2>5, <3>1, CyclesTyped
    <3>4. lastSeq # -1
      <4>1. SeqOf(CycleBefore(n + 1)') \in 0..(SeqMod - 1)
        BY <3>3, NumberRange
      <4>2. -1 \notin 0..(SeqMod - 1)
        BY WireAssumption
      <4> QED
        BY <3>2, <4>1, <4>2
    <3> QED
      BY <3>2, <3>4 DEF SequenceGap
  <2>8. ASSUME NEW i \in DOMAIN batch', i > 1 \/ hasKeyframe'
        PROVE  batch'[i].gap <=>
                 SeqOf(batch'[i].packet.cycle) # (SeqOf(CycleBefore(i)') + 1) % SeqMod
    <3>1. CASE i \in 1..n
      BY <2>1, <2>5, <2>6, <2>8, <3>1 DEF SequenceInv
    <3>2. CASE i = n + 1
      BY <2>1, <2>4, <2>5, <2>7, <2>8, <3>2
    <3> QED
      BY <2>5, <3>1, <3>2
  <2>9. batch' # <<>> /\ lastSeq' = SeqOf(batch'[Len(batch')].packet.cycle)
    BY <2>1, <2>4, <2>5
  <2> QED
    BY <1>2, <2>8, <2>9 DEF SequenceInv, SeqOf
<1>4. CASE Handle /\ UNCHANGED agentVars
  <2> DEFINE n == Len(batch)
  <2>1. batch' = Tail(batch) /\ batch # <<>> /\ UNCHANGED lastSeq
    BY <1>4 DEF Handle, BridgeTyped
  <2> HIDE DEF Mark
  <2>2. /\ n \in Nat \ {0} /\ DOMAIN batch = 1..n /\ DOMAIN batch' = 1..(n - 1)
        /\ Len(batch') = n - 1 /\ (batch' = <<>> <=> n = 1)
        /\ \A i \in 1..(n - 1) : batch'[i] = batch[i + 1]
    <3>1. n \in Nat \ {0} /\ DOMAIN batch = 1..n
      BY <1>1, <2>1
    <3>2. batch' \in Seq(Mark) /\ Len(batch') = n - 1
      BY <1>1, <2>1, HeadTailProperties
    <3>3. DOMAIN batch' = 1..(n - 1) /\ (batch' = <<>> <=> n = 1)
      BY <3>1, <3>2
    <3>4. \A i \in 1..(n - 1) : batch'[i] = batch[i + 1]
      BY <1>1, <2>1, <3>1
    <3> QED
      BY <3>1, <3>2, <3>3, <3>4
  <2>3. hasKeyframe' => state'.timestamp = batch[1].packet.cycle
    BY <1>4, HandledCycle
  <2>4. ASSUME NEW i \in DOMAIN batch', i > 1 \/ hasKeyframe'
        PROVE  batch'[i].gap <=>
                 SeqOf(batch'[i].packet.cycle) # (SeqOf(CycleBefore(i)') + 1) % SeqMod
    <3>1. i + 1 \in DOMAIN batch /\ i + 1 > 1 /\ batch'[i] = batch[i + 1]
      BY <2>2
    <3>2. CycleBefore(i)' = batch[i].packet.cycle
      BY <2>2, <2>3, <2>4 DEF CycleBefore
    <3>3. CycleBefore(i + 1) = batch[i].packet.cycle
      BY <2>2 DEF CycleBefore
    <3> QED
      BY <3>1, <3>2, <3>3 DEF SequenceInv
  <2>5. batch' # <<>> => lastSeq' = SeqOf(batch'[Len(batch')].packet.cycle)
    BY <2>1, <2>2 DEF SequenceInv
  <2>6. batch' = <<>> /\ hasKeyframe' => lastSeq' = SeqOf(state'.timestamp)
    BY <2>1, <2>2, <2>3 DEF SequenceInv
  <2> QED
    BY <1>2, <2>4, <2>5, <2>6 DEF SequenceInv, SeqOf
<1>5. CASE UNCHANGED <<batch, lastSeq, state, hasKeyframe>>
  BY <1>2, <1>5 DEF SequenceInv, SeqOf, CycleBefore
<1>6. CASE AgentNext /\ UNCHANGED bridgeVars
  BY <1>5, <1>6 DEF bridgeVars
<1>7. CASE (ChunkDecoded /\ UNCHANGED agentVars) \/ UNCHANGED vars
  BY <1>5, <1>7 DEF ChunkDecoded, vars, bridgeVars
<1> QED
  BY <1>3, <1>4, <1>6, <1>7 DEF Next

(* The mark of the packet handled next compares its cycle with the cycle   *)
(* the state shows.                                                        *)
LEMMA GapCheckStep ==
  ASSUME LinkInv, OrderInv, SequenceInv, GapCheckExact, [Next]_vars
  PROVE  GapCheckExact'
<1> SUFFICES ASSUME hasKeyframe'
             PROVE  /\ contiguous' => clean'
                    /\ clean' /\ ~outage' => contiguous'
  BY DEF GapCheckExact
<1> USE DEF LinkInv, TypeInv, TypeOK
<1>1. CASE UNCHANGED <<hasKeyframe, clean, contiguous, outage>>
  BY <1>1 DEF GapCheckExact
<1>2. CASE Handle /\ UNCHANGED agentVars
  <2> DEFINE m == Head(batch)
             p == m.packet
             key == p.type = "keyframe" /\ ParsesAsKeyframe(p)
  <2>1. /\ clean' = (key \/ (clean /\ ~m.gap))
        /\ contiguous' = (key \/ (contiguous /\ p.cycle = state.timestamp + 1))
        /\ outage' = (~key /\ (outage \/ p.cycle > state.timestamp + SeqMod))
        /\ hasKeyframe' = (hasKeyframe \/ key)
    BY <1>2 DEF Handle
  <2>2. CASE key
    BY <2>1, <2>2
  <2>3. CASE ~key
    <3>1. hasKeyframe /\ m = batch[1] /\ 1 \in DOMAIN batch
      BY <1>2, <2>1, <2>3, HandledPacket
    <3>2. m.gap <=> SeqOf(p.cycle) # (SeqOf(state.timestamp) + 1) % SeqMod
      BY <3>1 DEF SequenceInv, CycleBefore
    <3>3. /\ state.timestamp \in Nat \ {0} /\ p.cycle \in Nat /\ Cycle \in Nat
          /\ state.timestamp <= p.cycle /\ p.cycle <= Cycle
      BY <3>1, CyclesTyped DEF OrderInv, StateGood
    <3>4. p.cycle = state.timestamp + 1 => ~m.gap
      BY <3>2, <3>3, SeqOfNext
    <3>5. ~m.gap /\ p.cycle <= state.timestamp + SeqMod => p.cycle = state.timestamp + 1
      BY <3>2, <3>3, SeqOfExact, WireAssumption
    <3>6. ~(p.cycle > state.timestamp + SeqMod) => p.cycle <= state.timestamp + SeqMod
      BY <3>3, WireAssumption
    <3>7. /\ clean' = (clean /\ ~m.gap)
          /\ contiguous' = (contiguous /\ p.cycle = state.timestamp + 1)
          /\ ~outage' => ~outage /\ ~(p.cycle > state.timestamp + SeqMod)
      BY <2>1, <2>3, Zenon
    <3>8. (contiguous => clean) /\ (clean /\ ~outage => contiguous)
      BY <3>1 DEF GapCheckExact
    <3>9. ASSUME contiguous' PROVE clean'
      BY <3>4, <3>7, <3>8, <3>9
    <3>10. ASSUME clean', ~outage' PROVE contiguous'
      BY <3>5, <3>6, <3>7, <3>8, <3>10
    <3> QED
      BY <3>9, <3>10
  <2> QED
    BY <2>2, <2>3
<1> QED
  BY <1>1, <1>2
  DEF Next, Receive, Decode, ChunkDecoded, vars, bridgeVars

(* For every width of the sequence number from 2 on and behaviours of every *)
(* length, consecutive cycles are never taken for a gap, and no gap is      *)
(* overlooked until SeqMod cycles in a row are lost (decoder.py:148-152).   *)
THEOREM GapCheckCorrect == Spec => []GapCheckExact
<1>1. Init => GapCheckExact
  BY DEF Init, BridgeInit, GapCheckExact
<1>2. LinkInv /\ OrderInv /\ SequenceInv /\ GapCheckExact /\ [Next]_vars => GapCheckExact'
  BY GapCheckStep
<1> QED
  BY <1>1, <1>2, OrderInvariant, SequenceInit, SequenceStep, PTL DEF Spec
=============================================================================
