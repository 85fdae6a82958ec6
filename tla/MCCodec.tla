------------------------------- MODULE MCCodec -------------------------------
(* Snapshots that differ in one field of every width, in their names, and   *)
(* in the slots on either side of the last one a delta can name.            *)
EXTENDS Codec, TLC

Letters == <<73, 68, 76, 69>>   \* "IDLE"

LongName == [k \in 1..20 |-> 96 + k]

FieldsOf(state, priority, stack, ticks) ==
    [f \in TaskFields |-> CASE f = "state" -> state [] f = "priority" -> priority
                            [] f = "stack_hwm_words" -> stack [] f = "runtime_ticks" -> ticks]

MemoryOf(free, min, cpu) ==
    [f \in MemoryFields |-> CASE f = "heap_free_bytes" -> free
                              [] f = "heap_min_ever_bytes" -> min
                              [] f = "cpu_utilization_pct" -> cpu]

Quiet == [name |-> Letters, field |-> FieldsOf(0, 0, 128, <<0, 0>>)]

Busy == [name |-> Letters, field |-> FieldsOf(2, 255, 513, <<43605, 32768>>)]

Renamed == [Quiet EXCEPT !.name = <<97>>]

Low == MemoryOf(<<0, 0>>, <<0, 0>>, 20)

High == MemoryOf(<<772, 65535>>, <<1, 0>>, 20)

One(t, m) == [tasks |-> (0 :> t), memory |-> m]

Sixteen(a, b) ==
    [tasks |-> [i \in 0..15 |-> IF i = 14 THEN a ELSE IF i = 15 THEN b ELSE Quiet], memory |-> Low]

(* The list is empty when there are more tasks than slots. *)
NoTask == [tasks |-> [i \in {} |-> Quiet], memory |-> High]

MCSnapshots ==
    {NoTask, One(Quiet, Low), One(Quiet, High), One(Busy, Low), One(Renamed, High),
     Sixteen(Quiet, Quiet), Sixteen(Busy, Busy)}

MCMockSnapshots ==
    {One(Busy, High), One([Busy EXCEPT !.name = LongName], Low),
     One([Quiet EXCEPT !.name = SubSeq(LongName, 1, 15)], Low),
     One([Quiet EXCEPT !.name = SubSeq(LongName, 1, 16)], Low)}

MCNames == {Letters, <<97>>}

MCTimestamps == {<<22136, 61713>>}

(* As long as they come, and corrupted ones that fill the buffer or do not  *)
(* fit: it has room for 47 characters.                                      *)
MCOverflowNames == {NULL, <<>>, Letters} \cup {[k \in 1..n |-> 127 + k] : n \in {47, 48, 80}}

(* Single bits, single bytes, pairs, and the pair the CRC is blind to. *)
MCErrors == {<<{0}, {}>>, <<{7}, {}>>, <<{}, 0..7>>, <<{0}, {7}>>,
             <<{0, 3, 7}, {0, 5, 7}>>, <<{0, 5, 7}, {0, 3, 7}>>}

(* agent/tests/test_crc.c:29: the check value of CRC-16/CCITT-FALSE. *)
ASSUME KnownAnswer == Crc16([k \in 1..9 |-> 48 + k]) = 10673
=============================================================================
