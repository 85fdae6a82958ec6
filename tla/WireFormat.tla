----------------------------- MODULE WireFormat -----------------------------
(***************************************************************************)
(* The data the agent and the bridge exchange: a snapshot of the RTOS      *)
(* (agent/core/snapshot.h), the payloads of the two packet types that      *)
(* carry it, and their sizes in bytes (agent/core/wire_format.h).          *)
(*                                                                         *)
(* Values are abstract: what matters of a field is which slot it belongs   *)
(* to, how many bytes it takes and whether two snapshots agree on it.      *)
(***************************************************************************)
EXTENDS Integers, FiniteSets

CONSTANTS
    MaxTasks,    \* MAX_TASKS, the slots of the task array (16)
    DeltaTasks,  \* slots a delta tag can name: nibble 0xF marks system tags (15)
    SeqMod,      \* sequence_num is a uint16_t: 2^16
    TaskNames,   \* the names tasks may have
    Words        \* the values fields may have

ASSUME WireAssumption ==
    /\ MaxTasks \in Nat
    /\ DeltaTasks \in 0..MaxTasks
    /\ SeqMod \in Nat \ {0, 1}
    /\ 0 \in Words

TaskFields == {"state", "priority", "stack_hwm_words", "runtime_ticks"}

MemoryFields == {"heap_free_bytes", "heap_min_ever_bytes", "cpu_utilization_pct"}

Task == [name : TaskNames, field : [TaskFields -> Words]]

Memory == [MemoryFields -> Words]

TaskTables == UNION {[0..(n - 1) -> Task] : n \in 0..MaxTasks}

Snapshot == [tasks : TaskTables, memory : Memory]

Slots(s) == DOMAIN s.tasks

(* The bytes of a field's value on the wire. *)
Width(f) ==
    CASE f \in {"state", "priority", "cpu_utilization_pct"} -> 1
      [] f = "stack_hwm_words" -> 2
      [] f \in {"runtime_ticks", "heap_free_bytes", "heap_min_ever_bytes"} -> 4

-----------------------------------------------------------------------------
(* A payload is a keyframe, with the whole task table and the three memory  *)
(* fields, or a delta, with the new values of some <<slot, field>> pairs,   *)
(* its changes, and of some memory fields.                                  *)

(* Two snapshots have the same topology: as many tasks, with equal names. *)
SameTopology(s, t) ==
    /\ Slots(s) = Slots(t)
    /\ \A i \in Slots(s) : s.tasks[i].name = t.tasks[i].name

EmptyDelta(p) ==
    /\ p.type = "delta"
    /\ DOMAIN p.changes = {}
    /\ DOMAIN p.memory = {}

KeyframeBytes(s) == 7 + 24 * Cardinality(Slots(s)) + 9

(* Every entry of a delta is a tag byte and its value. *)
DeltaBytes(d) ==
    LET OfWidth(w) == Cardinality({x \in DOMAIN d.changes : Width(x[2]) = w})
                      + Cardinality({f \in DOMAIN d.memory : Width(f) = w})
    IN  2 * OfWidth(1) + 3 * OfWidth(2) + 5 * OfWidth(4)

PayloadSize(p) == IF p.type = "keyframe" THEN KeyframeBytes(p) ELSE DeltaBytes(p)

(* WF_HEADER_SIZE + WF_CRC_SIZE *)
Overhead == 12 + 2

FrameSize(p) == Overhead + PayloadSize(p)
=============================================================================
