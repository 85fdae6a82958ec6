----------------------------- MODULE BridgeHost ------------------------------
(***************************************************************************)
(* The loop of the bridge (bridge/main.py) around the registry of devices  *)
(* (bridge/device_registry.py) and the analyzer of the heap                *)
(* (bridge/oom_analyzer.py): a device whose heap moves, a line that loses  *)
(* packets, and the verdict the analyzer gives on what arrives, early,     *)
(* late, or before the host has seen a keyframe.                           *)
(*                                                                         *)
(* The regression is exact: the slope is Covariance / VarianceOf(times)    *)
(* and its r_value ** 2 is Covariance^2 / (the product of the variances),  *)
(* compared by cross-multiplication instead of in floating point.          *)
(***************************************************************************)
EXTENDS Integers, Sequences, SequencesExt, FiniteSetsExt

CONSTANTS
    Heaps,             \* the free heap a device may report, in bytes
    WindowSize,        \* OOM_WINDOW_SIZE (600)
    MinSamples,        \* the samples get_projection_seconds asks for (30)
    MinRSquared,       \* OOM_MIN_R_SQUARED in percent (70)
    RollingThreshold,  \* OOM_ROLLING_MIN_THRESHOLD in percent (10)
    TotalHeap,         \* TOTAL_HEAP_BYTES (131072)
    OfflineTimeout,    \* DEVICE_OFFLINE_TIMEOUT_S (30)
    MaxGap             \* bound: the time between two packets handled

ASSUME HostAssumption ==
    /\ Heaps \subseteq Nat
    /\ WindowSize \in Nat \ {0}
    /\ MinSamples \in Nat \ {0}
    /\ {MinRSquared, RollingThreshold} \subseteq 0..100
    /\ TotalHeap \in Nat \ {0}
    /\ OfflineTimeout \in Nat
    /\ MaxGap \in Nat

VARIABLES
    heap,      \* the device's free heap in the last cycle it sent
    fell,      \* it was once more than in the cycle after (not in the code)
    manager,   \* the device's StateManager in _devices, or Absent
    silence,   \* the time since a packet was handled (not in the code)
    history,   \* _history: the heap of each sample and the time since the last
    purged     \* the device was purged before (not in the code)

vars == <<heap, fell, manager, silence, history, purged>>

Absent == [known |-> FALSE]

(* StateManager(): last_seen_s is 0.0, longer ago than any timeout. Times   *)
(* are kept as ages.                                                        *)
LongAgo == OfflineTimeout + 1
NewManager == [known |-> TRUE, heap |-> 0, hasKeyframe |-> FALSE, age |-> LongAgo]

Init ==
    /\ heap \in Heaps
    /\ fell = FALSE
    /\ manager = Absent
    /\ silence = 0
    /\ history = <<>>
    /\ purged = FALSE

-----------------------------------------------------------------------------
(* OOMAnalyzer. *)

(* The sums of the first elements of a sequence of numbers *)
Sums(s) ==
    LET sum[i \in 0..Len(s)] == IF i = 0 THEN 0 ELSE sum[i - 1] + s[i]
    IN  sum

Total(s) == Sums(s)[Len(s)]

(* x_norm: the time of each sample since the first one. *)
Gaps(h) == [i \in DOMAIN h |-> IF i = 1 THEN 0 ELSE h[i].gap]
Times(h) == [i \in DOMAIN h |-> Sums(Gaps(h))[i]]
Values(h) == [i \in DOMAIN h |-> h[i].heap]

(* n^2 times the covariance of two sequences of length n *)
Products(x, y) == [i \in DOMAIN x |-> x[i] * y[i]]
Covariance(x, y) == Len(x) * Total(Products(x, y)) - Total(x) * Total(y)
VarianceOf(x) == Covariance(x, x)

(* slope < 0 and r_value ** 2 >= min_r_squared. *)
FitsLeak(x, y) ==
    /\ Covariance(x, y) < 0
    /\ 100 * Covariance(x, y) * Covariance(x, y)
           >= MinRSquared * VarianceOf(x) * VarianceOf(y)

(* The minimum of the first half of the window and that of all of it *)
FloorDrop(y) ==
    Min({y[i] : i \in 1..(Len(y) \div 2)}) - Min({y[i] : i \in DOMAIN y})

Stable == [verdict |-> "stable", seconds |-> 0, per |-> 1]
Floor  == [verdict |-> "floor", seconds |-> 0, per |-> 1]

(* Mutation: the slope's sign is not looked at. *)
ProjectionOfAnyTrend(h) ==
    LET x == Times(h)  y == Values(h)  c == Covariance(x, y) IN
    IF Len(h) < MinSamples \/ VarianceOf(x) = 0 THEN Stable
    ELSE IF c # 0 /\ 100 * c * c >= MinRSquared * VarianceOf(x) * VarianceOf(y)
    THEN [verdict |-> "leak", seconds |-> Last(y) * VarianceOf(x),
          per |-> IF c < 0 THEN -c ELSE c]
    ELSE IF 100 * FloorDrop(y) > RollingThreshold * TotalHeap THEN Floor ELSE Stable

(* Mutation: the projection starts from the first sample of the window. *)
ProjectionFromFirst(h) ==
    LET x == Times(h)  y == Values(h) IN
    IF Len(h) < MinSamples \/ VarianceOf(x) = 0 THEN Stable
    ELSE IF FitsLeak(x, y)
    THEN [verdict |-> "leak", seconds |-> y[1] * VarianceOf(x), per |-> -Covariance(x, y)]
    ELSE IF 100 * FloorDrop(y) > RollingThreshold * TotalHeap THEN Floor ELSE Stable

(* get_projection_seconds: -1.0 is Stable, -2.0 is Floor, and a leak is     *)
(* projected to seconds / per. Too few samples, or all of one time, are     *)
(* stable.                                                                  *)
Projection(h) ==
    LET x == Times(h)  y == Values(h) IN
    IF Len(h) < MinSamples \/ VarianceOf(x) = 0 THEN Stable
    ELSE IF FitsLeak(x, y)
    THEN [verdict |-> "leak", seconds |-> Last(y) * VarianceOf(x), per |-> -Covariance(x, y)]
    ELSE IF 100 * FloorDrop(y) > RollingThreshold * TotalHeap THEN Floor ELSE Stable

(* Mutation: the deque is not bounded. *)
WithSampleKept(h, sample) == IF Len(h) > WindowSize THEN h ELSE Append(h, sample)

(* add_sample: a deque of WindowSize samples. *)
WithSample(h, sample) ==
    LET all == Append(h, sample) IN
    IF Len(all) > WindowSize THEN Tail(all) ELSE all

-----------------------------------------------------------------------------
(* The registry and the loop. *)

GetOrCreate == IF manager = Absent THEN NewManager ELSE manager

(* Mutation: the new DeviceState of a keyframe is not stamped. *)
UpdatedWithoutStamp(m, type, h) ==
    CASE type = "keyframe" -> [NewManager EXCEPT !.heap = h, !.hasKeyframe = TRUE]
      [] type = "delta" /\ m.hasKeyframe /\ h # heap -> [m EXCEPT !.heap = h, !.age = 0]
      [] OTHER -> [m EXCEPT !.age = 0]

(* StateManager.update: a delta carries the heap when it has changed, and   *)
(* is ignored before the first keyframe.                                    *)
Updated(m, type, h) ==
    CASE type = "keyframe" -> [m EXCEPT !.heap = h, !.hasKeyframe = TRUE, !.age = 0]
      [] type = "delta" /\ m.hasKeyframe /\ h # heap -> [m EXCEPT !.heap = h, !.age = 0]
      [] OTHER -> [m EXCEPT !.age = 0]

(* One turn of the loop of handle_packets. *)
HandlePacket(type, h) ==
    /\ manager' = Updated(GetOrCreate, type, h)
    /\ history' = WithSample(history, [gap |-> silence, heap |-> manager'.heap])
    /\ silence' = 0

(* The device sends a cycle; its packet is handled or lost on the way. *)
Cycle ==
    \E h \in Heaps, type \in {"keyframe", "delta"} :
        /\ heap' = h
        /\ fell' = (fell \/ h < heap)
        /\ \/ HandlePacket(type, h)
           \/ UNCHANGED <<manager, history, silence>>
        /\ UNCHANGED purged

(* Time passes: transport.read returns nothing and the loop sleeps. *)
Wait ==
    /\ silence < MaxGap
    /\ silence' = silence + 1
    /\ manager' = IF manager = Absent \/ manager.age = LongAgo
                  THEN manager ELSE [manager EXCEPT !.age = @ + 1]
    /\ UNCHANGED <<heap, fell, history, purged>>

(* purge_offline_devices, which the code offers to its host to call. *)
Purge ==
    /\ manager # Absent
    /\ manager.age > OfflineTimeout
    /\ manager' = Absent
    /\ purged' = TRUE
    /\ UNCHANGED <<heap, fell, silence, history>>

Next == Cycle \/ Wait \/ Purge

Spec == Init /\ [][Next]_vars

-----------------------------------------------------------------------------
(* Every variable has its type. *)
TypeOK ==
    /\ heap \in Heaps
    /\ {fell, purged} \subseteq BOOLEAN
    /\ manager = Absent \/ manager \in [known : {TRUE}, heap : Heaps \cup {0},
                                        hasKeyframe : BOOLEAN, age : 0..LongAgo]
    /\ silence \in 0..MaxGap
    /\ Len(history) <= WindowSize
    /\ \A i \in DOMAIN history :
          history[i] \in [gap : 0..MaxGap, heap : Heaps \cup {0}]

(* A device whose free heap never falls raises no alarm, whatever packets   *)
(* are lost and however they are spaced, though the analyzer is fed the 0   *)
(* of an empty DeviceState until the first keyframe (main.py:78-82,         *)
(* state_manager.py:158, oom_analyzer.py:95-117).                           *)
SteadyHeapQuiet == ~fell /\ ~purged => Projection(history).verdict = "stable"

(* A heap that falls by the same amount in the same time is projected to    *)
(* the moment it does reach 0, however unevenly the samples are spaced      *)
(* (oom_analyzer.py:84-107).                                                *)
LeakProjected ==
    LET x == Times(history)  y == Values(history)  p == Projection(history) IN
    \A bytes \in 1..TotalHeap, time \in 1..MaxGap :
        /\ Len(history) >= MinSamples
        /\ Last(x) > 0
        /\ \A i \in DOMAIN x : (y[1] - y[i]) * time = bytes * x[i]
        => p.verdict = "leak" /\ p.seconds * bytes = p.per * Last(y) * time

(* A device that was heard of within the timeout is in the registry, also   *)
(* when its last packet was a keyframe, which replaces the DeviceState that *)
(* held the time (state_manager.py:144-157, device_registry.py:102-118).    *)
HeardIsRegistered ==
    history # <<>> /\ silence <= OfflineTimeout => manager # Absent
=============================================================================
