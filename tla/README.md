# RTOSTwin in TLA+

RTOSTwin shows the live state of a FreeRTOS system on a host. An agent linked into
the firmware captures the state of the RTOS ten times a second, encodes it as
*keyframes* (everything) and *deltas* (what changed), frames the payload with a
sequence number and a CRC and sends it over a UART by DMA. A bridge on the host
finds the packets in the byte stream, rebuilds the state of the device and exports
it to Prometheus and OpenTelemetry.

This directory holds TLA+ models of that program, the TLC configurations that check
them on small instances, and theorems that TLAPS proves for every instance. All
paths below are relative to `src/vnv_final/` unless they start with `src/`.

## 1. Inventory

| Component | State it keeps | Operations | Talks to |
|---|---|---|---|
| Snapshot engine, idle hook (`agent/core/snapshot.c`, `agent/freertos/hooks.c`) | idle and period counters, sequence counter, status buffer | `snapshot_init`, `snapshot_capture`, `vApplicationIdleHook` | FreeRTOS (task list, heap figures); the idle task increments what a capture reads and resets |
| Encoder (`agent/core/encoder.c`) | baseline `s_last_snapshot`, `s_is_initialized`, `s_last_encode_was_keyframe` | `encoder_init`, `encoder_encode`, `encoder_last_was_keyframe` | called by the telemetry task |
| Telemetry task, lifecycle (`agent/rtostwin.c`) | task handle, `s_initialised`, `loop_count`, payload and frame buffer | `rtostwin_init/start/stop`, one cycle per period | the application's tasks call it; `vTaskDelete` cuts it off anywhere |
| Framer (`agent/core/framer.c`) | none (writes the caller's buffer) | `frame_packet`, `crc16_ccitt` | |
| Transport, UART DMA (`agent/core/transport.c`, `agent/hal/stm32/uart_dma.c`) | drop counter; the transfer in progress | `transport_send` | the DMA reads `s_framed_buffer` while the CPU goes on |
| Packet decoder (`bridge/decoder.py`) | state machine, partial packet, last sequence number, two counters | `feed_byte`, `feed_bytes` | serial port |
| Bridge loop (`bridge/main.py`) | the chunk being handled | `run_bridge`, `handle_packets` | all parts of the bridge |
| State manager (`bridge/state_manager.py`) | `DeviceState`, `_has_keyframe` | `update`, `record_drop` | |
| Device registry (`bridge/device_registry.py`) | managers by device | `get_or_create`, `remove`, `purge_offline_devices` | |
| Exporters (`bridge/prometheus_exporter.py`, `otlp_exporter.py`) | gauges, dictionaries by device | `update_metrics`, `export_metrics`, callbacks | read by server and export threads |
| OOM analyzer (`bridge/oom_analyzer.py`) | window of heap samples | `add_sample`, `get_projection_seconds` | fed by the loop with whatever state there is |
| Profiler, measurement, DWT | minima, maxima, totals of cycle counts; the cycle counter | `profiler_*`, `measurement_*`, `dwt_init` | the task's report; `s_cycle_stats` outlives the task |
| Stack overflow hook (`agent/freertos/hooks.c`) | `s_crash_reason` | `vApplicationStackOverflowHook` | called by the kernel, never returns |
| Mock device (`bridge/mock_device.py`) | sequence number, heap | one keyframe per turn | takes the agent's place in front of the bridge |
| Archived agent (`src/archive/legacy`) | snapshots, baseline, sequence number of the framer | its task's cycle, `encoder_encode`, `frame_packet` | an earlier form of the agent and of its wire format |

What makes the system hard, and the property each part owes:

* **The baseline moves without an acknowledgement.** The encoder takes a snapshot as
  the baseline of the next delta before the packet is sent, and nobody looks at the
  result of the send. A host that missed a packet is on another baseline. Owed: a
  host that missed nothing since a keyframe shows exactly what was captured, and the
  sequence numbers tell it whether it missed something.
* **The task can be deleted anywhere** (`rtostwin_stop`), in the memcpy of the
  baseline and in the middle of a frame too, and its statics survive. Owed: a
  half-written baseline is never compared with, a stale flag never labels a packet.
* **The DMA reads while the CPU writes.** Owed: a frame that was overwritten never
  reaches the state as a mixture, and what reaches it never makes it go back.
* **Idle task against capture.** The counters are incremented, read and reset by two
  tasks. Owed: a capture reads figures that can be true together.
* **Bytes get lost.** Owed: the decoder invents no packet and finds the next one.
* **Threads of the bridge.** Scrapes and exports run while gauges and dictionaries
  are being written. Owed: what is read belongs to a state not older than the one
  shown when the reading began.
* **Start against stop.** Tasks of the application check the handle and then act
  on it. Owed: no order of starts and stops makes handle and task disagree or gives
  `vTaskDelete` a task that is gone, short of two callers inside the same check.
* **Counters that wrap and statistics that outlive their task.** Owed: elapsed cycles
  and means are right, a report covers one interval.
* **Silence, purges and early packets.** Owed: the analyzer raises no alarm over a heap
  that does not fall, and a device that was heard of is registered.
* **Bytes with a meaning.** Owed: what the host reads is what was written, in every
  width, and what was damaged is refused.

## 2. Plan

Order, most important first.

| Module | What | Status |
|---|---|---|
| `WireFormat`, `Encoder`, `TelemetryAgent`, `Bridge`, composed by `TelemetryLink` | the path of a snapshot from the RTOS to the state the bridge exports | done |
| `Mirror` | abstract specification of that path, implemented by `TelemetryLink` | done |
| `TelemetryLink_proofs` | three inductive invariants, eight theorems, the step simulation of `Mirror` among them | done |
| `SnapshotEngine`, `SnapshotEngine_proofs` | what a capture reads while other tasks run | done |
| `PacketDecoder`, `PacketDecoder_proofs` | the byte machine on a line that damages bytes | done |
| `Exporters`, `Exporters_proofs` | scrape and export threads against `update_metrics` and `export_metrics`; gauges that outlive their tasks | done |
| `Lifecycle`, `Lifecycle_proofs` | `rtostwin_init/start/stop` step by step against each other and the telemetry task; profiler, measurement and the wrapping cycle counter | done |
| `BridgeHost`, `BridgeHost_proofs` | registry, purge and OOM analyzer in the loop of the bridge | done |
| `Codec`, `Codec_proofs` | the wire format byte by byte, from agent or mock device to `StateManager`, with the real CRC; the text of the stack overflow hook | done |
| `LegacyAgent`, `LegacyAgent_proofs` | the archived agent: raw keyframes, tagged deltas that do not name tasks, frames numbered by the framer | done |
| theorems | a bound on the idle count of `SnapshotEngine` | open |

Only deviations from a sentence that documents a *running* promise keep a run of their
own; the others are told in section 7.

## 3. Modules and code

### The link

`WireFormat` has the layouts that agent and host share: snapshots, topology, sizes
of payloads and frames in bytes. Field values are abstract (`Words`); each has the
width it has on the wire, so that buffers fill up where the real ones do.

`Encoder` is `encoder.c`. `EncodeStart` is everything up to the copy of the baseline:
guards, choice between keyframe and delta, the early returns with 0, and the flag
`s_last_encode_was_keyframe`, which is cleared before a delta is written and stays
cleared when the delta does not fit. `EncodeFinish` completes the `memcpy` into
`s_last_snapshot`. Between the two the baseline is `Torn`: that is what a task deleted
there leaves behind. What a torn baseline compares to is undetermined, so
`MayRequireKeyframe` allows both.

`TelemetryAgent` is the telemetry task of `rtostwin.c`, one action per call it makes
(`Capture`, `Encode`, `Commit`, `FrameStart`, `FrameFinish`, `Send`), the calls of the
application (`Start` with a first `rtostwin_init` and an `xTaskCreate` that may fail,
`Stop` at any step; `Lifecycle` takes these two apart) and the DMA (`Transfer`). A packet
carries the ghost field `cycle`, the capture it was made from; it stands for the
timestamp, and the 16-bit sequence number is `SeqOf(cycle)`. `dma.over` remembers the
frames completed in `s_framed_buffer` while a transfer reads it: any of them may come
out whole, if no longer than the one the transfer was started on; every other mixture
fails its CRC and is lost. `Transfer` may lose any frame.

`Bridge` is `feed_bytes` (from the complete packet on), `handle_packets` and
`StateManager`. A whole chunk is decoded before the first of its packets is handled
(`Receive`, then `Handle` packet by packet), so that `sequence_gap_count` runs ahead
of the packet `handle_packets` looks at. `clean`, `contiguous` and `outage` are ghosts: what
the sequence numbers say, and what is true, about the packets since the last keyframe,
and whether a whole turn of the numbers went missing since then.

`TelemetryLink` composes agent and bridge over `line` and holds the properties.

`Mirror` says what all of this is for: a device publishes versions, a mirror follows,
may skip versions and may show a mixture, but knows when it can be trusted and never
goes back. `TelemetryLink` instantiates it with `version <- state.timestamp`,
`trusted <- hasKeyframe /\ contiguous`, and checks `MirrorSpec` as a property.

### The snapshot engine

`SnapshotEngine` has three actors: the application (allocates, frees, creates and
deletes tasks, starts and stops telemetry), the idle task in `vApplicationIdleHook`,
load by load and store by store, and the telemetry task in `snapshot_capture`, read
by read. Scheduling is the model's point: the application may preempt a capture
anywhere, a capture may preempt the idle hook anywhere, the idle hook runs only
when the telemetry task sleeps or does not exist (`IdleRuns`). The arithmetic is that
of unsigned words (`WordMod`), with the scale of the percentage as a constant.
The critical section around the reset is one step. The counters, tasks and heap of
FreeRTOS are external.

### The packet decoder

`PacketDecoder` is `feed_byte` with one operator per state of the machine. The header
is the version, anything, and the length; the length may be any byte. The line
(`Arrive`, `Corrupt`, `Lose`, `Insert`) hands it the bytes of endless frames. The CRC is
ideal: it is right exactly if the bytes covered are those of one frame in order and
undamaged (`genuine`). `hunting` and `whole` are ghosts about the frame being sent:
whether the decoder waited for sync bytes when it began, and whether all of it came
through.

### The exporters

`Exporters` has the loop of the bridge and the two threads that read what it writes, for
one device. `Writes` lists what one state makes the exporters write, in order:
`PrometheusWrites` is `update_metrics`, `OtlpWrites` is `export_metrics`, which
`handle_packets` calls after it. The loop takes one write per step (`Labels`, `Set`,
`Clear`, `Put`): `labels(...)` and `.set(...)` are two steps, so that a new gauge can be
read before it has its value. The five values of a device in the OTLP exporter are single
stores nobody iterates over, and are left out.

The server thread (`ScrapeBegin` to `ScrapeEnd`) goes through the families, copies the
list of gauges of each and reads them one at a time. The export thread
(`ExportBegin` to `ExportEnd`) iterates over a dictionary: as `export_metrics` replaces
the dictionary instead of emptying it, the iteration goes on over the old one
(`live` is false, its entries are in `items`), and a change of size under the iteration
ends it with an error. Which gauges `prometheus_client` locks and what OpenTelemetry does
with the error are external. `seen`, `base`, `taken`, `whole` and `result` are ghosts
that only the properties read.

Two tasks may have one name, or none: FreeRTOS does not object, and both exporters then
let the later task of the table take the gauge or the entry (`PutEntry` keeps its
place). `ScrapeFresh` and `ExportersAgree` are about such states too.

### The lifecycle

`Lifecycle` splits the three API functions at every read and write of the statics they
share: `InitCheck`, `InitReset`, `InitSet`, `StartCheck`, `HandleCheck`, `Create`,
`StopCheck` and the two halves of `Stop` (`vTaskDelete`, then the clearing of the
handle). `rtostwin_start` calls `rtostwin_init`, and `StartTelemetryAgent` calls both, so
`call` says where a caller goes from there. Application tasks preempt each other and the
telemetry task anywhere, and any of them may call any of the functions. No lock makes one
step of a check and of what it guards, so two callers can pass the same check before either
acts on it. The history variable `doubled` notes of which functions that has happened, when
it happens (`Enters`); `OneInit`, `OneStart` and `OneStop` say that it has not. The
properties name the one they need, so they say what goes wrong from there on and that
nothing else makes it go wrong. A caller about to delete what no longer lives stays where
it is: with a handle of `NULL` it deletes itself, and otherwise the code is undefined.

The telemetry task is cut down to what it measures: reading the counter on waking up,
`profiler_stop` and `profiler_record` after the capture, `measurement_record` and
`measurement_reset` store by store, because `s_cycle_stats` is static and `Delete` may come
between any two stores. `timer[t].ran` is the ghost that counts the cycles that did pass;
`torn` says that a deletion cut an update in half, `carried` how many samples the
deleted task left. A cycle is assumed to take fewer than 2^32 cycles (25 s at the
clock of the board) against its period of 100 ms; the counter may hold anything when
the task wakes up.

### Registry and analyzer

`BridgeHost` is the other half of `handle_packets`: `GetOrCreate`, the time stamp of
`StateManager.update`, `add_sample` and `get_projection_seconds` with both detectors, and
`purge_offline_devices` with `remove`. Packets arrive unevenly and get lost, deltas before
the first keyframe are ignored, and the analyzer is then fed the 0 of an empty
`DeviceState`. Times are kept as ages and gaps, so that the state space is finite. The
regression is exact: slope and r squared are compared by cross-multiplication of
integers where `numpy` and `scipy` round.

### The bytes

`Codec` has `KeyframePayload` and `DeltaPayload` (`encoder.c`), `FramePacket` and `Crc16`
(`framer.c`, once more in `decoder.py` and `mock_device.py`), `Accepted` (`decoder.py` on a whole
frame) and `Updated` (`state_manager.py`) on real bytes, with 16 slots and the real CRC. A
number of 32 bits is a pair of words. The register of the CRC is the set of the places of
its ones, so that a shift adds 1 to each and an exclusive or is a symmetric difference;
`Number` and `Bits` lead from a set to its number and back. The sender is the agent or
the mock device, the first sequence number is 65535, and `Damage` changes two
neighbouring bytes anywhere but in the length. It justifies what the other modules take for granted: `SizesAgree` that
the abstract payloads of `Encoder` have the sizes of the real ones, `RoundTrip` that
exchanging payloads instead of bytes loses nothing, `DamageRejected` the ideal CRC, up to
one pattern (section 7).

`StackOverflow` is the hook: prefix and name into a buffer of 64 bytes, then a loop for
ever. The overflow may have reached the name, so it can be of any length. It happens
between two frames only; the DMA would finish a frame it has.

### The archived agent

`LegacyAgent` is the cycle of `vTelemetryTask` under `src/archive/legacy`: a keyframe is the
raw struct, a delta a list of tagged fields that name slots and no tasks, the framer
numbers the frames it makes, and `transport_send` drops what the UART refuses. Of the two
framers in the archive it takes the one of `root-agent-partial`, whose `frame_packet` has
the four parameters the task passes. Every header says delta, so what reads the payloads
tells a keyframe by its length; this reader is external, because the archived state
manager asks for fields its decoder does not fill in. `lost` and `outage` are ghosts: a
frame did not arrive, and as many as there are sequence numbers did not. A capture leaves
the slots of tasks that are gone as they are (`Captured`). `ReaderExact` rests on it: the
baseline, the raw keyframes and so the reader all keep what was in an unused slot, which
is what the delta of a task that joins is compared with.

The task never calls `profiler_init`, so the cycle counter of the DWT is off and every
elapsed time it records and reports is 0 (`Cyccnt`, `ProfilerStop`, `ProfilerReport`);
`TypeOK` says so.

## 4. Runs

| Run | Configuration | Shows |
|---|---|---|
| `link` | two tasks of which deltas name one, `SeqMod` 3, keyframe every 3 loops, 4 cycles, renaming of tasks | all safety properties of the link, that the exported packet loss is a fraction, and that it implements `Mirror` |
| `small_buffer` | payload buffer of 45 bytes: a keyframe of one task fits, one of two does not | the failure path of the encoder and torn baselines that *are* compared |
| `snapshot_engine` | two tasks, a status buffer for one, heap of 2, words of 2 bits | types with clamp, order of the heap fields, freshness of the period |
| `packet_decoder` | 8 byte values, frames whose payloads look like frames, 3 damaged bytes | a hunting decoder finds the next frame; a clean line loses nothing; frames are delivered again for ever once the frames hold no sync bytes but their own |
| `exporters` | two states of the device: one task, and three of which two share a name, the first changed its state and figures fell to zero | what a scrape reads is of no state older than the last one shown; the exporters agree between packets; a callback yields a dictionary whole |
| `lifecycle` | two tasks that initialise, start and stop, 2 telemetry tasks, 5 cycles, counters modulo 3, a report every 2 | handle and task agree; elapsed times, means and windows are right across wraps and deletions; what two callers inside one check can break, and that nothing else breaks it |
| `bridge_host` | heap of 0 to 3 bytes, window of 4, verdict from 3 samples, gaps of up to 2 | no alarm over a heap that does not fall, the right time for one that falls evenly, no purge of a device that was heard of |
| `codec` | real sizes; 7 snapshots with 0, 1 and 16 tasks and fields of every width; names of 15, 16 and 20 characters from the mock; 3 frames | round trip, refusal of damage, sizes, the text of the crash |
| `legacy_agent` | two slots, three tasks, sequence numbers modulo 3, keyframe every 3, 5 iterations | a reader that counts no gap has what the agent had; no gap without a loss |
| `false_loss`, `idle_system`, `stale_task` | as the runs of their modules, `idle_system` under its own specification | section 7 |

*Bounds.* `MaxCycles` 4 with `SeqMod` 3 wraps the sequence number and lets one cycle
be lost on either side of the wrap; `KeyframeInterval` 3 puts two deltas between two
scheduled keyframes, which is what a delta on a delta needs. An outage of a whole turn
would take a fifth cycle: the run shows that nothing shorter is overlooked, the theorem
that nothing else is at any length. `LineCapacity` 1 is
enough because a chunk in `batch` holds further packets while the line refills. Two
tasks give both kinds of slots (named by deltas or not), renaming and resizing; the
code treats further tasks alike. `LoopMod` 100 keeps `loop_count` from wrapping in the
link (2^32 is not a multiple of 50: at the wrap a keyframe comes early, which does no
harm); in `Lifecycle` it does wrap, out of step with the interval. In `SnapshotEngine`
the idle and period counters wrap in words of two bits and the status buffer is too
small for one of the reachable task lists. In `PacketDecoder` three damaged bytes can
forge a length, put sync bytes where there are none, and damage the frame after;
`MaxDrops` only caps the drop counter. In `Exporters` the two states can follow each
other in any order and for ever, so a task appears, vanishes, changes its state and
has figures that fall to 0, each during a scrape or an iteration that began up to any
number of packets before. In `Lifecycle` five cycles hold two reports, a wrap of the
loop count and a deletion anywhere in them. The two callers are alike (symmetry). In `BridgeHost` the window of four slides,
and nothing bounds the length of a behaviour. In `Codec` three frames are a keyframe,
a delta and whatever follows across the wrap of the sequence number; frames of more
than 30 bytes are not damaged, since the CRC treats every place alike and the agent's
deltas and the keyframe of no task are shorter. In `LegacyAgent` five iterations with
three sequence numbers allow an outage as long as a full turn. The bounds are guards, and
one is a state constraint: after two callers were in `rtostwin_init` or in `rtostwin_start`
together, `lifecycle` goes on from states in which at most one cycle has been run
(`DoubledBound`); what the callers do is not bounded by it, and a state past it is still
checked. The theorems hold for any values of them.

*Deadlock* is checked in all runs but `codec` and `legacy_agent`. None of the other systems
stops: the application can always start or stop the task, the line always has a next
byte, and the bridge a next packet. `Codec` ends after `MaxFrames` frames and `LegacyAgent`
after `MaxCycles` iterations, and both stop for good when a task has overflowed its stack:
the hook is called in the task switch and spins.

*Fairness.* Everything but `ResyncsEventually` is safety. `FairSpec` of `packet_decoder` assumes
`WF_vars(Arrive)`: the telemetry task runs in a periodic endless loop
(`rtostwin.c:66-116`), so bytes keep coming, and the damage of the line ends, since
`MaxDamage` is finite. No fairness is assumed of the damage itself. The property carries
its own condition, that in the end no frame has what looks like a start inside
(section 7).

## 5. Proofs

All theorems hold for arbitrary constants under the assumptions named in the modules
(`WireAssumption`, `AgentAssumption`, `EngineAssumption`, `DecoderAssumption`,
`FrameAssumption`, `LifecycleAssumption`, `HostAssumption`, `ExporterAssumption`,
`LegacyAssumption`, `CodecAssumption`, `ErrorsAssumption`), which TLC evaluates in the
runs. Some ask for more than a type, and the code has it:

* `SeqMod` is at least 2 (`WireAssumption`, `LegacyAssumption`): with a single number a
  repeated packet would pass for the next one. It is 2^16.
* A keyframe of the archived agent fits its packet (`SnapshotBytes + Overhead <=
  MaxPacketSize`), so that a frame is never refused for its size.
* `MinSamples` is at least 1 (`HostAssumption`): the verdict looks at the last sample of
  the window. It is 30.
* 0 and 1 are values of a gauge, and `StateNames` is a sequence (`ExporterAssumption`).
* A scale of 100 fits a word (`EngineAssumption`), the two sync bytes differ and a frame
  is as long as its header says (`DecoderAssumption`, `FrameAssumption`).
* The names of the agent's tasks are shorter than their field (`CodecAssumption`), as
  `take_snapshot` cuts them, and a snapshot is what `full_snapshot_t` can hold. An error
  on the line is any pattern of bits over two neighbouring bytes but the empty one
  (`ErrorsAssumption`).

Eight modules hold theorems: one `_proofs` module for each of `TelemetryLink`,
`SnapshotEngine`, `PacketDecoder`, `Lifecycle`, `BridgeHost`, `LegacyAgent`, `Exporters`
and `Codec`. Every inductive invariant was checked by TLC on the run
of its module before it was proved.

A module that needs facts on remainders and quotients states them first.
`BridgeHost_proofs`, `Exporters_proofs` and `Codec_proofs` begin with two on induction:
`LeastNatural` (a set of naturals that is not empty has a least one) and `InductionOnSet`
(a set with 0 and the successors of its members has every natural). They speak of sets
and not of predicates, so that the provers can instantiate them: a statement about every
prefix of a sequence, or every turn of a loop, is proved by showing that the set of
lengths for which it holds is inductive.

`TelemetryLink_proofs`

* `TypeCorrect`, `HeadersCorrect`: types are not inductive alone. A delta header on a
  keyframe payload would make `StateManager` apply what is no table of fields, so
  `TypeInv` adds that the flag describes the payload (`FlagGood`) and that every packet
  in flight has the right header (`HeadersGood`).
* `DropCountCorrect`: the drop count lags behind the gap count by at most the number of
  packets that found a gap and are still to be handled (`DropLag`).
* `LossRatioCorrect`: the drop count never exceeds the packet count, so the packet loss
  both exporters compute from them stays a fraction.
* `SyncedStateCorrect`: the main result. The baseline moves before the packet is sent,
  so it runs ahead of the host. The invariant `LinkInv` says what keeps this harmless: a
  cycle is `Used` when the host shows it or a packet of it is in flight; a packet of
  cycle `c` is a keyframe or, *if cycle `c - 1` is used*, the delta to exactly that
  snapshot (`Carries`); and the baseline is the snapshot of the cycle before unless that
  cycle is unused (`BaselineGood`). A cycle that was never sent can be a baseline nobody
  has, and then no host can be contiguous with the delta.
* `LinkImplementsMirror`: every step of the link is a step or a stutter of `Mirror`.
  That the mirror never goes back rests on `OrderInv`: the frame in the buffer, those a
  transfer may deliver, those on the line and those in the chunk are in the order of
  their cycles, and none is older than what the host shows, although frames are lost and
  overwritten and the task is deleted and made again.
* `GapCheckCorrect`: cycles that follow each other are never taken for a gap, and until
  `SeqMod` cycles in a row are lost (`outage`) no gap is overlooked either, however long
  the system runs. `SequenceInv` says of each decoded packet that its gap flag compares
  the numbers of the right two cycles; `OrderInv` puts them in order, and less than a
  turn apart equal remainders mean equal cycles (`ModClose`).
* `TornBaselineNeverUsed`: when the buffers hold every payload (`BuffersFit`), a torn
  baseline is met by a forced keyframe only. `small_buffer` shows why the assumption is
  there, and that what the host trusts is right without it.

`SnapshotEngine_proofs`

* `TypeCorrect` includes the clamp of the busy share for words of any width.
* `HeapFieldsCorrect`: the lowest free heap is read second and never rises, so at the
  second read it is at most what the first read found (`HeapInv`).
* `PeriodWriteBackCorrect`: follows from the priorities alone, without a type invariant.

`PacketDecoder_proofs`

* `TypeCorrect`: each counter is short of the size it counts to when a byte comes in,
  which is why tests for equality are enough.
* `HuntingFindsFrameCorrect`: `InStep` says where the machine is, position by position,
  in a frame it hunted for and that is whole so far; the header it holds is that of the
  frame, so the payload ends where the frame's does.
* `CleanLineCorrect`: without damage every frame is hunted for and whole, since the
  machine hunts again after the last byte of a frame it was in step with.

`Lifecycle_proofs`

All of them hold for any number of application tasks that call any of the functions at
any time; none assumes that callers are kept apart, which the code does not do.

* `HandleAgrees`: a handle names a live task or is about to be cleared, whoever calls. A
  task that the handle does not name comes of a double start and of nothing else: with
  `OneStart`, whatever the stops and initialisations do, `HandleIfOneStart` is inductive. It
  says that at most one caller stands before a creation and finds no handle there, and that
  between `vTaskDelete` and the clearing one caller stands and no task is alive.
* `DeleteIsSafe`: with `OneStop` as well, one caller at a time is between the check of
  `rtostwin_stop` and its end (`HandleIfOneStop`), so what it deletes is alive. Both
  conditions are needed: TLC finds `vTaskDelete` of a dead task or of `NULL` after two stops
  at once, and also after two starts at once, when the creation that fails sets the handle
  to `NULL` behind the check of a stop.
* `ElapsedIsExact`: `ClockInv` says that, with `OneInit`, `profiler_init`, which sets the
  counter to 0, runs only before the first task exists, and that for every task that
  measures the counter is its start plus the cycles that passed, less at most one turn. It
  holds of two tasks as well.
* `WindowIsBounded`: `WindowInv` counts the samples by the loop count modulo the
  interval, for each place in the cycle. A wrap of the loop count only shortens a
  window.
* `MeanIsInRange`: `MeanInv` says of the statistics, place by place, that the total lies
  between the count times the minimum and the count times the maximum (`Spans`);
  `SpansBoundMean` divides. What a task keeps in its own local (`SnapInv`) needs no
  condition. The same bound shows that the cast of the quotient to 32
  bits cuts nothing off.

`BridgeHost_proofs`

* `TypeCorrect`: the window never outgrows the deque, no age its limit.
* `SteadyRaisesNoAlarm`: while the heap of the device has not fallen, the samples in the
  window never fall either (`SteadyInv`; the 0 fed before the first keyframe is below
  them all). That this cannot look like a leak is Chebyshev's inequality:
  `RisingTogether` shows that the covariance of two sequences that both rise is not
  negative, by induction over the window (`CovariancePrefix`), so the slope is not
  negative, and the first sample is the least, so the floor does not drop.
* `LeaksAreProjected`: on samples of a falling line the regression is exact.
  `LinearTotals` gives the sums of such a window in terms of those of the times, hence r
  squared is 1 and slope and intercept cancel to the very time at which the line meets 0
  (`LeakFits`, `LeakIsProjected`). `VariancePositive` keeps the division from being
  one by zero: two different times are enough.
* `HeardStayRegistered`: `AgeInv` says that the time in the `StateManager` is the
  silence of the line, also across the replacement of the `DeviceState` by a keyframe.

`LegacyAgent_proofs`

* `TypeCorrect`: `ProfilerInv` says how many calls are counted at each place of the
  cycle, and that without `profiler_init` every figure but the count stays 0.
* `ReaderKeepsUp`: `CarryInv` is to this agent what `LinkInv` is to the later one: a
  frame leads from the one made before it, wherever the two are, and says nothing of
  slots without a task because nothing of them changes. `NumberInv` relates the numbers
  of frames in the buffer, in transmission and at the reader, so that without an outage
  of a whole turn an expected number means the next frame.
* `GapsAreLosses`: a reader that counts a gap did miss a frame.

`Exporters_proofs`

The difficulty is that the writes of a push are concatenations of concatenations.
`FlattenSeq` of the library is a recursive function; `FlattenOwned` shows that its
result has an *owner map*: each position belongs to one of the sequences, owners rise
with the positions, and every element of every sequence has a position. From it follow
the places at which a task writes a gauge (`PrometheusOwned`) or puts an entry
(`PutsOwned`), and that the last of them belongs to the last task of that name
(`NamedSets`, `NamedWrites`).

* `TypeCorrect`: gauges and family lists agree between any two steps; a dictionary holds
  a name once.
* `ExportersAlwaysAgree`: `GaugeInv` says that a gauge has the value of the last write
  to it that is done, `TableInv` that a dictionary, once cleared, has for each name the
  entry that was put last. When all writes are done these are the ones of the tasks in
  `Named`.
* `ScrapesAreFresh`: `FreshInv` follows the state shown and the state at the beginning
  of a scrape: each of their gauges has its value still, or one of a state pushed since.
  A completed push re-establishes it by `GaugeInv`. It needs `OneWriter`: of two tasks
  with one name the earlier one writes a value no state keeps.
* `TakenTablesWhole`: `ExportInv` says that a callback which took a whole dictionary
  iterates over that very sequence of entries, and that as long as the exporter holds
  the same object it is not being filled. `NotFillingStep` is the point: the next write
  to such a dictionary is its replacement, never an entry.

`Codec_proofs`

Here the work is in the operators, and most lemmas say what a loop of the code computes.
A recursive function of the model is what it is only if such a function exists:
`LoopExists` and its like show that first, by induction, and the value of each turn
follows.

* The CRC. A register is a vector of 16 bits. A shift and so the turn for one byte
  preserve the exclusive or of two registers and are one to one (`ShiftLinear`,
  `ShiftInjective` and what follows from them); `CrcOver`, which computes half by half,
  is the loop turn by turn (`OverIsTurns`). Two sequences that differ in one place, or in
  two side by side, have different registers behind it, and equal bytes after it keep
  them different: `DamageBeforeCrc`. Damage in the two bytes of the CRC is plain
  (`DamageInCrc`). What lies across the boundary, a byte of the payload and the low byte
  of the CRC, is the difficult case, because the CRC is sent low byte first:
  `DamageAcross` computes which errors of the payload byte leave the high byte of the CRC
  alone. There is one, and its low byte gives the one accepted error, in every frame.
* The bytes. `At(s, at, p)` says that `p` stands in `s` behind `at` bytes. `FrameIsPacked`
  places the parts of a frame, `KeyframeBack` those of a keyframe, and each reader gets
  back what was put there (`LeStands`, `NameBack`, `TaskBack`).
* The delta. The loop of `_apply_delta_payload` knows no places, only tags. After the
  first j entries it stands behind them and its state has the first j values of the new
  snapshot, the others as they were (`Mixed`); one more entry is one turn
  (`TurnOfEntry`, `NextBehind`), an entry that is left out leaves a value that is right
  already, and at the end the loop stays where it is (`RunEnds`): `DeltaBack`.
* `CodecInvariant` ties these to the steps. An undamaged frame on the line is accepted
  and brings the host up to date *if it was so or if the frame is a keyframe*
  (`LineHolds`); a host that is up to date knows names and values of the baseline
  (`Good`), which is why a delta, written against that baseline, is right for it; an
  empty delta is not sent because nothing has changed. `CrashHolds` says that the crash
  buffer is written once, into zeros.
* `TypeCorrect`, `RoundTrips`, `DamageIsRejected` and `CrashIsRead` follow from it, for
  any snapshots, with numbers in their full widths.
* `SizesAreRight`: the entries of a delta are counted by width while they are laid down
  (`MeasuredAll`), and the places that differ are exactly the pairs and fields of the
  abstract delta (`ChangedIs`), each once (`PlaceOnce`).

*Model-checked only:* `ResyncsEventually`, since liveness under fairness is out of the
prover's reach. Every other property of the runs that pass is a theorem.

## 6. Hazards and the properties for them

`PROJECT.json` lists every hazard with its line and the properties that would notice it
go wrong, and says of the others why there is none yet.

## 7. Where documents and code disagree

Each run below checks one sentence of the repository and TLC finds it violated.

| Run | The sentence | What happens |
|---|---|---|
| `false_loss` | `prometheus_exporter.py:81`, fraction of packets dropped | a cycle without changes consumes a sequence number and sends nothing: the next packet counts as a loss |
| `idle_system` | `PRD/TECH_SPEC.md:264-268`, idle share of the period, counters reset every period | the idle count is reset and the period is not: an idle system shows 0 percent at the first two captures, 50 at the third and nearly 100 later |
| `stale_task` | `prometheus_exporter.py:39`, 1 if the task is currently in the labelled state, 0 otherwise | the gauges of a task that is gone keep their last value, a 1 among them; the OTLP exporter starts from an empty dictionary and does not have this |

Others were met while modelling and have no run of their own.

In the agent:

* the sixteenth task has no tag in a delta (`encoder.c:191`), although the baseline follows
  it (`encoder.c:230`), so the host keeps its old values until the next keyframe;
  `src/README.md:154` says the full device state is reconstructed from keyframes and
  deltas. `SyncedStateExact` and `RoundTrip` are about the slots with a tag;
* a task deleted between listing and copying leaves a pointer to freed memory in the
  status buffer (`snapshot.c:59`), which `PRD/CODING_RULES.md:146` says is only accessed in
  a critical section;
* keyframes follow `loop_count`, which restarts with the task, and not `sequence_num` as
  `PRD/TECH_SPEC.md:165` has it;
* the increment of `s_idle_ticks` in the idle hook is a load and a store, so a capture
  between the two has its reset undone (`hooks.c:36`, `snapshot.c:86-89`);
* `uart_dma.h:27-29` asks the caller to keep the buffer valid until the transfer
  completes, and a cycle that is late against the line frames the next packet into the
  buffer in transmission (`rtostwin.c:84`); `TelemetryAgent` models it as `dma.over`;
* two tasks that call `rtostwin_start` at once can create two telemetry tasks, one of which
  no handle names, and two that call `rtostwin_stop` can delete one task twice
  (`rtostwin.c:146-171`); of two that call `rtostwin_init` one can reset counter and
  statistics beside the task the other has started (`rtostwin.c:121-131`). No document
  says that the functions may be called from several tasks, nor that they may not, and
  `test_rtostwin_lifecycle.c:150` calls them one after the other only. Between `vTaskDelete`
  and the clearing of the handle `rtostwin_start` answers `ALREADY_STARTED` though nothing
  runs;
* the CRC is sent low byte first (`framer.c:63-64`, `decoder.py:140`), so the last byte of the
  payload and the first of the CRC are no neighbours in the polynomial: the damage
  `0x89, 0xA1` of these two passes, a burst of 16 bits.
  `src/rtos_twin_learning/roadmap/roadmap.md:150` says that all bursts of up to 16 bits
  are detected. `DamageRejected` names exactly this exception.

In the bridge:

* damage in one frame makes the decoder swallow the next, which arrived whole, and not
  look at it again (`decoder.py:130-146`); `src/roles/ryn_role_assignment.md:549` asks it to
  re-sync correctly after garbage;
* a heap that falls once and stays has r squared 0.75 when the step is in the middle of
  the window, above the limit of 0.7, and is projected as a leak
  (`oom_analyzer.py:105`); `PRD/PRD.md:56` wants no false positive in steady state;
* a heap of 0 is projected to 0.0 seconds; the docstring at `oom_analyzer.py:82` says
  more than 0, and `main.py:84` stays silent at the moment of the exhaustion;
* `purge_offline_devices` and `remove` are called by nothing in `src/`. A purge forgets the
  drop count while the decoder's gap count goes on, and leaves the analyzer its
  window: the 0 of the new, empty `DeviceState` then looks like a fall, which is why
  `SteadyHeapQuiet` asks that there was no purge;
* the mock device drops 10 bytes per turn, ten turns a second (`mock_device.py:119, 131`),
  and promises 10 bytes a second (`mock_device.py:100`);
* after a lost delta the host can show more lowest-ever heap than free heap, under the
  description of `prometheus_exporter.py:63`, lowest free heap ever observed;
* `rtos.task.state` of the OTLP exporter is described as 1 if the task is in this state
  and 0 otherwise (`otlp_exporter.py:121`) and is the number of the state
  (`otlp_exporter.py:172`).

In the archive: the task loop passes four arguments where the framer beside it takes
seven; it never calls `profiler_init`, so it reports 0 cycles; its period count is
never reset either; its deltas name no task, so after a reordering of the task list a reader shows right values beside the wrong names
until the next keyframe (`ReaderExact` leaves the names out).

Frames whose payload contains what looks like the start of a frame can keep the decoder
out of step for as long as they repeat: a header forged by the payload with a length
that reaches past the next start. That is why `ResyncsEventually` asks for
frames without inner sync bytes in the end; the CRC keeps the bridge from believing any of it.

## 8. Abstractions, and what is not modelled

* A timestamp is the cycle number; `xTaskGetTickCount` may give equal ticks to two
  cycles only if the period is below a tick.
* In the link a capture is one step over the constant `Snapshots`: what a capture can
  find is the subject of `SnapshotEngine`. The sequence number `s_snap_seq` is never
  reset, as in the code.
* In the link the calls of the application are atomic; `Lifecycle` takes them apart, and
  there the packets are left out.
* Deltas of unknown tasks, which `_apply_delta_payload` ignores, are ignored.
* In `PacketDecoder` and the link the CRC is ideal. `Codec` has the real one and shows how far
  this is true of damage to two neighbouring bytes; any other damage passes with
  probability 2^-16.
* The regression is exact where `scipy` is in floating point: a window whose r squared
  is 0.7 to the last bit may be judged either way.
* In `BridgeHost` and `Exporters` there is one device, as `run_bridge` has one port.
* The reports of profiler and measurement are modelled by the figures they print.
* DWT registers, UART registers, the FreeRTOS kernel: hardware and third-party code,
  represented by what the modelled code sees of them.
* The mock device: its frames are in `Codec`; the figures of its three modes are not
  modelled. Configuration and the two demo scripts are constants and calls by hand.
* The examples call `rtostwin_init` and `rtostwin_start` once before the scheduler starts;
  their own tasks simulate work. Dashboards, `docker-compose.yml` and `prometheus.yml`
  configure third-party services.
* A build with `RTOSTWIN_ENABLE` 0 compiles the agent out; one without
  `RTOSTWIN_ENABLE_PROFILING` prints and resets nothing. The models are of the default.
* Of the archive: the count of idle ticks (the utilisation is an input of `LegacyAgent`),
  the framer nothing can call, a second `vApplicationIdleHook` that would not link beside
  the first, and the bridge behind the sequence check, whose state manager and decoder
  do not fit together.
* The learning material under `src/rtos_twin_learning`: exercises whose functions have no
  body yet, and demonstrations of C that keep no state. They are part of no program.
* `src/agent` holds the wire format the agent includes, and it is modelled from there.
