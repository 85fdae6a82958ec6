---------------------------- MODULE MCExporters -----------------------------
(***************************************************************************)
(* Exporters with two task names and two task states: a task changes its   *)
(* state, its figures fall to 0, two tasks with one name come and go.      *)
(***************************************************************************)
EXTENDS Exporters

TaskIn(name, st, value) ==
    [name |-> name, state |-> st, gauge |-> [g \in Range(TaskGauges) |-> value]]

DeviceWith(value, tasks) ==
    [device |-> [g \in Range(DeviceGauges) |-> value], tasks |-> tasks]

MCStateNames == <<"ready", "blocked">>

MCDeviceStates ==
    {DeviceWith(2, <<TaskIn("idle", "ready", 2)>>),
     DeviceWith(0, <<TaskIn("idle", "blocked", 0), TaskIn("app", "ready", 1),
                     TaskIn("app", "blocked", 2)>>)}
=============================================================================
