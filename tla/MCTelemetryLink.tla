-------------------------- MODULE MCTelemetryLink ---------------------------
(***************************************************************************)
(* TelemetryLink on a system of at most two tasks, of which a delta can    *)
(* name one.                                                               *)
(***************************************************************************)
EXTENDS TelemetryLink

Fields(st) == [f \in TaskFields |-> IF f = "state" THEN st ELSE 0]

Mem(free, min) ==
    [f \in MemoryFields |-> CASE f = "heap_free_bytes" -> free
                              [] f = "heap_min_ever_bytes" -> min
                              [] OTHER -> 0]

Tasks(t0, t1) == [i \in 0..1 |-> IF i = 0 THEN t0 ELSE t1]

(* Two tasks; the first one busy, with less heap; the second one busy. *)
Two      == [tasks  |-> Tasks([name |-> "idle", field |-> Fields(0)],
                              [name |-> "app", field |-> Fields(0)]),
             memory |-> Mem(2, 2)]
TwoBusy  == [Two EXCEPT !.memory = Mem(1, 1), !.tasks[0].field = Fields(1)]
AppBusy  == [Two EXCEPT !.tasks[1].field = Fields(1)]

(* The same tasks in the order uxTaskGetSystemState lists them later. *)
Swapped  == [tasks  |-> Tasks([name |-> "app", field |-> Fields(1)],
                              [name |-> "idle", field |-> Fields(0)]),
             memory |-> Mem(2, 1)]

(* One task is left. *)
One      == [tasks  |-> [i \in {0} |-> [name |-> "idle", field |-> Fields(1)]],
             memory |-> Mem(2, 1)]

(* A change a delta shows, and a change of the names. *)
MCRenaming == {Two, TwoBusy, Swapped}

(* A change a delta shows, and a change of the number of tasks. *)
MCResizing == {Two, TwoBusy, One}

(* A change a delta shows, and one in a task that no delta can name. *)
MCHidden == {Two, TwoBusy, AppBusy}
=============================================================================
