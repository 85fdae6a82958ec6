---------------------------- MODULE MCLegacyAgent ----------------------------
(* Two slots; tasks that join, leave, change and follow another in its slot. *)
EXTENDS LegacyAgent

Task(name, state, stack, ticks) ==
    [f \in TaskFields |-> CASE f = "name" -> name [] f = "state" -> state
                            [] f = "priority" -> 1 [] f = "stack_hwm_words" -> stack
                            [] f = "runtime_ticks" -> ticks]

MemoryOf(free) == [f \in MemoryFields |-> free]

A == Task(1, 0, 1, 0)
AReady == Task(1, 1, 1, 1)
B == Task(2, 0, 0, 0)

MCTasks == {A, AReady, B}

MCSystems ==
    {[tasks |-> <<A>>, memory |-> MemoryOf(1)], [tasks |-> <<AReady>>, memory |-> MemoryOf(0)],
     [tasks |-> <<AReady, B>>, memory |-> MemoryOf(1)],
     [tasks |-> <<B, AReady>>, memory |-> MemoryOf(1)]}
=============================================================================
