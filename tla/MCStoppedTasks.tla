--------------------------- MODULE MCStoppedTasks ---------------------------
(* StoppedTasks with two generations of tasks in one slot.                   *)
EXTENDS StoppedTasks

MCTasks == {"a1", "a2"}
MCSlotOf == [t \in Tasks |-> "a"]
MCCreated == [t \in Tasks |-> IF t = "a2" THEN 2 ELSE 1]
=============================================================================
