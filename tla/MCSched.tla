------------------------------ MODULE MCSched -------------------------------
(* Three tasks, two kinds of quantum, sleeps of up to one tick.            *)
EXTENDS Sched

CONSTANTS t0, t1, t2

MCTasks == {t0, t1, t2}
MCPriorities == {"PRIO_HIGH", "PRIO_IDLE"}

=============================================================================
