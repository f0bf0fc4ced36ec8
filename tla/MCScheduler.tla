----------------------------- MODULE MCScheduler -----------------------------
(* A small instance of Scheduler for TLC. *)
EXTENDS Scheduler
CONSTANTS a, p1
MCTimes == 0..MaxTime
\* A period of the group's own, shorter than the global one.
OwnPeriods == [g \in Groups |-> Period - 1]
=============================================================================
