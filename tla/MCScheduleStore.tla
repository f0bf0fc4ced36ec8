--------------------------- MODULE MCScheduleStore ---------------------------
(* Small instances of ScheduleStore for TLC. *)
EXTENDS ScheduleStore
CONSTANTS daemon, adhoc, g1, p1
=============================================================================
