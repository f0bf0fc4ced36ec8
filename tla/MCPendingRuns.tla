---------------------------- MODULE MCPendingRuns ----------------------------
(* Small instances of PendingRuns for TLC. *)
EXTENDS PendingRuns
CONSTANTS d1, a1, a2
=============================================================================
