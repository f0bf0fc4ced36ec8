----------------------------- MODULE MCRunLocks -----------------------------
(* Small instances of RunLocks for TLC. *)
EXTENDS RunLocks, TLC

CONSTANTS daemon, adhoc, restore, b1, b2, b3, b4, a1, x1

MCProcs == {daemon, adhoc, restore}
\* Two groups in the daemon, one of them in an ad-hoc run too, one restore.
MCBackups == {b1, b2, a1}
MCRestores == {x1}
MCProcOf == (b1 :> daemon) @@ (b2 :> daemon)
              @@ (a1 :> adhoc) @@ (x1 :> restore)
MCGroupOf == (b1 :> 1) @@ (b2 :> 2) @@ (a1 :> 1)
Snap(hooks, repos) == [snapshotHooks |-> hooks, repos |-> repos]
\* Group 1 has moved from repository 2 to both; the groups share both.
MCMetas == <<{Snap(TRUE, {1, 2}), Snap(FALSE, {2})}, {Snap(FALSE, {1, 2})}>>
\* The restore's generation knows only one repository of group 1.
MCRestorePlans == {[volume |-> 1, groups |-> {1}, repos |-> {1}]}

\* The daemon alone: three groups that share two repositories and the
\* snapshot facility, and an overlapping call for the first group.
QueueProcs == {daemon}
QueueBackups == {b1, b2, b3, b4}
QueueProcOf == [b \in QueueBackups |-> daemon]
QueueGroupOf == (b1 :> 1) @@ (b2 :> 2) @@ (b3 :> 3) @@ (b4 :> 1)
QueueMetas == <<{Snap(TRUE, {1, 2})}, {Snap(FALSE, {1, 2})}, {Snap(TRUE, {2})}>>
=============================================================================
