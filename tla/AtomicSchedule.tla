--------------------------- MODULE AtomicSchedule ---------------------------
(***************************************************************************)
(* What the schedule store promises: however many processes share          *)
(* schedule.json, and whatever crashes, the file changes only by one       *)
(* mutation at a time applied to what the file holds at that moment.  No   *)
(* process ever overwrites another's update.  A corrupt file counts as     *)
(* empty, and is replaced by the first update.                             *)
(***************************************************************************)
EXTENDS ScheduleData

CONSTANT Corrupt    \* contents that cannot be parsed
VARIABLE disk

Readable(d) == IF d = Corrupt THEN Empty ELSE d

Init == disk \in File \cup {Corrupt}

Next == \E m \in Mutation : disk' = Apply(m, Readable(disk))

Spec == Init /\ [][Next]_disk
=============================================================================
