---------------------------- MODULE ScheduleStore ----------------------------
(***************************************************************************)
(* ScheduleStore: the daemon, ad-hoc runs and status commands share        *)
(* schedule.json.  An update takes the state flock, re-reads the file,     *)
(* mutates what it read, writes it to a temporary file and renames that    *)
(* over the state file.  Reading needs no lock.  Any step may fail, and a  *)
(* process may die at any step: the kernel drops its lock, its temporary   *)
(* file stays behind until a later start sweeps it.                        *)
(***************************************************************************)
EXTENDS ScheduleData

CONSTANTS Procs, Corrupt, NoProc

ASSUME ProcsAssumption == NoProc \notin Procs /\ Corrupt \notin File

VARIABLES
  file,     \* the contents of schedule.json
  lock,     \* who holds the flock on schedule.json.lock
  temp,     \* the processes whose temporary file exists
  pc,       \* where each process is; its mutex admits one call at a time
  mutation, \* what its current update applies
  next,     \* f in update: the contents it is about to write
  view      \* its in-memory groups and pending

vars == <<file, lock, temp, pc, mutation, next, view>>

States == {"down", "sweeplock", "sweep", "load", "idle", "lock", "read", "create",
           "rename", "publish", "unwritten"}

Init ==
  /\ file \in {Empty, Corrupt}
  /\ lock = NoProc /\ temp = {}
  /\ pc = [p \in Procs |-> "down"]
  /\ mutation = [p \in Procs |-> [op |-> "none"]]
  /\ next = [p \in Procs |-> Empty]
  /\ view = [p \in Procs |-> Empty]

Goto(p, s) == pc' = [pc EXCEPT ![p] = s]
Readable(d) == IF d = Corrupt THEN Empty ELSE d

\* The call is over: its local variables are gone.
Forget(p) ==
  /\ mutation' = [mutation EXCEPT ![p] = [op |-> "none"]]
  /\ next' = [next EXCEPT ![p] = Empty]

-----------------------------------------------------------------------------
(* LoadSchedule. *)

Start(p) ==
  /\ pc[p] = "down"
  /\ Goto(p, "sweeplock")
  /\ UNCHANGED <<file, lock, temp, mutation, next, view>>

\* sweepStaleTempFiles, skipped when the lock cannot be taken.
SweepLock(p) ==
  /\ pc[p] = "sweeplock"
  /\ lock = NoProc
  /\ lock' = p
  /\ Goto(p, "sweep")
  /\ UNCHANGED <<file, temp, mutation, next, view>>

\* Faulty: the sweep goes on when it could not lock.
SweepLockErrorIgnored(p) ==
  /\ pc[p] = "sweeplock"
  /\ Goto(p, "sweep")
  /\ UNCHANGED <<file, lock, temp, mutation, next, view>>

SweepLockError(p) ==
  /\ pc[p] = "sweeplock"
  /\ Goto(p, "load")
  /\ UNCHANGED <<file, lock, temp, mutation, next, view>>

\* Some may resist removal.
Sweep(p) ==
  /\ pc[p] = "sweep"
  /\ temp' \in SUBSET temp
  /\ lock' = NoProc
  /\ Goto(p, "load")
  /\ UNCHANGED <<file, mutation, next, view>>

\* Reload: a file that cannot be read, or parsed, makes every group due.
Reload(p) ==
  /\ pc[p] \in {"load", "idle"}
  /\ \/ view' = [view EXCEPT ![p] = Readable(file)]
     \/ view' = [view EXCEPT ![p] = Empty]
  /\ Goto(p, "idle")
  /\ UNCHANGED <<file, lock, temp, mutation, next>>

-----------------------------------------------------------------------------
(* update. *)

Update(p, m) ==
  /\ pc[p] = "idle"
  /\ mutation' = [mutation EXCEPT ![p] = m]
  /\ Goto(p, "lock")
  /\ UNCHANGED <<file, lock, temp, next, view>>

Lock(p) ==
  /\ pc[p] = "lock"
  /\ lock = NoProc
  /\ lock' = p
  /\ Goto(p, "read")
  /\ UNCHANGED <<file, temp, mutation, next, view>>

\* Faulty: the update goes on when it could not lock.
LockErrorIgnored(p) ==
  /\ pc[p] = "lock"
  /\ Goto(p, "read")
  /\ UNCHANGED <<file, lock, temp, mutation, next, view>>

\* The lock cannot be taken: the update is skipped.
LockError(p) ==
  /\ pc[p] = "lock"
  /\ Goto(p, "idle") /\ Forget(p)
  /\ UNCHANGED <<file, lock, temp, view>>

\* Read and mutate.  A mutation that changes nothing ends the call, view and
\* all, unless there is a corrupt file to replace.
ReadUnchanged(p) ==
  /\ pc[p] = "read"
  /\ file # Corrupt /\ ~Changes(mutation[p], Readable(file))
  /\ Goto(p, "idle") /\ lock' = NoProc /\ Forget(p)
  /\ UNCHANGED <<file, temp, view>>

Read(p) ==
  /\ pc[p] = "read"
  /\ file = Corrupt \/ Changes(mutation[p], Readable(file))
  /\ next' = [next EXCEPT ![p] = Apply(mutation[p], Readable(file))]
  /\ Goto(p, "create")
  /\ UNCHANGED <<file, lock, temp, mutation, view>>

\* A read error: an empty read must never clobber good state.
ReadError(p) ==
  /\ pc[p] = "read"
  /\ Goto(p, "idle") /\ lock' = NoProc /\ Forget(p)
  /\ UNCHANGED <<file, temp, view>>

\* writeFile: the new contents go to a temporary file ...
CreateTemp(p) ==
  /\ pc[p] = "create"
  /\ temp' = temp \cup {p}
  /\ Goto(p, "rename")
  /\ UNCHANGED <<file, lock, mutation, next, view>>

\* ... which cannot be created or written; errors are logged, not returned ...
WriteError(p) ==
  /\ pc[p] \in {"create", "rename"}
  /\ temp' = temp \ {p}
  /\ Goto(p, "unwritten")
  /\ UNCHANGED <<file, lock, mutation, next, view>>

\* Faulty: the lock goes before the view is assigned.
RenameReleasing(p) ==
  /\ pc[p] = "rename"
  /\ p \in temp
  /\ file' = next[p]
  /\ temp' = temp \ {p}
  /\ lock' = NoProc
  /\ Goto(p, "publish")
  /\ UNCHANGED <<mutation, next, view>>

\* ... or is renamed over the state file, if nobody removed it.
Rename(p) ==
  /\ pc[p] = "rename"
  /\ p \in temp
  /\ file' = next[p]
  /\ temp' = temp \ {p}
  /\ Goto(p, "publish")
  /\ UNCHANGED <<lock, mutation, next, view>>

\* The view becomes what was written, or would have been; then the lock goes.
Publish(p) ==
  /\ pc[p] \in {"publish", "unwritten"}
  /\ view' = [view EXCEPT ![p] = next[p]]
  /\ lock' = NoProc
  /\ Goto(p, "idle") /\ Forget(p)
  /\ UNCHANGED <<file, temp>>

\* Faulty: the lock is the existence of a file, which outlives its creator.
DieHolding(p) ==
  /\ pc[p] # "down"
  /\ view' = [view EXCEPT ![p] = Empty]
  /\ Goto(p, "down") /\ Forget(p)
  /\ UNCHANGED <<file, lock, temp>>

\* The process dies.  A temporary file of an earlier life may still be there
\* too; one name stands for both.
Die(p) ==
  /\ pc[p] # "down"
  /\ lock' = IF lock = p THEN NoProc ELSE lock
  /\ view' = [view EXCEPT ![p] = Empty]
  /\ Goto(p, "down") /\ Forget(p)
  /\ UNCHANGED <<file, temp>>

-----------------------------------------------------------------------------
Step(p) ==
  \/ Start(p) \/ SweepLock(p) \/ SweepLockError(p) \/ Sweep(p) \/ Reload(p)
  \/ \E m \in Mutation : Update(p, m)
  \/ Lock(p) \/ LockError(p) \/ ReadUnchanged(p) \/ Read(p) \/ ReadError(p)
  \/ CreateTemp(p) \/ WriteError(p) \/ Rename(p) \/ Publish(p)
  \/ Die(p)

Next == \E p \in Procs : Step(p)

Spec == Init /\ [][Next]_vars

\* A call goes on, and a process waiting for the flock is served: the kernel
\* queues blocking flock calls.
Fairness ==
  \A p \in Procs :
    /\ SF_vars(Lock(p) \/ SweepLock(p))
    /\ WF_vars(\/ Sweep(p) \/ ReadUnchanged(p) \/ Read(p)
               \/ CreateTemp(p) \/ WriteError(p) \/ Rename(p) \/ Publish(p))

FairSpec == Spec /\ Fairness

-----------------------------------------------------------------------------
TypeOK ==
  /\ file \in File \cup {Corrupt}
  /\ lock \in Procs \cup {NoProc}
  /\ temp \subseteq Procs
  /\ pc \in [Procs -> States]
  /\ mutation \in [Procs -> Mutation \cup {[op |-> "none"]}]
  /\ next \in [Procs -> File]
  /\ view \in [Procs -> File]

\* "Any temp seen here cannot be a live write" (sweepStaleTempFiles): the
\* sweep of a process that starts never takes the temporary file from under a
\* process about to rename it, which would lose that update.
LiveTempKept == \A p \in Procs : pc[p] = "rename" => p \in temp

\* What an update puts in memory, for the scheduler and status to decide on, is
\* what schedule.json holds at that moment, unless writing it failed: nobody
\* gets in between the rename and the assignment (update).
PublishedIsOnDisk == \A p \in Procs : pc[p] = "publish" => file = next[p]

Atomic == INSTANCE AtomicSchedule WITH disk <- file

\* No update is lost, whoever else writes, fails or dies: schedule.json only
\* changes by a mutation of what it holds ("a daemon and an ad-hoc run racing").
ImplementsAtomicSchedule == Atomic!Spec

\* An update waits for the state lock only so long: a process that dies while
\* it holds the lock does not block the others' bookkeeping.
UpdatesEnd == \A p \in Procs : pc[p] = "lock" ~> pc[p] \in {"idle", "down"}
=============================================================================
