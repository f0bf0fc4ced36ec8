----------------------------- MODULE PendingRuns -----------------------------
(***************************************************************************)
(* Reaping the dump helpers of crashed runs, and only of crashed runs.     *)
(*                                                                         *)
(* Before it starts borgmatic, a run takes a liveness lock of its own      *)
(* (pending-<id>.lock), then records its run ID in schedule.json.          *)
(* borgmatic's hooks start helper containers that wear the ID.  When the   *)
(* run is over it removes the helpers, clears the record, releases the     *)
(* lock and unlinks the file.  A daemon that starts reaps every recorded   *)
(* run whose lock it can take, or whose lock file is missing and whose PID *)
(* is gone, then sweeps the unreferenced lock files.  A status command     *)
(* probes the same locks.                                                  *)
(*                                                                         *)
(* A flock is on an inode, not on a path: a file that is unlinked and      *)
(* created again is another inode, and open and flock are two steps.       *)
(***************************************************************************)
EXTENDS Naturals

CONSTANTS
  DaemonRuns,       \* run IDs of the daemon's runs
  AdhocRuns,        \* run IDs of ad-hoc runs, one process each
  NoRun,            \* no run ID
  ProbedRuns,       \* those of them a status command gets to
  Faults            \* whether locking, reaping or saving may fail

Runs == DaemonRuns \cup AdhocRuns

ASSUME ConstantsAssumption ==
  /\ DaemonRuns \cap AdhocRuns = {} /\ NoRun \notin Runs
  /\ ProbedRuns \subseteq Runs /\ Faults \in BOOLEAN

\* Inodes a path may have over time; 0 is none.  Four are enough: one at the
\* path and one for each actor that may have the file open.
Inodes == 1..4

VARIABLES
  path,      \* the inode at each run's lock path
  rec,       \* the runs recorded as pending in schedule.json
  helpers,   \* the runs that have helper containers
  child,     \* the runs whose borgmatic is alive
  pidLive,   \* the runs whose recorded PID belongs to a live process
  run,       \* where each run's goroutine is
  runFile,   \* its lock file: the inode it has open, and whether it holds it
  daemon,    \* where the daemon is
  mem,       \* the pending records in the daemon's memory
  todo,      \* the runs its current loop has still to visit
  cur,       \* the run it is visiting
  daemonFile,
  probe,     \* where the status command is
  probed,    \* the run it is visiting
  probeFile

\* History: no guard reads these.
VARIABLES
  unsaved,      \* the runs whose record could not be saved
  raced,        \* the runs whose file a sweep listed while they were about to lock it
  left,         \* those of them whose file was then left with nobody's lock on it
  reapedAlive   \* the runs reaped while in progress, or while their borgmatic lived

history == <<unsaved, raced, left, reapedAlive>>
races == <<raced, left, reapedAlive>>
runVars == <<run, runFile, child, pidLive>>
daemonVars == <<daemon, mem, todo, cur, daemonFile>>
probeVars == <<probe, probed, probeFile>>
vars == <<path, rec, helpers, runVars, daemonVars, probeVars, history>>

Closed == [inode |-> 0, held |-> FALSE]
File == [inode : {0} \cup Inodes, held : BOOLEAN]

RunStates == {"idle", "opened", "record", "spawn", "running", "reap", "clear",
              "release", "unlink", "done", "dead"}
DaemonStates == {"down", "reaping", "stat", "open", "flock", "kill", "clear",
                 "unlink", "release", "sweeping", "sopen", "sflock", "srelease",
                 "sremove", "up"}
ProbeStates == {"idle", "stat", "open", "flock", "release"}

Init ==
  /\ path = [r \in Runs |-> 0]
  /\ rec = {} /\ helpers = {} /\ child = {} /\ pidLive = {}
  /\ unsaved = {} /\ raced = {} /\ left = {} /\ reapedAlive = {}
  /\ run = [r \in Runs |-> "idle"]
  /\ runFile = [r \in Runs |-> Closed]
  /\ daemon = "down" /\ mem = {} /\ todo = {} /\ cur = NoRun /\ daemonFile = Closed
  /\ probe = "idle" /\ probed = NoRun /\ probeFile = Closed

-----------------------------------------------------------------------------
(* Lock files. *)

\* The files open on r's lock path, by all actors.
OpenFiles(r) == {runFile[r]} \cup (IF cur = r THEN {daemonFile} ELSE {})
                             \cup (IF probed = r THEN {probeFile} ELSE {})

Unused(r) == {i \in Inodes : \A f \in OpenFiles(r) : f.inode # i}

\* open with O_CREATE: the inode at the path, or a new one (the least unused:
\* only the identity of inodes matters).
Opens(r, i) ==
  IF path[r] # 0 THEN i = path[r] ELSE i \in Unused(r) /\ \A j \in Unused(r) : i <= j

\* History: the sweep is done with r's file and leaves it where it is.
Leaves(r) == left' = left \cup {q \in raced \cap {r} : runFile[q].inode # path[q]}

\* flock(LOCK_EX|LOCK_NB) on an inode of r's path succeeds.
Lockable(r, i) == \A f \in OpenFiles(r) : f.inode = i => ~f.held

Opened(i) == [inode |-> i, held |-> FALSE]
Held(f) == [f EXCEPT !.held = TRUE]

Create(r, i) == path' = [path EXCEPT ![r] = i]
Unlink(r) == path' = [path EXCEPT ![r] = 0]

-----------------------------------------------------------------------------
(* A run: runGroup from its liveness lock on. *)

Goto(r, s) == run' = [run EXCEPT ![r] = s]
MayStart(r) == r \in AdhocRuns \/ daemon = "up"

RunOpen(r) ==
  /\ run[r] = "idle" /\ MayStart(r)
  /\ \E i \in Inodes :
       /\ Opens(r, i)
       /\ Create(r, i)
       /\ runFile' = [runFile EXCEPT ![r] = Opened(i)]
  /\ pidLive' = pidLive \cup {r}
  /\ Goto(r, "opened")
  /\ UNCHANGED <<rec, helpers, child, daemonVars, probeVars, history>>

\* TryExclusive took the lock, or found it held: (nil, false, nil), which
\* neither branch handles, so the run goes on without a lock.
RunFlock(r) ==
  /\ run[r] = "opened"
  /\ runFile' = [runFile EXCEPT ![r] = IF Lockable(r, @.inode) THEN Held(@) ELSE Closed]
  /\ Goto(r, "record")
  /\ UNCHANGED <<path, rec, helpers, child, pidLive, daemonVars, probeVars, history>>

\* Faulty: the file that could not be locked stays, present and unheld.
RunLockErrorKeepingFile(r) ==
  /\ Faults
  /\ run[r] = "opened"
  /\ runFile' = [runFile EXCEPT ![r] = Closed]
  /\ Goto(r, "record")
  /\ UNCHANGED <<path, rec, helpers, child, pidLive, daemonVars, probeVars, history>>

\* Opening or locking fails: the file is removed and the PID stands in.
RunLockError(r) ==
  /\ Faults
  /\ \/ run[r] = "opened"
     \/ run[r] = "idle" /\ MayStart(r)
  /\ Unlink(r)
  /\ runFile' = [runFile EXCEPT ![r] = Closed]
  /\ pidLive' = pidLive \cup {r}
  /\ Goto(r, "record")
  /\ UNCHANGED <<rec, helpers, child, daemonVars, probeVars, history>>

\* ScheduleStore.update by the process of run r.  What it wrote becomes that
\* process's view.  It may be skipped (no lock, no read), and when only the
\* write fails the view still changes.
Update(r, pending) ==
  LET see(view) == mem' = IF r \in DaemonRuns THEN view ELSE mem
  IN \/ rec' = pending /\ see(pending)
     \/ Faults /\ rec' = rec /\ (see(mem) \/ see(pending))

\* Faulty: a run with no ID is recorded too.
RecordPendingWithoutID(r) ==
  /\ run[r] = "record"
  /\ Update(r, rec \cup {NoRun})
  /\ Goto(r, "spawn")
  /\ UNCHANGED <<path, helpers, child, pidLive, runFile, daemon, todo, cur, daemonFile,
                 probeVars, history>>

RecordPending(r) ==
  /\ run[r] = "record"
  /\ Update(r, rec \cup {r})
  /\ unsaved' = unsaved \cup ({r} \ rec')
  /\ Goto(r, "spawn")
  /\ UNCHANGED <<path, helpers, child, pidLive, runFile, daemon, todo, cur, daemonFile,
                 probeVars, races>>

\* borgmatic starts, or cannot be started.
Spawn(r) ==
  /\ run[r] = "spawn"
  /\ \/ child' = child \cup {r} /\ Goto(r, "running")
     \/ child' = child /\ Goto(r, "reap")
  /\ UNCHANGED <<path, rec, helpers, pidLive, runFile, daemonVars, probeVars, history>>

\* A database hook starts a helper container: the child's doing, whether or
\* not its manager still lives.
StartHelper(r) ==
  /\ r \in child
  /\ helpers' = helpers \cup {r}
  /\ UNCHANGED <<path, rec, runVars, daemonVars, probeVars, history>>

\* borgmatic ends; if its manager lives, Wait returns.
ChildExit(r) ==
  /\ r \in child
  /\ child' = child \ {r}
  /\ IF run[r] = "running" THEN Goto(r, "reap") ELSE run' = run
  /\ UNCHANGED <<path, rec, helpers, pidLive, runFile, daemonVars, probeVars, history>>

\* Deferred reapHelpers: remove the helpers, then clear the record.
ReapHelpers(r) ==
  /\ run[r] = "reap"
  /\ helpers' = helpers \ {r}
  /\ Goto(r, "clear")
  /\ UNCHANGED <<path, rec, child, pidLive, runFile, daemonVars, probeVars, history>>

\* Faulty: the record is cleared although the helpers could not be removed.
ReapHelpersErrorClearing(r) ==
  /\ Faults
  /\ run[r] = "reap"
  /\ Goto(r, "clear")
  /\ UNCHANGED <<path, rec, helpers, child, pidLive, runFile, daemonVars, probeVars,
                 history>>

\* Removal failed: the record is kept for the next startup.
ReapHelpersError(r) ==
  /\ Faults
  /\ run[r] = "reap"
  /\ Goto(r, "release")
  /\ UNCHANGED <<path, rec, helpers, child, pidLive, runFile, daemonVars, probeVars,
                 history>>

ClearPending(r) ==
  /\ run[r] = "clear"
  /\ Update(r, rec \ {r})
  /\ Goto(r, "release")
  /\ UNCHANGED <<path, helpers, child, pidLive, runFile, daemon, todo, cur, daemonFile,
                 probeVars, history>>

\* The two defers of a run that took its lock; none otherwise.
ReleaseLock(r) ==
  /\ run[r] = "release"
  /\ runFile' = [runFile EXCEPT ![r] = Closed]
  /\ Goto(r, IF runFile[r].held THEN "unlink" ELSE "done")
  /\ UNCHANGED <<path, rec, helpers, child, pidLive, daemonVars, probeVars, history>>

UnlinkLock(r) ==
  /\ run[r] = "unlink"
  /\ Unlink(r)
  /\ Goto(r, "done")
  /\ UNCHANGED <<rec, helpers, child, pidLive, runFile, daemonVars, probeVars, history>>

Started(r) == run[r] \notin {"idle", "done", "dead"}
InProgress(r) == run[r] \in {"spawn", "running"}

\* The ad-hoc process ends: killed mid-run, or after its run.  borgmatic, in a
\* process group of its own, goes on.
AdhocDies(r) ==
  /\ r \in AdhocRuns /\ r \in pidLive /\ run[r] # "dead"
  /\ Goto(r, IF run[r] = "done" THEN "done" ELSE "dead")
  /\ pidLive' = pidLive \ {r}
  /\ runFile' = [runFile EXCEPT ![r] = Closed]
  /\ UNCHANGED <<path, rec, helpers, child, daemonVars, probeVars, history>>

\* Some other process gets a dead manager's PID.
ReusePID(r) ==
  /\ run[r] = "dead" /\ r \notin pidLive
  /\ pidLive' = pidLive \cup {r}
  /\ UNCHANGED <<path, rec, helpers, run, runFile, child, daemonVars, probeVars, history>>

-----------------------------------------------------------------------------
(* The daemon's startup: reapStalePendingRuns, sweepOrphanedPendingLocks. *)

DGoto(s) == daemon' = s

\* LoadSchedule, whose view is empty when the file cannot be read.
DaemonStart ==
  /\ daemon = "down"
  /\ mem' = rec \/ (Faults /\ mem' = {})
  /\ todo' = mem'
  /\ DGoto("reaping")
  /\ UNCHANGED <<path, rec, helpers, runVars, cur, daemonFile, probeVars, history>>

Visit(r, from, to) ==
  /\ daemon = from /\ r \in todo
  /\ cur' = r /\ todo' = todo \ {r}
  /\ DGoto(to)
  /\ UNCHANGED <<path, rec, helpers, runVars, mem, daemonFile, probeVars, history>>

ReapVisit(r) == Visit(r, "reaping", "stat")

\* Faulty: no lock file is taken to mean a dead owner.
ReapStatIgnoringPID ==
  /\ daemon = "stat"
  /\ DGoto(IF path[cur] # 0 THEN "open" ELSE "kill")
  /\ UNCHANGED <<path, rec, helpers, runVars, mem, todo, cur, daemonFile, probeVars,
                 history>>

\* No lock file: the stamped PID decides, and a live one keeps the record.
ReapStat ==
  /\ daemon = "stat"
  /\ DGoto(IF path[cur] # 0 THEN "open" ELSE IF cur \in pidLive THEN "reaping" ELSE "kill")
  /\ UNCHANGED <<path, rec, helpers, runVars, mem, todo, cur, daemonFile, probeVars,
                 history>>

DaemonOpen(from, to) ==
  /\ daemon = from
  /\ \E i \in Inodes :
       Opens(cur, i) /\ Create(cur, i) /\ daemonFile' = Opened(i)
  /\ DGoto(to)
  /\ UNCHANGED <<rec, helpers, runVars, mem, todo, cur, probeVars, history>>

DaemonFlock(from, taken, loop) ==
  /\ daemon = from
  /\ IF Lockable(cur, daemonFile.inode)
       THEN daemonFile' = Held(daemonFile) /\ DGoto(taken)
       ELSE daemonFile' = Closed /\ DGoto(loop)
  /\ UNCHANGED <<path, rec, helpers, runVars, mem, todo, cur, probeVars, unsaved, raced,
                 reapedAlive>>

\* The probe fails: the record, or the file, is left alone.
DaemonLockError ==
  /\ Faults
  /\ daemon \in {"open", "flock", "sopen", "sflock"}
  /\ daemonFile' = Closed
  /\ IF daemon \in {"open", "flock"} THEN DGoto("reaping") /\ left' = left
                                    ELSE DGoto("sweeping") /\ Leaves(cur)
  /\ UNCHANGED <<path, rec, helpers, runVars, mem, todo, cur, probeVars, unsaved, raced,
                 reapedAlive>>

ReapOpen == DaemonOpen("open", "flock")
ReapFlock == DaemonFlock("flock", "kill", "reaping") /\ left' = left

\* reapAndClear: remove the helpers of the run ...
ReapKill ==
  /\ daemon = "kill"
  /\ helpers' = helpers \ {cur}
  /\ reapedAlive' = reapedAlive \cup {r \in Runs \cap {cur} : InProgress(r) \/ r \in child}
  /\ DGoto("clear")
  /\ UNCHANGED <<path, rec, runVars, mem, todo, cur, daemonFile, probeVars, unsaved,
                 raced, left>>

\* ... or fail to, and keep the record and the file ...
ReapKillError ==
  /\ Faults
  /\ daemon = "kill"
  /\ DGoto("release")
  /\ UNCHANGED <<path, rec, helpers, runVars, mem, todo, cur, daemonFile, probeVars,
                 history>>

\* ... then clear its record; a lock that was taken is unlinked, then released.
ReapClear ==
  /\ daemon = "clear"
  /\ \/ rec' = rec \ {cur} /\ mem' = rec'
     \/ Faults /\ rec' = rec /\ mem' \in {mem, rec \ {cur}}
  /\ DGoto(IF daemonFile.held THEN "unlink" ELSE "release")
  /\ UNCHANGED <<path, helpers, runVars, todo, cur, daemonFile, probeVars, history>>

ReapUnlink ==
  /\ daemon = "unlink"
  /\ Unlink(cur)
  /\ DGoto("release")
  /\ UNCHANGED <<rec, helpers, runVars, mem, todo, cur, daemonFile, probeVars, history>>

ReapRelease ==
  /\ daemon = "release"
  /\ daemonFile' = Closed
  /\ DGoto("reaping")
  /\ UNCHANGED <<path, rec, helpers, runVars, mem, todo, cur, probeVars, history>>

\* The directory is read for lock files no record in memory refers to.
SweepStart ==
  /\ daemon = "reaping" /\ todo = {}
  /\ todo' = {r \in Runs \ mem : path[r] # 0}
  /\ raced' = raced \cup {r \in todo' : run[r] = "opened"}
  /\ DGoto("sweeping")
  /\ UNCHANGED <<path, rec, helpers, runVars, mem, cur, daemonFile, probeVars,
                 unsaved, left, reapedAlive>>

SweepVisit(r) == Visit(r, "sweeping", "sopen")
SweepOpen == DaemonOpen("sopen", "sflock")
\* Faulty: the sweep does not ask whether the file is held.
SweepFlockUnchecked ==
  /\ daemon = "sflock"
  /\ DGoto("srelease")
  /\ UNCHANGED <<path, rec, helpers, runVars, mem, todo, cur, daemonFile, probeVars,
                 history>>

SweepFlock ==
  /\ DaemonFlock("sflock", "srelease", "sweeping")
  /\ IF Lockable(cur, daemonFile.inode) THEN left' = left ELSE Leaves(cur)

SweepRelease ==
  /\ daemon = "srelease"
  /\ daemonFile' = Closed
  /\ DGoto("sremove")
  /\ UNCHANGED <<path, rec, helpers, runVars, mem, todo, cur, probeVars, history>>

SweepRemove ==
  /\ daemon = "sremove"
  /\ Unlink(cur)
  /\ DGoto("sweeping")
  /\ UNCHANGED <<rec, helpers, runVars, mem, todo, cur, daemonFile, probeVars, history>>

DaemonUp ==
  /\ daemon = "sweeping" /\ todo = {}
  /\ DGoto("up") /\ cur' = NoRun
  /\ UNCHANGED <<path, rec, helpers, runVars, mem, todo, daemonFile, probeVars, history>>

\* The daemon dies and systemd kills what is left of its control group.
DaemonDies ==
  /\ daemon # "down"
  /\ DGoto("down") /\ mem' = {} /\ todo' = {} /\ cur' = NoRun /\ daemonFile' = Closed
  /\ run' = [r \in Runs |-> IF r \in DaemonRuns /\ Started(r) THEN "dead" ELSE run[r]]
  /\ runFile' = [r \in Runs |-> IF r \in DaemonRuns THEN Closed ELSE runFile[r]]
  /\ child' = child \ DaemonRuns /\ pidLive' = pidLive \ DaemonRuns
  /\ IF daemon \in {"sflock", "srelease", "sremove"} THEN Leaves(cur) ELSE left' = left
  /\ UNCHANGED <<path, rec, helpers, probeVars, unsaved, raced, reapedAlive>>

-----------------------------------------------------------------------------
(* A status command: pendingOwnerLive for one record. *)

PGoto(s) == probe' = s

ProbeStart(r) ==
  /\ probe = "idle" /\ r \in rec \cap ProbedRuns
  /\ probed' = r /\ PGoto("stat")
  /\ UNCHANGED <<path, rec, helpers, runVars, daemonVars, probeFile, history>>

ProbeDone == PGoto("idle") /\ probed' = NoRun

ProbeStat ==
  /\ probe = "stat"
  /\ IF path[probed] # 0 THEN PGoto("open") /\ probed' = probed ELSE ProbeDone
  /\ UNCHANGED <<path, rec, helpers, runVars, daemonVars, probeFile, history>>

ProbeOpen ==
  /\ probe = "open"
  /\ \E i \in Inodes : Opens(probed, i) /\ Create(probed, i) /\ probeFile' = Opened(i)
  /\ left' = left \cup {r \in raced \cap {probed} : path[r] = 0}
  /\ PGoto("flock")
  /\ UNCHANGED <<rec, helpers, runVars, daemonVars, probed, unsaved, raced, reapedAlive>>

\* Not acquired: the owner is alive.  Acquired: it is gone, says the probe.
ProbeFlock ==
  /\ probe = "flock"
  /\ IF Lockable(probed, probeFile.inode)
       THEN probeFile' = Held(probeFile) /\ PGoto("release") /\ probed' = probed
       ELSE probeFile' = Closed /\ ProbeDone
  /\ UNCHANGED <<path, rec, helpers, runVars, daemonVars, history>>

ProbeRelease ==
  /\ probe = "release"
  /\ probeFile' = Closed /\ ProbeDone
  /\ UNCHANGED <<path, rec, helpers, runVars, daemonVars, history>>

-----------------------------------------------------------------------------
RunStep(r) ==
  \/ RunOpen(r) \/ RunFlock(r) \/ RunLockError(r) \/ RecordPending(r) \/ Spawn(r)
  \/ ReapHelpers(r) \/ ReapHelpersError(r) \/ ClearPending(r)
  \/ ReleaseLock(r) \/ UnlinkLock(r)

ChildStep(r) == StartHelper(r) \/ ChildExit(r)

StartupStep ==
  \/ \E r \in Runs : ReapVisit(r) \/ SweepVisit(r)
  \/ ReapStat \/ ReapOpen \/ ReapFlock \/ ReapKill \/ ReapKillError \/ ReapClear
  \/ ReapUnlink \/ ReapRelease
  \/ SweepStart \/ SweepOpen \/ SweepFlock \/ SweepRelease \/ SweepRemove
  \/ DaemonLockError \/ DaemonUp

ProbeStep ==
  \/ \E r \in Runs : ProbeStart(r)
  \/ ProbeStat \/ ProbeOpen \/ ProbeFlock \/ ProbeRelease

Next ==
  \/ \E r \in Runs : RunStep(r) \/ ChildStep(r) \/ AdhocDies(r) \/ ReusePID(r)
  \/ DaemonStart \/ StartupStep \/ DaemonDies
  \/ ProbeStep

Spec == Init /\ [][Next]_vars

-----------------------------------------------------------------------------
TypeOK ==
  /\ path \in [Runs -> {0} \cup Inodes]
  /\ rec \subseteq Runs /\ helpers \subseteq Runs
  /\ child \subseteq Runs /\ pidLive \subseteq Runs
  /\ run \in [Runs -> RunStates]
  /\ runFile \in [Runs -> File]
  /\ daemon \in DaemonStates /\ mem \subseteq Runs /\ todo \subseteq Runs
  /\ cur \in Runs \cup {NoRun} /\ daemonFile \in File
  /\ probe \in ProbeStates /\ probed \in Runs \cup {NoRun} /\ probeFile \in File
  /\ unsaved \subseteq Runs /\ reapedAlive \subseteq Runs
  /\ raced \subseteq Runs /\ left \subseteq raced

\* A daemon that starts never removes the helpers of a run that is in progress
\* in a live process: reapStalePendingRuns reaps "dump helpers left by a
\* manager process that died mid-run".  That holds of a run whose lock the sweep
\* took away, too, for its PID then stands in; but not once a file without its
\* lock is back at its path.
LiveRunNotReaped == daemon = "kill" => ~InProgress(cur) \/ cur \in left

\* status calls a recorded run's owner gone only when the run is not in
\* progress (pendingOwnerLive: "a lock we can take proves it is gone"), unless a
\* sweep came between that run's open and its flock.
ProbeTellsTruth == probe = "release" => ~InProgress(probed) \/ probed \in raced

\* Helpers that outlive their borgmatic and their manager, or whose removal
\* failed, stay recorded (if the record could be saved at all), so that the
\* next startup finds them: "Record pending BEFORE spawning so a crash mid-run
\* is reaped by ID at startup" (runGroup).  The exception is a run that was
\* reaped while borgmatic, which outlives a killed manager, still started them.
OrphansStayRecorded ==
  \A r \in Runs : r \in helpers /\ r \notin child /\ run[r] \in {"done", "dead"} =>
      r \in rec \cup unsaved \cup reapedAlive

\* Not so: "remove only if not held, to avoid racing a run mid-startup"
\* (sweepOrphanedPendingLocks).  The probe has let go of the lock by then.
SweepSparesHeldLocks ==
  daemon = "sremove" => \A f \in {runFile[cur]} : f.held => f.inode # path[cur]
=============================================================================
