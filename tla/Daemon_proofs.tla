---------------------------- MODULE Daemon_proofs ----------------------------
(***************************************************************************)
(* Proofs about what the daemon does beside its cycles: it cleans up after *)
(* runs that died (PendingRuns) and listens to the container engine        *)
(* (EventListener).                                                        *)
(*                                                                         *)
(* PendingRuns, for any runs and any interleaving of their processes, the  *)
(* daemon's startup and a probe, a sweep that overtakes a run included:    *)
(* types, that no run in progress is reaped or called dead but those that  *)
(* a sweep overtook, and that helpers stay recorded while they are there.  *)
(*                                                                         *)
(* EventListener, for any durations and any number of events in flight:    *)
(* types, the bound on the debounce among them, that an event which was    *)
(* received is never lost, and that no container which comes or goes after *)
(* the first subscription is missed.                                       *)
(***************************************************************************)
EXTENDS PendingRuns, EventListener, TLAPS

-----------------------------------------------------------------------------
(* PendingRuns. *)

\* A run past its locking and not over yet.
Live(r) == run[r] \in {"record", "spawn", "running", "reap", "clear", "release"}

\* A run that has not tried to record itself.
Unrecorded(r) == run[r] \in {"idle", "opened", "record"}

\* Where the daemon has a run in hand, to reap it or to sweep its file.
Reaping == {"stat", "open", "flock", "kill", "clear", "unlink", "release"}
SweepingFile == {"sopen", "sflock", "srelease", "sremove"}
Sweeping == {"sweeping"} \cup SweepingFile

\* Where it has taken the run for dead.
Doomed == {"kill", "clear", "unlink", "release"}

\* The daemon and the probe visit recorded runs; the sweep, those whose file it
\* listed, among which those with their file open are raced.
Visits ==
  /\ daemon \in Reaping \cup SweepingFile => cur \in Runs
  /\ probe # "idle" => probed \in Runs
  /\ \A r \in Runs : Unrecorded(r) => r \notin rec \cup mem /\ probed # r
  /\ \A r \in Runs : Unrecorded(r) /\ (r \in todo \/ cur = r) => daemon \in Sweeping /\ run[r] # "idle"
  /\ \A r \in Runs : run[r] = "opened" /\ (r \in todo \/ cur = r) => r \in raced
  /\ daemonFile.held => daemon \in Doomed \cup {"srelease"}
  /\ daemon \in SweepingFile => cur \notin todo

\* A live run that is not raced holds the file at its path, or there is none and
\* its PID stands in.
Locks ==
  /\ \A r \in Runs : run[r] = "idle" => path[r] = 0 /\ r \notin raced
  /\ \A r \in Runs \ raced : run[r] = "opened" => path[r] # 0 /\ runFile[r] = Opened(path[r])
  /\ \A r \in Runs \ raced : Live(r) /\ path[r] # 0 => runFile[r] = Held(Opened(path[r]))
  /\ \A r \in Runs : runFile[r].held => Live(r)
  /\ \A r \in Runs : Live(r) /\ ~runFile[r].held => runFile[r].inode = 0
  /\ \A r \in Runs : Live(r) \/ run[r] = "opened" => r \in pidLive

\* Nor has a raced one a file without its lock at its path, unless the sweep has
\* that file in hand or left it.
Swept == \A r \in raced \ left :
  /\ path[r] # 0 /\ (run[r] = "opened" \/ runFile[r].held) => runFile[r].inode = path[r]
  /\ path[r] # 0 /\ Live(r) =>
       runFile[r].held \/ (cur = r /\ daemon \in {"sflock", "srelease", "sremove"})

\* A file the sweep has still to open stays while its run has it open or holds it.
ToSweep == \A r \in Runs :
  /\ (daemon \in Sweeping /\ r \in todo) \/ (daemon = "sopen" /\ r = cur)
  /\ run[r] = "opened" \/ runFile[r].held \/ (Live(r) /\ r \notin raced)
  => path[r] # 0

\* What the daemon opens is the file a live run holds.
DaemonSees ==
  /\ daemon = "open" /\ Live(cur) /\ cur \notin left => path[cur] # 0
  /\ daemon = "flock" /\ Live(cur) /\ cur \notin left => path[cur] # 0 /\ daemonFile.inode = path[cur]
  /\ daemon \in Doomed /\ Live(cur) => cur \in left
  /\ daemon = "sflock" /\ Live(cur) /\ cur \notin raced => path[cur] # 0 /\ daemonFile.inode = path[cur]
  /\ daemon \in {"srelease", "sremove"} /\ Live(cur) => cur \in raced

ProbeSees ==
  /\ probe = "open" /\ Live(probed) /\ probed \notin raced => path[probed] # 0
  /\ probe = "flock" /\ Live(probed) /\ probed \notin raced =>
       path[probed] # 0 /\ probeFile.inode = path[probed]
  /\ probe = "release" /\ Live(probed) => probed \in raced

\* A run is recorded from before its first helper starts until the last is gone
\* and none can start, unless it was reaped before.
Recorded ==
  /\ \A r \in Runs : InProgress(r) \/ r \in helpers \cup child => r \in rec \cup unsaved \cup reapedAlive
  /\ \A r \in child : run[r] \in {"running", "dead"}
  /\ \A r \in Runs : run[r] = "clear" => r \notin helpers
  /\ daemon = "clear" /\ cur \notin reapedAlive => cur \notin helpers \cup child /\ ~InProgress(cur)

LockInv == TypeOK /\ Visits /\ Locks /\ Swept /\ ToSweep /\ DaemonSees /\ ProbeSees

LEMMA ClosedFile == Closed \in File /\ ~Closed.held /\ Closed.inode = 0
  BY DEF Closed, File

LEMMA OpenedFile ==
  ASSUME NEW i \in Inodes
  PROVE  Opened(i) \in File /\ Opened(i).inode = i /\ ~Opened(i).held /\ i # 0
  BY DEF Opened, File, Inodes

LEMMA HeldFile ==
  ASSUME NEW f \in File
  PROVE  Held(f) \in File /\ Held(f).held /\ Held(f).inode = f.inode
  BY DEF Held, File

\* A run's path keeps its inode while anyone opens it.
LEMMA Opening ==
  ASSUME TypeOK, NEW r \in Runs, NEW i \in Inodes, Opens(r, i), Create(r, i)
  PROVE  /\ path'[r] = i /\ i # 0 /\ (path[r] # 0 => path' = path)
         /\ \A q \in Runs \ {r} : path'[q] = path[q]
  BY OpenedFile DEF TypeOK, Opens, Create

\* Nobody else locks the file of a live run, unless a sweep overtook it.
LEMMA HeldOff ==
  ASSUME TypeOK, Locks, NEW r \in Runs \ raced, Live(r), path[r] # 0
  PROVE  ~Lockable(r, path[r])
<1>1. path[r] \in Inodes
  BY DEF TypeOK
<1>2. runFile[r].held /\ runFile[r].inode = path[r]
  BY <1>1, OpenedFile, HeldFile DEF Locks
<1> QED BY <1>2 DEF Lockable, OpenFiles

\* Nor then, while the sweep has it not in hand and did not leave it.
LEMMA SweptHeldOff ==
  ASSUME TypeOK, Locks, Swept, NEW r \in Runs \ left, Live(r), path[r] # 0,
         daemon \notin SweepingFile
  PROVE  ~Lockable(r, path[r])
<1>1. CASE r \in raced
  BY <1>1 DEF Swept, SweepingFile, Lockable, OpenFiles
<1>2. CASE r \notin raced
  BY <1>2, HeldOff
<1> QED BY <1>1, <1>2

\* Types.
LEMMA TypeOKStep ==
  ASSUME TypeOK, [Next]_vars
  PROVE  TypeOK'
<1> USE ConstantsAssumption, ClosedFile
     DEF Goto, DGoto, PGoto, runVars, daemonVars, probeVars, history, races, Leaves, TypeOK,
         RunStates, DaemonStates, ProbeStates
<1>1. ASSUME NEW r \in Runs, RunOpen(r) PROVE TypeOK'
  BY <1>1, OpenedFile DEF RunOpen, Create
<1>2. ASSUME NEW r \in Runs, RunFlock(r) PROVE TypeOK'
  <2>1. runFile[r] \in File
    OBVIOUS
  <2>2. runFile' \in [Runs -> File]
    BY <1>2, <2>1, ClosedFile, HeldFile DEF RunFlock
  <2> QED BY <1>2, <2>2 DEF RunFlock
<1>3. ASSUME NEW r \in Runs, RunLockError(r) PROVE TypeOK'
  BY <1>3 DEF RunLockError, Unlink, MayStart
<1>4. ASSUME NEW r \in Runs, RecordPending(r) PROVE TypeOK'
  BY <1>4 DEF RecordPending, Update
<1>5. ASSUME NEW r \in Runs, Spawn(r) PROVE TypeOK'
  BY <1>5 DEF Spawn
<1>6. ASSUME NEW r \in Runs, ReapHelpers(r) PROVE TypeOK'
  BY <1>6 DEF ReapHelpers
<1>7. ASSUME NEW r \in Runs, ReapHelpersError(r) PROVE TypeOK'
  BY <1>7 DEF ReapHelpersError
<1>8. ASSUME NEW r \in Runs, ClearPending(r) PROVE TypeOK'
  BY <1>8 DEF ClearPending, Update
<1>9. ASSUME NEW r \in Runs, ReleaseLock(r) PROVE TypeOK'
  BY <1>9 DEF ReleaseLock
<1>10. ASSUME NEW r \in Runs, UnlinkLock(r) PROVE TypeOK'
  BY <1>10 DEF UnlinkLock, Unlink
<1>11. ASSUME NEW r \in Runs, StartHelper(r) PROVE TypeOK'
  BY <1>11 DEF StartHelper
<1>12. ASSUME NEW r \in Runs, ChildExit(r) PROVE TypeOK'
  BY <1>12 DEF ChildExit
<1>13. ASSUME NEW r \in Runs, AdhocDies(r) PROVE TypeOK'
  BY <1>13 DEF AdhocDies
<1>14. ASSUME NEW r \in Runs, ReusePID(r) PROVE TypeOK'
  BY <1>14 DEF ReusePID
<1>15. ASSUME NEW r \in Runs, ReapVisit(r) PROVE TypeOK'
  BY <1>15 DEF ReapVisit, Visit
<1>16. ASSUME NEW r \in Runs, SweepVisit(r) PROVE TypeOK'
  BY <1>16 DEF SweepVisit, Visit
<1>17. ASSUME NEW r \in Runs, ProbeStart(r) PROVE TypeOK'
  BY <1>17 DEF ProbeStart
<1>18. CASE DaemonStart
  BY <1>18 DEF DaemonStart
<1>19. CASE ReapStat
  BY <1>19 DEF ReapStat
<1>20. CASE ReapOpen
  <2>1. PICK i \in Inodes : Opens(cur, i) /\ Create(cur, i) /\ daemonFile' = Opened(i)
    BY <1>20 DEF ReapOpen, DaemonOpen
  <2>2. path' \in [Runs -> {0} \cup Inodes] /\ daemonFile' \in File
    BY <2>1, OpenedFile DEF Create
  <2> QED BY <1>20, <2>2 DEF ReapOpen, DaemonOpen
<1>21. CASE ReapFlock
  BY <1>21, ClosedFile, HeldFile DEF ReapFlock, DaemonFlock
<1>22. CASE ReapKill
  BY <1>22 DEF ReapKill, InProgress
<1>23. CASE ReapKillError
  BY <1>23 DEF ReapKillError
<1>24. CASE ReapClear
  BY <1>24 DEF ReapClear
<1>25. CASE ReapUnlink
  BY <1>25 DEF ReapUnlink, Unlink
<1>26. CASE ReapRelease
  BY <1>26 DEF ReapRelease
<1>27. CASE SweepStart
  BY <1>27 DEF SweepStart
<1>28. CASE SweepOpen
  <2>1. PICK i \in Inodes : Opens(cur, i) /\ Create(cur, i) /\ daemonFile' = Opened(i)
    BY <1>28 DEF SweepOpen, DaemonOpen
  <2>2. path' \in [Runs -> {0} \cup Inodes] /\ daemonFile' \in File
    BY <2>1, OpenedFile DEF Create
  <2> QED BY <1>28, <2>2 DEF SweepOpen, DaemonOpen
<1>29. CASE SweepFlock
  BY <1>29, ClosedFile, HeldFile DEF SweepFlock, DaemonFlock
<1>30. CASE SweepRelease
  BY <1>30 DEF SweepRelease
<1>31. CASE SweepRemove
  BY <1>31 DEF SweepRemove, Unlink
<1>32. CASE DaemonLockError
  BY <1>32 DEF DaemonLockError
<1>33. CASE DaemonUp
  BY <1>33 DEF DaemonUp
<1>34. CASE DaemonDies
  BY <1>34 DEF DaemonDies, Started
<1>35. CASE ProbeStat
  BY <1>35 DEF ProbeStat, ProbeDone
<1>36. CASE ProbeOpen
  <2>1. PICK i \in Inodes : Opens(probed, i) /\ Create(probed, i) /\ probeFile' = Opened(i)
    BY <1>36 DEF ProbeOpen
  <2>2. path' \in [Runs -> {0} \cup Inodes] /\ probeFile' \in File
    BY <2>1, OpenedFile DEF Create
  <2> QED BY <1>36, <2>2 DEF ProbeOpen
<1>37. CASE ProbeFlock
  BY <1>37, ClosedFile, HeldFile DEF ProbeFlock, ProbeDone
<1>38. CASE ProbeRelease
  BY <1>38 DEF ProbeRelease, ProbeDone
<1>39. CASE UNCHANGED vars
  BY <1>39 DEF vars
<1> QED BY <1>1, <1>2, <1>3, <1>4, <1>5, <1>6, <1>7, <1>8, <1>9, <1>10, <1>11, <1>12, <1>13,
     <1>14, <1>15, <1>16, <1>17, <1>18, <1>19, <1>20, <1>21, <1>22, <1>23, <1>24, <1>25, <1>26,
     <1>27, <1>28, <1>29, <1>30, <1>31, <1>32, <1>33, <1>34, <1>35, <1>36, <1>37, <1>38, <1>39
     DEF Next, RunStep, ChildStep, StartupStep, ProbeStep

\* Nobody visits a run that has still to record itself, but the sweep.
LEMMA VisitsStep ==
  ASSUME LockInv, [Next]_vars
  PROVE  Visits'
<1> USE ConstantsAssumption, ClosedFile
     DEF Goto, DGoto, PGoto, runVars, daemonVars, probeVars, history, races, Leaves, LockInv,
         TypeOK, Visits, Unrecorded, Reaping, SweepingFile, Sweeping, Doomed, Locks
<1>1. ASSUME NEW r \in Runs, RunOpen(r) PROVE Visits'
  BY <1>1 DEF RunOpen, Opens, Create, MayStart
<1>2. ASSUME NEW r \in Runs, RunFlock(r) PROVE Visits'
  BY <1>2 DEF RunFlock, Lockable, OpenFiles, Held
<1>3. ASSUME NEW r \in Runs, RunLockError(r) PROVE Visits'
  BY <1>3 DEF RunLockError, Unlink, MayStart
<1>4. ASSUME NEW r \in Runs, RecordPending(r) PROVE Visits'
  BY <1>4 DEF RecordPending, Update
<1>5. ASSUME NEW r \in Runs, Spawn(r) PROVE Visits'
  BY <1>5 DEF Spawn
<1>6. ASSUME NEW r \in Runs, ReapHelpers(r) PROVE Visits'
  BY <1>6 DEF ReapHelpers
<1>7. ASSUME NEW r \in Runs, ReapHelpersError(r) PROVE Visits'
  BY <1>7 DEF ReapHelpersError
<1>8. ASSUME NEW r \in Runs, ClearPending(r) PROVE Visits'
  BY <1>8 DEF ClearPending, Update
<1>9. ASSUME NEW r \in Runs, ReleaseLock(r) PROVE Visits'
  BY <1>9 DEF ReleaseLock
<1>10. ASSUME NEW r \in Runs, UnlinkLock(r) PROVE Visits'
  BY <1>10 DEF UnlinkLock, Unlink
<1>11. ASSUME NEW r \in Runs, StartHelper(r) PROVE Visits'
  BY <1>11 DEF StartHelper
<1>12. ASSUME NEW r \in Runs, ChildExit(r) PROVE Visits'
  BY <1>12 DEF ChildExit
<1>13. ASSUME NEW r \in Runs, AdhocDies(r) PROVE Visits'
  BY <1>13 DEF AdhocDies
<1>14. ASSUME NEW r \in Runs, ReusePID(r) PROVE Visits'
  BY <1>14 DEF ReusePID
<1>15. ASSUME NEW r \in Runs, ReapVisit(r) PROVE Visits'
  BY <1>15 DEF ReapVisit, Visit
<1>16. ASSUME NEW r \in Runs, SweepVisit(r) PROVE Visits'
  BY <1>16 DEF SweepVisit, Visit
<1>17. ASSUME NEW r \in Runs, ProbeStart(r) PROVE Visits'
  BY <1>17 DEF ProbeStart
<1>18. CASE DaemonStart
  BY <1>18 DEF DaemonStart
<1>19. CASE ReapStat
  BY <1>19 DEF ReapStat
<1>20. CASE ReapOpen
  <2>1. PICK i \in Inodes : Opens(cur, i) /\ Create(cur, i) /\ daemonFile' = Opened(i)
    BY <1>20 DEF ReapOpen, DaemonOpen
  <2>2. cur \in Runs
    BY <1>20 DEF ReapOpen, DaemonOpen
  <2>3. /\ path'[cur] = i /\ i # 0 /\ (path[cur] # 0 => path' = path)
        /\ \A q \in Runs \ {cur} : path'[q] = path[q]
        /\ daemonFile'.inode = i /\ ~daemonFile'.held
    BY <2>1, <2>2, Opening, OpenedFile
  <2> QED BY <1>20, <2>2, <2>3 DEF ReapOpen, DaemonOpen
<1>21. CASE ReapFlock
  BY <1>21 DEF ReapFlock, DaemonFlock, Lockable, OpenFiles, Held
<1>22. CASE ReapKill
  BY <1>22 DEF ReapKill, InProgress
<1>23. CASE ReapKillError
  BY <1>23 DEF ReapKillError
<1>24. CASE ReapClear
  BY <1>24 DEF ReapClear
<1>25. CASE ReapUnlink
  BY <1>25 DEF ReapUnlink, Unlink
<1>26. CASE ReapRelease
  BY <1>26 DEF ReapRelease
<1>27. CASE SweepStart
  BY <1>27 DEF SweepStart
<1>28. CASE SweepOpen
  <2>1. PICK i \in Inodes : Opens(cur, i) /\ Create(cur, i) /\ daemonFile' = Opened(i)
    BY <1>28 DEF SweepOpen, DaemonOpen
  <2>2. cur \in Runs
    BY <1>28 DEF SweepOpen, DaemonOpen
  <2>3. /\ path'[cur] = i /\ i # 0 /\ (path[cur] # 0 => path' = path)
        /\ \A q \in Runs \ {cur} : path'[q] = path[q]
        /\ daemonFile'.inode = i /\ ~daemonFile'.held
    BY <2>1, <2>2, Opening, OpenedFile
  <2> QED BY <1>28, <2>2, <2>3 DEF SweepOpen, DaemonOpen
<1>29. CASE SweepFlock
  BY <1>29 DEF SweepFlock, DaemonFlock, Lockable, OpenFiles, Held
<1>30. CASE SweepRelease
  BY <1>30 DEF SweepRelease
<1>31. CASE SweepRemove
  BY <1>31 DEF SweepRemove, Unlink
<1>32. CASE DaemonLockError
  BY <1>32 DEF DaemonLockError
<1>33. CASE DaemonUp
  BY <1>33 DEF DaemonUp
<1>34. CASE DaemonDies
  BY <1>34 DEF DaemonDies, Started
<1>35. CASE ProbeStat
  BY <1>35 DEF ProbeStat, ProbeDone
<1>36. CASE ProbeOpen
  <2>1. PICK i \in Inodes : Opens(probed, i) /\ Create(probed, i) /\ probeFile' = Opened(i)
    BY <1>36 DEF ProbeOpen
  <2>2. probed \in Runs
    BY <1>36 DEF ProbeOpen
  <2>3. /\ path'[probed] = i /\ i # 0 /\ (path[probed] # 0 => path' = path)
        /\ \A q \in Runs \ {probed} : path'[q] = path[q]
        /\ probeFile'.inode = i /\ ~probeFile'.held
    BY <2>1, <2>2, Opening, OpenedFile
  <2> QED BY <1>36, <2>2, <2>3 DEF ProbeOpen
<1>37. CASE ProbeFlock
  BY <1>37 DEF ProbeFlock, Lockable, OpenFiles, Held, ProbeDone
<1>38. CASE ProbeRelease
  BY <1>38 DEF ProbeRelease, ProbeDone
<1>39. CASE UNCHANGED vars
  BY <1>39 DEF vars
<1> QED BY <1>1, <1>2, <1>3, <1>4, <1>5, <1>6, <1>7, <1>8, <1>9, <1>10, <1>11, <1>12, <1>13,
     <1>14, <1>15, <1>16, <1>17, <1>18, <1>19, <1>20, <1>21, <1>22, <1>23, <1>24, <1>25, <1>26,
     <1>27, <1>28, <1>29, <1>30, <1>31, <1>32, <1>33, <1>34, <1>35, <1>36, <1>37, <1>38, <1>39
     DEF Next, RunStep, ChildStep, StartupStep, ProbeStep

\* A live run keeps its lock, or has no lock file.
LEMMA LocksStep ==
  ASSUME LockInv, [Next]_vars
  PROVE  Locks'
<1> USE ConstantsAssumption, ClosedFile
     DEF Goto, DGoto, PGoto, runVars, daemonVars, probeVars, history, races, Leaves, LockInv,
         TypeOK, Visits, Locks, ToSweep, DaemonSees, ProbeSees, Live, Unrecorded, Reaping,
         SweepingFile, Sweeping, Doomed
<1>1. ASSUME NEW r \in Runs, RunOpen(r) PROVE Locks'
  <2>1. PICK i \in Inodes : Create(r, i) /\ runFile' = [runFile EXCEPT ![r] = Opened(i)]
    BY <1>1 DEF RunOpen
  <2>2. i # 0 /\ ~Opened(i).held
    BY OpenedFile
  <2> QED BY <1>1, <2>1, <2>2 DEF RunOpen, Create
<1>2. ASSUME NEW r \in Runs, RunFlock(r) PROVE Locks'
  <2>1. /\ run[r] = "opened" /\ run' = [run EXCEPT ![r] = "record"]
        /\ UNCHANGED <<path, pidLive, raced>>
    BY <1>2 DEF RunFlock
  <2>2. /\ \A q \in Runs \ {r} : runFile'[q] = runFile[q]
        /\ runFile'[r] = IF Lockable(r, runFile[r].inode) THEN Held(runFile[r]) ELSE Closed
    BY <1>2 DEF RunFlock
  <2>3. runFile[r] \in File
    OBVIOUS
  <2>4. Held(runFile[r]).held
    BY <2>3, HeldFile
  <2>5. CASE r \in raced
    BY <2>1, <2>2, <2>4, <2>5
  <2>6. CASE r \notin raced
    <3>1. path[r] \in Inodes /\ runFile[r] = Opened(path[r]) /\ ~runFile[r].held
      BY <2>1, <2>6, OpenedFile
    <3>2. Lockable(r, runFile[r].inode)
      BY <2>1, <2>6, <3>1 DEF Lockable, OpenFiles
    <3> QED BY <2>1, <2>2, <2>4, <3>1, <3>2
  <2> QED BY <2>5, <2>6
<1>3. ASSUME NEW r \in Runs, RunLockError(r) PROVE Locks'
  BY <1>3 DEF RunLockError, Unlink, MayStart
<1>4. ASSUME NEW r \in Runs, RecordPending(r) PROVE Locks'
  BY <1>4 DEF RecordPending, Update
<1>5. ASSUME NEW r \in Runs, Spawn(r) PROVE Locks'
  BY <1>5 DEF Spawn
<1>6. ASSUME NEW r \in Runs, ReapHelpers(r) PROVE Locks'
  BY <1>6 DEF ReapHelpers
<1>7. ASSUME NEW r \in Runs, ReapHelpersError(r) PROVE Locks'
  BY <1>7 DEF ReapHelpersError
<1>8. ASSUME NEW r \in Runs, ClearPending(r) PROVE Locks'
  BY <1>8 DEF ClearPending, Update
<1>9. ASSUME NEW r \in Runs, ReleaseLock(r) PROVE Locks'
  BY <1>9 DEF ReleaseLock
<1>10. ASSUME NEW r \in Runs, UnlinkLock(r) PROVE Locks'
  BY <1>10 DEF UnlinkLock, Unlink
<1>11. ASSUME NEW r \in Runs, StartHelper(r) PROVE Locks'
  BY <1>11 DEF StartHelper
<1>12. ASSUME NEW r \in Runs, ChildExit(r) PROVE Locks'
  BY <1>12 DEF ChildExit
<1>13. ASSUME NEW r \in Runs, AdhocDies(r) PROVE Locks'
  BY <1>13 DEF AdhocDies
<1>14. ASSUME NEW r \in Runs, ReusePID(r) PROVE Locks'
  BY <1>14 DEF ReusePID
<1>15. ASSUME NEW r \in Runs, ReapVisit(r) PROVE Locks'
  BY <1>15 DEF ReapVisit, Visit
<1>16. ASSUME NEW r \in Runs, SweepVisit(r) PROVE Locks'
  BY <1>16 DEF SweepVisit, Visit
<1>17. ASSUME NEW r \in Runs, ProbeStart(r) PROVE Locks'
  BY <1>17 DEF ProbeStart
<1>18. CASE DaemonStart
  BY <1>18 DEF DaemonStart
<1>19. CASE ReapStat
  BY <1>19 DEF ReapStat
<1>20. CASE ReapOpen
  <2>1. PICK i \in Inodes : Opens(cur, i) /\ Create(cur, i) /\ daemonFile' = Opened(i)
    BY <1>20 DEF ReapOpen, DaemonOpen
  <2>2. cur \in Runs
    BY <1>20 DEF ReapOpen, DaemonOpen
  <2>3. /\ path'[cur] = i /\ i # 0 /\ (path[cur] # 0 => path' = path)
        /\ \A q \in Runs \ {cur} : path'[q] = path[q]
        /\ daemonFile'.inode = i /\ ~daemonFile'.held
    BY <2>1, <2>2, Opening, OpenedFile
  <2> QED BY <1>20, <2>2, <2>3 DEF ReapOpen, DaemonOpen
<1>21. CASE ReapFlock
  BY <1>21 DEF ReapFlock, DaemonFlock, Lockable, OpenFiles, Held
<1>22. CASE ReapKill
  BY <1>22 DEF ReapKill, InProgress
<1>23. CASE ReapKillError
  BY <1>23 DEF ReapKillError
<1>24. CASE ReapClear
  BY <1>24 DEF ReapClear
<1>25. CASE ReapUnlink
  BY <1>25 DEF ReapUnlink, Unlink
<1>26. CASE ReapRelease
  BY <1>26 DEF ReapRelease
<1>27. CASE SweepStart
  BY <1>27 DEF SweepStart
<1>28. CASE SweepOpen
  <2>1. PICK i \in Inodes : Opens(cur, i) /\ Create(cur, i) /\ daemonFile' = Opened(i)
    BY <1>28 DEF SweepOpen, DaemonOpen
  <2>2. cur \in Runs
    BY <1>28 DEF SweepOpen, DaemonOpen
  <2>3. /\ path'[cur] = i /\ i # 0 /\ (path[cur] # 0 => path' = path)
        /\ \A q \in Runs \ {cur} : path'[q] = path[q]
        /\ daemonFile'.inode = i /\ ~daemonFile'.held
    BY <2>1, <2>2, Opening, OpenedFile
  <2> QED BY <1>28, <2>2, <2>3 DEF SweepOpen, DaemonOpen
<1>29. CASE SweepFlock
  BY <1>29 DEF SweepFlock, DaemonFlock, Lockable, OpenFiles, Held
<1>30. CASE SweepRelease
  BY <1>30 DEF SweepRelease
<1>31. CASE SweepRemove
  BY <1>31 DEF SweepRemove, Unlink
<1>32. CASE DaemonLockError
  BY <1>32 DEF DaemonLockError
<1>33. CASE DaemonUp
  BY <1>33 DEF DaemonUp
<1>34. CASE DaemonDies
  BY <1>34 DEF DaemonDies, Started
<1>35. CASE ProbeStat
  BY <1>35 DEF ProbeStat, ProbeDone
<1>36. CASE ProbeOpen
  <2>1. PICK i \in Inodes : Opens(probed, i) /\ Create(probed, i) /\ probeFile' = Opened(i)
    BY <1>36 DEF ProbeOpen
  <2>2. probed \in Runs
    BY <1>36 DEF ProbeOpen
  <2>3. /\ path'[probed] = i /\ i # 0 /\ (path[probed] # 0 => path' = path)
        /\ \A q \in Runs \ {probed} : path'[q] = path[q]
        /\ probeFile'.inode = i /\ ~probeFile'.held
    BY <2>1, <2>2, Opening, OpenedFile
  <2> QED BY <1>36, <2>2, <2>3 DEF ProbeOpen
<1>37. CASE ProbeFlock
  BY <1>37 DEF ProbeFlock, Lockable, OpenFiles, Held, ProbeDone
<1>38. CASE ProbeRelease
  BY <1>38 DEF ProbeRelease, ProbeDone
<1>39. CASE UNCHANGED vars
  BY <1>39 DEF vars
<1> QED BY <1>1, <1>2, <1>3, <1>4, <1>5, <1>6, <1>7, <1>8, <1>9, <1>10, <1>11, <1>12, <1>13,
     <1>14, <1>15, <1>16, <1>17, <1>18, <1>19, <1>20, <1>21, <1>22, <1>23, <1>24, <1>25, <1>26,
     <1>27, <1>28, <1>29, <1>30, <1>31, <1>32, <1>33, <1>34, <1>35, <1>36, <1>37, <1>38, <1>39
     DEF Next, RunStep, ChildStep, StartupStep, ProbeStep

\* A raced run has its lock, or no file but the one the sweep has in hand or left.
LEMMA SweptStep ==
  ASSUME LockInv, [Next]_vars
  PROVE  Swept'
<1> USE ConstantsAssumption, ClosedFile
     DEF Goto, DGoto, PGoto, runVars, daemonVars, probeVars, history, races, Leaves, LockInv,
         TypeOK, Visits, Locks, Swept, ToSweep, DaemonSees, Live, Unrecorded, Reaping,
         SweepingFile, Sweeping, Doomed
<1>1. ASSUME NEW r \in Runs, RunOpen(r) PROVE Swept'
  BY <1>1 DEF RunOpen, Opens, Create, MayStart
<1>2. ASSUME NEW r \in Runs, RunFlock(r) PROVE Swept'
  BY <1>2 DEF RunFlock, Lockable, OpenFiles, Held
<1>3. ASSUME NEW r \in Runs, RunLockError(r) PROVE Swept'
  BY <1>3 DEF RunLockError, Unlink, MayStart
<1>4. ASSUME NEW r \in Runs, RecordPending(r) PROVE Swept'
  BY <1>4 DEF RecordPending, Update
<1>5. ASSUME NEW r \in Runs, Spawn(r) PROVE Swept'
  BY <1>5 DEF Spawn
<1>6. ASSUME NEW r \in Runs, ReapHelpers(r) PROVE Swept'
  BY <1>6 DEF ReapHelpers
<1>7. ASSUME NEW r \in Runs, ReapHelpersError(r) PROVE Swept'
  BY <1>7 DEF ReapHelpersError
<1>8. ASSUME NEW r \in Runs, ClearPending(r) PROVE Swept'
  BY <1>8 DEF ClearPending, Update
<1>9. ASSUME NEW r \in Runs, ReleaseLock(r) PROVE Swept'
  BY <1>9 DEF ReleaseLock
<1>10. ASSUME NEW r \in Runs, UnlinkLock(r) PROVE Swept'
  BY <1>10 DEF UnlinkLock, Unlink
<1>11. ASSUME NEW r \in Runs, StartHelper(r) PROVE Swept'
  BY <1>11 DEF StartHelper
<1>12. ASSUME NEW r \in Runs, ChildExit(r) PROVE Swept'
  BY <1>12 DEF ChildExit
<1>13. ASSUME NEW r \in Runs, AdhocDies(r) PROVE Swept'
  BY <1>13 DEF AdhocDies
<1>14. ASSUME NEW r \in Runs, ReusePID(r) PROVE Swept'
  BY <1>14 DEF ReusePID
<1>15. ASSUME NEW r \in Runs, ReapVisit(r) PROVE Swept'
  BY <1>15 DEF ReapVisit, Visit
<1>16. ASSUME NEW r \in Runs, SweepVisit(r) PROVE Swept'
  BY <1>16 DEF SweepVisit, Visit
<1>17. ASSUME NEW r \in Runs, ProbeStart(r) PROVE Swept'
  BY <1>17 DEF ProbeStart
<1>18. CASE DaemonStart
  BY <1>18 DEF DaemonStart
<1>19. CASE ReapStat
  BY <1>19 DEF ReapStat
<1>20. CASE ReapOpen
  <2>1. PICK i \in Inodes : Opens(cur, i) /\ Create(cur, i) /\ daemonFile' = Opened(i)
    BY <1>20 DEF ReapOpen, DaemonOpen
  <2>2. cur \in Runs
    BY <1>20 DEF ReapOpen, DaemonOpen
  <2>3. /\ path'[cur] = i /\ i # 0 /\ (path[cur] # 0 => path' = path)
        /\ \A q \in Runs \ {cur} : path'[q] = path[q]
        /\ daemonFile'.inode = i /\ ~daemonFile'.held
    BY <2>1, <2>2, Opening, OpenedFile
  <2> QED BY <1>20, <2>2, <2>3 DEF ReapOpen, DaemonOpen
<1>21. CASE ReapFlock
  BY <1>21 DEF ReapFlock, DaemonFlock, Lockable, OpenFiles, Held
<1>22. CASE ReapKill
  BY <1>22 DEF ReapKill, InProgress
<1>23. CASE ReapKillError
  BY <1>23 DEF ReapKillError
<1>24. CASE ReapClear
  BY <1>24 DEF ReapClear
<1>25. CASE ReapUnlink
  BY <1>25 DEF ReapUnlink, Unlink
<1>26. CASE ReapRelease
  BY <1>26 DEF ReapRelease
<1>27. CASE SweepStart
  <2>1. \A r \in raced' \ raced : run[r] = "opened" /\ r \in Runs
    BY <1>27 DEF SweepStart
  <2>2. \A r \in raced' \ raced : runFile[r].inode = path[r] /\ ~Live(r)
    <3> TAKE r \in raced' \ raced
    <3>1. r \in Runs \ raced /\ run[r] = "opened"
      BY <2>1
    <3>2. path[r] \in Inodes /\ runFile[r] = Opened(path[r])
      BY <3>1
    <3> QED BY <3>1, <3>2, OpenedFile
  <2> QED BY <1>27, <2>2 DEF SweepStart
<1>28. CASE SweepOpen
  <2>1. PICK i \in Inodes : Opens(cur, i) /\ Create(cur, i) /\ daemonFile' = Opened(i)
    BY <1>28 DEF SweepOpen, DaemonOpen
  <2>2. cur \in Runs
    BY <1>28 DEF SweepOpen, DaemonOpen
  <2>3. /\ path'[cur] = i /\ i # 0 /\ (path[cur] # 0 => path' = path)
        /\ \A q \in Runs \ {cur} : path'[q] = path[q]
        /\ daemonFile'.inode = i /\ ~daemonFile'.held
    BY <2>1, <2>2, Opening, OpenedFile
  <2> QED BY <1>28, <2>2, <2>3 DEF SweepOpen, DaemonOpen
<1>29. CASE SweepFlock
  BY <1>29 DEF SweepFlock, DaemonFlock, Lockable, OpenFiles, Held
<1>30. CASE SweepRelease
  BY <1>30 DEF SweepRelease
<1>31. CASE SweepRemove
  BY <1>31 DEF SweepRemove, Unlink
<1>32. CASE DaemonLockError
  BY <1>32 DEF DaemonLockError
<1>33. CASE DaemonUp
  BY <1>33 DEF DaemonUp
<1>34. CASE DaemonDies
  BY <1>34 DEF DaemonDies, Started
<1>35. CASE ProbeStat
  BY <1>35 DEF ProbeStat, ProbeDone
<1>36. CASE ProbeOpen
  <2>1. PICK i \in Inodes : Opens(probed, i) /\ Create(probed, i) /\ probeFile' = Opened(i)
    BY <1>36 DEF ProbeOpen
  <2>2. probed \in Runs
    BY <1>36 DEF ProbeOpen
  <2>3. /\ path'[probed] = i /\ i # 0 /\ (path[probed] # 0 => path' = path)
        /\ \A q \in Runs \ {probed} : path'[q] = path[q]
        /\ probeFile'.inode = i /\ ~probeFile'.held
    BY <2>1, <2>2, Opening, OpenedFile
  <2> QED BY <1>36, <2>2, <2>3 DEF ProbeOpen
<1>37. CASE ProbeFlock
  BY <1>37 DEF ProbeFlock, Lockable, OpenFiles, Held, ProbeDone
<1>38. CASE ProbeRelease
  BY <1>38 DEF ProbeRelease, ProbeDone
<1>39. CASE UNCHANGED vars
  BY <1>39 DEF vars
<1> QED BY <1>1, <1>2, <1>3, <1>4, <1>5, <1>6, <1>7, <1>8, <1>9, <1>10, <1>11, <1>12, <1>13,
     <1>14, <1>15, <1>16, <1>17, <1>18, <1>19, <1>20, <1>21, <1>22, <1>23, <1>24, <1>25, <1>26,
     <1>27, <1>28, <1>29, <1>30, <1>31, <1>32, <1>33, <1>34, <1>35, <1>36, <1>37, <1>38, <1>39
     DEF Next, RunStep, ChildStep, StartupStep, ProbeStep

\* No file goes while the sweep has still to open it and its run to lock it.
LEMMA ToSweepStep ==
  ASSUME LockInv, [Next]_vars
  PROVE  ToSweep'
<1> USE ConstantsAssumption, ClosedFile
     DEF Goto, DGoto, PGoto, runVars, daemonVars, probeVars, history, races, Leaves, LockInv,
         TypeOK, Visits, Locks, ToSweep, Live, Unrecorded, Reaping, SweepingFile, Sweeping,
         Doomed
<1>1. ASSUME NEW r \in Runs, RunOpen(r) PROVE ToSweep'
  BY <1>1 DEF RunOpen, Opens, Create, MayStart
<1>2. ASSUME NEW r \in Runs, RunFlock(r) PROVE ToSweep'
  BY <1>2 DEF RunFlock, Lockable, OpenFiles, Held
<1>3. ASSUME NEW r \in Runs, RunLockError(r) PROVE ToSweep'
  BY <1>3 DEF RunLockError, Unlink, MayStart
<1>4. ASSUME NEW r \in Runs, RecordPending(r) PROVE ToSweep'
  BY <1>4 DEF RecordPending, Update
<1>5. ASSUME NEW r \in Runs, Spawn(r) PROVE ToSweep'
  BY <1>5 DEF Spawn
<1>6. ASSUME NEW r \in Runs, ReapHelpers(r) PROVE ToSweep'
  BY <1>6 DEF ReapHelpers
<1>7. ASSUME NEW r \in Runs, ReapHelpersError(r) PROVE ToSweep'
  BY <1>7 DEF ReapHelpersError
<1>8. ASSUME NEW r \in Runs, ClearPending(r) PROVE ToSweep'
  BY <1>8 DEF ClearPending, Update
<1>9. ASSUME NEW r \in Runs, ReleaseLock(r) PROVE ToSweep'
  BY <1>9 DEF ReleaseLock
<1>10. ASSUME NEW r \in Runs, UnlinkLock(r) PROVE ToSweep'
  BY <1>10 DEF UnlinkLock, Unlink
<1>11. ASSUME NEW r \in Runs, StartHelper(r) PROVE ToSweep'
  BY <1>11 DEF StartHelper
<1>12. ASSUME NEW r \in Runs, ChildExit(r) PROVE ToSweep'
  BY <1>12 DEF ChildExit
<1>13. ASSUME NEW r \in Runs, AdhocDies(r) PROVE ToSweep'
  BY <1>13 DEF AdhocDies
<1>14. ASSUME NEW r \in Runs, ReusePID(r) PROVE ToSweep'
  BY <1>14 DEF ReusePID
<1>15. ASSUME NEW r \in Runs, ReapVisit(r) PROVE ToSweep'
  BY <1>15 DEF ReapVisit, Visit
<1>16. ASSUME NEW r \in Runs, SweepVisit(r) PROVE ToSweep'
  BY <1>16 DEF SweepVisit, Visit
<1>17. ASSUME NEW r \in Runs, ProbeStart(r) PROVE ToSweep'
  BY <1>17 DEF ProbeStart
<1>18. CASE DaemonStart
  BY <1>18 DEF DaemonStart
<1>19. CASE ReapStat
  BY <1>19 DEF ReapStat
<1>20. CASE ReapOpen
  <2>1. PICK i \in Inodes : Opens(cur, i) /\ Create(cur, i) /\ daemonFile' = Opened(i)
    BY <1>20 DEF ReapOpen, DaemonOpen
  <2>2. cur \in Runs
    BY <1>20 DEF ReapOpen, DaemonOpen
  <2>3. /\ path'[cur] = i /\ i # 0 /\ (path[cur] # 0 => path' = path)
        /\ \A q \in Runs \ {cur} : path'[q] = path[q]
        /\ daemonFile'.inode = i /\ ~daemonFile'.held
    BY <2>1, <2>2, Opening, OpenedFile
  <2> QED BY <1>20, <2>2, <2>3 DEF ReapOpen, DaemonOpen
<1>21. CASE ReapFlock
  BY <1>21 DEF ReapFlock, DaemonFlock, Lockable, OpenFiles, Held
<1>22. CASE ReapKill
  BY <1>22 DEF ReapKill, InProgress
<1>23. CASE ReapKillError
  BY <1>23 DEF ReapKillError
<1>24. CASE ReapClear
  BY <1>24 DEF ReapClear
<1>25. CASE ReapUnlink
  BY <1>25 DEF ReapUnlink, Unlink
<1>26. CASE ReapRelease
  BY <1>26 DEF ReapRelease
<1>27. CASE SweepStart
  BY <1>27 DEF SweepStart
<1>28. CASE SweepOpen
  <2>1. PICK i \in Inodes : Opens(cur, i) /\ Create(cur, i) /\ daemonFile' = Opened(i)
    BY <1>28 DEF SweepOpen, DaemonOpen
  <2>2. cur \in Runs
    BY <1>28 DEF SweepOpen, DaemonOpen
  <2>3. /\ path'[cur] = i /\ i # 0 /\ (path[cur] # 0 => path' = path)
        /\ \A q \in Runs \ {cur} : path'[q] = path[q]
        /\ daemonFile'.inode = i /\ ~daemonFile'.held
    BY <2>1, <2>2, Opening, OpenedFile
  <2> QED BY <1>28, <2>2, <2>3 DEF SweepOpen, DaemonOpen
<1>29. CASE SweepFlock
  BY <1>29 DEF SweepFlock, DaemonFlock, Lockable, OpenFiles, Held
<1>30. CASE SweepRelease
  BY <1>30 DEF SweepRelease
<1>31. CASE SweepRemove
  BY <1>31 DEF SweepRemove, Unlink
<1>32. CASE DaemonLockError
  BY <1>32 DEF DaemonLockError
<1>33. CASE DaemonUp
  BY <1>33 DEF DaemonUp
<1>34. CASE DaemonDies
  BY <1>34 DEF DaemonDies, Started
<1>35. CASE ProbeStat
  BY <1>35 DEF ProbeStat, ProbeDone
<1>36. CASE ProbeOpen
  <2>1. PICK i \in Inodes : Opens(probed, i) /\ Create(probed, i) /\ probeFile' = Opened(i)
    BY <1>36 DEF ProbeOpen
  <2>2. probed \in Runs
    BY <1>36 DEF ProbeOpen
  <2>3. /\ path'[probed] = i /\ i # 0 /\ (path[probed] # 0 => path' = path)
        /\ \A q \in Runs \ {probed} : path'[q] = path[q]
        /\ probeFile'.inode = i /\ ~probeFile'.held
    BY <2>1, <2>2, Opening, OpenedFile
  <2> QED BY <1>36, <2>2, <2>3 DEF ProbeOpen
<1>37. CASE ProbeFlock
  BY <1>37 DEF ProbeFlock, Lockable, OpenFiles, Held, ProbeDone
<1>38. CASE ProbeRelease
  BY <1>38 DEF ProbeRelease, ProbeDone
<1>39. CASE UNCHANGED vars
  BY <1>39 DEF vars
<1> QED BY <1>1, <1>2, <1>3, <1>4, <1>5, <1>6, <1>7, <1>8, <1>9, <1>10, <1>11, <1>12, <1>13,
     <1>14, <1>15, <1>16, <1>17, <1>18, <1>19, <1>20, <1>21, <1>22, <1>23, <1>24, <1>25, <1>26,
     <1>27, <1>28, <1>29, <1>30, <1>31, <1>32, <1>33, <1>34, <1>35, <1>36, <1>37, <1>38, <1>39
     DEF Next, RunStep, ChildStep, StartupStep, ProbeStep

\* The daemon locks no live run's file, but those a sweep overtook.
LEMMA DaemonSeesStep ==
  ASSUME LockInv, [Next]_vars
  PROVE  DaemonSees'
<1> USE ConstantsAssumption, ClosedFile
     DEF Goto, DGoto, PGoto, runVars, daemonVars, probeVars, history, races, Leaves, LockInv,
         TypeOK, Visits, Locks, ToSweep, DaemonSees, Live, Unrecorded, Reaping, SweepingFile,
         Sweeping, Doomed
<1>1. ASSUME NEW r \in Runs, RunOpen(r) PROVE DaemonSees'
  BY <1>1 DEF RunOpen, Opens, Create, MayStart
<1>2. ASSUME NEW r \in Runs, RunFlock(r) PROVE DaemonSees'
  BY <1>2 DEF RunFlock, Lockable, OpenFiles, Held
<1>3. ASSUME NEW r \in Runs, RunLockError(r) PROVE DaemonSees'
  BY <1>3 DEF RunLockError, Unlink, MayStart
<1>4. ASSUME NEW r \in Runs, RecordPending(r) PROVE DaemonSees'
  BY <1>4 DEF RecordPending, Update
<1>5. ASSUME NEW r \in Runs, Spawn(r) PROVE DaemonSees'
  BY <1>5 DEF Spawn
<1>6. ASSUME NEW r \in Runs, ReapHelpers(r) PROVE DaemonSees'
  BY <1>6 DEF ReapHelpers
<1>7. ASSUME NEW r \in Runs, ReapHelpersError(r) PROVE DaemonSees'
  BY <1>7 DEF ReapHelpersError
<1>8. ASSUME NEW r \in Runs, ClearPending(r) PROVE DaemonSees'
  BY <1>8 DEF ClearPending, Update
<1>9. ASSUME NEW r \in Runs, ReleaseLock(r) PROVE DaemonSees'
  BY <1>9 DEF ReleaseLock
<1>10. ASSUME NEW r \in Runs, UnlinkLock(r) PROVE DaemonSees'
  BY <1>10 DEF UnlinkLock, Unlink
<1>11. ASSUME NEW r \in Runs, StartHelper(r) PROVE DaemonSees'
  BY <1>11 DEF StartHelper
<1>12. ASSUME NEW r \in Runs, ChildExit(r) PROVE DaemonSees'
  BY <1>12 DEF ChildExit
<1>13. ASSUME NEW r \in Runs, AdhocDies(r) PROVE DaemonSees'
  BY <1>13 DEF AdhocDies
<1>14. ASSUME NEW r \in Runs, ReusePID(r) PROVE DaemonSees'
  BY <1>14 DEF ReusePID
<1>15. ASSUME NEW r \in Runs, ReapVisit(r) PROVE DaemonSees'
  BY <1>15 DEF ReapVisit, Visit
<1>16. ASSUME NEW r \in Runs, SweepVisit(r) PROVE DaemonSees'
  BY <1>16 DEF SweepVisit, Visit
<1>17. ASSUME NEW r \in Runs, ProbeStart(r) PROVE DaemonSees'
  BY <1>17 DEF ProbeStart
<1>18. CASE DaemonStart
  BY <1>18 DEF DaemonStart
<1>19. CASE ReapStat
  BY <1>19 DEF ReapStat
<1>20. CASE ReapOpen
  <2>1. PICK i \in Inodes : Opens(cur, i) /\ Create(cur, i) /\ daemonFile' = Opened(i)
    BY <1>20 DEF ReapOpen, DaemonOpen
  <2>2. cur \in Runs
    BY <1>20 DEF ReapOpen, DaemonOpen
  <2>3. /\ path'[cur] = i /\ i # 0 /\ (path[cur] # 0 => path' = path)
        /\ \A q \in Runs \ {cur} : path'[q] = path[q]
        /\ daemonFile'.inode = i /\ ~daemonFile'.held
    BY <2>1, <2>2, Opening, OpenedFile
  <2> QED BY <1>20, <2>2, <2>3 DEF ReapOpen, DaemonOpen
<1>21. CASE ReapFlock
  <2>1. cur \in Runs /\ (Lockable(cur, daemonFile.inode) => ~Live(cur) \/ cur \in left)
    BY <1>21, SweptHeldOff DEF ReapFlock, DaemonFlock
  <2> QED BY <1>21, <2>1 DEF ReapFlock, DaemonFlock
<1>22. CASE ReapKill
  BY <1>22 DEF ReapKill, InProgress
<1>23. CASE ReapKillError
  BY <1>23 DEF ReapKillError
<1>24. CASE ReapClear
  BY <1>24 DEF ReapClear
<1>25. CASE ReapUnlink
  BY <1>25 DEF ReapUnlink, Unlink
<1>26. CASE ReapRelease
  BY <1>26 DEF ReapRelease
<1>27. CASE SweepStart
  BY <1>27 DEF SweepStart
<1>28. CASE SweepOpen
  <2>1. PICK i \in Inodes : Opens(cur, i) /\ Create(cur, i) /\ daemonFile' = Opened(i)
    BY <1>28 DEF SweepOpen, DaemonOpen
  <2>2. cur \in Runs
    BY <1>28 DEF SweepOpen, DaemonOpen
  <2>3. /\ path'[cur] = i /\ i # 0 /\ (path[cur] # 0 => path' = path)
        /\ \A q \in Runs \ {cur} : path'[q] = path[q]
        /\ daemonFile'.inode = i /\ ~daemonFile'.held
    BY <2>1, <2>2, Opening, OpenedFile
  <2> QED BY <1>28, <2>2, <2>3 DEF SweepOpen, DaemonOpen
<1>29. CASE SweepFlock
  <2>1. cur \in Runs /\ (Lockable(cur, daemonFile.inode) => ~Live(cur) \/ cur \in raced)
    BY <1>29, HeldOff DEF SweepFlock, DaemonFlock
  <2> QED BY <1>29, <2>1 DEF SweepFlock, DaemonFlock
<1>30. CASE SweepRelease
  BY <1>30 DEF SweepRelease
<1>31. CASE SweepRemove
  BY <1>31 DEF SweepRemove, Unlink
<1>32. CASE DaemonLockError
  BY <1>32 DEF DaemonLockError
<1>33. CASE DaemonUp
  BY <1>33 DEF DaemonUp
<1>34. CASE DaemonDies
  BY <1>34 DEF DaemonDies, Started
<1>35. CASE ProbeStat
  BY <1>35 DEF ProbeStat, ProbeDone
<1>36. CASE ProbeOpen
  <2>1. PICK i \in Inodes : Opens(probed, i) /\ Create(probed, i) /\ probeFile' = Opened(i)
    BY <1>36 DEF ProbeOpen
  <2>2. probed \in Runs
    BY <1>36 DEF ProbeOpen
  <2>3. /\ path'[probed] = i /\ i # 0 /\ (path[probed] # 0 => path' = path)
        /\ \A q \in Runs \ {probed} : path'[q] = path[q]
        /\ probeFile'.inode = i /\ ~probeFile'.held
    BY <2>1, <2>2, Opening, OpenedFile
  <2> QED BY <1>36, <2>2, <2>3 DEF ProbeOpen
<1>37. CASE ProbeFlock
  BY <1>37 DEF ProbeFlock, Lockable, OpenFiles, Held, ProbeDone
<1>38. CASE ProbeRelease
  BY <1>38 DEF ProbeRelease, ProbeDone
<1>39. CASE UNCHANGED vars
  BY <1>39 DEF vars
<1> QED BY <1>1, <1>2, <1>3, <1>4, <1>5, <1>6, <1>7, <1>8, <1>9, <1>10, <1>11, <1>12, <1>13,
     <1>14, <1>15, <1>16, <1>17, <1>18, <1>19, <1>20, <1>21, <1>22, <1>23, <1>24, <1>25, <1>26,
     <1>27, <1>28, <1>29, <1>30, <1>31, <1>32, <1>33, <1>34, <1>35, <1>36, <1>37, <1>38, <1>39
     DEF Next, RunStep, ChildStep, StartupStep, ProbeStep

\* Nor does the probe.
LEMMA ProbeSeesStep ==
  ASSUME LockInv, [Next]_vars
  PROVE  ProbeSees'
<1> USE ConstantsAssumption, ClosedFile
     DEF Goto, DGoto, PGoto, runVars, daemonVars, probeVars, history, races, Leaves, LockInv,
         TypeOK, Visits, Locks, Live, Unrecorded, ProbeSees, Reaping, SweepingFile, Sweeping,
         Doomed
<1>1. ASSUME NEW r \in Runs, RunOpen(r) PROVE ProbeSees'
  BY <1>1 DEF RunOpen, Opens, Create, MayStart
<1>2. ASSUME NEW r \in Runs, RunFlock(r) PROVE ProbeSees'
  BY <1>2 DEF RunFlock, Lockable, OpenFiles, Held
<1>3. ASSUME NEW r \in Runs, RunLockError(r) PROVE ProbeSees'
  BY <1>3 DEF RunLockError, Unlink, MayStart
<1>4. ASSUME NEW r \in Runs, RecordPending(r) PROVE ProbeSees'
  BY <1>4 DEF RecordPending, Update
<1>5. ASSUME NEW r \in Runs, Spawn(r) PROVE ProbeSees'
  BY <1>5 DEF Spawn
<1>6. ASSUME NEW r \in Runs, ReapHelpers(r) PROVE ProbeSees'
  BY <1>6 DEF ReapHelpers
<1>7. ASSUME NEW r \in Runs, ReapHelpersError(r) PROVE ProbeSees'
  BY <1>7 DEF ReapHelpersError
<1>8. ASSUME NEW r \in Runs, ClearPending(r) PROVE ProbeSees'
  BY <1>8 DEF ClearPending, Update
<1>9. ASSUME NEW r \in Runs, ReleaseLock(r) PROVE ProbeSees'
  BY <1>9 DEF ReleaseLock
<1>10. ASSUME NEW r \in Runs, UnlinkLock(r) PROVE ProbeSees'
  BY <1>10 DEF UnlinkLock, Unlink
<1>11. ASSUME NEW r \in Runs, StartHelper(r) PROVE ProbeSees'
  BY <1>11 DEF StartHelper
<1>12. ASSUME NEW r \in Runs, ChildExit(r) PROVE ProbeSees'
  BY <1>12 DEF ChildExit
<1>13. ASSUME NEW r \in Runs, AdhocDies(r) PROVE ProbeSees'
  BY <1>13 DEF AdhocDies
<1>14. ASSUME NEW r \in Runs, ReusePID(r) PROVE ProbeSees'
  BY <1>14 DEF ReusePID
<1>15. ASSUME NEW r \in Runs, ReapVisit(r) PROVE ProbeSees'
  BY <1>15 DEF ReapVisit, Visit
<1>16. ASSUME NEW r \in Runs, SweepVisit(r) PROVE ProbeSees'
  BY <1>16 DEF SweepVisit, Visit
<1>17. ASSUME NEW r \in Runs, ProbeStart(r) PROVE ProbeSees'
  BY <1>17 DEF ProbeStart
<1>18. CASE DaemonStart
  BY <1>18 DEF DaemonStart
<1>19. CASE ReapStat
  BY <1>19 DEF ReapStat
<1>20. CASE ReapOpen
  <2>1. PICK i \in Inodes : Opens(cur, i) /\ Create(cur, i) /\ daemonFile' = Opened(i)
    BY <1>20 DEF ReapOpen, DaemonOpen
  <2>2. cur \in Runs
    BY <1>20 DEF ReapOpen, DaemonOpen
  <2>3. /\ path'[cur] = i /\ i # 0 /\ (path[cur] # 0 => path' = path)
        /\ \A q \in Runs \ {cur} : path'[q] = path[q]
        /\ daemonFile'.inode = i /\ ~daemonFile'.held
    BY <2>1, <2>2, Opening, OpenedFile
  <2> QED BY <1>20, <2>2, <2>3 DEF ReapOpen, DaemonOpen
<1>21. CASE ReapFlock
  BY <1>21 DEF ReapFlock, DaemonFlock, Lockable, OpenFiles, Held
<1>22. CASE ReapKill
  BY <1>22 DEF ReapKill, InProgress
<1>23. CASE ReapKillError
  BY <1>23 DEF ReapKillError
<1>24. CASE ReapClear
  BY <1>24 DEF ReapClear
<1>25. CASE ReapUnlink
  <2>1. (Live(cur) => cur \in raced) /\ cur \in Runs
    BY <1>25 DEF ReapUnlink, DaemonSees
  <2> QED BY <1>25, <2>1 DEF ReapUnlink, Unlink
<1>26. CASE ReapRelease
  BY <1>26 DEF ReapRelease
<1>27. CASE SweepStart
  BY <1>27 DEF SweepStart
<1>28. CASE SweepOpen
  <2>1. PICK i \in Inodes : Opens(cur, i) /\ Create(cur, i) /\ daemonFile' = Opened(i)
    BY <1>28 DEF SweepOpen, DaemonOpen
  <2>2. cur \in Runs
    BY <1>28 DEF SweepOpen, DaemonOpen
  <2>3. /\ path'[cur] = i /\ i # 0 /\ (path[cur] # 0 => path' = path)
        /\ \A q \in Runs \ {cur} : path'[q] = path[q]
        /\ daemonFile'.inode = i /\ ~daemonFile'.held
    BY <2>1, <2>2, Opening, OpenedFile
  <2> QED BY <1>28, <2>2, <2>3 DEF SweepOpen, DaemonOpen
<1>29. CASE SweepFlock
  BY <1>29 DEF SweepFlock, DaemonFlock, Lockable, OpenFiles, Held
<1>30. CASE SweepRelease
  BY <1>30 DEF SweepRelease
<1>31. CASE SweepRemove
  <2>1. (Live(cur) => cur \in raced) /\ cur \in Runs
    BY <1>31 DEF SweepRemove, DaemonSees
  <2> QED BY <1>31, <2>1 DEF SweepRemove, Unlink
<1>32. CASE DaemonLockError
  BY <1>32 DEF DaemonLockError
<1>33. CASE DaemonUp
  BY <1>33 DEF DaemonUp
<1>34. CASE DaemonDies
  BY <1>34 DEF DaemonDies, Started
<1>35. CASE ProbeStat
  BY <1>35 DEF ProbeStat, ProbeDone
<1>36. CASE ProbeOpen
  <2>1. PICK i \in Inodes : Opens(probed, i) /\ Create(probed, i) /\ probeFile' = Opened(i)
    BY <1>36 DEF ProbeOpen
  <2>2. probed \in Runs
    BY <1>36 DEF ProbeOpen
  <2>3. /\ path'[probed] = i /\ i # 0 /\ (path[probed] # 0 => path' = path)
        /\ \A q \in Runs \ {probed} : path'[q] = path[q]
        /\ probeFile'.inode = i /\ ~probeFile'.held
    BY <2>1, <2>2, Opening, OpenedFile
  <2> QED BY <1>36, <2>2, <2>3 DEF ProbeOpen
<1>37. CASE ProbeFlock
  <2>1. probed \in Runs /\ (Lockable(probed, probeFile.inode) => ~Live(probed) \/ probed \in raced)
    BY <1>37, HeldOff DEF ProbeFlock
  <2> QED BY <1>37, <2>1 DEF ProbeFlock, ProbeDone
<1>38. CASE ProbeRelease
  BY <1>38 DEF ProbeRelease, ProbeDone
<1>39. CASE UNCHANGED vars
  BY <1>39 DEF vars
<1> QED BY <1>1, <1>2, <1>3, <1>4, <1>5, <1>6, <1>7, <1>8, <1>9, <1>10, <1>11, <1>12, <1>13,
     <1>14, <1>15, <1>16, <1>17, <1>18, <1>19, <1>20, <1>21, <1>22, <1>23, <1>24, <1>25, <1>26,
     <1>27, <1>28, <1>29, <1>30, <1>31, <1>32, <1>33, <1>34, <1>35, <1>36, <1>37, <1>38, <1>39
     DEF Next, RunStep, ChildStep, StartupStep, ProbeStep

\* A record outlives the helpers it is for.
LEMMA RecordedStep ==
  ASSUME LockInv, Recorded, [Next]_vars
  PROVE  Recorded'
<1> USE ConstantsAssumption, ClosedFile
     DEF Goto, DGoto, PGoto, runVars, daemonVars, probeVars, history, races, Leaves, LockInv,
         TypeOK, Visits, Unrecorded, Recorded, InProgress, Reaping, SweepingFile, Sweeping
<1>1. ASSUME NEW r \in Runs, RunOpen(r) PROVE Recorded'
  BY <1>1 DEF RunOpen, Opens, Create, MayStart
<1>2. ASSUME NEW r \in Runs, RunFlock(r) PROVE Recorded'
  BY <1>2 DEF RunFlock, Lockable, OpenFiles, Held
<1>3. ASSUME NEW r \in Runs, RunLockError(r) PROVE Recorded'
  BY <1>3 DEF RunLockError, Unlink, MayStart
<1>4. ASSUME NEW r \in Runs, RecordPending(r) PROVE Recorded'
  BY <1>4 DEF RecordPending, Update
<1>5. ASSUME NEW r \in Runs, Spawn(r) PROVE Recorded'
  <2>1. /\ run[r] = "spawn" /\ UNCHANGED <<rec, unsaved, helpers, daemon, cur, reapedAlive>>
        /\ child' \subseteq child \cup {r}
        /\ \A q \in Runs : run'[q] = IF q # r THEN run[q] ELSE IF child' = child THEN run'[r] ELSE "running"
        /\ run'[r] \in {"running", "reap"}
    BY <1>5 DEF Spawn
  <2>2. r \notin child /\ (daemon = "clear" /\ cur \notin reapedAlive => cur # r)
    BY <2>1
  <2>3. r \in rec \cup unsaved \cup reapedAlive
    BY <2>1
  <2>4. \A q \in child' : run'[q] \in {"running", "dead"}
    BY <1>5, <2>2 DEF Spawn
  <2> QED BY <2>1, <2>2, <2>3, <2>4
<1>6. ASSUME NEW r \in Runs, ReapHelpers(r) PROVE Recorded'
  BY <1>6 DEF ReapHelpers
<1>7. ASSUME NEW r \in Runs, ReapHelpersError(r) PROVE Recorded'
  BY <1>7 DEF ReapHelpersError
<1>8. ASSUME NEW r \in Runs, ClearPending(r) PROVE Recorded'
  BY <1>8 DEF ClearPending, Update
<1>9. ASSUME NEW r \in Runs, ReleaseLock(r) PROVE Recorded'
  BY <1>9 DEF ReleaseLock
<1>10. ASSUME NEW r \in Runs, UnlinkLock(r) PROVE Recorded'
  BY <1>10 DEF UnlinkLock, Unlink
<1>11. ASSUME NEW r \in Runs, StartHelper(r) PROVE Recorded'
  BY <1>11 DEF StartHelper
<1>12. ASSUME NEW r \in Runs, ChildExit(r) PROVE Recorded'
  <2>1. /\ UNCHANGED <<rec, unsaved, helpers, daemon, cur, reapedAlive>>
        /\ child' = child \ {r} /\ r \in child
        /\ \A q \in Runs \ {r} : run'[q] = run[q]
        /\ run'[r] \in {"reap", "dead"}
    BY <1>12 DEF ChildExit
  <2> QED BY <2>1
<1>13. ASSUME NEW r \in Runs, AdhocDies(r) PROVE Recorded'
  BY <1>13 DEF AdhocDies
<1>14. ASSUME NEW r \in Runs, ReusePID(r) PROVE Recorded'
  BY <1>14 DEF ReusePID
<1>15. ASSUME NEW r \in Runs, ReapVisit(r) PROVE Recorded'
  BY <1>15 DEF ReapVisit, Visit
<1>16. ASSUME NEW r \in Runs, SweepVisit(r) PROVE Recorded'
  BY <1>16 DEF SweepVisit, Visit
<1>17. ASSUME NEW r \in Runs, ProbeStart(r) PROVE Recorded'
  BY <1>17 DEF ProbeStart
<1>18. CASE DaemonStart
  BY <1>18 DEF DaemonStart
<1>19. CASE ReapStat
  BY <1>19 DEF ReapStat
<1>20. CASE ReapOpen
  BY <1>20 DEF ReapOpen, DaemonOpen, Opens, Create
<1>21. CASE ReapFlock
  BY <1>21 DEF ReapFlock, DaemonFlock, Lockable, OpenFiles, Held
<1>22. CASE ReapKill
  BY <1>22 DEF ReapKill, InProgress
<1>23. CASE ReapKillError
  BY <1>23 DEF ReapKillError
<1>24. CASE ReapClear
  BY <1>24 DEF ReapClear
<1>25. CASE ReapUnlink
  BY <1>25 DEF ReapUnlink, Unlink
<1>26. CASE ReapRelease
  BY <1>26 DEF ReapRelease
<1>27. CASE SweepStart
  BY <1>27 DEF SweepStart
<1>28. CASE SweepOpen
  BY <1>28 DEF SweepOpen, DaemonOpen, Opens, Create
<1>29. CASE SweepFlock
  BY <1>29 DEF SweepFlock, DaemonFlock, Lockable, OpenFiles, Held
<1>30. CASE SweepRelease
  BY <1>30 DEF SweepRelease
<1>31. CASE SweepRemove
  BY <1>31 DEF SweepRemove, Unlink
<1>32. CASE DaemonLockError
  BY <1>32 DEF DaemonLockError
<1>33. CASE DaemonUp
  BY <1>33 DEF DaemonUp
<1>34. CASE DaemonDies
  BY <1>34 DEF DaemonDies, Started
<1>35. CASE ProbeStat
  BY <1>35 DEF ProbeStat, ProbeDone
<1>36. CASE ProbeOpen
  BY <1>36 DEF ProbeOpen, Opens, Create
<1>37. CASE ProbeFlock
  BY <1>37 DEF ProbeFlock, Lockable, OpenFiles, Held, ProbeDone
<1>38. CASE ProbeRelease
  BY <1>38 DEF ProbeRelease, ProbeDone
<1>39. CASE UNCHANGED vars
  BY <1>39 DEF vars
<1> QED BY <1>1, <1>2, <1>3, <1>4, <1>5, <1>6, <1>7, <1>8, <1>9, <1>10, <1>11, <1>12, <1>13,
     <1>14, <1>15, <1>16, <1>17, <1>18, <1>19, <1>20, <1>21, <1>22, <1>23, <1>24, <1>25, <1>26,
     <1>27, <1>28, <1>29, <1>30, <1>31, <1>32, <1>33, <1>34, <1>35, <1>36, <1>37, <1>38, <1>39
     DEF Next, RunStep, ChildStep, StartupStep, ProbeStep

-----------------------------------------------------------------------------
LEMMA InitLockInv == Init => LockInv
<1> SUFFICES ASSUME Init PROVE LockInv
  OBVIOUS
<1> USE ConstantsAssumption, ClosedFile DEF Init
<1>1. TypeOK
  BY DEF TypeOK, RunStates, DaemonStates, ProbeStates
<1>2. Visits
  BY DEF Visits, Reaping, SweepingFile, Doomed
<1>3. Locks /\ Swept /\ ToSweep
  BY DEF Locks, Swept, ToSweep, Live, Sweeping, SweepingFile
<1>4. DaemonSees /\ ProbeSees
  BY DEF DaemonSees, ProbeSees, Doomed
<1> QED BY <1>1, <1>2, <1>3, <1>4 DEF LockInv

LEMMA LockInvariant == Spec => []LockInv
<1>1. LockInv /\ [Next]_vars => LockInv'
  BY TypeOKStep, VisitsStep, LocksStep, SweptStep, ToSweepStep, DaemonSeesStep, ProbeSeesStep DEF LockInv
<1> QED BY <1>1, InitLockInv, PTL DEF Spec

\* Types, whoever overlaps with whom.
THEOREM TypeCorrect == Spec => []TypeOK
<1>1. LockInv => TypeOK
  BY DEF LockInv
<1> QED BY <1>1, LockInvariant, PTL

\* A daemon that starts reaps no run that is in progress, of its own or ad hoc,
\* but one that a sweep overtook and whose file came back without its lock.
THEOREM LiveRunsSafe == Spec => []LiveRunNotReaped
<1>1. LockInv => LiveRunNotReaped
  BY DEF LockInv, DaemonSees, Doomed, Live, LiveRunNotReaped, InProgress
<1> QED BY <1>1, LockInvariant, PTL

\* status calls no run in progress dead, but one that a sweep overtook.
THEOREM ProbeTrue == Spec => []ProbeTellsTruth
<1>1. LockInv => ProbeTellsTruth
  BY DEF LockInv, ProbeSees, Live, ProbeTellsTruth, InProgress
<1> QED BY <1>1, LockInvariant, PTL

\* Helpers that outlive their run are recorded, unless their record could not be
\* saved or their run was reaped before they started.
THEOREM OrphansRecorded == Spec => []OrphansStayRecorded
<1>1. Init => Recorded
  BY DEF Init, Recorded, InProgress
<1>2. LockInv /\ Recorded /\ [Next]_vars => Recorded'
  BY RecordedStep
<1>3. Recorded => OrphansStayRecorded
  BY DEF Recorded, OrphansStayRecorded
<1> QED BY <1>1, <1>2, <1>3, LockInvariant, PTL DEF Spec

-----------------------------------------------------------------------------
(* EventListener. *)

ListenerInv == ListenerTypeOK /\ ObservedIsOwed

\* One step per action.
LEMMA NextListenerInv == ListenerInv /\ [ListenerNext]_eventVars => ListenerInv'
<1> SUFFICES ASSUME ListenerInv, [ListenerNext]_eventVars PROVE ListenerInv'
  OBVIOUS
<1> USE ListenerAssumption
    DEF ListenerInv, ListenerTypeOK, ObservedIsOwed, NoTimer, listenerVars, orchestratorVars,
        Send, StopTimer
<1>1. ASSUME NEW kind \in Kinds, Change(kind) PROVE ListenerInv'
  <2>1. inflight' \in 0..MaxInFlight /\ dirty' \subseteq Kinds
    BY <1>1 DEF Change
  <2>2. early' \in BOOLEAN
    <3>1. CASE kind = "inventory"
      BY <1>1, <3>1 DEF Change
    <3>2. CASE kind # "inventory"
      BY <1>1, <3>2 DEF Change
    <3> QED BY <3>1, <3>2
  <2> QED BY <1>1, <2>1, <2>2 DEF Change
<1>2. CASE Break
  BY <1>2 DEF Break
<1>3. CASE Leave
  BY <1>3 DEF Leave
<1>4. CASE Connect
  BY <1>4 DEF Connect
<1>5. CASE CoverGap
  <2>1. CASE reconnected
    BY <1>5, <2>1 DEF CoverGap
  <2>2. CASE ~reconnected
    BY <1>5, <2>2 DEF CoverGap
  <2> QED BY <2>1, <2>2
<1>6. CASE Receive
  BY <1>6 DEF Receive, Elapsed, NewBurst
<1>7. CASE Fire
  BY <1>7 DEF Fire
<1>8. CASE Disconnect
  <2>1. CASE fire = NoTimer
    BY <1>8, <2>1 DEF Disconnect
  <2>2. CASE fire # NoTimer
    BY <1>8, <2>2 DEF Disconnect
  <2> QED BY <2>1, <2>2
<1>9. CASE Backoff
  BY <1>9 DEF Backoff
<1>10. CASE Tick
  BY <1>10 DEF Tick
<1>11. CASE Discover
  BY <1>11 DEF Discover, MayDiscover
<1>12. CASE DiscoverFails
  BY <1>12 DEF DiscoverFails, MayDiscover
<1>13. CASE EndCycle
  BY <1>13 DEF EndCycle
<1>14. CASE TakeTrigger
  <2>1. ListenerTypeOK'
    BY <1>14 DEF TakeTrigger
  <2>2. ObservedIsOwed'
    BY <1>14 DEF TakeTrigger
  <2> QED BY <2>1, <2>2
<1>15. CASE Stop
  BY <1>15 DEF Stop
<1>16. CASE Cancel
  BY <1>16 DEF Cancel
<1>17. CASE UNCHANGED eventVars
  BY <1>17 DEF eventVars
<1> QED
  BY <1>1, <1>2, <1>3, <1>4, <1>5, <1>6, <1>7, <1>8, <1>9, <1>10, <1>11, <1>12, <1>13, <1>14,
     <1>15, <1>16, <1>17 DEF ListenerNext

LEMMA InitListenerInv == ListenerInit => ListenerInv
<1> SUFFICES ASSUME ListenerInit PROVE ListenerInv
  OBVIOUS
<1>1. fire \in NoTimer..Debounce /\ age \in 0..MaxWait /\ inflight \in 0..MaxInFlight
  BY ListenerAssumption DEF ListenerInit, NoTimer
<1> QED BY <1>1 DEF ListenerInit, ListenerInv, ListenerTypeOK, ObservedIsOwed

\* Types; the debounce never runs past MaxWait from the first event of its burst.
THEOREM ListenerTypeCorrect == FairSpec => []ListenerTypeOK
<1>1. ListenerInv => ListenerTypeOK
  BY DEF ListenerInv
<1> QED BY InitListenerInv, NextListenerInv, <1>1, PTL DEF FairSpec, ListenerSpec

\* A received event is owed a discovery until one follows it.
THEOREM NoneLost == FairSpec => []ObservedIsOwed
<1>1. ListenerInv => ObservedIsOwed
  BY DEF ListenerInv
<1> QED BY InitListenerInv, NextListenerInv, <1>1, PTL DEF FairSpec, ListenerSpec

-----------------------------------------------------------------------------
\* The listener reads a stream it has subscribed to, and has connected before.
Subscribed ==
  /\ lpc \in {"connected", "stream"} => stream \in {"open", "broken"}
  /\ lpc \notin {"connected", "stream"} => stream = "none" /\ inflight = 0
  /\ lpc \in {"stream", "backoff"} => reconnected

\* What came or went since the last listing is announced, owed, parked or about to be
\* listed, or the listener is about to subscribe again, which owes a trigger.
Covered == "inventory" \in dirty /\ ~failed /\ ~early =>
  \/ opc \in {"initial", "cycle", "stopped"} \/ trigger \/ fire # NoTimer
  \/ lpc # "stream" /\ (reconnected \/ lpc = "done")
  \/ inflight > 0 \/ stream = "broken"

GapInv == ListenerInv /\ Subscribed /\ Covered

LEMMA NextGapInv == GapInv /\ [ListenerNext]_eventVars => GapInv'
<1> SUFFICES ASSUME GapInv, [ListenerNext]_eventVars PROVE Subscribed' /\ Covered'
  BY NextListenerInv DEF GapInv
<1> USE ListenerAssumption
    DEF GapInv, ListenerInv, ListenerTypeOK, Subscribed, Covered, NoTimer, listenerVars,
        orchestratorVars, Send, StopTimer
<1>1. ASSUME NEW kind \in Kinds, Change(kind) PROVE Subscribed' /\ Covered'
  <2>1. UNCHANGED <<stream, reconnected, lpc, fire, trigger, opc, failed>>
    BY <1>1 DEF Change
  <2>2. CASE kind \in Announced /\ stream = "open"
    BY <1>1, <2>1, <2>2 DEF Change
  <2>3. CASE kind \in Announced /\ stream # "open"
    <3>1. inflight' = inflight /\ kind = "inventory" /\ "inventory" \in dirty'
      BY <1>1, <2>3 DEF Change, Announced
    <3>2. lpc = "connect" /\ ~reconnected => (~early' => ~early /\ "inventory" \in dirty)
      BY <1>1, <3>1 DEF Change, NeverSubscribed
    <3> QED BY <2>1, <2>3, <3>1, <3>2
  <2>4. CASE kind \notin Announced
    <3>1. inflight' = inflight /\ early' = early /\ ("inventory" \in dirty' => "inventory" \in dirty)
      BY <1>1, <2>4 DEF Change, Announced
    <3> QED BY <2>1, <3>1
  <2> QED BY <2>2, <2>3, <2>4
<1>2. CASE Break
  BY <1>2 DEF Break
<1>3. CASE Leave
  BY <1>3 DEF Leave
<1>4. CASE Connect
  BY <1>4 DEF Connect
<1>5. CASE CoverGap
  <2>1. CASE reconnected
    BY <1>5, <2>1 DEF CoverGap
  <2>2. CASE ~reconnected
    BY <1>5, <2>2 DEF CoverGap
  <2> QED BY <2>1, <2>2
<1>6. CASE Receive
  BY <1>6 DEF Receive, Elapsed, NewBurst
<1>7. CASE Fire
  BY <1>7 DEF Fire
<1>8. CASE Disconnect
  BY <1>8 DEF Disconnect
<1>9. CASE Backoff
  BY <1>9 DEF Backoff
<1>10. CASE Tick
  BY <1>10 DEF Tick
<1>11. CASE Discover
  BY <1>11 DEF Discover, MayDiscover
<1>12. CASE DiscoverFails
  BY <1>12 DEF DiscoverFails, MayDiscover
<1>13. CASE EndCycle
  BY <1>13 DEF EndCycle
<1>14. CASE TakeTrigger
  BY <1>14 DEF TakeTrigger
<1>15. CASE Stop
  BY <1>15 DEF Stop
<1>16. CASE Cancel
  BY <1>16 DEF Cancel
<1>17. CASE UNCHANGED eventVars
  BY <1>17 DEF eventVars
<1> QED
  BY <1>1, <1>2, <1>3, <1>4, <1>5, <1>6, <1>7, <1>8, <1>9, <1>10, <1>11, <1>12, <1>13, <1>14,
     <1>15, <1>16, <1>17 DEF ListenerNext

\* At rest, discovery has seen every container and volume that came or went since
\* the first subscription, unless it failed last.
THEOREM NoneMissed == FairSpec => []NothingMissed
<1>1. ListenerInit => GapInv
  BY InitListenerInv DEF ListenerInit, GapInv, ListenerInv, Subscribed, Covered
<1>2. GapInv => NothingMissed
  BY ListenerAssumption
     DEF GapInv, ListenerInv, ListenerTypeOK, Covered, NothingMissed, Quiet, NoTimer
<1> QED BY <1>1, NextGapInv, <1>2, PTL DEF FairSpec, ListenerSpec
=============================================================================
