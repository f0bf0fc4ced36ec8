------------------------------ MODULE RunLocks ------------------------------
(***************************************************************************)
(* How backups and restores keep out of each other's way.                  *)
(*                                                                         *)
(* Runner.TryRunGroup takes, for one group, a try-only in-process          *)
(* semaphore, then blocking in-process semaphores (the snapshot facility,  *)
(* then the group's repositories in sorted order), then a non-blocking     *)
(* flock on every one of those keys, and runs borgmatic under all of them. *)
(* runRestoreVolume takes flocks only: the target volume, the groups that  *)
(* back it up, their repositories.  Semaphores live in one process; flocks *)
(* are shared by all and are dropped by the kernel when a process dies.    *)
(*                                                                         *)
(* A lock key is <<class, n>>: names are naturals, their order is the      *)
(* order sort.Strings gives the names.                                     *)
(***************************************************************************)
EXTENDS Naturals

CONSTANTS
  Procs,           \* manager processes: the daemon, ad-hoc runs, restores
  Backups,         \* calls of TryRunGroup
  Restores,        \* restore-volume commands
  ProcOf,          \* the process each of them runs in
  Groups, Repos, Volumes,
  GroupOf,         \* the group each backup is for
  Metas,           \* Metas[g]: what generations may say of group g
  RestorePlans     \* what a restore may have resolved its arguments to

Workers == Backups \cup Restores

Class == [volume |-> 0, group |-> 1, snapshots |-> 2, repo |-> 3]

VolumeKey(v) == <<"volume", v>>
GroupLockKey(g) == <<"group", g>>
SnapshotLockKey == <<"snapshots", 0>>
RepoLockKey(r) == <<"repo", r>>

Key == {VolumeKey(v) : v \in Volumes} \cup {GroupLockKey(g) : g \in Groups}
         \cup {SnapshotLockKey} \cup {RepoLockKey(r) : r \in Repos}

\* The one global lock order.
Before(j, k) == \/ Class[j[1]] < Class[k[1]]
                \/ j[1] = k[1] /\ j[2] < k[2]

Meta == [snapshotHooks : BOOLEAN, repos : SUBSET Repos]
RestorePlan == [volume : Volumes, groups : SUBSET Groups, repos : SUBSET Repos]

ASSUME NamesAssumption ==
  Groups \subseteq Nat /\ Repos \subseteq Nat /\ Volumes \subseteq Nat

ASSUME WorkersAssumption ==
  /\ Backups \cap Restores = {}
  /\ ProcOf \in [Workers -> Procs]
  /\ GroupOf \in [Backups -> Groups]
  /\ Metas \in [Groups -> SUBSET Meta]
  /\ RestorePlans \subseteq RestorePlan

\* A restore is a process of its own.
ASSUME RestoreProcsAssumption ==
  \A x \in Restores : \A w \in Workers : ProcOf[w] = ProcOf[x] => w = x

\* Faulty: the group's lock stays in the process, only repositories are flocked.
RunKeysWithoutGroup(g, meta) ==
  (IF meta.snapshotHooks THEN {SnapshotLockKey} ELSE {})
    \cup {RepoLockKey(r) : r \in meta.repos}

RunKeys(g, meta) ==
  {GroupLockKey(g)}
    \cup (IF meta.snapshotHooks THEN {SnapshotLockKey} ELSE {})
    \cup {RepoLockKey(r) : r \in meta.repos}

\* lockVolumeRestore's key and restoreLockKeys.
RestoreKeys(plan) ==
  {VolumeKey(plan.volume)} \cup {GroupLockKey(g) : g \in plan.groups}
    \cup {RepoLockKey(r) : r \in plan.repos}

VARIABLES
  pc,          \* where each worker is
  want,        \* the keys of its current call
  semHeld,     \* the semaphores it holds: the group's, and "held" in the code
  flockHeld,   \* the flocks it holds: "heldLocks" in the code
  cancelled    \* whether the process's context is done

vars == <<pc, want, semHeld, flockHeld, cancelled>>

States == {"idle", "sems", "flocks", "running", "release"}

Init ==
  /\ pc = [w \in Workers |-> "idle"]
  /\ want = [w \in Workers |-> {}]
  /\ semHeld = [w \in Workers |-> {}]
  /\ flockHeld = [w \in Workers |-> {}]
  /\ cancelled = [p \in Procs |-> FALSE]

-----------------------------------------------------------------------------
Siblings(w) == {v \in Workers \ {w} : ProcOf[v] = ProcOf[w]}

SemFree(w, k) == \A v \in Siblings(w) : k \notin semHeld[v]
FlockFree(w, k) == \A v \in Workers \ {w} : k \notin flockHeld[v]

\* k comes next in the global order among the keys not taken yet.
NextIn(k, todo) == k \in todo /\ \A j \in todo : ~Before(j, k)
\* Release is in the reverse order.
LastIn(k, held) == k \in held /\ \A j \in held : ~Before(k, j)

Goto(w, s) == pc' = [pc EXCEPT ![w] = s]

\* TryRunGroup is called.  The group's own semaphore is tried, never waited
\* for; when it is taken the call returns (false, zero, nil) with nothing
\* changed, so that outcome is no step.
Call(w) ==
  /\ w \in Backups
  /\ pc[w] = "idle"
  /\ SemFree(w, GroupLockKey(GroupOf[w]))
  /\ \E meta \in Metas[GroupOf[w]] :
       LET keys == RunKeys(GroupOf[w], meta)
           first == {GroupLockKey(GroupOf[w])}
       IN /\ want' = [want EXCEPT ![w] = keys]
          /\ semHeld' = [semHeld EXCEPT ![w] = first]
          /\ Goto(w, IF keys = first THEN "flocks" ELSE "sems")
  /\ UNCHANGED <<flockHeld, cancelled>>

\* Faulty: the keys are taken in whatever order the configuration lists them.
TakeSemUnsorted(w) ==
  /\ pc[w] = "sems"
  /\ \E k \in want[w] \ semHeld[w] :
       /\ SemFree(w, k)
       /\ semHeld' = [semHeld EXCEPT ![w] = @ \cup {k}]
       /\ Goto(w, IF want[w] \subseteq semHeld[w] \cup {k} THEN "flocks" ELSE "sems")
  /\ UNCHANGED <<want, flockHeld, cancelled>>

\* One blocking send into a semaphore channel of capacity 1.
TakeSem(w) ==
  /\ pc[w] = "sems"
  /\ \E k \in want[w] :
       /\ NextIn(k, want[w] \ semHeld[w])
       /\ SemFree(w, k)
       /\ semHeld' = [semHeld EXCEPT ![w] = @ \cup {k}]
       /\ Goto(w, IF want[w] \subseteq semHeld[w] \cup {k} THEN "flocks" ELSE "sems")
  /\ UNCHANGED <<want, flockHeld, cancelled>>

\* Faulty: a cancelled wait returns without releasing.
CancelSemLeaking(w) ==
  /\ pc[w] = "sems"
  /\ cancelled[ProcOf[w]]
  /\ Goto(w, "idle")
  /\ UNCHANGED <<want, semHeld, flockHeld, cancelled>>

\* The other arm of the select: the context is done while queued.
CancelSem(w) ==
  /\ pc[w] = "sems"
  /\ cancelled[ProcOf[w]]
  /\ Goto(w, "release")
  /\ UNCHANGED <<want, semHeld, flockHeld, cancelled>>

\* restore-volume: no semaphores, straight to the flocks.
StartRestore(w) ==
  /\ w \in Restores
  /\ pc[w] = "idle"
  /\ \E plan \in RestorePlans : want' = [want EXCEPT ![w] = RestoreKeys(plan)]
  /\ Goto(w, "flocks")
  /\ UNCHANGED <<semHeld, flockHeld, cancelled>>

\* Faulty: a would-block answer is taken for an acquired lock.
TakeFlockUnchecked(w) ==
  /\ pc[w] = "flocks"
  /\ \E k \in want[w] :
       /\ NextIn(k, want[w] \ flockHeld[w])
       /\ flockHeld' = [flockHeld EXCEPT ![w] = @ \cup {k}]
       /\ Goto(w, IF want[w] \subseteq flockHeld[w] \cup {k} THEN "running" ELSE "flocks")
  /\ UNCHANGED <<want, semHeld, cancelled>>

\* Faulty: the loop stops at the first lock acquired.
TakeOneFlock(w) ==
  /\ pc[w] = "flocks"
  /\ \E k \in want[w] :
       /\ NextIn(k, want[w] \ flockHeld[w])
       /\ FlockFree(w, k)
       /\ flockHeld' = [flockHeld EXCEPT ![w] = @ \cup {k}]
       /\ Goto(w, "running")
  /\ UNCHANGED <<want, semHeld, cancelled>>

\* One tryCrossLock that acquires.
TakeFlock(w) ==
  /\ pc[w] = "flocks"
  /\ \E k \in want[w] :
       /\ NextIn(k, want[w] \ flockHeld[w])
       /\ FlockFree(w, k)
       /\ flockHeld' = [flockHeld EXCEPT ![w] = @ \cup {k}]
       /\ Goto(w, IF want[w] \subseteq flockHeld[w] \cup {k} THEN "running" ELSE "flocks")
  /\ UNCHANGED <<want, semHeld, cancelled>>

\* tryCrossLock finds the next key held elsewhere: ErrLockedByAnotherProcess.
FlockHeldElsewhere(w) ==
  /\ pc[w] = "flocks"
  /\ \E k \in want[w] : NextIn(k, want[w] \ flockHeld[w]) /\ ~FlockFree(w, k)
  /\ Goto(w, "release")
  /\ UNCHANGED <<want, semHeld, flockHeld, cancelled>>

\* tryCrossLock fails to open or to lock the file.
FlockError(w) ==
  /\ pc[w] = "flocks"
  /\ Goto(w, "release")
  /\ UNCHANGED <<want, semHeld, flockHeld, cancelled>>

\* runGroup, or the restore's destructive part, returns.
Finish(w) ==
  /\ pc[w] = "running"
  /\ Goto(w, "release")
  /\ UNCHANGED <<want, semHeld, flockHeld, cancelled>>

\* Deferred releases, last taken first: every flock, then every semaphore.
ReleaseFlock(w) ==
  /\ pc[w] = "release"
  /\ \E k \in flockHeld[w] :
       /\ LastIn(k, flockHeld[w])
       /\ flockHeld' = [flockHeld EXCEPT ![w] = @ \ {k}]
  /\ UNCHANGED <<pc, want, semHeld, cancelled>>

\* Faulty: the two deferred releases in the opposite order.
ReleaseSemFirst(w) ==
  /\ pc[w] = "release"
  /\ \E k \in semHeld[w] :
       /\ LastIn(k, semHeld[w])
       /\ semHeld' = [semHeld EXCEPT ![w] = @ \ {k}]
  /\ UNCHANGED <<pc, want, flockHeld, cancelled>>

ReleaseSem(w) ==
  /\ pc[w] = "release"
  /\ flockHeld[w] = {}
  /\ \E k \in semHeld[w] :
       /\ LastIn(k, semHeld[w])
       /\ semHeld' = [semHeld EXCEPT ![w] = @ \ {k}]
  /\ UNCHANGED <<pc, want, flockHeld, cancelled>>

Return(w) ==
  /\ pc[w] = "release"
  /\ flockHeld[w] = {} /\ semHeld[w] = {}
  /\ Goto(w, "idle")
  /\ want' = [want EXCEPT ![w] = {}]
  /\ UNCHANGED <<semHeld, flockHeld, cancelled>>

\* SIGTERM or SIGINT: the process's context is done.
Cancel(p) ==
  /\ ~cancelled[p]
  /\ cancelled' = [cancelled EXCEPT ![p] = TRUE]
  /\ UNCHANGED <<pc, want, semHeld, flockHeld>>

\* The process ends, killed or by itself, and is started again.  Its
\* semaphores go with it and the kernel drops its flocks.
Die(p) ==
  LET gone(w) == ProcOf[w] = p
  IN /\ pc' = [w \in Workers |-> IF gone(w) THEN "idle" ELSE pc[w]]
     /\ want' = [w \in Workers |-> IF gone(w) THEN {} ELSE want[w]]
     /\ semHeld' = [w \in Workers |-> IF gone(w) THEN {} ELSE semHeld[w]]
     /\ flockHeld' = [w \in Workers |-> IF gone(w) THEN {} ELSE flockHeld[w]]
     /\ cancelled' = [cancelled EXCEPT ![p] = FALSE]

Step(w) ==
  \/ Call(w) \/ TakeSem(w) \/ CancelSem(w)
  \/ StartRestore(w)
  \/ TakeFlock(w) \/ FlockHeldElsewhere(w) \/ FlockError(w)
  \/ Finish(w) \/ ReleaseFlock(w) \/ ReleaseSem(w) \/ Return(w)

Next == (\E w \in Workers : Step(w)) \/ (\E p \in Procs : Cancel(p) \/ Die(p))

Spec == Init /\ [][Next]_vars

\* A goroutine that can go on does; a run ends (run timeout, then SIGKILL).
\* A sender blocked on a Go channel is served in arrival order, so it cannot
\* be overtaken for ever: strong fairness for the semaphores.
Fairness ==
  \A w \in Workers :
    /\ WF_vars(TakeFlock(w) \/ FlockHeldElsewhere(w))
    /\ WF_vars(Finish(w))
    /\ WF_vars(ReleaseFlock(w) \/ ReleaseSem(w) \/ Return(w))
    /\ SF_vars(TakeSem(w))

FairSpec == Spec /\ Fairness

-----------------------------------------------------------------------------
TypeOK ==
  /\ pc \in [Workers -> States]
  /\ want \in [Workers -> SUBSET Key]
  /\ semHeld \in [Workers -> SUBSET Key]
  /\ flockHeld \in [Workers -> SUBSET Key]
  /\ cancelled \in [Procs -> BOOLEAN]

\* No two borgmatic runs or restores, in whatever processes, work at once on
\* the same repository, group, volume or on the snapshot facility, whatever
\* configuration each process generated (TryRunGroup, runRestoreVolume).
RunsExclusive ==
  \A v, w \in Workers :
    pc[v] = "running" /\ pc[w] = "running" /\ v # w => want[v] \cap want[w] = {}

\* One group is never backed up twice at once, nor while a restore rewrites a
\* volume it backs up, even where two processes generated it with different
\* repositories and share no repository key: the group's own flock must carry
\* this (TryRunGroup's comment on the group key, restoreLockKeys).
UsesGroup(w, g) ==
  IF w \in Backups THEN GroupOf[w] = g ELSE GroupLockKey(g) \in want[w]

GroupExclusive ==
  \A v \in Backups, w \in Workers :
    pc[v] = "running" /\ pc[w] = "running" /\ v # w => ~UsesGroup(w, GroupOf[v])

\* "Groups sharing a repo serialize, not skip": when a call comes to the flock
\* of a key, whoever still holds that flock is in another process, so a run is
\* never skipped on account of a sibling run of its own process.
SiblingsNeverSkip ==
  \A v, w \in Workers :
    pc[w] = "flocks" /\ v # w /\ ProcOf[v] = ProcOf[w] =>
      \A k \in want[w] : NextIn(k, want[w] \ flockHeld[w]) => k \notin flockHeld[v]

\* Every way out of a call, skips, errors and cancellation included, gives
\* back every semaphore and every flock: a leaked one would block the group or
\* the repository until the daemon is restarted.
NothingLeaks ==
  \A w \in Workers : pc[w] = "idle" => semHeld[w] = {} /\ flockHeld[w] = {}

\* A call queued for a semaphore gets past the queue: the global lock order
\* leaves no circular wait among the groups of one process.
QueueDrains ==
  \A w \in Workers : pc[w] = "sems" ~> pc[w] # "sems"

Abstract == INSTANCE ExclusiveRuns WITH
  active <- [w \in Workers |-> IF pc[w] = "running" THEN want[w] ELSE {}]

\* Run locking implements the exclusion ExclusiveRuns states.
ImplementsExclusiveRuns == Abstract!Spec
=============================================================================
