# A TLA+ model of borgmatic-manager

borgmatic-manager discovers container volumes and databases, generates a
borgmatic configuration per group, runs borgmatic when a group is due, and
restores volumes from archives. It is one binary that runs as a daemon, as
short-lived ad-hoc commands (`run`, `restore-volume`, `status`...) that share a
state directory with the daemon, and as the parent of borgmatic processes.

Everything here is translated from the Go source; lines are in `PROJECT.json`
under `map`. Definitions whose comment starts with "Faulty:", or with the
definition's own name and what it fails to do ("DrainByClosing only closes the
pipes"), are not used by any specification: each is a plausible mistake in the
definition that follows it, and is there to show that a property would notice.

    tlc -workers 2 -config RunLocks.cfg MCRunLocks     # model-check one run
    tlapm RunLocks_proofs.tla                          # check the proofs

## Inventory

| Component | State it keeps | Operations | Talks to |
|---|---|---|---|
| Runner (`internal/runner`) | semaphores per key, flocks, pipes and pid of a run | `TryRunGroup`, `runGroup`, watchdog, output drain, result attribution, `reapHelpers` | schedule store, lock files, borgmatic, container engine |
| Lock files (`internal/lockfile`) | kernel flocks on inodes | `TryExclusive`, `Exclusive`, `Release` | every process |
| Schedule store (`internal/state/schedule.go`) | `schedule.json` and an in-memory view | `LoadSchedule`, `Reload`, `MarkSuccess`, `RecordRun`, `RecordPending`, `ClearPending`, `Retain` | runner, scheduler, status |
| Pending-run reaping (`main.go`) | `pending-<id>.lock` files, pending records | `reapStalePendingRuns`, `sweepOrphanedPendingLocks`, `pendingOwnerLive` | runner, schedule store, container engine |
| Restore (`main.go`, `restore_swap.go`) | staging, displaced and kept directories with an ownership attribute, extract session files | `runRestoreVolume`, `restoreWithSwap`, `recoverInterruptedSwap`, `clearStagingLeftovers` | locks, borgmatic, filesystem |
| Scheduler (`internal/scheduler`) | last attempts, lock retries, wake hints | `RunCycle`, `RunAllGroups`, `Due`, `NextWake` | discovery, generation, runner, schedule store |
| Orchestrator, event listener | a timer, a rearm channel, a trigger channel of capacity 1 | `Run`, `Listen`, `processStream` | scheduler, container engine |
| Group cache (`internal/state/groupcache.go`) | volumes and databases of stopped containers | `Reconcile`, `StripUndumpableDatabases` | scheduler, discovery |
| Discovery, generation (`internal/discovery`, `internal/config`) | none between cycles; configuration files | `Discover`, `Generate`, refusals | container engine, filesystem |
| Toolchain (`internal/toolchain`) | versioned installs, a `current` link, a lock | `Ensure`, `provision`, `cleanOldVersions` | network, every borgmatic process |
| Status, doctor, logs, metrics, packaging | nothing that decides | read and format | |

What is hard in it, and what makes each component correct:

- **Several processes, one state directory.** Semaphores order the runs of one
  process, flocks exclude those of others. A run must never share a repository,
  a group, a volume or the snapshot facility with another; nothing may leak;
  nobody may wait for ever.
- **Read-modify-write of one file by many writers**, with errors at every call.
  No update may be lost, and an unreadable file must not become an empty one.
- **Crashes.** Whoever holds a lock may be killed; a later process decides who
  is dead from locks, PIDs and inodes. It must reap the dead and spare the living.
- **A directory swap without a transaction.** The volume must be whole, or
  recoverable, after a kill between any two system calls.
- **Time and events** (scheduler, listener): retries that neither spin nor
  forget, wake-ups and container changes that are not lost, successes recorded by
  another process that count.
- **A child that may do anything** (runner): hang, ignore signals, die of somebody
  else's, leave processes behind. The locks must neither be released over it nor
  kept for ever, and what status shows of it must be what happened.
- **Attribution**: which repositories a failed run did back up, when borgmatic
  does not say. A repository must never be called fresh that is not.
- **Caches of what is stopped** (group cache): forgotten too early a volume is no
  longer backed up, kept too long it stays for ever.
- **Refusals** (generation): one group's retention must never claim another's
  archives, decided by a pattern against the language of a format, and no group
  may be refused without a cause.
- **Shared installs** (toolchain): processes of different versions build, flip and
  clean up while others run from what is there.

`PROJECT.json` lists each hazard at its line, with the property that covers it or
the reason why none does.

## Modules

### RunLocks, ExclusiveRuns (abstract), RunLocks_proofs

`ExclusiveRuns` says what locking is for: jobs start and finish with a set of
keys, and a job starts only when no running job has one of its keys.
`RunLocks` is `TryRunGroup` and the flocks of `runRestoreVolume`.

| State | Code |
|---|---|
| `pc`, `want` | where a call is, and the keys it computed |
| `semHeld` | the group's semaphore and `held` |
| `flockHeld` | `heldLocks`; for a restore its deferred releases |
| `cancelled` | the process's context |

`Call` is the try-only group semaphore; `TakeSem`/`CancelSem` are the two arms of
the select; `TakeFlock`/`FlockHeldElsewhere`/`FlockError` are the three results
of `tryCrossLock`; `Finish`, `ReleaseFlock`, `ReleaseSem`, `Return` are the
deferred releases in their order. `Die` is a kill: the kernel drops the flocks.
`Metas` gives each group several generations' worth of repository keys and
`RestorePlans` what a restore resolved, so two processes may disagree.
Abstracted: lock names are numbers whose order is that of the strings; hashes of
keys do not collide. External command locks (borg's own) are not modelled.

### PendingRuns (Daemon_proofs)

One action per system call of: `runGroup` from the liveness lock to the unlink
(`RunOpen` ... `UnlinkLock`), the borgmatic child (`Spawn`, `StartHelper`,
`ChildExit`), the daemon's startup (`ReapVisit` ... `ReapRelease`, `SweepStart` ...
`SweepRemove`), and a status probe (`ProbeStart` ... `ProbeRelease`).
A flock is on an inode: `path` maps a run's lock path to an inode number, a
file that was unlinked and created again is another inode, and open and flock are
separate steps. `rec` is `schedule.json`'s pending map, `mem` the daemon's view
of it. borgmatic runs in a process group of its own (`runner.go:315`): it outlives an
ad-hoc manager that is killed, and goes on to start helpers. When the daemon dies its
borgmatic dies with it: the systemd unit has the default `KillMode`.

A startup sweep may meet a run between its open and its flock, and borgmatic may live
when its run is reaped. The code rules out neither, so the properties name the runs it
happens to, through variables that no guard reads: `unsaved`, the runs whose record could
not be written; `raced`, those whose file a sweep listed while they were about to lock
it; `left`, those of them at whose path a file without their lock remained; and
`reapedAlive`, those reaped in progress or while their borgmatic lived. Of all other runs
the properties hold without a condition. `ProbedRuns`, the runs a status command
gets to, bounds the state space of the run; the proofs are for any.

### ScheduleData, ScheduleStore, AtomicSchedule (abstract), ScheduleStore_proofs

`ScheduleData` has the file's contents and the five mutations as functions; the
scheduler uses it too.
`AtomicSchedule` is the promise: the file changes only by one mutation applied to
what it holds. `ScheduleStore` is `LoadSchedule` and `update`: lock, read,
mutate, create the temporary file, rename, assign the view, with an error arm at
each, and `Die` anywhere. `pc = "publish"` is between the rename and the
assignment, `"unwritten"` the same place after a failed write (the view is assigned
all the same, as in the code). Here `RecordRun` only touches that a record exists:
what it makes of outcomes and repositories is in `RunSupervision`. The bounded
history of runs is left out.

### Scheduler, Scheduler_proofs

`RunCycle`, `RunAllGroups`, `Due`, `NextWake` and `Start`, driven by the two
goroutines of the daemon, on the store of `ScheduleData`.

| State | Code |
|---|---|
| `disk`, `view` | `schedule.json`, and the daemon's copy of it |
| `cycle` | who holds `cycleMu`, how far `RunCycle` is, `now`, what it discovered, the groups still to plan, the goroutines of its runs |
| `attempt`, `retry`, `gate`, `live` | `lastAttempt`, `lockedRetry`, `preRunRetry`, the groups in `groupPeriods` |
| `rearm` | the buffered poke |
| `opc`, `spc`, `snap`, `alarm` | the orchestrator, `Start`, `NextWake`'s snapshot, the timer |
| `other` | the ad-hoc run of each group |

`PlanRun`/`PlanWaiting` are the two ways through the loop of `RunAllGroups`;
runs go on while the loop, `Retain` and the pruning of the marks do. `NextWake` is
two steps because it reads the store and the marks under different locks
(`NextWakeSnapshot`, `Arm`). An ad-hoc run holds the group's lock from
`AdhocStarts` to `AdhocFinishes`; `AdhocMarksSuccess` comes after, as in the code.
What a cycle discovers is any set of groups with any fingerprints: a group that
is gone, empty or refused by generation is one without a fingerprint. `armed`,
`last` and `cycle.touched` are history. Times are ticks; the timer may fire late, and
time does not pass inside `NextWake`. Left out: a clock that goes back; failing updates of
`schedule.json` other than `MarkSuccess`; a run skipped because the same process
runs the group already, which cannot happen since only cycles run groups there
and they exclude each other; the orderly shutdown (`Restart` is a kill).

### EventListener (Daemon_proofs)

`Listen`, `reconnectLoop`, `processStream` and the orchestrator's loop. `dirty` says what
changed since the last discovery listed it: which containers and volumes there are
(`"inventory"`), or the state they are in (`"state"`: started, stopped, paused). Discovery
depends on both (`discover.go:96-112`), but the stream passes on only what `Announced`
says, create, destroy and remove (`docker.go:164-170`): a container that only starts or
stops waits for a cycle that something else brings about. `inflight` counts
the events the stream holds, `fire` and `age` are the debounce timer and the age
of the burst, `trigger` is the channel of capacity one. `Disconnect` includes
the deferred send of an owed trigger. The cycles here are those the orchestrator
drives: those of the timer would only discover more. The code does not wait for the
subscription before its initial cycle; `early` is history: a change came before
the listener had ever subscribed. `NothingMissed` and `ChangeSeen` are about what comes or
goes after that; `NothingMissedEver`, which drops both conditions, does not hold. An
event whose cycle fails to discover counts as served in `ObservedIsOwed`: the code logs the
error and waits for the next trigger.

### RestoreSwap, RestoreSwap_proofs

One action per system call, or per call that changes a directory, of a mirror
restore: recovery, leftovers, staging, extract, flush, swap by exchange or by a
pair of renames, unmark, flush, disposal. `dir` maps names to a directory:
its data (a volume's contents, `Empty`, `Partial`, `Foreign`) and its mark, the
extended attribute, which moves with the inode. `exchanges` is chosen once: whether the
filesystem can exchange two directories. Setting and clearing a mark is best effort, call by
call (`MayMark`, `MayUnmark`); a filesystem without user attributes is one where every call
fails. When the mark on the volume fails before it is moved aside, the restore only warns
(`ClaimDisplaced`, `restore_swap.go:272-284`). `live`, `owed`, `foreign`, `warned`, `misled`
are history: what the last completed swap put in place, what it replaced and has not been
flushed, which names others use, whether the volume was moved aside with that warning, and
whether recovery has since put back another copy. An archive may be empty.
`StageFails` stands for every failure of `createStagingLike`,
`matchSubvolumeReadOnly`, the extract and the flush of the staged data.
`holder` is the volume's restore lock; the other locks are RunLocks' subject.
Not modelled: containers that write meanwhile, an unlistable parent directory,
power loss itself (only the order of flush and removal).

### RunSupervision, RunSupervision_proofs

The runs of one group while its locks are held: `validateConfig`, the spawn, the
watchdog goroutine, `cmd.Wait`, the drain of the pipes, `interpretResult` with the
attribution to repositories, `RecordRun`.

| State | Code |
|---|---|
| `phase`, `watch` | where `runGroup` is, and its watchdog |
| `leader`, `holders`, `sent` | the child, what else holds its pipes, the strongest signal its group got |
| `conf`, `creates` | the repositories of this generation, label to destination; whether `create` is among the actions |
| `tried`, `named`, `failed`, `archives` | what borgmatic did: external |
| `record`, `result` | the group's `Repositories` and `LastRun` of `schedule.json` |

borgmatic is a free agent: it may hang, write an archive and fail afterwards, fail
without naming the destination, heed a SIGTERM or not, be killed by others, and
leave processes inside or outside its group that hold its pipes. `leader.by` is
history: who ended it. Run numbers serve as times. `Matches`, `Implicated` and
`Confirmable` say what the readers of borgmatic's output come to: results only from
a run of all repositories, implication by destinations, probes that may miss an
archive but find none that is not there. Not modelled: two repositories with one label, output
that lies about an archive, a member of the group that has closed the
manager's pipes (it survives the release of the locks), a failing `Start` other
than that nothing is recorded.

### Discovery, GroupCache, GroupCache_proofs

`Discovery` is the pure part: from the two listings (containers with what their
labels or spec say, volumes) to a `BackupState`, or to a refusal of the whole
cycle. Labels are parsed already: what the parsers answer with an error is
"broken". `GroupCache` is the environment (containers are created, recreated with
other labels, stopped, removed; volumes change and are removed; the file is lost) and any number of processes that list volumes, then containers, discover, and
reconcile under `groups.json.lock`.

| State | Code |
|---|---|
| `boxes`, `vols` | the container engine |
| `disk`, `lock` | `groups.json`, its lock |
| `listed`, `live`, `base` | a process's volume listing, its discovered state, the file as read |
| `sighting` | history: what each container claimed when last recorded |

`MergedEntry` is the loop of `Reconcile` for one group, `Deselected` is
`claimedOnlyByPresent` and its uses. Left out: label configs, periods, names and the time
last seen of a cached group, which follow the live group; `StripUndumpableDatabases`;
temporary files.

### ArchiveNames, Generation (Preparation_proofs)

`ArchiveNames` is the pure part of pass 3: from an `archive_name_format`, a sequence
of literals and tokens, to the pattern that borgmatic's retention uses, to the segments
that say which names the format generates (`Resolved` puts the group in place of `{group}`
wherever it stands, inside another placeholder too), and `PatternMatchesFormat`, the walk of a
glob over those segments, which carries sets of positions. `ClaimsSome` is its
reference definition: some name the format generates is matched by the pattern, with a
placeholder of any text spelt out up to `NameBound` characters. `Tails` says where in a
name what the pattern from a position on may begin, as a shell reads it, and shares with
the walk only the reading of one element (`PatternElement`, `CharClass`). All recursion
is in functions, so that it can be proved about. `Comparable` is the condition of
exactness: a pattern and a format that are not empty, no element without a character
(`Matchable`), no more elements to match (`Literals`) than `NameBound`. Without it the
code errs on the safe side on purpose: it takes an absent pattern or format to match,
and a walk through any text passes over a class like `[z-a]` that matches nothing.
`Generation` is `plan`: pass 2 (`Tokens`) and the rounds of pass 3 (`Refuse`,
`Settled`); `Init` is what pass 1 merged. `rounds` is history. Repositories have a
location and a way their path is written: `CanonicalRepoKey` maps what it cannot resolve to
one key. Tarjan's algorithm is replaced by what it looks for, the smallest sets of claimers that no
edge leaves (`SinkCycles`). Not modelled: rendering, merging and inclusion of YAML, writing and
reconciling the files, the check of a group's own borg.

### Toolchain (Preparation_proofs)

One action per step of `Ensure` and `provision`: the check before the lock, the lock and its
cancellation, the check under the lock, the passes of `cleanOldVersions` (one
directory at a time), the build, its smoke test, the flip, every failure, a kill
anywhere; and the runs that start from `current` (`StartRun`, then `Map` once the process
shows in `/proc`). `current` is the link with the generation it leads to, `stage`,
`pin` and `health` describe a generation's directory.

Assumed, and in the guards of the passes (`ExecIsPrompt`): a process that was started through
the link before a flip shows in `/proc` before a later pass begins. The code relies on
it, sparing `prev` for one pass (`toolchain.go:572`). `current` may also start as a
real directory, from a backup or by hand (`toolchain.go:556`), whose launcher leads to the
generation `Copy`; `ClearMalformed` removes it before the flip. `CurrentIsComplete` and
`RunsKeepTheirGeneration` speak of links, and except `Copy`: see "Other claims" below.

## Runs

Times are with two workers.

| Run | Instance | States | Shows |
|---|---|---|---|
| RunLocks | daemon with two groups, ad-hoc run of one of them, one restore; two repositories | 258,000 | exclusion, group exclusion, no sibling skip, no leak, implements ExclusiveRuns |
| RunLocksQueue | four calls, three groups, one process | 5,600 (15 s) | every queue drains |
| RunSupervision | two runs, two labels, two destinations, three configurations | 685,663 (110 s) | locks outlive the group, truthful outcomes, real freshness, runs end |
| PendingRuns | one daemon run, one ad-hoc run that is probed, faults on | 3,378,000 (75 s) | reap the dead, spare the living, keep the record of orphans, truthful status |
| ScheduleStore | two processes, one group, a corrupt or empty file | 305,193 (110 s) | atomic updates, live temporary files kept, view equals disk, updates end |
| Scheduler | one group, clock 1..4, global period 4, its own 3, retries 2, floor 1, ad-hoc runs, restarts | 3,985,446 (140 s) | Start wakes in time, and for a reason; recorded successes count |
| SchedulerStaleAbsence | the same, clock 1..2 | | violation: see below |
| EventListener | debounce 2, cap 4, two events in flight, announced and unannounced changes | 10,490 | no container or volume missed, no observed event forgotten, churn bounded |
| RestoreSwap | two processes, two names per prefix, an original, an archive and an empty one, exchange or not, any mark may fail | 2,245,860 (70 s) | whole or recoverable, foreign directories untouched |
| GroupCache | two processes, two containers that share a volume, each with a database of one name | 961,185 (90 s) | what is owned is kept, nothing is kept for ever, databases are kept |
| Generation | four groups, two repositories, twelve formats in four combinations | 51,252 (40 s) | no sibling claimed, the matcher is exact, refusals have a cause, plans end |
| Toolchain | three processes of two versions, four generations, one of which `current` may start as a copy of | 1,281,321 (50 s) | current complete, builds undisturbed, runs keep their generation |

Why the bounds are enough. RunLocks: a circular wait or a missed exclusion needs
two keys in opposite orders or two parties on one key; the instance has three
processes, two siblings, two shared repositories, and a group whose
generations disagree. PendingRuns: every race is between one run, one startup
and one probe; inode numbers are 1..4 because at most three actors have a
file open at a time and one is at the path, so a fresh one always exists; the status
command probes the ad-hoc run (`ProbedRuns`), whose lock file and record are as the other's.
ScheduleStore: an update can be lost only between two writers; `MaxMissing = 2`
is the code's own threshold, the counter is capped there (`Capped`). Scheduler:
floor < retry < period, as in the code, and a clock that lets a success or an
attempt of the first tick come due again; one group meets every interleaving of
the two goroutines and an ad-hoc run, and a second would add only the minimum over
groups, which is one line of the code. Pending runs are left out of `ScheduleStore`'s instance
(`Runs = {}`): they are one more part of the same file.
EventListener: a burst can extend its debounce twice before the cap. RestoreSwap:
two names per prefix allow a leftover beside a live directory, which is what
recovery and clearing have to tell apart; the contents distinguish the original, the
restored and the empty, and one restored again is the copy of an older one. RunSupervision: what a run records depends on
the record before it, so two runs (`MaxRuns`), with a label that is repointed between
them, a repository that comes and goes, and a list that could not be read. GroupCache:
a volume is forgotten or kept by what one other container claims and what one other
process wrote meanwhile; the instance has no bound but its sets. Generation: four groups
allow a cycle of three and a group that points into it; the names are a prefix, a suffix
and a rendering of one another, and `NameBound = 3` is as many characters as any pattern
of the instance has elements to match, which the assumption `MCComparable` checks. Toolchain: a flip, the pass that spares its predecessor and a third
process that runs from that need three, and the copied one is a fourth; `Gens` bounds the
builds. `MCRestoreSwap`, `MCGroupCache` and `MCToolchain` use symmetry, in runs without
liveness.

`TypeOK` is in the runs of PendingRuns, Scheduler and RestoreSwap. It is proved of every
module.

### What the violation run shows

`SchedulerStaleAbsence`: `Retain` leaves the in-memory view alone when the disk needs
no change, and the view may still call a live group missing; `NextWake` then
ignores it. `WakesInTime` excepts exactly that case.

### Other claims the code does not keep

Stated in the modules and found violated while modelling; no run is kept for them.
Each fails with the module's cfg once it is made its only property, with the constants
given here.

- `PendingRuns!SweepSparesHeldLocks`: the startup sweep probes a file, lets go of it, then
  removes it; a run may lock it in between (`main.go:541-542`, though `main.go:535` says
  the probe is there to avoid racing a run mid-startup).
- `PendingRuns!LiveRunNotReaped` without `\/ cur \in left`: while the sweep holds the flock, a
  run that tries it gets `(nil, false, nil)`, which `runGroup` (`runner.go:285-296`) treats as
  neither error nor lock, and goes on unlocked beside a file that may stay, unheld. The
  next startup takes it for dead. Likewise `ProbeTellsTruth` without `\/ probed \in raced`.
- `PendingRuns!OrphansStayRecorded` without `\cup reapedAlive`: borgmatic outlives a
  killed ad-hoc manager, is reaped and cleared, then starts another helper.
- `RestoreSwap!VolumeIsWhole` without `IF misled`: recovery takes the non-empty, marked candidate
  for the volume (`restore_swap.go:429-431`). Where the volume is an empty one, or its mark
  failed before the kill, that may be an older copy, one half removed, or an empty
  reservation.
- `RestoreSwap!FlushBeforeRemove`: recovery after a kill deletes the replaced copy
  (`restore_swap.go:999`) without the flush that `restoreWithSwap` insists on.
- `EventListener!NothingMissedEver`: the initial cycle may discover before the listener
  subscribes (`orchestrator.go:40-41`), and a change in between is announced to nobody. Nor is a
  container that starts or stops, at any time (`docker.go:164-170`).
- `RunSupervision!SignalsReachTheGroup` (`runner.go:391-392`): between `cmd.Wait` and
  `close(done)`, and when the `select` finds both ready, the watchdog may still
  signal the group of a child that is reaped.
- `Toolchain!CopyIsComplete`: a pass keeps what the link names, and a directory names
  nothing, so that what a copied `current` leads to is removed under it. The flip also
  removes such a `current` before the rename, so that a kill in between leaves none
  (`toolchain.go:103-105` promises that a failure never damages a working install).
- `Generation!NoSiblingPruned`: a repository whose path only borgmatic can resolve has the key
  `unknown` (`generate.go:1449`); it is compared with other unknown ones, never with one
  whose path is plain, though they may be the same place.
- Not a property: `generate` without an output directory (`main.go:949`) rewrites the daemon's
  live configurations, which `main.go:1005` says must never be done, as it races runs.
- `RestoreSwap!RecoveryUnambiguous` (as `FlushBeforeRemove`): two displaced copies
  need only one kill in the two-syscall window; the other may be anywhere in the disposal.
- `Scheduler!AdhocResetsPeriod` (SchedulerStaleAbsence.cfg, as those below): whether a group
  is due is decided on what the cycle read before discovery, and not again once the
  group's locks are held (README.md:609-611 of the repository).
- `Scheduler!LockedWaitsOutPeriod` (`MaxTime = 3`): that README's lines 661-662
  describe an older policy; the code retries after `lockRetryInterval`.
- `Scheduler!LastSuccessIsLast`: successes are marked after the locks are released, so
  two of one group can be marked in the wrong order (`schedule.go:148`).
- `Scheduler!WakesWhenDue`: an attempt mark outlives a success with an earlier start,
  so the timer is set later than `Due` and `status` say (`scheduler.go:280-281`).

## Fairness

Safety is checked and proved without fairness. `RunLocks!FairSpec`: a goroutine
that can step does, a run ends (run timeout, then SIGKILL), and a sender on a
Go channel is served in arrival order, hence strong fairness of `TakeSem`.
Nothing is assumed of `Call`, `Cancel` or `Die`. `ScheduleStore!FairSpec`: a call
goes on, and a blocking flock is granted in turn by the kernel, hence strong
fairness of `Lock`/`SweepLock`; none for `Die`, `Update`, `Reload` or any error.
`EventListener!FairSpec`: the goroutines step, timers fire, a discovery ends one way
or the other, cycles end (run timeout); weak fairness is enough, as the debounce that
reached its cap stays ready whatever else arrives. Nothing is assumed of `Change`,
`Break` or `Cancel`. `RunSupervision!Fairness`: the manager's goroutines are scheduled,
its timers fire, and a SIGKILL kills; nothing is assumed of borgmatic or of what its
hooks leave behind, which may hang and ignore a SIGTERM. After a shutdown the code
no longer watches the timeout (`runner.go:374`), so `RunsEnd` excepts it: there,
systemd's TimeoutStopSec is the bound. `Generation!Spec`: a plan is a loop, it goes on.

## Proofs

`RunLocks_proofs` (for every set of processes, groups, repositories, volumes,
generations and restore plans that satisfies the named assumptions):
the inductive invariant is `TypeOK` with facts that tie `pc` to what is held:
a flock is held by one worker; what is held is wanted; a running worker holds
every flock it wants, and a backup that asks for flocks or runs holds its semaphores; a
worker that is idle holds nothing; and semaphores of siblings are disjoint.
Exclusion alone is not inductive: `TakeFlock` reaches "running" only
after the whole of `want` is held, which the invariant has to remember.
From it: `TypeCorrect`, `Exclusion`, `GroupExclusion`, `SiblingsSerialize`,
`NoLeak`, and `Refinement` (every step starts a job, finishes jobs, or stutters).

`ScheduleStore_proofs` (any processes, groups, runs, times): lemmas give the
type of each mutation's result; the inductive invariant says that a process
between `Lock` and the end of its call holds the lock, and that `next` is
a mutation of the current file as long as it does. From it: `TypeCorrect`,
`SweepSafe`, `PublishedView`, `Refinement`.

`RunSupervision_proofs` (any labels, destinations, configurations, number of runs): the
inductive invariant adds to the types what each phase says of the child and of what is left
of its group (`Phases`), what a death says of its cause (`Deaths`: the manager kills a run only
after a timeout, so `timedOut` is set whenever it is by the manager and by SIGKILL), and
what a run that has not failed has written (`Evidence`: an exit 0 of a create cycle means an
archive of this run in every destination). `FreshnessIsReal` needs the last, as "ok" is recorded for
every repository on the exit code alone, and `OutcomeIsTruthful` the first two: that what is shown
as terminated was ended by a signal, or by the time limit of its validation. From it: `TypeCorrect`, `LocksSafe`, `Truthful`,
`Freshness`.

`GroupCache_proofs` (any containers, volumes, groups, labels and processes): `IInv` says that the
listings are well-formed, that only the holder of the lock is past it, that what it read is still
what the file holds, and that the claims in the file are those of `sighting` where a
container was present (`Tracks`), which is what `OwnedIsKept` needs to survive a merge. From
it: `TypeCorrect`, `Owned`, `Claimed`, `Databased`.

`PendingRuns` (`Daemon_proofs`; any runs, any interleaving of their processes, the daemon's
startup and a probe): `LockInv` ties each party's file to the path. A run past its locking
holds the inode at its path, or there is none and its PID stands in (`Locks`), and what the
daemon or the probe has opened is the file of a live run (`DaemonSees`, `ProbeSees`); the
properties speak only of the last step of a reap, so all of the way there has to be
remembered. What a run has locked is at its path unless the sweep met it (`raced`, and `left`
once an unlocked file remains), and `ToSweep` and `Swept` say so of what the sweep has still to
visit and of what it has. From it: `LiveRunsSafe`, `ProbeTrue`. `Recorded` says that helpers are recorded from before the first one
starts until the last is gone, or their run was reaped alive: `OrphansRecorded`. None has a
hypothesis beyond the named assumption on the constants.

`EventListener` (`Daemon_proofs`; any durations and number of events): `NoneLost` is
inductive with the types; `NoneMissed` needs `GapInv`, which says by what a change is still
covered: an event in flight, a debounce, a trigger, a gap that the next connect will cover,
or a cycle. The specification's names in `EventListener` and `Toolchain` have prefixes, since a
module of proofs extends another component too.

`RestoreSwap_proofs` (any processes, directory names and contents, whichever marks fail and
whether or not directories can be exchanged): `BInv` says which directories the one restore
under way owns in each phase, and that its names are nobody else's; `OthersUntouched`
follows. `DInv` is about what they hold: a swap has a whole extract in hand, and what stands
aside is the volume, marked unless the restore warned. From it, `AlwaysRecoverable`. `CInv`, a
second induction on top, says what the displaced names hold, so that even a misled recovery
puts back a copy, an empty directory or a half removed copy, never somebody else's: with it,
`WholeVolume`. No hypothesis but the named assumption on the constants is left.

`Scheduler_proofs` (any groups, periods and retry intervals, any length of the clock): the alarm is computed
from a snapshot of the store and from the marks, which cycles change meanwhile; only a
poke makes up for it. `SInv` therefore has, beside the types, what the marks say of a group
(`Tried`: its last attempt, `Locked`: a retry is there if and only if the group was locked
last), whose marks they are (`MarksPlanned`, `PlannedKnown`), and that while no poke and no
cycle is to come the alarm is the one of the present view (`Fresh`). `Synced` says that
the view agrees with the disk, between reload and the end of planning, on what nobody else
wrote. From it: `TypeCorrect`, `InTime`, `ForAReason`, `SuccessesCount`. That a set of times has
a least one comes from the well-ordering of the naturals.

`Toolchain` (`Preparation_proofs`; any processes, versions and generations): a build is a
directory of its own that no pass has before it, no pass has the generation that
`current` links to, or that of an exec under way, before it, and `prev` is what the flip will
replace; what was copied (`Copy`) is excepted. From it: `CurrentComplete`, `BuildsSafe`,
`RunsSafe`.

`ArchiveNames` (`Preparation_proofs`; any alphabet, pattern, format and name): `NoClaimMissed`,
a pattern that claims a name is found to. The invariant of the walk is that its positions are
boundaries of elements, closed under stars that match nothing (`Live`), and that from one of them
the pattern reads the rest of the name (`Reads`). `BoundariesRead` carries it over a placeholder of
any text, which the walk answers with every boundary from its earliest position on: the position
from which the rest is read is one of them. `NoClaimInvented` goes the other way, from the end of the walk to its
start: each position the walk reached is reached from an earlier one by a text of the segment
(`Connects`), of at most one character for each element that takes one, where such a character
exists; the texts join to a name. Induction goes by the least or the greatest element of a set of
naturals (`Least`, `Greatest`, `Upwards`, `Downwards`), as the induction theorems of the library take an operator
for a parameter, and what a recursive function is equal to by `RecursionUp` and `RecursionDown`.

`Generation` (`Preparation_proofs`; any groups, formats and repositories): `Safe`, from the
invariant that a plan stands only when no edge is left among the kept groups, and from
`NoClaimMissed`: no pattern that is kept matches a name of another's archives, of whatever
length. `OvermatchExact` adds `NoClaimInvented` and assumes that every format is `Comparable`. `ForACause` needs `Caused`: whom a refused group claims from claims from nobody who is
left, so no later round refuses it, or the group is on a cycle within its round.
`SinkCycleExists` takes the smallest set of claimers that no edge leaves and shows that it is such a
cycle, so that a round is never empty.

Only model-checked: the liveness properties `QueueDrains`, `UpdatesEnd`, `ChangeSeen`, `RunsEnd`
and `PlanEnds`: liveness under fairness and ENABLED are beyond the prover used. Every safety
invariant and action property that a passing run checks is proved. No module declares a RECURSIVE operator.

## Not modelled

- Metrics: gauges computed from outcomes; nothing reads them back.
- Rendering, merging and including YAML, redaction, the output of status, doctor, inspect and logs:
  transformations of data without control that several steps could break.
- The restore session around the swap: choice of an archive, in-place and merge extraction,
  and the session files of extracts (an orphan in mirror mode is recorded under its
  staging path and looked up under the volume's, `main.go:1860`).
- `StripUndumpableDatabases`, the history of runs, flag parsing.
- Liveness of provisioning: a builder may hold the lock as long as its download takes.
- Packaging and units, other than as assumptions on kills and restarts.

## Plan

1. Proofs: that the scheduler and the store agree on what an update does (`ScheduleData`).
2. `RestoreSession` (extract sessions, archive resolution), composed with `RestoreSwap`.
