------------------------------ MODULE Scheduler ------------------------------
(***************************************************************************)
(* Scheduler and Orchestrator: cycles discover the groups and run the ones *)
(* that are due.  The orchestrator drives a cycle at startup and on every  *)
(* event, the Start goroutine whenever its timer fires; cycles exclude     *)
(* each other.  Start sleeps until the earliest reason to run a group, and *)
(* is poked to compute that anew when a cycle ends.  Ad-hoc runs of other  *)
(* processes lock groups out and record their own successes.               *)
(*                                                                         *)
(* Only cycles run groups in the daemon, so TryRunGroup never finds the    *)
(* group running there already; that result is left out.  Updates of       *)
(* schedule.json succeed here, MarkSuccess excepted (see ScheduleStore).   *)
(***************************************************************************)
EXTENDS ScheduleData, FiniteSets

CONSTANTS
  MaxTime,                         \* bound on the clock
  Period, PeriodOf,                \* manager.period, a group's effective period
  MinWake, LockRetry, GateRetry,   \* minWake and the two retry intervals
  AdhocGroups                      \* groups that ad-hoc runs target

ASSUME SchedulerAssumption ==
  /\ MaxTime \in Nat \ {0} /\ Times = 0..MaxTime
  /\ {Period, MinWake, LockRetry, GateRetry} \subseteq Nat \ {0}
  /\ PeriodOf \in [Groups -> Nat \ {0}]
  /\ MinWake <= LockRetry /\ MinWake <= GateRetry
  /\ Runs = {} /\ AdhocGroups \subseteq Groups

VARIABLES
  clock,
  disk,      \* schedule.json
  view,      \* the daemon's copy
  other,     \* the ad-hoc run of each group
  cycle,     \* the cycle that holds cycleMu
  attempt,   \* lastAttempt
  retry,     \* lockedRetry
  gate,      \* preRunRetry, 0 when zero
  live,      \* the groups groupPeriods has
  rearm,     \* the buffered poke
  opc, spc,  \* where the orchestrator and Start are
  snap,      \* NextWake's snapshot of the store
  alarm,     \* when Start's timer fires
  armed,     \* history: when the alarm was set
  last       \* history: each group's last try, and how its last cycle found it

store == <<disk, view>>
marks == <<attempt, retry, gate, live>>
start == <<spc, snap, alarm, armed>>
vars == <<clock, store, other, cycle, marks, rearm, opc, start, last>>

NoCycle == [by |-> "none", stage |-> "none", now |-> 0, prints |-> [g \in {} |-> NoPrint],
            todo |-> {}, runs |-> [g \in {} |-> [at |-> 0, state |-> "queued"]], touched |-> {}]
NoAdhoc == [at |-> 0, state |-> "none", print |-> NoPrint]
NoTry == [tried |-> 0, found |-> "free"]

Latest(x, y) == IF x > y THEN x ELSE y
Earliest(S) == CHOOSE x \in S : \A y \in S : x <= y
Set(f, g, x) == [h \in DOMAIN f \cup {g} |-> IF h = g THEN x ELSE f[h]]
Without(f, S) == [h \in DOMAIN f \ S |-> f[h]]
AtMark(g) == IF g \in DOMAIN attempt THEN attempt[g] ELSE 0
NoMarks == [g \in {} |-> 0]

Init ==
  /\ clock = 1
  /\ disk = Empty /\ view = Empty
  /\ other = [g \in Groups |-> NoAdhoc]
  /\ cycle = NoCycle
  /\ attempt = NoMarks /\ retry = NoMarks /\ gate = 0 /\ live = {}
  /\ rearm = FALSE /\ opc = "initial" /\ spc = "off"
  /\ snap = Empty /\ alarm = 0 /\ armed = 0
  /\ last = [g \in Groups |-> NoTry]

Tick ==
  /\ clock < MaxTime /\ spc # "arm"
  /\ clock' = clock + 1
  /\ UNCHANGED <<store, other, cycle, marks, rearm, opc, start, last>>

-----------------------------------------------------------------------------
(* Ad-hoc runs: TryRunGroup holds the group's lock, RecordRun included; the *)
(* success is marked after it has returned and released it.                 *)

\* History: another process wrote g's record since the running cycle reloaded it,
\* and before the cycle has decided on all its groups.
Touch(g) == cycle' = IF cycle.stage \in {"discover", "gate", "generate", "plan"}
                     THEN [cycle EXCEPT !.touched = @ \cup {g}] ELSE cycle

RunningHere(g) == g \in DOMAIN cycle.runs /\ cycle.runs[g].state = "running"

AdhocStarts(g) ==
  /\ g \in AdhocGroups /\ other[g].state = "none" /\ ~RunningHere(g)
  /\ \E p \in Prints :
       other' = [other EXCEPT ![g] = [at |-> clock, state |-> "running", print |-> p]]
  /\ UNCHANGED <<clock, store, cycle, marks, rearm, opc, start, last>>

AdhocFinishes(g) ==
  /\ other[g].state = "running"
  /\ other' \in {[other EXCEPT ![g].state = "done"], [other EXCEPT ![g] = NoAdhoc]}
  /\ disk' = RecordRun(disk, g)
  /\ Touch(g)
  /\ UNCHANGED <<clock, view, marks, rearm, opc, start, last>>

AdhocMarksSuccess(g) ==
  /\ other[g].state = "done"
  /\ other' = [other EXCEPT ![g] = NoAdhoc]
  /\ disk' = MarkSuccess(disk, g, other[g].print, other[g].at)
  /\ Touch(g)
  /\ UNCHANGED <<clock, view, marks, rearm, opc, start, last>>

-----------------------------------------------------------------------------
(* RunCycle. *)

Stage(s) == cycle.stage = s
Move(s) == cycle' = [cycle EXCEPT !.stage = s]
GiveUp == cycle' = [NoCycle EXCEPT !.by = cycle.by, !.stage = "end"]

BeginCycle(by) ==
  cycle = NoCycle /\ cycle' = [NoCycle EXCEPT !.by = by, !.stage = "reload"]

\* The orchestrator's: at startup, and on a trigger.
BeginInitial ==
  /\ opc = "initial" /\ BeginCycle("event")
  /\ opc' = "cycle"
  /\ UNCHANGED <<clock, store, other, marks, rearm, start, last>>

BeginOnEvent ==
  /\ opc = "listen" /\ BeginCycle("event")
  /\ opc' = "cycle"
  /\ UNCHANGED <<clock, store, other, marks, rearm, start, last>>

BeginOnTimer ==
  /\ spc = "fired" /\ BeginCycle("timer")
  /\ spc' = "cycle"
  /\ UNCHANGED <<clock, store, other, marks, rearm, opc, snap, alarm, armed, last>>

\* Faulty: dueness is decided on what this process remembers.
ReloadSkipped ==
  /\ Stage("reload") /\ Move("discover")
  /\ UNCHANGED <<clock, store, other, marks, rearm, opc, start, last>>

\* Other processes' writes, an ad-hoc run's success for one, count.
Reload ==
  /\ Stage("reload") /\ Move("discover")
  /\ view' = disk
  /\ UNCHANGED <<clock, disk, other, marks, rearm, opc, start, last>>

\* What there is to back up of each group, offline members included: NoPrint
\* for a group that is gone, empty, or refused a configuration.
Discover ==
  /\ Stage("discover")
  /\ \E prints \in [Groups -> Prints \cup {NoPrint}] :
       cycle' = [cycle EXCEPT !.stage = "gate", !.prints = prints]
  /\ UNCHANGED <<clock, store, other, marks, rearm, opc, start, last>>

\* Discovery or generation fails: no group runs.
CycleFails ==
  /\ Stage("discover") \/ Stage("generate")
  /\ GiveUp
  /\ UNCHANGED <<clock, store, other, marks, rearm, opc, start, last>>

GatePasses ==
  /\ Stage("gate") /\ Move("generate")
  /\ gate' = 0
  /\ UNCHANGED <<clock, store, other, attempt, retry, live, rearm, opc, start, last>>

\* The pre-run check fails: the cycle is skipped, and tried again.
GateFails ==
  /\ Stage("gate") /\ GiveUp
  /\ gate' = clock + GateRetry
  /\ UNCHANGED <<clock, store, other, attempt, retry, live, rearm, opc, start, last>>

\* The groups with something to back up and a generated configuration.
Live == {g \in Groups : cycle.prints[g] # NoPrint}

Generate ==
  /\ Stage("generate")
  /\ cycle' = [cycle EXCEPT !.stage = "plan", !.now = clock, !.todo = Live]
  /\ UNCHANGED <<clock, store, other, marks, rearm, opc, start, last>>

-----------------------------------------------------------------------------
(* RunAllGroups. *)

\* Unknown groups, changed membership and clock rollbacks resolve to due.
Due(f, g, print, now) ==
  LET rec == Record(f, g)
  IN \/ g \notin DOMAIN f.groups
     \/ rec.print # print
     \/ rec.success > now
     \/ now >= rec.success + PeriodOf[g]

Note(g, found) == last' = [last EXCEPT ![g].found = found]

PlanWaiting(g) ==
  /\ Stage("plan") /\ g \in cycle.todo
  /\ ~Due(view, g, cycle.prints[g], cycle.now)
  /\ cycle' = [cycle EXCEPT !.todo = @ \ {g}]
  /\ retry' = Without(retry, {g})
  /\ Note(g, "waiting")
  /\ UNCHANGED <<clock, store, other, attempt, gate, live, rearm, opc, start>>

\* Faulty: an attempt is no reason to wait.
PlanRunUnmarked(g) ==
  /\ Stage("plan") /\ g \in cycle.todo
  /\ Due(view, g, cycle.prints[g], cycle.now)
  /\ cycle' = [cycle EXCEPT !.todo = @ \ {g}, !.runs = Set(@, g, [at |-> 0, state |-> "queued"])]
  /\ last' = [last EXCEPT ![g] = [tried |-> cycle.now, found |-> "free"]]
  /\ UNCHANGED <<clock, store, other, marks, rearm, opc, start>>

\* Marks the attempt and starts a goroutine for the run.
PlanRun(g) ==
  /\ Stage("plan") /\ g \in cycle.todo
  /\ Due(view, g, cycle.prints[g], cycle.now)
  /\ cycle' = [cycle EXCEPT !.todo = @ \ {g}, !.runs = Set(@, g, [at |-> 0, state |-> "queued"])]
  /\ attempt' = Set(attempt, g, cycle.now)
  /\ last' = [last EXCEPT ![g] = [tried |-> cycle.now, found |-> "free"]]
  /\ UNCHANGED <<clock, store, other, retry, gate, live, rearm, opc, start>>

\* Retain, with any of the other groups cached as offline.
RetainLive ==
  /\ Stage("plan") /\ cycle.todo = {}
  /\ \E cached \in SUBSET (Groups \ Live) :
       LET m == [op |-> "Retain", active |-> Live, protected |-> cached]
       IN /\ disk' = Apply(m, disk)
          /\ view' = IF Changes(m, disk) THEN disk' ELSE view
  /\ cycle' = [cycle EXCEPT !.stage = "prune", !.touched = {}]
  /\ UNCHANGED <<clock, other, marks, rearm, opc, start, last>>

\* Faulty: an attempt outlives its group.
PruneKeeping ==
  /\ Stage("prune") /\ Move("wait")
  /\ retry' = Without(retry, Groups \ Live)
  /\ live' = Live
  /\ last' = [g \in Groups |-> IF g \in Live THEN last[g] ELSE NoTry]
  /\ UNCHANGED <<clock, store, other, attempt, gate, rearm, opc, start>>

Prune ==
  /\ Stage("prune") /\ Move("wait")
  /\ attempt' = Without(attempt, Groups \ Live)
  /\ retry' = Without(retry, Groups \ Live)
  /\ live' = Live
  /\ last' = [g \in Groups |-> IF g \in Live THEN last[g] ELSE NoTry]
  /\ UNCHANGED <<clock, store, other, gate, rearm, opc, start>>

Run(g, state) == g \in DOMAIN cycle.runs /\ cycle.runs[g].state = state
RunBecomes(g, run) == cycle' = [cycle EXCEPT !.runs = [@ EXCEPT ![g] = run]]
RunOver(g) == cycle' = [cycle EXCEPT !.runs = Without(@, {g})]

\* TryRunGroup has the locks; RecordPending re-reads the store.
RunStarts(g) ==
  /\ Run(g, "queued") /\ other[g].state # "running"
  /\ RunBecomes(g, [at |-> clock, state |-> "running"])
  /\ view' = disk
  /\ UNCHANGED <<clock, disk, other, marks, rearm, opc, start, last>>

\* Another process holds the group's lock, or one of its repositories'.
RunLocked(g) ==
  /\ Run(g, "queued") /\ \E h \in Groups : other[h].state = "running"
  /\ RunOver(g)
  /\ retry' = Set(retry, g, cycle.now + LockRetry)
  /\ Note(g, "locked")
  /\ UNCHANGED <<clock, store, other, attempt, gate, live, rearm, opc, start>>

\* A lock cannot be taken, or borgmatic fails.
RunFails(g) ==
  /\ Run(g, "queued") \/ Run(g, "running")
  /\ RunOver(g)
  /\ disk' = IF Run(g, "running") THEN RecordRun(disk, g) ELSE disk
  /\ view' = IF Run(g, "running") THEN disk' ELSE view
  /\ retry' = Without(retry, {g})
  /\ Note(g, "free")
  /\ UNCHANGED <<clock, other, attempt, gate, live, rearm, opc, start>>

\* borgmatic exits 0: the outcome is recorded, the locks are released ...
RunSucceeds(g) ==
  /\ Run(g, "running")
  /\ RunBecomes(g, [cycle.runs[g] EXCEPT !.state = "done"])
  /\ disk' = RecordRun(disk, g) /\ view' = disk'
  /\ UNCHANGED <<clock, other, marks, rearm, opc, start, last>>

\* ... and then the success is marked, anchored to the run's start.
RunMarksSuccess(g) ==
  /\ Run(g, "done")
  /\ RunOver(g)
  /\ \/ disk' = MarkSuccess(disk, g, cycle.prints[g], cycle.runs[g].at) /\ view' = disk'
     \/ UNCHANGED store
  /\ retry' = Without(retry, {g})
  /\ Note(g, "free")
  /\ UNCHANGED <<clock, other, attempt, gate, live, rearm, opc, start>>

CycleOver ==
  \/ Stage("end")
  \/ Stage("wait") /\ DOMAIN cycle.runs = {}

GoOn ==
  IF cycle.by = "event" THEN opc' = "listen" /\ UNCHANGED spc
                        ELSE spc' = "drain" /\ UNCHANGED opc

\* Faulty: Start is not told.
EndCycleSilently ==
  /\ CycleOver
  /\ cycle' = NoCycle
  /\ GoOn
  /\ UNCHANGED <<clock, store, other, marks, rearm, snap, alarm, armed, last>>

\* Start is poked, then cycleMu is released.
EndCycle ==
  /\ CycleOver
  /\ cycle' = NoCycle
  /\ rearm' = TRUE
  /\ GoOn
  /\ UNCHANGED <<clock, store, other, marks, snap, alarm, armed, last>>

-----------------------------------------------------------------------------
(* Start. *)

TimerOff == alarm' = 0 /\ armed' = 0

StartBegins ==
  /\ spc = "off" /\ opc = "listen"
  /\ spc' = "snapshot"
  /\ UNCHANGED <<clock, store, other, cycle, marks, rearm, opc, snap, alarm, armed, last>>

\* Its own cycle's poke.
Drain ==
  /\ spc = "drain"
  /\ rearm' = FALSE
  /\ spc' = "snapshot"
  /\ UNCHANGED <<clock, store, other, cycle, marks, opc, snap, alarm, armed, last>>

Rearmed ==
  /\ spc = "sleep" /\ rearm
  /\ rearm' = FALSE
  /\ spc' = "snapshot" /\ TimerOff
  /\ UNCHANGED <<clock, store, other, cycle, marks, opc, snap, last>>

\* NextWake reads the clock and the store ...
NextWakeSnapshot ==
  /\ spc = "snapshot"
  /\ snap' = view /\ armed' = clock
  /\ spc' = "arm"
  /\ UNCHANGED <<clock, store, other, cycle, marks, rearm, opc, alarm, last>>

\* Clamped to MinWake and the global period.
Wake(times) == Latest(armed + MinWake, Earliest({armed + Period} \cup times))
Retries == {retry[g] : g \in DOMAIN retry} \cup ({gate} \ {0})
NextDue(g, period) == Latest(Record(snap, g).success, AtMark(g)) + period
Driving == {g \in DOMAIN snap.groups \cup DOMAIN attempt : Record(snap, g).missing = 0}
LivePeriod(g) == IF g \in live THEN PeriodOf[g] ELSE Period

\* ... then, under its own lock, the marks: the earliest retry or next due
\* time, groups missing from the last cycles aside.
NextWake == Wake(Retries \cup {NextDue(g, LivePeriod(g)) : g \in Driving})

Arm ==
  /\ spc = "arm"
  /\ alarm' = NextWake
  /\ spc' = "sleep" /\ snap' = Empty
  /\ UNCHANGED <<clock, store, other, cycle, marks, rearm, opc, armed, last>>

Fires ==
  /\ spc = "sleep" /\ clock >= alarm
  /\ spc' = "fired" /\ TimerOff
  /\ UNCHANGED <<clock, store, other, cycle, marks, rearm, opc, snap, last>>

\* The daemon dies or is stopped, and starts anew: what it had in memory, and
\* its runs, are gone.
Restart ==
  /\ view' = disk
  /\ cycle' = NoCycle
  /\ attempt' = NoMarks /\ retry' = NoMarks /\ gate' = 0 /\ live' = {}
  /\ rearm' = FALSE /\ opc' = "initial" /\ spc' = "off"
  /\ snap' = Empty /\ alarm' = 0 /\ armed' = 0
  /\ last' = [g \in Groups |-> NoTry]
  /\ UNCHANGED <<clock, disk, other>>

-----------------------------------------------------------------------------
GroupStep(g) ==
  \/ AdhocStarts(g) \/ AdhocFinishes(g) \/ AdhocMarksSuccess(g)
  \/ PlanWaiting(g) \/ PlanRun(g)
  \/ RunStarts(g) \/ RunLocked(g) \/ RunFails(g) \/ RunSucceeds(g) \/ RunMarksSuccess(g)

Next ==
  \/ Tick \/ Restart
  \/ BeginInitial \/ BeginOnEvent \/ BeginOnTimer
  \/ Reload \/ Discover \/ CycleFails \/ GatePasses \/ GateFails \/ Generate
  \/ RetainLive \/ Prune \/ EndCycle
  \/ StartBegins \/ Drain \/ Rearmed \/ NextWakeSnapshot \/ Arm \/ Fires
  \/ \E g \in Groups : GroupStep(g)

Spec == Init /\ [][Next]_vars

-----------------------------------------------------------------------------
Marks == UNION {[G -> 0..MaxTime + LockRetry] : G \in SUBSET Groups}

TypeOK ==
  /\ clock \in 1..MaxTime
  /\ disk \in File /\ view \in File /\ snap \in File
  /\ attempt \in Marks /\ retry \in Marks /\ gate \in 0..MaxTime + GateRetry
  /\ live \subseteq Groups /\ rearm \in BOOLEAN
  /\ opc \in {"initial", "cycle", "listen"}
  /\ spc \in {"off", "snapshot", "arm", "sleep", "fired", "cycle", "drain"}
  /\ DOMAIN attempt \subseteq {g \in Groups : last[g].tried # 0}
  /\ cycle.todo \subseteq Groups /\ DOMAIN cycle.runs \subseteq Groups

\* Start waits for its timer, and nothing is on the way to change that.
Asleep == spc = "sleep" /\ ~rearm /\ cycle = NoCycle
Success(g) == Record(view, g).success
By(t) == alarm <= Latest(armed + MinWake, t)

\* "A sleeping timer would otherwise ignore a new bounded retry until it fired
\* on its own" (rearm, NextWake): whoever drove the cycles, and however they
\* met Start's own arming of the timer, a sleeping Start wakes as soon as a
\* group of the last cycle is due again, a locked one or the gate is to be
\* retried.  WakesForLiveGroups says why the record must not count as missing.
WakesInTime ==
  Asleep =>
    /\ By(armed + Period)
    /\ \A g \in live :
         Record(view, g).missing = 0 => By(Latest(Success(g), last[g].tried) + PeriodOf[g])
    /\ \A g \in live : last[g].found = "locked" => By(last[g].tried + LockRetry)
    /\ gate # 0 => By(gate)

Reasons ==
  {armed + Period}
    \cup {Latest(Success(g), last[g].tried) + LivePeriod(g) :
            g \in {h \in DOMAIN view.groups \cup live : Record(view, h).missing = 0}}
    \cup {last[g].tried + LockRetry : g \in {h \in live : last[h].found = "locked"}}
    \cup ({gate} \ {0})

\* "Retries failures after a period instead of hot-looping" (lastAttempt): a
\* sleeping Start does not wake before there is something to do; a group that
\* keeps failing, or that left, does not wake it over and over.
WakesForAReason ==
  Asleep => alarm >= armed + MinWake /\ alarm >= Earliest(Reasons)

\* The cycle decides to run the group.
Decided(g) == g \in DOMAIN cycle'.runs /\ g \notin DOMAIN cycle.runs

\* "An ad-hoc run may have just recorded a success" (RunCycle): what another
\* process recorded before a cycle's reload counts in it; the group is not run
\* again unless it is due by that.
SuccessCounts ==
  [][\A g \in Groups :
       Decided(g) /\ g \notin cycle.touched
         => Due(disk, g, cycle.prints[g], cycle.now)]_vars

-----------------------------------------------------------------------------
(* What the repository says of the program and the code does not keep.      *)

\* What NextWake says of itself: the sleep is "until the earliest group comes
\* due", absent groups aside.  A group the last cycle found there is not absent.
WakesForLiveGroups ==
  Asleep => \A g \in live : By(Latest(Success(g), last[g].tried) + PeriodOf[g])

\* What README.md says of ad-hoc runs: one "resets that group's period, so the
\* daemon won't redundantly re-run it right after".
AdhocResetsPeriod ==
  [][\A g \in Groups :
       Run(g, "queued") /\ Run(g, "running")' => Due(disk, g, cycle.prints[g], clock)]_vars

\* What README.md says of a group locked elsewhere: the daemon "waits out a
\* period before retrying".
LockedWaitsOutPeriod ==
  [][\A g \in Groups :
       Decided(g) /\ cycle.by = "timer" /\ last[g].found = "locked"
         => clock >= last[g].tried + PeriodOf[g]]_vars

\* What GroupRecord says of LastSuccess: "when the last successful run
\* started".  A run that started earlier does not replace it.
LastSuccessIsLast ==
  [][\A g \in DOMAIN disk.groups \cap DOMAIN disk'.groups :
       disk'.groups[g].success >= disk.groups[g].success]_vars

\* What Dueness says of itself, "the single authority on the rules": Start
\* wakes when a group it found waiting comes due by them, as status announces.
WakesWhenDue ==
  Asleep => \A g \in live : last[g].found = "waiting" => By(Success(g) + PeriodOf[g])
=============================================================================
