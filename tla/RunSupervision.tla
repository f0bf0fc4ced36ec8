---------------------------- MODULE RunSupervision ----------------------------
(***************************************************************************)
(* internal/runner/runner.go: the runs of one group, one after another,    *)
(* while their locks are held: validation, borgmatic and what its hooks    *)
(* leave behind, the watchdog, the drain of the output pipes, and what is  *)
(* then recorded of the run and of each of its repositories               *)
(* (internal/state/schedule.go, RecordRun).                                *)
(***************************************************************************)
EXTENDS Naturals, Functions

CONSTANTS
  Ids,        \* how records name repositories: labels, or paths without one
  Paths,      \* destinations
  Configs,    \* what a group may configure, from one generation to another
  RunTimeout, \* whether there is a run timeout
  MaxRuns     \* bound on the runs

\* "known" is RepositoriesKnown: whether the list was understood.
ASSUME RunSupervisionAssumption ==
  /\ MaxRuns \in Nat /\ RunTimeout \in BOOLEAN
  /\ \A c \in Configs :
       /\ c.known \in BOOLEAN
       /\ DOMAIN c.path \subseteq Ids /\ \A id \in DOMAIN c.path : c.path[id] \in Paths
       /\ ~c.known => DOMAIN c.path = {}

VARIABLES
  conf,       \* what this run's generation configured
  creates,    \* whether the configured actions include create
  n,          \* the number of the run, which serves as its time
  phase,      \* where TryRunGroup is; its locks are held unless "idle"
  shutdown,   \* ctx is done
  leader,     \* the child: its state, exit code and what ended it
  holders,    \* what else holds its pipes, inside its group or out of reach
  sent,       \* the strongest signal sent to its group
  watch,      \* the watchdog
  timedOut,
  tried,      \* repositories the child is through with
  named,      \* destinations its errors name
  failed,     \* something it did failed
  archives,   \* of each destination: the runs that wrote an archive there
  record,     \* the group's Repositories
  result      \* what was recorded of this run (LastRun)

child == <<leader, holders, tried, named, failed, archives>>
plan == <<conf, creates, n, shutdown>>
kept == <<record, result>>
vars == <<plan, phase, child, sent, watch, timedOut, kept>>

Repos == DOMAIN conf.path

NoChild == [state |-> "none", code |-> 0, by |-> "nobody"]
Started == [state |-> "alive", code |-> 0, by |-> "nobody"]
Empty == [id \in {} |-> 0]

Init ==
  /\ conf \in Configs /\ creates \in BOOLEAN
  /\ n = 0 /\ phase = "idle" /\ shutdown = FALSE
  /\ leader = NoChild /\ holders = {}
  /\ sent = "none" /\ watch = "off" /\ timedOut = FALSE
  /\ tried = {} /\ named = {} /\ failed = FALSE
  /\ archives = [path \in Paths |-> {}]
  /\ record = Empty
  /\ result = "none"

-----------------------------------------------------------------------------
\* What borgmatic and the rest of the machine do.
ChildOnly == UNCHANGED <<plan, phase, sent, watch, timedOut, kept>>

Running == phase = "running" /\ leader.state = "alive" /\ sent # "kill"

\* What it tried no longer matters, only what it wrote and whom it named.
\* Of what its hooks left behind, those that hold its pipes matter from here on:
\* in its group, unless that was killed, or out of a signal's reach.
Dies(code, by) ==
  /\ leader' = [state |-> "zombie", code |-> code, by |-> by]
  /\ tried' = {} /\ failed' = FALSE
  /\ UNCHANGED <<named, archives>>
  /\ holders' \in SUBSET (IF phase # "running" THEN {}
                          ELSE IF sent = "kill" THEN {"elsewhere"} ELSE {"group", "elsewhere"})

\* create, for one repository: it writes an archive, or fails and goes on to
\* the next; the error may not name the destination.
Create(id) ==
  /\ Running /\ creates /\ id \in Repos \ tried
  /\ tried' = tried \cup {id}
  /\ \/ /\ archives' = [archives EXCEPT ![conf.path[id]] = @ \cup {n}]
        /\ UNCHANGED <<named, failed>>
     \/ /\ failed' = TRUE
        /\ named' \in {named, named \cup {conf.path[id]}}
        /\ UNCHANGED archives
  /\ UNCHANGED <<leader, holders>> /\ ChildOnly

\* Another action or a hook fails; it too may name a destination.
OtherFailure ==
  /\ Running /\ ~failed
  /\ failed' = TRUE
  /\ \/ UNCHANGED named
     \/ \E id \in Repos : named' = named \cup {conf.path[id]}
  /\ UNCHANGED <<leader, holders, tried, archives>> /\ ChildOnly

\* One of them ends.
HolderExits(where) ==
  /\ where \in holders
  /\ holders' = holders \ {where}
  /\ UNCHANGED <<leader, tried, named, failed, archives>> /\ ChildOnly

Exit ==
  /\ leader.state = "alive" /\ sent # "kill"
  /\ \/ phase \in {"validating", "validation ending"} /\ \E code \in {0, 1} : Dies(code, "itself")
     \/ phase = "running" /\ failed /\ Dies(1, "itself")
     \/ phase = "running" /\ ~failed /\ (creates => tried = Repos) /\ Dies(0, "itself")
  /\ ChildOnly

\* It may heed a SIGTERM; nothing outlives a SIGKILL.
DieOfSignal ==
  /\ leader.state = "alive"
  /\ \/ sent = "term" /\ Dies(143, "manager")
     \/ sent = "kill" /\ Dies(137, "manager")
  /\ ChildOnly

\* The OOM killer, or an operator.
DieOfOthers ==
  /\ Running
  /\ \E code \in {137, 143} : Dies(code, "others")
  /\ ChildOnly

Shutdown ==
  /\ ~shutdown /\ shutdown' = TRUE
  /\ UNCHANGED <<conf, creates, n, phase, child, sent, watch, timedOut, kept>>

-----------------------------------------------------------------------------
\* The next generation may configure the group otherwise.
Generate ==
  /\ phase = "idle" /\ n < MaxRuns
  /\ conf' \in Configs
  /\ conf' # conf
  /\ UNCHANGED <<creates, n, shutdown, phase, child, sent, watch, timedOut, kept>>

\* The locks are taken, and validateConfig starts.
Begin ==
  /\ phase = "idle" /\ n < MaxRuns /\ ~shutdown
  /\ n' = n + 1
  /\ phase' = "validating" /\ leader' = Started
  /\ result' = "none"
  /\ UNCHANGED <<conf, creates, shutdown, holders, tried, named, failed, archives,
                 sent, watch, timedOut, record>>

\* BaseOfLabel keeps a label's history wherever it points.
BaseOfLabel(id) ==
  IF id \in DOMAIN record THEN [record[id] EXCEPT !.path = conf.path[id]]
  ELSE [path |-> conf.path[id], success |-> 0, last |-> "none"]

\* RecordRun: the judged repositories first, then the inventory is brought in
\* line with what is configured.  A record of another destination starts anew.
Base(id) ==
  IF id \in DOMAIN record /\ record[id].path = conf.path[id] THEN record[id]
  ELSE [path |-> conf.path[id], success |-> 0, last |-> "none"]

Judged(id, verdict) ==
  [Base(id) EXCEPT !.last = verdict, !.success = IF verdict = "ok" THEN n ELSE @]

RecordRun(verdict, judged) ==
  /\ result' = verdict
  /\ record' = IF ~conf.known THEN record
               ELSE [id \in Repos |-> IF id \in DOMAIN judged THEN Judged(id, judged[id])
                                      ELSE Base(id)]

\* terminateGroup's SIGTERM to the validation.
EndValidation ==
  /\ phase = "validating"
  /\ phase' = "validation ending"
  /\ timedOut' \in {~shutdown, TRUE}
  /\ sent' = "term"
  /\ UNCHANGED <<plan, child, watch, kept>>

KillValidation ==
  /\ phase = "validation ending" /\ leader.state = "alive" /\ sent = "term"
  /\ sent' = "kill"
  /\ UNCHANGED <<plan, phase, child, watch, timedOut, kept>>

\* Its verdict counts only if nobody interfered.
Validated ==
  /\ leader.state = "zombie"
  /\ \/ /\ phase = "validating" /\ leader.code = 0
        /\ phase' = "valid" /\ UNCHANGED kept
     \/ /\ phase = "validating" /\ leader.code # 0
        /\ phase' = "done" /\ RecordRun("config-invalid", Empty)
     \/ /\ phase = "validation ending"
        /\ phase' = "done"
        /\ IF timedOut THEN RecordRun("terminated", Empty) ELSE UNCHANGED kept
  /\ leader' = [leader EXCEPT !.state = "reaped"]
  /\ sent' = "none"
  /\ UNCHANGED <<plan, holders, tried, named, failed, archives, watch, timedOut>>

Spawn ==
  /\ phase = "valid"
  /\ \/ /\ phase' = "running" /\ leader' = Started /\ watch' = "watching"
     \/ /\ phase' = "done" /\ UNCHANGED <<leader, watch>>      \* Start failed
  /\ UNCHANGED <<plan, holders, tried, named, failed, archives, sent, timedOut, kept>>

-----------------------------------------------------------------------------
Done == phase \in {"draining", "drain grace", "interpreting", "done"}

Stronger(signal) == IF sent = "kill" THEN "kill" ELSE signal

\* WatchTimeoutUnmarked forgets to say that it did.
WatchTimeoutUnmarked ==
  /\ watch = "watching" /\ RunTimeout
  /\ watch' = "terminating"
  /\ UNCHANGED <<plan, phase, child, sent, timedOut, kept>>

\* The watchdog.  The run times out (done may be closed by then: select takes
\* either)...
WatchTimeout ==
  /\ watch = "watching" /\ RunTimeout
  /\ timedOut' = TRUE
  /\ watch' = "terminating"
  /\ UNCHANGED <<plan, phase, child, sent, kept>>

\* TerminateOnly does not wait for what comes of it.
TerminateOnly ==
  /\ watch = "terminating"
  /\ sent' = Stronger("term")
  /\ watch' = "off"
  /\ UNCHANGED <<plan, phase, child, timedOut, kept>>

Terminate ==
  /\ watch = "terminating"
  /\ sent' = Stronger("term")
  /\ watch' = "grace"
  /\ UNCHANGED <<plan, phase, child, timedOut, kept>>

KillAfterGrace ==
  /\ watch = "grace" /\ ~Done
  /\ sent' = "kill"
  /\ watch' = "off"
  /\ UNCHANGED <<plan, phase, child, timedOut, kept>>

\* ...or the manager shuts down: from then on nothing bounds the run.
WatchShutdown ==
  /\ watch = "watching" /\ shutdown
  /\ sent' = Stronger("term")
  /\ watch' = "off"
  /\ UNCHANGED <<plan, phase, child, timedOut, kept>>

\* cmd.Wait returns; then done is closed.
Wait ==
  /\ phase = "running" /\ leader.state = "zombie"
  /\ leader' = [leader EXCEPT !.state = "reaped"]
  /\ phase' = "waited"
  /\ UNCHANGED <<plan, holders, tried, named, failed, archives, sent, watch, timedOut, kept>>

CloseDone ==
  /\ phase = "waited"
  /\ phase' = "draining"
  /\ UNCHANGED <<plan, child, sent, watch, timedOut, kept>>

\* The watchdog sees it, and a grace that has not ended is over.
WatchDone ==
  /\ Done /\ watch \in {"watching", "grace"}
  /\ watch' = "off"
  /\ UNCHANGED <<plan, phase, child, sent, timedOut, kept>>

\* The pipes reach EOF once nothing holds them.
Drained ==
  /\ phase \in {"draining", "drain grace"} /\ holders = {}
  /\ phase' = "interpreting"
  /\ UNCHANGED <<plan, child, sent, watch, timedOut, kept>>

\* They do not in time: a group that still has members gets a SIGTERM.
\* DrainByClosing only closes the pipes.
DrainByClosing ==
  /\ phase = "draining" /\ holders # {}
  /\ phase' = "interpreting"
  /\ UNCHANGED <<plan, child, sent, watch, timedOut, kept>>

DrainTimeout ==
  /\ phase = "draining" /\ holders # {}
  /\ IF "group" \in holders
       THEN phase' = "drain grace" /\ sent' = Stronger("term")
       ELSE phase' = "interpreting" /\ UNCHANGED sent
  /\ UNCHANGED <<plan, child, watch, timedOut, kept>>

\* Then a SIGKILL, and the pipes are forced shut.
DrainKill ==
  /\ phase = "drain grace" /\ holders # {}
  /\ sent' = "kill"
  /\ phase' = "interpreting"
  /\ UNCHANGED <<plan, child, watch, timedOut, kept>>

-----------------------------------------------------------------------------
\* matchResults.  borgmatic reports its create results only when no repository
\* failed; it may die first, and a location may match no repository.
Matches ==
  IF \A id \in Repos : n \in archives[conf.path[id]] THEN SUBSET Repos ELSE {{}}

\* perRepoFailure: evidence first, then what errors name, then what a probe
\* finds written since this run's start.  Shutdown stops the probes.
Implicated == {id \in Repos : conf.path[id] \in named}

Confirmable(matched) ==
  IF shutdown THEN {}
  ELSE {id \in Repos \ (matched \cup Implicated) : n \in archives[conf.path[id]]}

PerRepoFailure(matched, confirmed) ==
  [id \in matched \cup Implicated \cup confirmed |->
     IF id \in matched \cup confirmed THEN "ok" ELSE "failed"]

\* perRepoSuccess: a cycle without create confirms no backup.
PerRepoSuccess == IF creates THEN [id \in Repos |-> "ok"] ELSE Empty

MeasuredOutcomes(matched) == [id \in matched |-> "ok"]

\* Faulty: any SIGKILL is taken for the manager's own.
TerminatedAnyhow == leader.code \in {137, 143}

\* A SIGKILL is the manager's only after a timeout: it may be the OOM killer's.
Terminated == leader.code = 143 \/ (timedOut /\ leader.code = 137)

InterpretResult ==
  /\ phase = "interpreting"
  /\ phase' = "done"
  /\ \E matched \in Matches :
       \/ leader.code = 0 /\ RecordRun("ok", PerRepoSuccess)
       \/ /\ Terminated
          /\ RecordRun("terminated", MeasuredOutcomes(matched))
       \/ /\ leader.code # 0 /\ ~Terminated
          /\ \E confirmed \in SUBSET Confirmable(matched) :
               RecordRun("failed", PerRepoFailure(matched, confirmed))
  /\ named' = {}
  /\ UNCHANGED <<plan, leader, holders, tried, failed, archives, sent, watch, timedOut>>

\* The deferred calls: the locks are released.  The watchdog of the run has been
\* scheduled by then, and what was left behind is no longer watched.
Release ==
  /\ phase = "done" /\ watch = "off"
  /\ phase' = "idle"
  /\ leader' = NoChild /\ sent' = "none" /\ timedOut' = FALSE
  /\ holders' = {}
  /\ UNCHANGED <<plan, tried, named, failed, archives, watch, kept>>

Manager ==
  \/ EndValidation \/ KillValidation \/ Validated \/ Spawn
  \/ WatchTimeout \/ Terminate \/ KillAfterGrace \/ WatchShutdown \/ WatchDone
  \/ Wait \/ CloseDone \/ Drained \/ DrainTimeout \/ DrainKill
  \/ InterpretResult \/ Release

Child ==
  \/ \E id \in Repos : Create(id)
  \/ OtherFailure \/ Exit \/ DieOfSignal \/ DieOfOthers
  \/ \E where \in {"group", "elsewhere"} : HolderExits(where)

Next == Generate \/ Begin \/ Manager \/ Child \/ Shutdown

\* The manager's goroutines are scheduled and its timers fire; a SIGKILL works.
\* Nothing is assumed of borgmatic: it may hang, and ignore a SIGTERM.
Fairness ==
  /\ WF_vars(EndValidation) /\ WF_vars(KillValidation) /\ WF_vars(Validated) /\ WF_vars(Spawn)
  /\ WF_vars(WatchTimeout) /\ WF_vars(Terminate) /\ WF_vars(KillAfterGrace \/ WatchDone)
  /\ WF_vars(Wait) /\ WF_vars(CloseDone)
  /\ WF_vars(Drained \/ DrainTimeout \/ DrainKill)
  /\ WF_vars(InterpretResult) /\ WF_vars(Release)
  /\ WF_vars(sent = "kill" /\ DieOfSignal)

Spec == Init /\ [][Next]_vars /\ Fairness

-----------------------------------------------------------------------------
Flags ==
  /\ creates \in BOOLEAN /\ shutdown \in BOOLEAN
  /\ timedOut \in BOOLEAN /\ failed \in BOOLEAN

Leaders == [state : {"none", "alive", "zombie", "reaped"}, code : {0, 1, 137, 143},
            by : {"nobody", "itself", "manager", "others"}]

Control ==
  /\ n \in 0..MaxRuns
  /\ phase \in {"idle", "validating", "validation ending", "valid", "running", "waited",
                "draining", "drain grace", "interpreting", "done"}
  /\ leader \in Leaders
  /\ holders \subseteq {"group", "elsewhere"}
  /\ sent \in {"none", "term", "kill"}
  /\ watch \in {"off", "watching", "terminating", "grace"}
  /\ result \in {"none", "ok", "failed", "terminated", "config-invalid"}

Data ==
  /\ conf \in Configs
  /\ tried \subseteq Ids /\ named \subseteq Paths
  /\ archives \in [Paths -> SUBSET (1..MaxRuns)]

\* A record names one of the destinations, and none but runs of the past.
RecordOK ==
  /\ DOMAIN record \subseteq Ids
  /\ \A id \in DOMAIN record : record[id] \in
       [path : Paths, success : 0..n, last : {"none", "ok", "failed"}]

\* Every variable keeps to its values.
TypeOK == Flags /\ Control /\ Data /\ RecordOK

\* The locks are not released over a child that still runs, nor over a process
\* of its group that holds its pipes, unless that one has been sent a SIGKILL
\* (runner.go:401).
LocksOutliveTheGroup == phase = "done" =>
  /\ leader.state \in {"zombie", "reaped"}
  /\ "group" \in holders => sent = "kill"

\* With a run timeout, a run ends and its locks are released whatever borgmatic
\* and its hooks do, until the manager is told to shut down (runner.go:361).
RunsEnd == RunTimeout /\ phase # "idle" ~> phase = "idle" \/ shutdown

\* A repository's last success is a run that wrote an archive to the
\* destination the record is about: not another group's success, a cycle that
\* wrote nothing, or the destination a label pointed at before.
FreshnessIsReal == \A id \in DOMAIN record :
  record[id].success > 0 => record[id].success \in archives[record[id].path]

\* No other run ends with the watchdog gone and no signal sent after a timeout.
ValidationTimedOut == timedOut /\ watch = "off" /\ sent = "none"

\* What status shows of the run is what happened.  "ok" is borgmatic's own exit.
\* A death that the manager itself caused is never shown as a failure of the
\* group.  "terminated" is a signal, never borgmatic's own failure, and a SIGKILL
\* only after a timeout, for it "would hide the group from status's failed-groups
\* alert"; or the validation ran out of time (runner.go:354, 645-668).
OutcomeIsTruthful == phase = "done" =>
  /\ result = "ok" => leader.by = "itself" /\ leader.code = 0
  /\ result \in {"failed", "config-invalid"} => leader.by # "manager"
  /\ result = "terminated" =>
       \/ leader.by # "itself" /\ (leader.code = 143 \/ timedOut)
       \/ ValidationTimedOut

\* No signal is sent to a process group that no longer exists, and whose number
\* may be another's by now: "stop the signal watchdog now, before the drain
\* wait, or a late timeout/shutdown could signal a recycled process group"
\* (runner.go:391-392).
SignalsReachTheGroup ==
  [][sent' \notin {sent, "none"} => leader.state # "reaped" \/ "group" \in holders]_vars
===============================================================================
