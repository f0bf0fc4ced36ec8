---------------------------- MODULE EventListener ----------------------------
(***************************************************************************)
(* Listener and Orchestrator: container events become triggers, triggers   *)
(* become cycles that discover the inventory anew.  The listener debounces *)
(* a burst of events, but never past MaxWait from its first one, and       *)
(* reconnects when the stream breaks; its trigger channel holds one        *)
(* trigger.  The orchestrator starts the listener, runs the initial cycle, *)
(* waiting for no subscription, then one cycle per trigger.                *)
(*                                                                         *)
(* Discovery looks at which containers and volumes there are and at which  *)
(* containers run; the stream announces only the first (docker.go:164).  A *)
(* container that starts or stops waits for a discovery that something     *)
(* else brings about.  Cycles the scheduler's timer drives discover too;   *)
(* they are left out, so nothing here is seen thanks to them.              *)
(***************************************************************************)
EXTENDS Integers

CONSTANTS
  Debounce, MaxWait,  \* debounceDuration and maxDebounceWait, in ticks
  MaxInFlight         \* bound on events the stream holds for the listener

ASSUME ListenerAssumption ==
  /\ Debounce \in Nat \ {0} /\ MaxWait \in Nat /\ MaxWait >= Debounce
  /\ MaxInFlight \in Nat \ {0}

VARIABLES
  dirty,       \* what changed since the last discovery listed the containers
  stream,      \* the event stream: none, open, or broken
  inflight,    \* events in it
  reconnected, \* the listener has connected before
  lpc,         \* where the listener is
  fire,        \* ticks until the pending debounce fires, or NoTimer
  age,         \* ticks since the first event of the burst
  trigger,     \* the buffered trigger
  closed,      \* the trigger channel is closed
  opc,         \* where the orchestrator is
  failed,      \* the last discovery failed
  cancelled,   \* shutdown was asked for
  observed,    \* history: an event was received since the last discovery
  early        \* history: what came or went since did before the first subscription

NoTimer == -1

\* What discovery depends on: which containers and volumes there are, and the
\* state they are in (started, stopped, paused).
Kinds == {"inventory", "state"}

\* relevantActions: only create, destroy and remove pass the stream's filter.
Announced == {"inventory"}

listenerVars == <<stream, inflight, reconnected, lpc, fire, age, closed>>
orchestratorVars == <<opc, failed>>
\* The specification's names are prefixed: Daemon_proofs extends PendingRuns too.
eventVars == <<dirty, stream, inflight, reconnected, lpc, fire, age, trigger, closed,
          opc, failed, cancelled, observed, early>>

ListenerInit ==
  /\ dirty = Kinds /\ observed = FALSE /\ early = FALSE
  /\ stream = "none" /\ inflight = 0 /\ reconnected = FALSE
  /\ lpc = "connect" /\ fire = NoTimer /\ age = 0
  /\ trigger = FALSE /\ closed = FALSE
  /\ opc = "initial" /\ failed = FALSE
  /\ cancelled = FALSE

NeverSubscribed == lpc = "connect" /\ ~reconnected

\* A container or volume comes or goes, or a container starts, stops or pauses.
Change(kind) ==
  /\ inflight < MaxInFlight
  /\ dirty' = dirty \cup {kind}
  /\ early' = IF kind = "inventory" THEN NeverSubscribed /\ (early \/ kind \notin dirty) ELSE early
  /\ inflight' = IF stream = "open" /\ kind \in Announced THEN inflight + 1 ELSE inflight
  /\ UNCHANGED <<stream, reconnected, lpc, fire, age, trigger, closed, observed,
                 cancelled, orchestratorVars>>

\* The engine drops the connection; what it already sent may still arrive.
Break ==
  /\ stream = "open"
  /\ stream' = "broken"
  /\ UNCHANGED <<dirty, inflight, reconnected, lpc, fire, age, trigger, closed,
                 observed, early, cancelled, orchestratorVars>>

-----------------------------------------------------------------------------
(* Listener. *)

\* send: drops what the channel has no room for.
Send == trigger' = TRUE

NewBurst == fire = NoTimer
Elapsed == IF NewBurst THEN 0 ELSE age
StopTimer == fire' = NoTimer /\ age' = 0

\* The context was cancelled: an owed trigger is dropped, the channel closed.
Leave ==
  /\ lpc # "done" /\ cancelled
  /\ lpc' = "done" /\ closed' = TRUE
  /\ stream' = "none" /\ inflight' = 0
  /\ StopTimer
  /\ UNCHANGED <<dirty, reconnected, trigger, observed, early, cancelled, orchestratorVars>>

\* EventStream subscribes, or returns a stream with an error in it.
Connect ==
  /\ lpc = "connect" /\ ~cancelled
  /\ stream' \in {"open", "broken"}
  /\ lpc' = "connected"
  /\ UNCHANGED <<dirty, inflight, reconnected, fire, age, trigger, closed, observed, early,
                 cancelled, orchestratorVars>>

\* Faulty: reconnecting is taken for connecting.
CoverNoGap ==
  /\ lpc = "connected"
  /\ reconnected' = TRUE
  /\ lpc' = "stream"
  /\ UNCHANGED <<dirty, stream, inflight, fire, age, trigger, closed, observed, early,
                 cancelled, orchestratorVars>>

\* Nothing that happened while disconnected was observable: one trigger, sent
\* after subscribing, closes the gap.
CoverGap ==
  /\ lpc = "connected"
  /\ IF reconnected THEN Send ELSE UNCHANGED trigger
  /\ reconnected' = TRUE
  /\ lpc' = "stream"
  /\ UNCHANGED <<dirty, stream, inflight, fire, age, closed, observed, early, cancelled,
                 orchestratorVars>>

\* Faulty: every event starts the debounce over.
ReceiveUncapped ==
  /\ lpc = "stream" /\ inflight > 0
  /\ inflight' = inflight - 1
  /\ fire' = Debounce /\ age' = Elapsed
  /\ observed' = TRUE
  /\ UNCHANGED <<dirty, early, stream, reconnected, lpc, trigger, closed, cancelled,
                 orchestratorVars>>

\* An event extends the debounce, within MaxWait of the burst's first one.
Receive ==
  /\ lpc = "stream" /\ inflight > 0
  /\ inflight' = inflight - 1
  /\ LET remaining == MaxWait - Elapsed
     IN fire' = IF remaining < Debounce THEN remaining ELSE Debounce
  /\ age' = Elapsed
  /\ observed' = TRUE
  /\ UNCHANGED <<dirty, early, stream, reconnected, lpc, trigger, closed, cancelled,
                 orchestratorVars>>

Fire ==
  /\ lpc = "stream" /\ fire = 0
  /\ Send /\ StopTimer
  /\ UNCHANGED <<dirty, stream, inflight, reconnected, lpc, closed, observed, early,
                 cancelled, orchestratorVars>>

\* Faulty: a broken stream takes the pending debounce with it.
DisconnectForgetful ==
  /\ lpc = "stream" /\ stream = "broken" /\ ~cancelled
  /\ stream' = "none" /\ inflight' = 0
  /\ StopTimer
  /\ lpc' = "backoff"
  /\ UNCHANGED <<dirty, reconnected, trigger, closed, observed, early, cancelled,
                 orchestratorVars>>

\* The stream broke: events still in it are gone, a trigger that is owed for
\* one received is sent now.
Disconnect ==
  /\ lpc = "stream" /\ stream = "broken" /\ ~cancelled
  /\ stream' = "none" /\ inflight' = 0
  /\ IF fire # NoTimer THEN Send ELSE UNCHANGED trigger
  /\ StopTimer
  /\ lpc' = "backoff"
  /\ UNCHANGED <<dirty, reconnected, closed, observed, early, cancelled, orchestratorVars>>

Backoff ==
  /\ lpc = "backoff" /\ ~cancelled
  /\ lpc' = "connect"
  /\ UNCHANGED <<dirty, stream, inflight, reconnected, fire, age, trigger, closed,
                 observed, early, cancelled, orchestratorVars>>

\* Time passes while a debounce is pending.
Tick ==
  /\ fire > 0 \/ (fire = 0 /\ age < MaxWait)
  /\ fire' = IF fire > 0 THEN fire - 1 ELSE 0
  /\ age' = IF age < MaxWait THEN age + 1 ELSE age
  /\ UNCHANGED <<dirty, stream, inflight, reconnected, lpc, trigger, closed,
                 observed, early, cancelled, orchestratorVars>>

-----------------------------------------------------------------------------
(* Orchestrator. *)

MayDiscover == opc \in {"initial", "cycle"}

\* A cycle lists the containers ...
Discover ==
  /\ MayDiscover /\ ~cancelled
  /\ dirty' = {} /\ observed' = FALSE /\ early' = FALSE /\ failed' = FALSE
  /\ opc' = "run"
  /\ UNCHANGED <<trigger, cancelled, listenerVars>>

\* ... or cannot; the error is logged and the next trigger awaited.
DiscoverFails ==
  /\ MayDiscover
  /\ failed' = TRUE /\ observed' = FALSE
  /\ opc' = "listen"
  /\ UNCHANGED <<dirty, early, trigger, cancelled, listenerVars>>

\* ... and runs the groups that are due.
EndCycle ==
  /\ opc = "run"
  /\ opc' = "listen"
  /\ UNCHANGED <<dirty, trigger, failed, observed, early, cancelled, listenerVars>>

TakeTrigger ==
  /\ opc = "listen" /\ trigger
  /\ trigger' = FALSE
  /\ opc' = "cycle"
  /\ UNCHANGED <<dirty, failed, observed, early, cancelled, listenerVars>>

Stop ==
  /\ opc = "listen" /\ (cancelled \/ (closed /\ ~trigger))
  /\ opc' = "stopped"
  /\ UNCHANGED <<dirty, trigger, failed, observed, early, cancelled, listenerVars>>

Cancel ==
  /\ ~cancelled
  /\ cancelled' = TRUE
  /\ UNCHANGED <<dirty, trigger, observed, early, listenerVars, orchestratorVars>>

-----------------------------------------------------------------------------
ListenerNext ==
  \/ \E kind \in Kinds : Change(kind)
  \/ Break \/ Leave \/ Connect \/ CoverGap \/ Receive \/ Fire \/ Disconnect
  \/ Backoff \/ Tick \/ Discover \/ DiscoverFails \/ EndCycle \/ TakeTrigger \/ Stop \/ Cancel

ListenerSpec == ListenerInit /\ [][ListenerNext]_eventVars

\* Goroutines are scheduled, timers fire, cycles end; the engine owes nothing:
\* it may change containers and drop connections as often as it likes.
Fairness ==
  /\ WF_eventVars(Connect) /\ WF_eventVars(CoverGap) /\ WF_eventVars(Receive) /\ WF_eventVars(Fire)
  /\ WF_eventVars(Disconnect) /\ WF_eventVars(Backoff) /\ WF_eventVars(Tick)
  /\ WF_eventVars(Discover \/ DiscoverFails) /\ WF_eventVars(EndCycle) /\ WF_eventVars(TakeTrigger)

FairSpec == ListenerSpec /\ Fairness

-----------------------------------------------------------------------------
ListenerTypeOK ==
  /\ dirty \subseteq Kinds /\ observed \in BOOLEAN /\ early \in BOOLEAN /\ failed \in BOOLEAN
  /\ cancelled \in BOOLEAN /\ trigger \in BOOLEAN /\ closed \in BOOLEAN
  /\ reconnected \in BOOLEAN
  /\ stream \in {"none", "open", "broken"}
  /\ inflight \in 0..MaxInFlight
  /\ lpc \in {"connect", "connected", "stream", "backoff", "done"}
  /\ fire \in NoTimer..Debounce /\ age \in 0..MaxWait
  /\ fire # NoTimer => age + fire <= MaxWait
  /\ opc \in {"initial", "cycle", "run", "listen", "stopped"}

\* Everybody waits: for the next event, the next trigger.
Quiet ==
  /\ lpc = "stream" /\ stream = "open" /\ inflight = 0 /\ fire = NoTimer
  /\ opc = "listen" /\ ~trigger

\* "One unconditional trigger closes the gap" (reconnectLoop); "a container
\* created while that cycle runs parks a trigger in the buffered channel
\* instead of being missed" (Run): when the listener and the orchestrator are
\* at rest, discovery has seen every container and volume that came or went,
\* however the stream broke in between, unless the last discovery failed, or the
\* change came after the initial listing and before the first subscription.
NothingMissed == Quiet => "inventory" \notin dirty \/ failed \/ early

\* Not so of what came or went so early, although Run says so of it, too
\* ("subscribe before the first cycle, not after"), for nothing waits for the
\* subscription; nor of a container that starts or stops, which is not announced.
NothingMissedEver == Quiet => dirty = {} \/ failed

\* "An observed event must not be lost" (processStream): a cycle is still to
\* list what it announced, or the trigger for it is owed or parked.  A listing
\* that fails counts: nobody retries it for the event's sake (Run).
ObservedIsOwed ==
  observed /\ ~cancelled => fire # NoTimer \/ trigger \/ opc = "cycle" \/ opc = "initial"

\* "Sustained churn pushes the window out forever" without the cap
\* (processStream): however many events arrive, a container or volume that comes
\* or goes is discovered, unless discovery fails or the daemon stops.
ChangeSeen ==
  "inventory" \in dirty /\ ~early ~> "inventory" \notin dirty \/ failed \/ cancelled
=============================================================================
