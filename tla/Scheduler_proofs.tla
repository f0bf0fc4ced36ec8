--------------------------- MODULE Scheduler_proofs ---------------------------
(***************************************************************************)
(* Scheduler for any groups, periods, retries and length of its clock:     *)
(* types, that a sleeping Start wakes as soon as there is something to do  *)
(* and never without a reason, and that a success which another process    *)
(* recorded before a cycle's reload counts in it.                          *)
(*                                                                         *)
(* The wake-up is computed from a snapshot of the store and from the marks *)
(* in memory, cycles change both, and a poke makes up for it.  What the    *)
(* invariant adds to the types is therefore what the marks say of the      *)
(* groups (Tried, Locked), whose they are (MarksPlanned, PlannedKnown),    *)
(* and that with no poke and no cycle to come the snapshot is current      *)
(* (Fresh).                                                                *)
(***************************************************************************)
EXTENDS Scheduler, WellFoundedInduction, TLAPS

\* Partial functions.
Partial(D, S) == UNION {[G -> S] : G \in SUBSET D}

Stages == {"none", "reload", "discover", "gate", "generate", "plan", "prune", "wait", "end"}
Runner == [at : 0..MaxTime, state : {"queued", "running", "done"}]
Cycle ==
  [by : {"none", "event", "timer"}, stage : Stages, now : 0..MaxTime,
   prints : Partial(Groups, Prints \cup {NoPrint}), todo : SUBSET Groups,
   runs : Partial(Groups, Runner), touched : SUBSET Groups]
Adhoc == [at : 0..MaxTime, state : {"none", "running", "done"}, print : Prints \cup {NoPrint}]
Try == [tried : 0..MaxTime, found : {"free", "waiting", "locked"}]

Types ==
  /\ clock \in 1..MaxTime
  /\ disk \in File /\ view \in File /\ snap \in File
  /\ other \in [Groups -> Adhoc] /\ cycle \in Cycle /\ last \in [Groups -> Try]
  /\ attempt \in Marks /\ retry \in Marks /\ gate \in 0..MaxTime + GateRetry
  /\ live \subseteq Groups /\ rearm \in BOOLEAN
  /\ opc \in {"initial", "cycle", "listen"}
  /\ spc \in {"off", "snapshot", "arm", "sleep", "fired", "cycle", "drain"}
  /\ alarm \in Nat /\ armed \in 0..MaxTime

\* A cycle has groups to plan while it plans, and runs from then on.
Plan ==
  /\ cycle.stage # "plan" => cycle.todo = {}
  /\ cycle.stage \in {"plan", "prune", "wait"} =>
       cycle.now # 0 /\ cycle.todo \cup DOMAIN cycle.runs \subseteq Live
  /\ cycle.stage \in {"gate", "generate", "plan", "prune", "wait"} =>
       cycle.prints \in [Groups -> Prints \cup {NoPrint}]
  /\ cycle.stage \notin {"plan", "prune", "wait"} => DOMAIN cycle.runs = {}
  /\ cycle.todo \cap DOMAIN cycle.runs = {}

\* What the marks say of a group is how its last cycle found it.
Tried ==
  /\ \A g \in Groups : last[g].tried = AtMark(g)
  /\ \A g \in DOMAIN attempt : attempt[g] # 0
  /\ \A g \in DOMAIN cycle.runs : last[g].tried = cycle.now /\ last[g].found = "free"
Locked == \A g \in Groups :
  /\ last[g].found = "locked" => g \in DOMAIN retry /\ retry[g] = last[g].tried + LockRetry
  /\ g \in DOMAIN retry \ DOMAIN cycle.runs => last[g].found = "locked"

\* Marks are of groups of the last cycle to have planned, or of this one.
Planned == live \cup (IF cycle.stage \in {"plan", "prune"} THEN Live ELSE {})
MarksPlanned ==
  /\ DOMAIN attempt \cup DOMAIN retry \subseteq Planned
  /\ cycle.stage = "wait" => live = Live

\* A group that was planned succeeded once, or was tried.
Known(g) == g \in DOMAIN view.groups \cup DOMAIN attempt
PlannedKnown ==
  /\ cycle.stage # "prune" => \A g \in live : Known(g)
  /\ cycle.stage \in {"plan", "prune"} => \A g \in Live \ cycle.todo : Known(g)
  /\ DOMAIN view.groups \subseteq DOMAIN disk.groups

\* What nobody else has written since the reload is as on disk.
Synced ==
  cycle.stage \in {"discover", "gate", "generate", "plan"} =>
    \A g \in Groups \ cycle.touched :
      /\ g \in DOMAIN view.groups <=> g \in DOMAIN disk.groups
      /\ g \in DOMAIN view.groups => view.groups[g] = disk.groups[g]

\* What the alarm has to heed, by the records in f.
DrivingIn(f) == {g \in DOMAIN f.groups \cup DOMAIN attempt : Record(f, g).missing = 0}
DueIn(f, g) == Latest(Record(f, g).success, AtMark(g)) + LivePeriod(g)
TimesIn(f) == Retries \cup {DueIn(f, g) : g \in DrivingIn(f)}

\* Unless a poke or a cycle is still to come, Start has seen all there is.
Fresh ==
  ~rearm /\ cycle = NoCycle =>
    /\ spc = "arm" => snap = view
    /\ spc = "sleep" => alarm = Wake(TimesIn(view))

SInv == Types /\ Plan /\ Tried /\ Locked /\ MarksPlanned /\ PlannedKnown /\ Synced /\ Fresh

-----------------------------------------------------------------------------
(* The model's operators. *)

\* A set of times has a least one.
LEMMA EarliestIsLeast ==
  ASSUME NEW S, S \subseteq Nat, S # {}
  PROVE  Earliest(S) \in S /\ \A t \in S : Earliest(S) <= t
<1>1. PICK m \in S : \A k \in S : <<k, m>> \notin OpToRel(<, Nat)
  BY WFMin, NatLessThanWellFounded, Zenon
<1>2. ASSUME NEW k \in S PROVE m <= k
  <2>1. <<k, m>> \in Nat \X Nat
    OBVIOUS
  <2>2. k < m => <<k, m>> \in OpToRel(<, Nat)
    BY <2>1, Zenon DEF OpToRel
  <2>3. ~(k < m)
    BY <2>2, <1>1, Zenon
  <2> QED BY <2>3
<1> QED BY <1>2 DEF Earliest

\* A mark is set, or some are gone.
Gains(new, old, g, x) ==
  /\ DOMAIN new = DOMAIN old \cup {g} /\ new[g] = x
  /\ \A h \in DOMAIN old \ {g} : new[h] = old[h]
Loses(new, old, S) ==
  DOMAIN new = DOMAIN old \ S /\ \A h \in DOMAIN old \ S : new[h] = old[h]

LEMMA SetGains == ASSUME NEW f, NEW g, NEW x PROVE Gains(Set(f, g, x), f, g, x)
  BY DEF Set, Gains

LEMMA WithoutLoses == ASSUME NEW f, NEW S PROVE Loses(Without(f, S), f, S)
  BY DEF Without, Loses

LEMMA PartialSet ==
  ASSUME NEW D, NEW S, NEW f \in Partial(D, S), NEW g \in D, NEW x \in S
  PROVE  Set(f, g, x) \in Partial(D, S)
<1>1. Set(f, g, x) \in [DOMAIN f \cup {g} -> S]
  BY DEF Set, Partial
<1>2. DOMAIN f \cup {g} \in SUBSET D
  BY DEF Partial
<1> QED BY <1>1, <1>2 DEF Partial

LEMMA PartialWithout ==
  ASSUME NEW D, NEW S, NEW f \in Partial(D, S), NEW X
  PROVE  Without(f, X) \in Partial(D, S)
<1>1. Without(f, X) \in [DOMAIN f \ X -> S]
  BY DEF Without, Partial
<1>2. DOMAIN f \ X \in SUBSET D
  BY DEF Partial
<1> QED BY <1>1, <1>2 DEF Partial

LEMMA PartialAt ==
  ASSUME NEW D, NEW S, NEW f \in Partial(D, S)
  PROVE  DOMAIN f \subseteq D /\ \A g \in DOMAIN f : f[g] \in S
  BY DEF Partial

LEMMA MarksArePartial == Marks = Partial(Groups, 0..MaxTime + LockRetry)
  BY DEF Marks, Partial

\* What a file says of a group.
LEMMA FileRecords ==
  ASSUME NEW f \in File
  PROVE  /\ DOMAIN f.groups \subseteq Groups
         /\ \A g \in DOMAIN f.groups : f.groups[g] \in GroupRecord
         /\ \A g \in Groups : Record(f, g) \in GroupRecord
  BY ScheduleDataAssumption DEF File, Record, NoRecord, GroupRecord

LEMMA PutIs ==
  ASSUME NEW f \in File, NEW g \in Groups, NEW rec \in GroupRecord
  PROVE  /\ Put(f, g, rec) \in File
         /\ DOMAIN Put(f, g, rec).groups = DOMAIN f.groups \cup {g}
         /\ Put(f, g, rec).groups[g] = rec
         /\ \A h \in DOMAIN f.groups \ {g} : Put(f, g, rec).groups[h] = f.groups[h]
<1>1. PICK G \in SUBSET Groups : f \in [groups : [G -> GroupRecord], pending : SUBSET Runs]
  BY DEF File
<1> DEFINE new == [h \in DOMAIN f.groups \cup {g} |-> IF h = g THEN rec ELSE f.groups[h]]
<1>2. new \in [G \cup {g} -> GroupRecord] /\ G \cup {g} \in SUBSET Groups
  BY <1>1
<1>3. Put(f, g, rec) = [groups |-> new, pending |-> f.pending]
  BY <1>1 DEF Put
<1>4. Put(f, g, rec) \in [groups : [G \cup {g} -> GroupRecord], pending : SUBSET Runs]
  BY <1>1, <1>2, <1>3
<1> QED BY <1>1, <1>2, <1>3, <1>4 DEF File

LEMMA RecordRunIs ==
  ASSUME NEW f \in File, NEW g \in Groups
  PROVE  /\ RecordRun(f, g) \in File
         /\ DOMAIN RecordRun(f, g).groups = DOMAIN f.groups \cup {g}
         /\ \A h \in DOMAIN f.groups \ {g} : RecordRun(f, g).groups[h] = f.groups[h]
  BY FileRecords, PutIs DEF RecordRun

LEMMA MarkSuccessIs ==
  ASSUME NEW f \in File, NEW g \in Groups, NEW p \in Prints \cup {NoPrint}, NEW t \in Times
  PROVE  /\ MarkSuccess(f, g, p, t) \in File
         /\ DOMAIN MarkSuccess(f, g, p, t).groups = DOMAIN f.groups \cup {g}
         /\ \A h \in DOMAIN f.groups \ {g} : MarkSuccess(f, g, p, t).groups[h] = f.groups[h]
<1>1. ASSUME NEW rec \in GroupRecord
      PROVE  [rec EXCEPT !.success = t, !.print = p, !.missing = 0] \in GroupRecord
  <2> DEFINE dated == [rec EXCEPT !.success = t]
             printed == [dated EXCEPT !.print = p]
  <2>1. dated \in GroupRecord
    BY DEF GroupRecord
  <2> HIDE DEF dated
  <2>2. printed \in GroupRecord
    BY <2>1 DEF GroupRecord
  <2> HIDE DEF printed
  <2>3. [printed EXCEPT !.missing = 0] \in GroupRecord
    BY <2>2, ScheduleDataAssumption DEF GroupRecord
  <2> QED BY <2>3 DEF printed, dated
<1>2. Record(f, g) \in GroupRecord
  BY FileRecords
<1> QED BY <1>1, <1>2, PutIs DEF MarkSuccess

\* The groups of a cycle are kept, and where there is nothing to write everybody is.
LEMMA RetainIs ==
  ASSUME NEW f \in File, NEW active \in SUBSET Groups, NEW protected
  PROVE  LET m == [op |-> "Retain", active |-> active, protected |-> protected]
         IN /\ Apply(m, f) \in File
            /\ DOMAIN f.groups \cap active \subseteq DOMAIN Apply(m, f).groups
            /\ ~Changes(m, f) => DOMAIN Apply(m, f).groups = DOMAIN f.groups
<1> DEFINE m == [op |-> "Retain", active |-> active, protected |-> protected]
           kept == {g \in DOMAIN f.groups : ~Expired(f, g, active, protected)}
           new == [g \in kept |-> IF g \in active THEN Seen(f.groups[g]) ELSE Missed(f.groups[g])]
<1>1. PICK G \in SUBSET Groups : f \in [groups : [G -> GroupRecord], pending : SUBSET Runs]
  BY DEF File
<1>2. Apply(m, f) = [groups |-> new, pending |-> f.pending]
  BY <1>1 DEF Apply, Retain
<1>3. ASSUME NEW g \in kept
      PROVE  Seen(f.groups[g]) \in GroupRecord /\ Missed(f.groups[g]) \in GroupRecord
  BY <1>1, ScheduleDataAssumption DEF Seen, Missed, Capped, GroupRecord
<1>4. new \in [kept -> GroupRecord] /\ kept \in SUBSET Groups
  BY <1>1, <1>3
<1>5. Apply(m, f) \in File
  <2> HIDE DEF new, kept, m
  <2> QED BY <1>1, <1>2, <1>4 DEF File
<1>6. DOMAIN Apply(m, f).groups = kept
  BY <1>2
<1>7. DOMAIN f.groups \cap active \subseteq kept
  BY DEF Expired
<1>8. Changes(m, f) <=> \E g \in DOMAIN f.groups : g \in active => f.groups[g].missing # 0
  BY DEF Changes
<1> QED BY <1>5, <1>6, <1>7, <1>8

-----------------------------------------------------------------------------
(* What steps do, field by field. *)

\* The fields of a cycle.
Is(c, by, stage, now, prints, todo, runs, touched) ==
  /\ c.by = by /\ c.stage = stage /\ c.now = now /\ c.prints = prints
  /\ c.todo = todo /\ c.runs = runs /\ c.touched = touched

LEMMA CycleExcept ==
  ASSUME NEW c \in Cycle, NEW v, NEW w
  PROVE  /\ Is([c EXCEPT !.stage = v], c.by, v, c.now, c.prints, c.todo, c.runs, c.touched)
         /\ Is([c EXCEPT !.todo = v], c.by, c.stage, c.now, c.prints, v, c.runs, c.touched)
         /\ Is([c EXCEPT !.runs = v], c.by, c.stage, c.now, c.prints, c.todo, v, c.touched)
         /\ Is([c EXCEPT !.todo = v, !.runs = w],
               c.by, c.stage, c.now, c.prints, v, w, c.touched)
         /\ Is([c EXCEPT !.stage = "gate", !.prints = v],
               c.by, "gate", c.now, v, c.todo, c.runs, c.touched)
         /\ Is([c EXCEPT !.stage = "plan", !.now = v, !.todo = w],
               c.by, "plan", v, c.prints, w, c.runs, c.touched)
         /\ Is([c EXCEPT !.stage = "prune", !.touched = v],
               c.by, "prune", c.now, c.prints, c.todo, c.runs, v)
         /\ Is([c EXCEPT !.touched = v], c.by, c.stage, c.now, c.prints, c.todo, c.runs, v)
  BY Zenon DEF Cycle, Is

LEMMA CycleOf ==
  ASSUME NEW b \in {"none", "event", "timer"}, NEW s \in Stages, NEW n \in 0..MaxTime,
         NEW p \in Partial(Groups, Prints \cup {NoPrint}), NEW t \in SUBSET Groups,
         NEW r \in Partial(Groups, Runner), NEW u \in SUBSET Groups
  PROVE  [by |-> b, stage |-> s, now |-> n, prints |-> p, todo |-> t, runs |-> r, touched |-> u]
           \in Cycle
  BY DEF Cycle

LEMMA CycleStays ==
  ASSUME NEW c \in Cycle
  PROVE  /\ \A s \in Stages : [c EXCEPT !.stage = s] \in Cycle
         /\ \A t \in SUBSET Groups : [c EXCEPT !.todo = t] \in Cycle
         /\ \A r \in Partial(Groups, Runner) : [c EXCEPT !.runs = r] \in Cycle
         /\ \A u \in SUBSET Groups : [c EXCEPT !.touched = u] \in Cycle
         /\ \A t \in SUBSET Groups, r \in Partial(Groups, Runner) :
              [c EXCEPT !.todo = t, !.runs = r] \in Cycle
         /\ \A s \in Stages, p \in Partial(Groups, Prints \cup {NoPrint}) :
              [c EXCEPT !.stage = s, !.prints = p] \in Cycle
         /\ \A s \in Stages, n \in 0..MaxTime, t \in SUBSET Groups :
              [c EXCEPT !.stage = s, !.now = n, !.todo = t] \in Cycle
         /\ \A s \in Stages, u \in SUBSET Groups :
              [c EXCEPT !.stage = s, !.touched = u] \in Cycle
         /\ \A b \in {"none", "event", "timer"}, s \in Stages :
              [c EXCEPT !.by = b, !.stage = s] \in Cycle
  BY DEF Cycle

\* A cycle that begins, or gives up.
LEMMA CycleEmpty ==
  ASSUME NEW b, NEW s
  PROVE  Is([NoCycle EXCEPT !.by = b, !.stage = s],
            b, s, 0, NoCycle.prints, {}, NoCycle.runs, {})
  BY DEF NoCycle, Is

\* Only how g was found changes.
Noted(g, found) == \A h \in Groups :
  last'[h].tried = last[h].tried /\ last'[h].found = IF h = g THEN found ELSE last[h].found

LEMMA NoteIs ==
  ASSUME Types, NEW g \in Groups, NEW found \in {"free", "waiting", "locked"}, Note(g, found)
  PROVE  Noted(g, found) /\ last' \in [Groups -> Try]
<1>1. \A t \in Try : [t EXCEPT !.found = found] \in Try
                     /\ [t EXCEPT !.found = found].tried = t.tried
                     /\ [t EXCEPT !.found = found].found = found
  BY DEF Try
<1>2. last \in [Groups -> Try]
  BY DEF Types
<1>3. last' = [last EXCEPT ![g] = [last[g] EXCEPT !.found = found]]
  BY DEF Note
<1> HIDE DEF Try
<1> QED BY <1>1, <1>2, <1>3 DEF Noted

LEMMA PlanWaitingDoes ==
  ASSUME Types, NEW g \in Groups, PlanWaiting(g)
  PROVE  /\ cycle.stage = "plan" /\ g \in cycle.todo /\ g \in DOMAIN view.groups
         /\ Is(cycle', cycle.by, "plan", cycle.now, cycle.prints, cycle.todo \ {g},
               cycle.runs, cycle.touched)
         /\ cycle' \in Cycle
         /\ Loses(retry', retry, {g}) /\ retry' \in Marks
         /\ Noted(g, "waiting") /\ last' \in [Groups -> Try]
         /\ UNCHANGED <<clock, store, other, attempt, gate, live, rearm, opc, start>>
<1>1. cycle \in Cycle /\ retry \in Partial(Groups, 0..MaxTime + LockRetry)
  BY MarksArePartial DEF Types
<1>2. /\ cycle.stage = "plan" /\ g \in cycle.todo /\ g \in DOMAIN view.groups
      /\ cycle' = [cycle EXCEPT !.todo = cycle.todo \ {g}]
      /\ retry' = Without(retry, {g}) /\ Note(g, "waiting")
      /\ UNCHANGED <<clock, store, other, attempt, gate, live, rearm, opc, start>>
  BY DEF PlanWaiting, Stage, Due
<1>3. Is(cycle', cycle.by, "plan", cycle.now, cycle.prints, cycle.todo \ {g},
         cycle.runs, cycle.touched)
  BY <1>1, <1>2, CycleExcept, Zenon
<1>4. Loses(retry', retry, {g}) /\ retry' \in Marks
  BY <1>1, <1>2, WithoutLoses, PartialWithout, MarksArePartial
<1>5. Noted(g, "waiting") /\ last' \in [Groups -> Try]
  BY <1>2, NoteIs
<1>6. cycle' \in Cycle
  <2>1. cycle.todo \ {g} \in SUBSET Groups
    BY <1>1 DEF Cycle
  <2> QED BY <1>1, <1>2, <2>1, CycleStays, Zenon
<1> QED BY <1>2, <1>3, <1>4, <1>5, <1>6

LEMMA PlanRunDoes ==
  ASSUME Types, NEW g \in Groups, PlanRun(g)
  PROVE  /\ cycle.stage = "plan" /\ g \in cycle.todo
         /\ Due(view, g, cycle.prints[g], cycle.now)
         /\ \E runs \in Partial(Groups, Runner) :
              /\ Is(cycle', cycle.by, "plan", cycle.now, cycle.prints, cycle.todo \ {g},
                    runs, cycle.touched)
              /\ DOMAIN runs = DOMAIN cycle.runs \cup {g}
         /\ cycle' \in Cycle
         /\ Gains(attempt', attempt, g, cycle.now) /\ attempt' \in Marks
         /\ \A h \in Groups :
              last'[h] = IF h = g THEN [tried |-> cycle.now, found |-> "free"] ELSE last[h]
         /\ last' \in [Groups -> Try]
         /\ UNCHANGED <<clock, store, other, retry, gate, live, rearm, opc, start>>
<1> DEFINE queued == [at |-> 0, state |-> "queued"]
           runs == Set(cycle.runs, g, queued)
<1>1. /\ cycle \in Cycle /\ attempt \in Partial(Groups, 0..MaxTime + LockRetry)
      /\ cycle.runs \in Partial(Groups, Runner) /\ cycle.now \in 0..MaxTime + LockRetry
  BY MarksArePartial, SchedulerAssumption DEF Types, Cycle
<1>2. queued \in Runner
  BY SchedulerAssumption DEF Runner
<1>3. /\ cycle.stage = "plan" /\ g \in cycle.todo
      /\ Due(view, g, cycle.prints[g], cycle.now)
      /\ cycle' = [cycle EXCEPT !.todo = cycle.todo \ {g}, !.runs = runs]
      /\ attempt' = Set(attempt, g, cycle.now)
      /\ last' = [last EXCEPT ![g] = [tried |-> cycle.now, found |-> "free"]]
      /\ UNCHANGED <<clock, store, other, retry, gate, live, rearm, opc, start>>
  BY DEF PlanRun, Stage
<1> HIDE DEF queued
<1>4. runs \in Partial(Groups, Runner) /\ DOMAIN runs = DOMAIN cycle.runs \cup {g}
  BY <1>1, <1>2, PartialSet, SetGains DEF Gains
<1> HIDE DEF runs
<1>5. Is(cycle', cycle.by, "plan", cycle.now, cycle.prints, cycle.todo \ {g},
         runs, cycle.touched)
  <2>1. Is([cycle EXCEPT !.todo = cycle.todo \ {g}, !.runs = runs], cycle.by, cycle.stage,
           cycle.now, cycle.prints, cycle.todo \ {g}, runs, cycle.touched)
    BY <1>1, CycleExcept, Zenon
  <2> QED BY <1>3, <2>1, Zenon
<1>6. Gains(attempt', attempt, g, cycle.now)
  <2>1. Gains(Set(attempt, g, cycle.now), attempt, g, cycle.now)
    BY SetGains, Zenon
  <2> QED BY <1>3, <2>1, Zenon
<1>7. attempt' \in Marks
  <2>1. Set(attempt, g, cycle.now) \in Partial(Groups, 0..MaxTime + LockRetry)
    BY <1>1, PartialSet, Zenon
  <2> QED BY <1>3, <2>1, MarksArePartial, Zenon
<1>8. cycle' \in Cycle
  <2>1. cycle.todo \ {g} \in SUBSET Groups
    BY <1>1 DEF Cycle
  <2> QED BY <1>1, <1>3, <1>4, <2>1, CycleStays, Zenon
<1>9. /\ \A h \in Groups :
           last'[h] = IF h = g THEN [tried |-> cycle.now, found |-> "free"] ELSE last[h]
      /\ last' \in [Groups -> Try]
  <2>1. last \in [Groups -> Try] /\ [tried |-> cycle.now, found |-> "free"] \in Try
    BY <1>1 DEF Types, Cycle, Try
  <2> QED BY <1>3, <2>1
<1> QED BY <1>3, <1>4, <1>5, <1>6, <1>7, <1>8, <1>9

LEMMA RunDoes ==
  ASSUME Types, NEW g \in Groups, RunStarts(g) \/ RunSucceeds(g)
  PROVE  /\ g \in DOMAIN cycle.runs
         /\ \E runs \in Partial(Groups, Runner) :
              /\ Is(cycle', cycle.by, cycle.stage, cycle.now, cycle.prints, cycle.todo,
                    runs, cycle.touched)
              /\ DOMAIN runs = DOMAIN cycle.runs
         /\ cycle' \in Cycle
         /\ disk' \in File /\ view' = disk'
         /\ DOMAIN disk.groups \subseteq DOMAIN disk'.groups
         /\ UNCHANGED <<clock, other, attempt, retry, gate, live, rearm, opc, start, last>>
<1>1. cycle \in Cycle /\ disk \in File /\ cycle.runs \in Partial(Groups, Runner)
  BY DEF Types, Cycle
<1>2. /\ g \in DOMAIN cycle.runs
      /\ \E run \in Runner : cycle' = [cycle EXCEPT !.runs = [cycle.runs EXCEPT ![g] = run]]
      /\ disk' = disk \/ disk' = RecordRun(disk, g)
      /\ view' = disk'
      /\ UNCHANGED <<clock, other, attempt, retry, gate, live, rearm, opc, start, last>>
  <2>1. CASE RunStarts(g)
    <3>1. [at |-> clock, state |-> "running"] \in Runner
      BY DEF Types, Runner
    <3> QED BY <2>1, <3>1 DEF RunStarts, Run, RunBecomes, marks
  <2>2. CASE RunSucceeds(g)
    <3>1. cycle.runs[g] \in Runner
      BY <1>1, <2>2, PartialAt DEF RunSucceeds, Run
    <3>2. [cycle.runs[g] EXCEPT !.state = "done"] \in Runner
      BY <3>1 DEF Runner
    <3> QED BY <2>2, <3>2 DEF RunSucceeds, Run, RunBecomes, marks
  <2> QED BY <2>1, <2>2
<1>3. PICK run \in Runner : cycle' = [cycle EXCEPT !.runs = [cycle.runs EXCEPT ![g] = run]]
  BY <1>2
<1> DEFINE runs == [cycle.runs EXCEPT ![g] = run]
<1>4. runs \in Partial(Groups, Runner) /\ DOMAIN runs = DOMAIN cycle.runs
  BY <1>1 DEF Partial
<1> HIDE DEF runs
<1>5. Is(cycle', cycle.by, cycle.stage, cycle.now, cycle.prints, cycle.todo,
         runs, cycle.touched)
  <2>1. Is([cycle EXCEPT !.runs = runs], cycle.by, cycle.stage, cycle.now, cycle.prints,
           cycle.todo, runs, cycle.touched)
    BY <1>1, CycleExcept, Zenon
  <2> QED BY <1>3, <2>1, Zenon DEF runs
<1>6. disk' \in File /\ DOMAIN disk.groups \subseteq DOMAIN disk'.groups
  BY <1>1, <1>2, RecordRunIs
<1>7. cycle' \in Cycle
  BY <1>1, <1>3, <1>4, CycleStays, Zenon DEF runs
<1> QED BY <1>2, <1>4, <1>5, <1>6, <1>7

\* A run that is over.
LEMMA RunOverDoes ==
  ASSUME Types, NEW g \in Groups, RunLocked(g) \/ RunFails(g) \/ RunMarksSuccess(g),
         cycle.prints \in [Groups -> Prints \cup {NoPrint}]
  PROVE  /\ g \in DOMAIN cycle.runs
         /\ \E runs \in Partial(Groups, Runner) :
              /\ Is(cycle', cycle.by, cycle.stage, cycle.now, cycle.prints, cycle.todo,
                    runs, cycle.touched)
              /\ DOMAIN runs = DOMAIN cycle.runs \ {g}
         /\ cycle' \in Cycle
         /\ disk' \in File /\ (view' = disk' \/ UNCHANGED store)
         /\ DOMAIN disk.groups \subseteq DOMAIN disk'.groups
         /\ retry' \in Marks /\ last' \in [Groups -> Try]
         /\ \/ Gains(retry', retry, g, cycle.now + LockRetry) /\ Noted(g, "locked")
            \/ Loses(retry', retry, {g}) /\ Noted(g, "free")
         /\ UNCHANGED <<clock, other, attempt, gate, live, rearm, opc, start>>
<1>1. /\ cycle \in Cycle /\ disk \in File /\ cycle.runs \in Partial(Groups, Runner)
      /\ retry \in Partial(Groups, 0..MaxTime + LockRetry)
      /\ cycle.now + LockRetry \in 0..MaxTime + LockRetry
  BY MarksArePartial, SchedulerAssumption DEF Types, Cycle
<1>2. /\ g \in DOMAIN cycle.runs
      /\ cycle' = [cycle EXCEPT !.runs = Without(cycle.runs, {g})]
      /\ \/ disk' = disk
         \/ disk' = RecordRun(disk, g)
         \/ disk' = MarkSuccess(disk, g, cycle.prints[g], cycle.runs[g].at)
      /\ view' = disk' \/ UNCHANGED store
      /\ \/ retry' = Set(retry, g, cycle.now + LockRetry) /\ Note(g, "locked")
         \/ retry' = Without(retry, {g}) /\ Note(g, "free")
      /\ UNCHANGED <<clock, other, attempt, gate, live, rearm, opc, start>>
  <2>1. CASE RunLocked(g)
    BY <2>1 DEF RunLocked, Run, RunOver, store
  <2>2. CASE RunFails(g)
    BY <2>2 DEF RunFails, Run, RunOver, store
  <2>3. CASE RunMarksSuccess(g)
    BY <2>3 DEF RunMarksSuccess, Run, RunOver, store
  <2> QED BY <2>1, <2>2, <2>3
<1> DEFINE runs == Without(cycle.runs, {g})
<1>3. runs \in Partial(Groups, Runner) /\ DOMAIN runs = DOMAIN cycle.runs \ {g}
  BY <1>1, PartialWithout, WithoutLoses DEF Loses
<1> HIDE DEF runs
<1>4. Is(cycle', cycle.by, cycle.stage, cycle.now, cycle.prints, cycle.todo,
         runs, cycle.touched)
  <2>1. Is([cycle EXCEPT !.runs = runs], cycle.by, cycle.stage, cycle.now, cycle.prints,
           cycle.todo, runs, cycle.touched)
    BY <1>1, CycleExcept, Zenon
  <2> QED BY <1>2, <2>1, Zenon DEF runs
<1>5. disk' \in File /\ DOMAIN disk.groups \subseteq DOMAIN disk'.groups
  <2>1. cycle.prints[g] \in Prints \cup {NoPrint}
    OBVIOUS
  <2>2. cycle.runs[g] \in Runner
    BY <1>1, <1>2, PartialAt
  <2>3. cycle.runs[g].at \in Times
    BY <2>2, SchedulerAssumption DEF Runner
  <2>4. CASE disk' = disk
    BY <1>1, <2>4
  <2>5. CASE disk' = RecordRun(disk, g)
    BY <1>1, <2>5, RecordRunIs
  <2>6. CASE disk' = MarkSuccess(disk, g, cycle.prints[g], cycle.runs[g].at)
    <3>1. PICK p \in Prints \cup {NoPrint}, t \in Times : disk' = MarkSuccess(disk, g, p, t)
      BY <2>1, <2>3, <2>6, Zenon
    <3>2. disk \in File
      BY <1>1
    <3> QED BY <3>1, <3>2, MarkSuccessIs
  <2> QED BY <1>2, <2>4, <2>5, <2>6
<1>6. \/ Gains(retry', retry, g, cycle.now + LockRetry) /\ Noted(g, "locked")
      \/ Loses(retry', retry, {g}) /\ Noted(g, "free")
  <2>1. Gains(Set(retry, g, cycle.now + LockRetry), retry, g, cycle.now + LockRetry)
    BY SetGains, Zenon
  <2>2. Loses(Without(retry, {g}), retry, {g})
    BY WithoutLoses, Zenon
  <2>3. (Note(g, "locked") => Noted(g, "locked")) /\ (Note(g, "free") => Noted(g, "free"))
    BY NoteIs
  <2> QED BY <1>2, <2>1, <2>2, <2>3, Zenon
<1>7. retry' \in Marks
  <2>1. Set(retry, g, cycle.now + LockRetry) \in Partial(Groups, 0..MaxTime + LockRetry)
    BY <1>1, PartialSet, Zenon
  <2>2. Without(retry, {g}) \in Partial(Groups, 0..MaxTime + LockRetry)
    BY <1>1, PartialWithout, Zenon
  <2> QED BY <1>2, <2>1, <2>2, MarksArePartial, Zenon
<1>8. last' \in [Groups -> Try]
  BY <1>2, NoteIs
<1>9. cycle' \in Cycle
  BY <1>1, <1>2, <1>3, CycleStays, Zenon DEF runs
<1> QED BY <1>2, <1>3, <1>4, <1>5, <1>6, <1>7, <1>8, <1>9

\* A write of another process.
LEMMA AdhocDoes ==
  ASSUME Types, NEW g \in Groups, AdhocFinishes(g) \/ AdhocMarksSuccess(g)
  PROVE  /\ \E touched \in SUBSET Groups :
              /\ Is(cycle', cycle.by, cycle.stage, cycle.now, cycle.prints, cycle.todo,
                    cycle.runs, touched)
              /\ cycle.stage \in {"discover", "gate", "generate", "plan"} =>
                   touched = cycle.touched \cup {g}
         /\ cycle' \in Cycle
         /\ cycle.stage = "none" => cycle' = cycle
         /\ disk' \in File
         /\ DOMAIN disk.groups \subseteq DOMAIN disk'.groups
         /\ DOMAIN disk'.groups \subseteq DOMAIN disk.groups \cup {g}
         /\ \A h \in DOMAIN disk.groups \ {g} : disk'.groups[h] = disk.groups[h]
         /\ other' \in [Groups -> Adhoc]
         /\ UNCHANGED <<clock, view, marks, rearm, opc, start, last>>
<1>1. cycle \in Cycle /\ disk \in File /\ other \in [Groups -> Adhoc]
  BY DEF Types
<1>2. /\ Touch(g)
      /\ \/ disk' = RecordRun(disk, g)
         \/ disk' = MarkSuccess(disk, g, other[g].print, other[g].at)
      /\ \E o \in {[other[g] EXCEPT !.state = "done"], NoAdhoc} : other' = [other EXCEPT ![g] = o]
      /\ UNCHANGED <<clock, view, marks, rearm, opc, start, last>>
  BY DEF AdhocFinishes, AdhocMarksSuccess
<1>3. \E touched \in SUBSET Groups :
        /\ Is(cycle', cycle.by, cycle.stage, cycle.now, cycle.prints, cycle.todo,
              cycle.runs, touched)
        /\ cycle.stage \in {"discover", "gate", "generate", "plan"} =>
             touched = cycle.touched \cup {g}
  <2>1. CASE cycle.stage \in {"discover", "gate", "generate", "plan"}
    <3>1. cycle' = [cycle EXCEPT !.touched = cycle.touched \cup {g}]
      BY <1>2, <2>1 DEF Touch
    <3>2. cycle.touched \cup {g} \in SUBSET Groups
      BY <1>1 DEF Cycle
    <3>3. Is([cycle EXCEPT !.touched = cycle.touched \cup {g}], cycle.by, cycle.stage,
             cycle.now, cycle.prints, cycle.todo, cycle.runs, cycle.touched \cup {g})
      BY <1>1, CycleExcept, Zenon
    <3> QED BY <3>1, <3>2, <3>3, Zenon
  <2>2. CASE cycle.stage \notin {"discover", "gate", "generate", "plan"}
    <3>1. cycle' = cycle
      BY <1>2, <2>2 DEF Touch
    <3>2. cycle.touched \in SUBSET Groups
      BY <1>1 DEF Cycle
    <3> QED BY <2>2, <3>1, <3>2 DEF Is
  <2> QED BY <2>1, <2>2
<1>4. cycle.stage = "none" => cycle' = cycle
  BY <1>2 DEF Touch
<1>5. /\ disk' \in File
      /\ DOMAIN disk'.groups = DOMAIN disk.groups \cup {g}
      /\ \A h \in DOMAIN disk.groups \ {g} : disk'.groups[h] = disk.groups[h]
  <2>1. other[g].print \in Prints \cup {NoPrint} /\ other[g].at \in Times
    BY <1>1, SchedulerAssumption DEF Adhoc
  <2>2. CASE disk' = RecordRun(disk, g)
    BY <1>1, <2>2, RecordRunIs
  <2>3. CASE disk' = MarkSuccess(disk, g, other[g].print, other[g].at)
    <3>1. PICK p \in Prints \cup {NoPrint}, t \in Times : disk' = MarkSuccess(disk, g, p, t)
      BY <2>1, <2>3, Zenon
    <3> QED BY <1>1, <3>1, MarkSuccessIs
  <2> QED BY <1>2, <2>2, <2>3
<1>6. other' \in [Groups -> Adhoc]
  <2>1. [other[g] EXCEPT !.state = "done"] \in Adhoc /\ NoAdhoc \in Adhoc
    BY <1>1, SchedulerAssumption DEF Adhoc, NoAdhoc
  <2> QED BY <1>1, <1>2, <2>1
<1>7. cycle' \in Cycle
  <2>1. cycle.touched \cup {g} \in SUBSET Groups
    BY <1>1 DEF Cycle
  <2>2. [cycle EXCEPT !.touched = cycle.touched \cup {g}] \in Cycle
    BY <1>1, <2>1, CycleStays, Zenon
  <2> QED BY <1>1, <1>2, <2>2, Zenon DEF Touch
<1> QED BY <1>2, <1>3, <1>4, <1>5, <1>6, <1>7

LEMMA NoCycleIs ==
  /\ Is(NoCycle, "none", "none", 0, NoCycle.prints, {}, NoCycle.runs, {})
  /\ DOMAIN NoCycle.runs = {} /\ NoCycle \in Cycle
<1>1. NoCycle.prints \in [{} -> Prints \cup {NoPrint}] /\ NoCycle.runs \in [{} -> Runner]
  BY DEF NoCycle
<1>2. /\ NoCycle.prints \in Partial(Groups, Prints \cup {NoPrint})
      /\ NoCycle.runs \in Partial(Groups, Runner)
  BY <1>1 DEF Partial
<1>3. 0 \in 0..MaxTime /\ "none" \in {"none", "event", "timer"} /\ "none" \in Stages
  BY SchedulerAssumption DEF Stages
<1>4. Is(NoCycle, "none", "none", 0, NoCycle.prints, {}, NoCycle.runs, {})
  BY DEF NoCycle, Is
<1>5. NoCycle = [by |-> "none", stage |-> "none", now |-> 0, prints |-> NoCycle.prints,
                 todo |-> {}, runs |-> NoCycle.runs, touched |-> {}]
  BY DEF NoCycle
<1>6. {} \in SUBSET Groups
  OBVIOUS
<1>7. NoCycle \in Cycle
  BY <1>2, <1>3, <1>5, <1>6, CycleOf, Zenon
<1> QED BY <1>1, <1>4, <1>7

\* A cycle begins, or is given up.
LEMMA BeginDoes ==
  ASSUME NEW b \in {"none", "event", "timer"}, NEW s \in Stages,
         cycle' = [NoCycle EXCEPT !.by = b, !.stage = s]
  PROVE  Is(cycle', b, s, 0, NoCycle.prints, {}, NoCycle.runs, {}) /\ cycle' \in Cycle
  BY CycleEmpty, CycleStays, NoCycleIs, Zenon

LEMMA MoveDoes ==
  ASSUME Types, NEW s \in Stages, Move(s)
  PROVE  /\ Is(cycle', cycle.by, s, cycle.now, cycle.prints, cycle.todo, cycle.runs, cycle.touched)
         /\ cycle' \in Cycle
<1>1. cycle \in Cycle
  BY DEF Types
<1>2. Is([cycle EXCEPT !.stage = s], cycle.by, s, cycle.now, cycle.prints, cycle.todo,
         cycle.runs, cycle.touched)
  BY <1>1, CycleExcept, Zenon
<1>3. [cycle EXCEPT !.stage = s] \in Cycle
  BY <1>1, CycleStays, Zenon
<1> QED BY <1>2, <1>3, Zenon DEF Move

LEMMA DiscoverDoes ==
  ASSUME Types, Discover
  PROVE  /\ cycle.stage = "discover"
         /\ \E prints \in [Groups -> Prints \cup {NoPrint}] :
              Is(cycle', cycle.by, "gate", cycle.now, prints, cycle.todo, cycle.runs, cycle.touched)
         /\ cycle' \in Cycle
         /\ UNCHANGED <<clock, store, other, marks, rearm, opc, start, last>>
<1>1. cycle \in Cycle
  BY DEF Types
<1>2. /\ cycle.stage = "discover"
      /\ UNCHANGED <<clock, store, other, marks, rearm, opc, start, last>>
  BY DEF Discover, Stage
<1>3. PICK prints \in [Groups -> Prints \cup {NoPrint}] :
        cycle' = [cycle EXCEPT !.stage = "gate", !.prints = prints]
  BY DEF Discover
<1>4. Is([cycle EXCEPT !.stage = "gate", !.prints = prints],
         cycle.by, "gate", cycle.now, prints, cycle.todo, cycle.runs, cycle.touched)
  BY <1>1, CycleExcept, Zenon
<1>5. Is(cycle', cycle.by, "gate", cycle.now, prints, cycle.todo, cycle.runs, cycle.touched)
  BY <1>3, <1>4, Zenon
<1>6. cycle' \in Cycle
  <2>1. prints \in Partial(Groups, Prints \cup {NoPrint}) /\ "gate" \in Stages
    BY DEF Partial, Stages
  <2> QED BY <1>1, <1>3, <2>1, CycleStays, Zenon
<1> QED BY <1>2, <1>5, <1>6

LEMMA GenerateDoes ==
  ASSUME Types, Generate
  PROVE  /\ cycle.stage = "generate" /\ clock # 0
         /\ Is(cycle', cycle.by, "plan", clock, cycle.prints, Live, cycle.runs, cycle.touched)
         /\ cycle' \in Cycle
         /\ UNCHANGED <<clock, store, other, marks, rearm, opc, start, last>>
<1>1. cycle \in Cycle
  BY DEF Types
<1>2. /\ cycle.stage = "generate"
      /\ cycle' = [cycle EXCEPT !.stage = "plan", !.now = clock, !.todo = Live]
      /\ UNCHANGED <<clock, store, other, marks, rearm, opc, start, last>>
  BY DEF Generate, Stage
<1>3. Is([cycle EXCEPT !.stage = "plan", !.now = clock, !.todo = Live],
         cycle.by, "plan", clock, cycle.prints, Live, cycle.runs, cycle.touched)
  BY <1>1, CycleExcept, Zenon
<1>4. cycle' \in Cycle
  <2>1. clock \in 0..MaxTime /\ Live \in SUBSET Groups /\ "plan" \in Stages
    BY DEF Types, Live, Stages
  <2> QED BY <1>1, <1>2, <2>1, CycleStays, Zenon
<1>5. clock # 0
  BY DEF Types
<1> QED BY <1>2, <1>3, <1>4, <1>5, Zenon

LEMMA RetainDoes ==
  ASSUME Types, RetainLive
  PROVE  /\ cycle.stage = "plan" /\ cycle.todo = {}
         /\ Is(cycle', cycle.by, "prune", cycle.now, cycle.prints, cycle.todo, cycle.runs, {})
         /\ cycle' \in Cycle
         /\ disk' \in File /\ DOMAIN disk.groups \cap Live \subseteq DOMAIN disk'.groups
         /\ \/ view' = disk'
            \/ view' = view /\ DOMAIN disk'.groups = DOMAIN disk.groups
         /\ UNCHANGED <<clock, other, marks, rearm, opc, start, last>>
<1>1. cycle \in Cycle /\ disk \in File /\ Live \in SUBSET Groups
  BY DEF Types, Live
<1>2. /\ cycle.stage = "plan" /\ cycle.todo = {}
      /\ cycle' = [cycle EXCEPT !.stage = "prune", !.touched = {}]
      /\ UNCHANGED <<clock, other, marks, rearm, opc, start, last>>
  BY DEF RetainLive, Stage
<1>3. Is([cycle EXCEPT !.stage = "prune", !.touched = {}],
         cycle.by, "prune", cycle.now, cycle.prints, cycle.todo, cycle.runs, {})
  BY <1>1, CycleExcept, Zenon
<1>4. PICK cached \in SUBSET (Groups \ Live) :
        LET m == [op |-> "Retain", active |-> Live, protected |-> cached]
        IN /\ disk' = Apply(m, disk)
           /\ view' = IF Changes(m, disk) THEN disk' ELSE view
  BY DEF RetainLive
<1> DEFINE m == [op |-> "Retain", active |-> Live, protected |-> cached]
<1>5. /\ Apply(m, disk) \in File
      /\ DOMAIN disk.groups \cap Live \subseteq DOMAIN Apply(m, disk).groups
      /\ ~Changes(m, disk) => DOMAIN Apply(m, disk).groups = DOMAIN disk.groups
  BY <1>1, RetainIs, Zenon
<1>6. Is(cycle', cycle.by, "prune", cycle.now, cycle.prints, cycle.todo, cycle.runs, {})
  BY <1>2, <1>3, Zenon
<1>7. disk' = Apply(m, disk) /\ view' = IF Changes(m, disk) THEN disk' ELSE view
  BY <1>4
<1>8. cycle' \in Cycle
  <2>1. {} \in SUBSET Groups /\ "prune" \in Stages
    BY DEF Stages
  <2> QED BY <1>1, <1>2, <2>1, CycleStays, Zenon
<1> HIDE DEF m
<1> QED BY <1>2, <1>5, <1>6, <1>7, <1>8

LEMMA PruneDoes ==
  ASSUME Types, Prune
  PROVE  /\ cycle.stage = "prune" /\ live' = Live
         /\ Is(cycle', cycle.by, "wait", cycle.now, cycle.prints, cycle.todo, cycle.runs,
               cycle.touched)
         /\ cycle' \in Cycle
         /\ Loses(attempt', attempt, Groups \ Live) /\ attempt' \in Marks
         /\ Loses(retry', retry, Groups \ Live) /\ retry' \in Marks
         /\ last' = [g \in Groups |-> IF g \in Live THEN last[g] ELSE NoTry]
         /\ UNCHANGED <<clock, store, other, gate, rearm, opc, start>>
<1>1. /\ attempt \in Partial(Groups, 0..MaxTime + LockRetry)
      /\ retry \in Partial(Groups, 0..MaxTime + LockRetry)
  BY MarksArePartial DEF Types
<1>2. /\ cycle.stage = "prune" /\ live' = Live /\ Move("wait")
      /\ attempt' = Without(attempt, Groups \ Live)
      /\ retry' = Without(retry, Groups \ Live)
      /\ last' = [g \in Groups |-> IF g \in Live THEN last[g] ELSE NoTry]
      /\ UNCHANGED <<clock, store, other, gate, rearm, opc, start>>
  BY DEF Prune, Stage
<1>3. /\ Is(cycle', cycle.by, "wait", cycle.now, cycle.prints, cycle.todo, cycle.runs,
            cycle.touched)
      /\ cycle' \in Cycle
  <2>1. "wait" \in Stages
    BY DEF Stages
  <2> QED BY <1>2, <2>1, MoveDoes, Zenon
<1>4. Loses(attempt', attempt, Groups \ Live) /\ Loses(retry', retry, Groups \ Live)
  BY <1>2, WithoutLoses, Zenon
<1>5. attempt' \in Marks /\ retry' \in Marks
  BY <1>1, <1>2, PartialWithout, MarksArePartial, Zenon
<1> QED BY <1>2, <1>3, <1>4, <1>5

\* What the alarm has to heed changes only with the marks and the records.
LEMMA TimesKept ==
  ASSUME UNCHANGED <<view, attempt, retry, gate, live, armed>>
  PROVE  Wake(TimesIn(view))' = Wake(TimesIn(view))
  BY DEF Wake, TimesIn, DrivingIn, DueIn, Retries, AtMark, LivePeriod

LEMMA TimesAreTimes ==
  ASSUME Types, NEW f \in File
  PROVE  TimesIn(f) \subseteq Nat
<1>1. \A g \in DOMAIN retry : retry[g] \in Nat
  BY SchedulerAssumption DEF Types, Marks
<1>2. gate \in Nat
  BY SchedulerAssumption DEF Types
<1>3. ASSUME NEW g \in DrivingIn(f) PROVE DueIn(f, g) \in Nat
  <2>1. DOMAIN f.groups \subseteq Groups /\ DOMAIN attempt \subseteq Groups
    BY FileRecords, MarksArePartial, PartialAt DEF Types
  <2>2. g \in Groups
    BY <2>1 DEF DrivingIn
  <2>3. Record(f, g).success \in Nat
    BY <2>2, FileRecords, SchedulerAssumption DEF GroupRecord
  <2>4. AtMark(g) \in Nat
    BY SchedulerAssumption DEF Types, Marks, AtMark
  <2>5. LivePeriod(g) \in Nat
    BY <2>2, SchedulerAssumption DEF LivePeriod
  <2> QED BY <2>3, <2>4, <2>5 DEF DueIn, Latest
<1> QED BY <1>1, <1>2, <1>3 DEF TimesIn, Retries

\* The alarm is past every bound it has to keep, and comes by each reason.
LEMMA WakeIs ==
  ASSUME NEW times, times \subseteq Nat, armed \in Nat
  PROVE  /\ Wake(times) \in Nat /\ Wake(times) >= armed + MinWake
         /\ \A t \in times \cup {armed + Period} : Wake(times) <= Latest(armed + MinWake, t)
         /\ \E t \in times \cup {armed + Period} : Wake(times) = Latest(armed + MinWake, t)
<1> DEFINE all == {armed + Period} \cup times
<1>1. all \subseteq Nat /\ all # {} /\ armed + MinWake \in Nat
  <2>1. Period \in Nat /\ MinWake \in Nat
    BY SchedulerAssumption
  <2> QED BY <2>1
<1>2. Earliest(all) \in all /\ \A t \in all : Earliest(all) <= t
  <2> HIDE DEF all
  <2> QED BY <1>1, EarliestIsLeast
<1>3. Wake(times) = Latest(armed + MinWake, Earliest(all))
  BY DEF Wake
<1>4. all = times \cup {armed + Period}
  OBVIOUS
<1> HIDE DEF all
<1> QED BY <1>1, <1>2, <1>3, <1>4 DEF Latest

LEMMA NothingIs == Empty \in File /\ NoMarks \in Marks /\ NoTry \in Try
<1>1. Empty \in File
  <2>1. [g \in {} |-> NoRecord] \in [{} -> GroupRecord]
    OBVIOUS
  <2>2. {} \in SUBSET Groups /\ {} \in SUBSET Runs
    OBVIOUS
  <2>3. Empty \in [groups : [{} -> GroupRecord], pending : SUBSET Runs]
    BY <2>1, <2>2 DEF Empty
  <2> QED BY <2>2, <2>3, Zenon DEF File
<1>2. NoMarks \in Marks
  <2>1. NoMarks \in [{} -> 0..MaxTime + LockRetry] /\ {} \in SUBSET Groups
    BY DEF NoMarks
  <2> QED BY <2>1, Zenon DEF Marks
<1>3. NoTry \in Try
  BY SchedulerAssumption DEF NoTry, Try
<1> QED BY <1>1, <1>2, <1>3

-----------------------------------------------------------------------------
(* One conjunct of the invariant at a time, one step per action. *)

LEMMA TypesStep ==
  ASSUME SInv, [Next]_vars
  PROVE  Types'
<1> USE ScheduleDataAssumption, SchedulerAssumption, NoCycleIs
    DEF SInv, store, marks, start, Types
<1>1. ASSUME NEW g \in Groups, AdhocStarts(g) PROVE Types'
  <2>1. PICK p \in Prints :
          other' = [other EXCEPT ![g] = [at |-> clock, state |-> "running", print |-> p]]
    BY <1>1 DEF AdhocStarts
  <2>2. [at |-> clock, state |-> "running", print |-> p] \in Adhoc
    BY DEF Adhoc
  <2>3. other' \in [Groups -> Adhoc]
    BY <2>1, <2>2
  <2>4. UNCHANGED <<clock, store, cycle, marks, rearm, opc, start, last>>
    BY <1>1 DEF AdhocStarts
  <2> QED BY <2>3, <2>4
<1>2. ASSUME NEW g \in Groups, AdhocFinishes(g) PROVE Types'
  BY <1>2, AdhocDoes DEF Is
<1>3. ASSUME NEW g \in Groups, AdhocMarksSuccess(g) PROVE Types'
  BY <1>3, AdhocDoes DEF Is
<1>4. ASSUME NEW g \in Groups, PlanWaiting(g) PROVE Types'
  BY <1>4, PlanWaitingDoes DEF Is
<1>5. ASSUME NEW g \in Groups, PlanRun(g) PROVE Types'
  BY <1>5, PlanRunDoes DEF Is
<1>6. ASSUME NEW g \in Groups, RunStarts(g) PROVE Types'
  BY <1>6, RunDoes DEF Is
<1>7. ASSUME NEW g \in Groups, RunLocked(g) PROVE Types'
  <2>1. cycle.prints \in [Groups -> Prints \cup {NoPrint}]
    BY <1>7 DEF Plan, RunLocked, Run
  <2> QED BY <1>7, <2>1, RunOverDoes DEF Is
<1>8. ASSUME NEW g \in Groups, RunFails(g) PROVE Types'
  <2>1. cycle.prints \in [Groups -> Prints \cup {NoPrint}]
    BY <1>8 DEF Plan, RunFails, Run
  <2> QED BY <1>8, <2>1, RunOverDoes DEF Is
<1>9. ASSUME NEW g \in Groups, RunSucceeds(g) PROVE Types'
  BY <1>9, RunDoes DEF Is
<1>10. ASSUME NEW g \in Groups, RunMarksSuccess(g) PROVE Types'
  <2>1. cycle.prints \in [Groups -> Prints \cup {NoPrint}]
    BY <1>10 DEF Plan, RunMarksSuccess, Run
  <2> QED BY <1>10, <2>1, RunOverDoes DEF Is
<1>11. CASE Tick
  BY <1>11 DEF Tick
<1>12. CASE Restart
  <2>1. /\ cycle' = NoCycle /\ view' = disk /\ snap' = Empty
        /\ attempt' = NoMarks /\ retry' = NoMarks /\ gate' = 0 /\ live' = {}
        /\ rearm' = FALSE /\ opc' = "initial" /\ spc' = "off" /\ alarm' = 0 /\ armed' = 0
        /\ last' = [g \in Groups |-> NoTry]
        /\ UNCHANGED <<clock, disk, other>>
    BY <1>12 DEF Restart
  <2>2. last' \in [Groups -> Try]
    BY <2>1, NothingIs
  <2>3. cycle' \in Cycle /\ attempt' \in Marks /\ retry' \in Marks /\ snap' \in File
    BY <2>1, NothingIs, NoCycleIs
  <2>4. alarm' \in Nat /\ armed' \in 0..MaxTime /\ gate' \in 0..MaxTime + GateRetry
    BY <2>1, SchedulerAssumption
  <2> QED BY <2>1, <2>2, <2>3, <2>4
<1>13. CASE BeginInitial
  <2>1. opc' = "cycle" /\ UNCHANGED <<clock, store, other, marks, rearm, start, last>>
    BY <1>13 DEF BeginInitial
  <2>2. cycle' \in Cycle
    <3>1. "reload" \in Stages
      BY DEF Stages
    <3> QED BY <1>13, <3>1, BeginDoes DEF BeginInitial, BeginCycle
  <2> QED BY <2>1, <2>2
<1>14. CASE BeginOnEvent
  <2>1. opc' = "cycle" /\ UNCHANGED <<clock, store, other, marks, rearm, start, last>>
    BY <1>14 DEF BeginOnEvent
  <2>2. cycle' \in Cycle
    <3>1. "reload" \in Stages
      BY DEF Stages
    <3> QED BY <1>14, <3>1, BeginDoes DEF BeginOnEvent, BeginCycle
  <2> QED BY <2>1, <2>2
<1>15. CASE BeginOnTimer
  <2>1. /\ spc' = "cycle"
        /\ UNCHANGED <<clock, store, other, marks, rearm, opc, snap, alarm, armed, last>>
    BY <1>15 DEF BeginOnTimer
  <2>2. cycle' \in Cycle
    <3>1. "reload" \in Stages
      BY DEF Stages
    <3> QED BY <1>15, <3>1, BeginDoes DEF BeginOnTimer, BeginCycle
  <2> QED BY <2>1, <2>2
<1>16. CASE Reload
  <2>1. /\ Move("discover") /\ view' = disk
        /\ UNCHANGED <<clock, disk, other, marks, rearm, opc, start, last>>
    BY <1>16 DEF Reload
  <2>2. cycle' \in Cycle
    <3>1. "discover" \in Stages
      BY DEF Stages
    <3> QED BY <2>1, <3>1, MoveDoes DEF SInv
  <2> QED BY <2>1, <2>2, SchedulerAssumption
<1>17. CASE Discover
  BY <1>17, DiscoverDoes DEF Is
<1>18. CASE CycleFails
  <2>1. /\ GiveUp /\ gate' = gate
        /\ UNCHANGED <<clock, store, other, attempt, retry, live, rearm, opc, start, last>>
    BY <1>18 DEF CycleFails
  <2>2. cycle' \in Cycle
    <3>1. "end" \in Stages /\ cycle.by \in {"none", "event", "timer"}
      BY DEF Stages, Cycle
    <3> QED BY <2>1, <3>1, BeginDoes DEF GiveUp
  <2> QED BY <2>1, <2>2, SchedulerAssumption
<1>19. CASE GatePasses
  <2>1. /\ Move("generate") /\ gate' = 0
        /\ UNCHANGED <<clock, store, other, attempt, retry, live, rearm, opc, start, last>>
    BY <1>19 DEF GatePasses
  <2>2. cycle' \in Cycle
    <3>1. "generate" \in Stages
      BY DEF Stages
    <3> QED BY <2>1, <3>1, MoveDoes DEF SInv
  <2> QED BY <2>1, <2>2, SchedulerAssumption
<1>20. CASE GateFails
  <2>1. /\ GiveUp /\ gate' = clock + GateRetry
        /\ UNCHANGED <<clock, store, other, attempt, retry, live, rearm, opc, start, last>>
    BY <1>20 DEF GateFails
  <2>2. cycle' \in Cycle
    <3>1. "end" \in Stages /\ cycle.by \in {"none", "event", "timer"}
      BY DEF Stages, Cycle
    <3> QED BY <2>1, <3>1, BeginDoes DEF GiveUp
  <2> QED BY <2>1, <2>2, SchedulerAssumption
<1>21. CASE Generate
  BY <1>21, GenerateDoes DEF Is
<1>22. CASE RetainLive
  BY <1>22, RetainDoes DEF Is
<1>23. CASE Prune
  <2>1. /\ live' = Live /\ cycle' \in Cycle /\ attempt' \in Marks /\ retry' \in Marks
        /\ last' = [g \in Groups |-> IF g \in Live THEN last[g] ELSE NoTry]
        /\ UNCHANGED <<clock, store, other, gate, rearm, opc, start>>
    BY <1>23, PruneDoes
  <2>2. Live \subseteq Groups
    BY DEF Live
  <2>3. last' \in [Groups -> Try]
    <3>1. NoTry \in Try
      BY SchedulerAssumption DEF NoTry, Try
    <3> QED BY <2>1, <3>1
  <2> QED BY <2>1, <2>2, <2>3
<1>24. CASE EndCycle
  BY <1>24 DEF EndCycle, CycleOver, Stage, GoOn, NoCycle
<1>25. CASE StartBegins
  BY <1>25 DEF StartBegins
<1>26. CASE Drain
  BY <1>26 DEF Drain
<1>27. CASE Rearmed
  BY <1>27 DEF Rearmed, TimerOff
<1>28. CASE NextWakeSnapshot
  BY <1>28 DEF NextWakeSnapshot
<1>29. CASE Arm
  <2>1. /\ UNCHANGED <<clock, store, other, cycle, marks, rearm, opc, armed, last>>
        /\ spc' = "sleep" /\ snap' = Empty
    BY <1>29 DEF Arm
  <2>2. alarm' = Wake(TimesIn(snap))
    BY <1>29 DEF Arm, NextWake, TimesIn, DrivingIn, DueIn, Driving, NextDue
  <2>3. TimesIn(snap) \subseteq Nat
    BY TimesAreTimes
  <2>4. alarm' \in Nat
    BY <2>2, <2>3, WakeIs
  <2> QED BY <2>1, <2>4, NothingIs
<1>30. CASE Fires
  BY <1>30 DEF Fires, TimerOff
<1>31. CASE UNCHANGED vars
  BY <1>31 DEF vars
<1> QED BY <1>1, <1>2, <1>3, <1>4, <1>5, <1>6, <1>7, <1>8, <1>9, <1>10, <1>11, <1>12, <1>13,
     <1>14, <1>15, <1>16, <1>17, <1>18, <1>19, <1>20, <1>21, <1>22, <1>23, <1>24, <1>25, <1>26,
     <1>27, <1>28, <1>29, <1>30, <1>31
     DEF Next, GroupStep

LEMMA PlanStep ==
  ASSUME SInv, [Next]_vars
  PROVE  Plan'
<1> USE ScheduleDataAssumption, SchedulerAssumption
    DEF SInv, store, marks, start, Plan, Live
<1>1. ASSUME NEW g \in Groups, AdhocStarts(g) PROVE Plan'
  BY <1>1 DEF AdhocStarts
<1>2. ASSUME NEW g \in Groups, AdhocFinishes(g) PROVE Plan'
  BY <1>2, AdhocDoes DEF Is
<1>3. ASSUME NEW g \in Groups, AdhocMarksSuccess(g) PROVE Plan'
  BY <1>3, AdhocDoes DEF Is
<1>4. ASSUME NEW g \in Groups, PlanWaiting(g) PROVE Plan'
  BY <1>4, PlanWaitingDoes DEF Is
<1>5. ASSUME NEW g \in Groups, PlanRun(g) PROVE Plan'
  <2>1. PICK runs : /\ Is(cycle', cycle.by, "plan", cycle.now, cycle.prints, cycle.todo \ {g},
                          runs, cycle.touched)
                    /\ DOMAIN runs = DOMAIN cycle.runs \cup {g}
    BY <1>5, PlanRunDoes
  <2>2. cycle.stage = "plan" /\ g \in cycle.todo
    BY <1>5, PlanRunDoes
  <2> QED BY <2>1, <2>2 DEF Is
<1>6. ASSUME NEW g \in Groups, RunStarts(g) PROVE Plan'
  BY <1>6, RunDoes DEF Is
<1>7. ASSUME NEW g \in Groups, RunLocked(g) PROVE Plan'
  <2>1. cycle.prints \in [Groups -> Prints \cup {NoPrint}]
    BY <1>7 DEF Plan, RunLocked, Run
  <2> QED BY <1>7, <2>1, RunOverDoes DEF Is
<1>8. ASSUME NEW g \in Groups, RunFails(g) PROVE Plan'
  <2>1. cycle.prints \in [Groups -> Prints \cup {NoPrint}]
    BY <1>8 DEF Plan, RunFails, Run
  <2> QED BY <1>8, <2>1, RunOverDoes DEF Is
<1>9. ASSUME NEW g \in Groups, RunSucceeds(g) PROVE Plan'
  BY <1>9, RunDoes DEF Is
<1>10. ASSUME NEW g \in Groups, RunMarksSuccess(g) PROVE Plan'
  <2>1. cycle.prints \in [Groups -> Prints \cup {NoPrint}]
    BY <1>10 DEF Plan, RunMarksSuccess, Run
  <2> QED BY <1>10, <2>1, RunOverDoes DEF Is
<1>11. CASE Tick
  BY <1>11 DEF Tick
<1>12. CASE Restart
  BY <1>12 DEF Restart, NoCycle, NoMarks, NoTry
<1>13. CASE BeginInitial
  BY <1>13 DEF BeginInitial, BeginCycle, NoCycle
<1>14. CASE BeginOnEvent
  BY <1>14 DEF BeginOnEvent, BeginCycle, NoCycle
<1>15. CASE BeginOnTimer
  BY <1>15 DEF BeginOnTimer, BeginCycle, NoCycle
<1>16. CASE Reload
  BY <1>16 DEF Reload, Stage, Move
<1>17. CASE Discover
  BY <1>17, DiscoverDoes DEF Is
<1>18. CASE CycleFails
  BY <1>18 DEF CycleFails, Stage, GiveUp, NoCycle
<1>19. CASE GatePasses
  BY <1>19 DEF GatePasses, Stage, Move
<1>20. CASE GateFails
  BY <1>20 DEF GateFails, Stage, GiveUp, NoCycle
<1>21. CASE Generate
  <2>1. cycle.stage = "generate" /\ clock # 0
    BY <1>21, GenerateDoes
  <2>2. Is(cycle', cycle.by, "plan", clock, cycle.prints, Live, cycle.runs, cycle.touched)
    BY <1>21, GenerateDoes
  <2> QED BY <2>1, <2>2 DEF Is
<1>22. CASE RetainLive
  BY <1>22, RetainDoes DEF Is
<1>23. CASE Prune
  BY <1>23, PruneDoes DEF Is
<1>24. CASE EndCycle
  BY <1>24 DEF EndCycle, CycleOver, Stage, GoOn, NoCycle
<1>25. CASE StartBegins
  BY <1>25 DEF StartBegins
<1>26. CASE Drain
  BY <1>26 DEF Drain
<1>27. CASE Rearmed
  BY <1>27 DEF Rearmed, TimerOff
<1>28. CASE NextWakeSnapshot
  BY <1>28 DEF NextWakeSnapshot
<1>29. CASE Arm
  BY <1>29 DEF Arm
<1>30. CASE Fires
  BY <1>30 DEF Fires, TimerOff
<1>31. CASE UNCHANGED vars
  BY <1>31 DEF vars
<1> QED BY <1>1, <1>2, <1>3, <1>4, <1>5, <1>6, <1>7, <1>8, <1>9, <1>10, <1>11, <1>12, <1>13,
     <1>14, <1>15, <1>16, <1>17, <1>18, <1>19, <1>20, <1>21, <1>22, <1>23, <1>24, <1>25, <1>26,
     <1>27, <1>28, <1>29, <1>30, <1>31
     DEF Next, GroupStep

LEMMA TriedStep ==
  ASSUME SInv, [Next]_vars
  PROVE  Tried'
<1> USE ScheduleDataAssumption, SchedulerAssumption
    DEF SInv, store, marks, start, Plan, Tried, Live, AtMark
<1>1. ASSUME NEW g \in Groups, AdhocStarts(g) PROVE Tried'
  BY <1>1 DEF AdhocStarts
<1>2. ASSUME NEW g \in Groups, AdhocFinishes(g) PROVE Tried'
  BY <1>2, AdhocDoes DEF Is
<1>3. ASSUME NEW g \in Groups, AdhocMarksSuccess(g) PROVE Tried'
  BY <1>3, AdhocDoes DEF Is
<1>4. ASSUME NEW g \in Groups, PlanWaiting(g) PROVE Tried'
  <2>1. /\ cycle'.runs = cycle.runs /\ cycle'.now = cycle.now /\ attempt' = attempt
        /\ Noted(g, "waiting") /\ g \in cycle.todo
    BY <1>4, PlanWaitingDoes DEF Is
  <2>2. g \notin DOMAIN cycle.runs /\ DOMAIN cycle.runs \subseteq Groups
    BY <2>1 DEF Plan, Live
  <2> QED BY <2>1, <2>2 DEF Noted
<1>5. ASSUME NEW g \in Groups, PlanRun(g) PROVE Tried'
  <2>1. PICK runs : /\ Is(cycle', cycle.by, "plan", cycle.now, cycle.prints, cycle.todo \ {g},
                          runs, cycle.touched)
                    /\ DOMAIN runs = DOMAIN cycle.runs \cup {g}
    BY <1>5, PlanRunDoes
  <2>2. /\ g \in cycle.todo /\ cycle.stage = "plan"
        /\ Gains(attempt', attempt, g, cycle.now)
        /\ \A h \in Groups :
             last'[h] = IF h = g THEN [tried |-> cycle.now, found |-> "free"] ELSE last[h]
    BY <1>5, PlanRunDoes
  <2>3. g \notin DOMAIN cycle.runs /\ DOMAIN cycle.runs \subseteq Groups /\ cycle.now # 0
    BY <2>2 DEF Plan, Live
  <2> QED BY <2>1, <2>2, <2>3 DEF Is, Gains
<1>6. ASSUME NEW g \in Groups, RunStarts(g) PROVE Tried'
  BY <1>6, RunDoes DEF Is
<1>7. ASSUME NEW g \in Groups, RunLocked(g) PROVE Tried'
  <2>1. cycle.prints \in [Groups -> Prints \cup {NoPrint}]
    BY <1>7 DEF Plan, RunLocked, Run
  <2>2. PICK runs : /\ Is(cycle', cycle.by, cycle.stage, cycle.now, cycle.prints, cycle.todo,
                          runs, cycle.touched)
                    /\ DOMAIN runs = DOMAIN cycle.runs \ {g}
    BY <1>7, <2>1, RunOverDoes
  <2>3. /\ attempt' = attempt /\ g \in DOMAIN cycle.runs
        /\ Noted(g, "locked") \/ Noted(g, "free")
    BY <1>7, <2>1, RunOverDoes
  <2>4. \A h \in Groups : last'[h].tried = last[h].tried
    BY <2>3 DEF Noted
  <2>5. \A h \in Groups \ {g} : last'[h].found = last[h].found
    BY <2>3 DEF Noted
  <2>6. DOMAIN cycle.runs \subseteq Groups
    BY DEF Plan, Live
  <2> QED BY <2>2, <2>3, <2>4, <2>5, <2>6 DEF Is
<1>8. ASSUME NEW g \in Groups, RunFails(g) PROVE Tried'
  <2>1. cycle.prints \in [Groups -> Prints \cup {NoPrint}]
    BY <1>8 DEF Plan, RunFails, Run
  <2>2. PICK runs : /\ Is(cycle', cycle.by, cycle.stage, cycle.now, cycle.prints, cycle.todo,
                          runs, cycle.touched)
                    /\ DOMAIN runs = DOMAIN cycle.runs \ {g}
    BY <1>8, <2>1, RunOverDoes
  <2>3. /\ attempt' = attempt /\ g \in DOMAIN cycle.runs
        /\ Noted(g, "locked") \/ Noted(g, "free")
    BY <1>8, <2>1, RunOverDoes
  <2>4. \A h \in Groups : last'[h].tried = last[h].tried
    BY <2>3 DEF Noted
  <2>5. \A h \in Groups \ {g} : last'[h].found = last[h].found
    BY <2>3 DEF Noted
  <2>6. DOMAIN cycle.runs \subseteq Groups
    BY DEF Plan, Live
  <2> QED BY <2>2, <2>3, <2>4, <2>5, <2>6 DEF Is
<1>9. ASSUME NEW g \in Groups, RunSucceeds(g) PROVE Tried'
  BY <1>9, RunDoes DEF Is
<1>10. ASSUME NEW g \in Groups, RunMarksSuccess(g) PROVE Tried'
  <2>1. cycle.prints \in [Groups -> Prints \cup {NoPrint}]
    BY <1>10 DEF Plan, RunMarksSuccess, Run
  <2>2. PICK runs : /\ Is(cycle', cycle.by, cycle.stage, cycle.now, cycle.prints, cycle.todo,
                          runs, cycle.touched)
                    /\ DOMAIN runs = DOMAIN cycle.runs \ {g}
    BY <1>10, <2>1, RunOverDoes
  <2>3. /\ attempt' = attempt /\ g \in DOMAIN cycle.runs
        /\ Noted(g, "locked") \/ Noted(g, "free")
    BY <1>10, <2>1, RunOverDoes
  <2>4. \A h \in Groups : last'[h].tried = last[h].tried
    BY <2>3 DEF Noted
  <2>5. \A h \in Groups \ {g} : last'[h].found = last[h].found
    BY <2>3 DEF Noted
  <2>6. DOMAIN cycle.runs \subseteq Groups
    BY DEF Plan, Live
  <2> QED BY <2>2, <2>3, <2>4, <2>5, <2>6 DEF Is
<1>11. CASE Tick
  BY <1>11 DEF Tick
<1>12. CASE Restart
  BY <1>12 DEF Restart, NoCycle, NoMarks, NoTry
<1>13. CASE BeginInitial
  BY <1>13 DEF BeginInitial, BeginCycle, NoCycle
<1>14. CASE BeginOnEvent
  BY <1>14 DEF BeginOnEvent, BeginCycle, NoCycle
<1>15. CASE BeginOnTimer
  BY <1>15 DEF BeginOnTimer, BeginCycle, NoCycle
<1>16. CASE Reload
  BY <1>16 DEF Reload, Stage, Move
<1>17. CASE Discover
  BY <1>17, DiscoverDoes DEF Is
<1>18. CASE CycleFails
  BY <1>18 DEF CycleFails, Stage, GiveUp, NoCycle
<1>19. CASE GatePasses
  BY <1>19 DEF GatePasses, Stage, Move
<1>20. CASE GateFails
  BY <1>20 DEF GateFails, Stage, GiveUp, NoCycle
<1>21. CASE Generate
  BY <1>21, GenerateDoes DEF Is
<1>22. CASE RetainLive
  BY <1>22, RetainDoes DEF Is
<1>23. CASE Prune
  BY <1>23, PruneDoes DEF Is, Loses, NoTry
<1>24. CASE EndCycle
  BY <1>24 DEF EndCycle, CycleOver, Stage, GoOn, NoCycle
<1>25. CASE StartBegins
  BY <1>25 DEF StartBegins
<1>26. CASE Drain
  BY <1>26 DEF Drain
<1>27. CASE Rearmed
  BY <1>27 DEF Rearmed, TimerOff
<1>28. CASE NextWakeSnapshot
  BY <1>28 DEF NextWakeSnapshot
<1>29. CASE Arm
  BY <1>29 DEF Arm
<1>30. CASE Fires
  BY <1>30 DEF Fires, TimerOff
<1>31. CASE UNCHANGED vars
  BY <1>31 DEF vars
<1> QED BY <1>1, <1>2, <1>3, <1>4, <1>5, <1>6, <1>7, <1>8, <1>9, <1>10, <1>11, <1>12, <1>13,
     <1>14, <1>15, <1>16, <1>17, <1>18, <1>19, <1>20, <1>21, <1>22, <1>23, <1>24, <1>25, <1>26,
     <1>27, <1>28, <1>29, <1>30, <1>31
     DEF Next, GroupStep

LEMMA LockedStep ==
  ASSUME SInv, [Next]_vars
  PROVE  Locked'
<1> USE ScheduleDataAssumption, SchedulerAssumption
    DEF SInv, store, marks, start, Plan, Tried, Locked, Live, AtMark
<1>1. ASSUME NEW g \in Groups, AdhocStarts(g) PROVE Locked'
  BY <1>1 DEF AdhocStarts
<1>2. ASSUME NEW g \in Groups, AdhocFinishes(g) PROVE Locked'
  BY <1>2, AdhocDoes DEF Is
<1>3. ASSUME NEW g \in Groups, AdhocMarksSuccess(g) PROVE Locked'
  BY <1>3, AdhocDoes DEF Is
<1>4. ASSUME NEW g \in Groups, PlanWaiting(g) PROVE Locked'
  <2>1. /\ cycle'.runs = cycle.runs /\ Loses(retry', retry, {g}) /\ Noted(g, "waiting")
    BY <1>4, PlanWaitingDoes DEF Is
  <2> QED BY <2>1 DEF Noted, Loses
<1>5. ASSUME NEW g \in Groups, PlanRun(g) PROVE Locked'
  <2>1. PICK runs : /\ Is(cycle', cycle.by, "plan", cycle.now, cycle.prints, cycle.todo \ {g},
                          runs, cycle.touched)
                    /\ DOMAIN runs = DOMAIN cycle.runs \cup {g}
    BY <1>5, PlanRunDoes
  <2>2. /\ retry' = retry
        /\ \A h \in Groups :
             last'[h] = IF h = g THEN [tried |-> cycle.now, found |-> "free"] ELSE last[h]
    BY <1>5, PlanRunDoes
  <2> QED BY <2>1, <2>2 DEF Is
<1>6. ASSUME NEW g \in Groups, RunStarts(g) PROVE Locked'
  BY <1>6, RunDoes DEF Is
<1>7. ASSUME NEW g \in Groups, RunLocked(g) PROVE Locked'
  <2>1. cycle.prints \in [Groups -> Prints \cup {NoPrint}]
    BY <1>7 DEF Plan, RunLocked, Run
  <2>2. PICK runs : /\ Is(cycle', cycle.by, cycle.stage, cycle.now, cycle.prints, cycle.todo,
                          runs, cycle.touched)
                    /\ DOMAIN runs = DOMAIN cycle.runs \ {g}
    BY <1>7, <2>1, RunOverDoes
  <2>3. \/ Gains(retry', retry, g, cycle.now + LockRetry) /\ Noted(g, "locked")
        \/ Loses(retry', retry, {g}) /\ Noted(g, "free")
    BY <1>7, <2>1, RunOverDoes
  <2>4. last[g].tried = cycle.now
    BY <1>7, <2>1, RunOverDoes DEF Tried
  <2>5. CASE Gains(retry', retry, g, cycle.now + LockRetry) /\ Noted(g, "locked")
    BY <2>2, <2>4, <2>5 DEF Is, Gains, Noted
  <2>6. CASE Loses(retry', retry, {g}) /\ Noted(g, "free")
    BY <2>2, <2>6 DEF Is, Loses, Noted
  <2> QED BY <2>3, <2>5, <2>6
<1>8. ASSUME NEW g \in Groups, RunFails(g) PROVE Locked'
  <2>1. cycle.prints \in [Groups -> Prints \cup {NoPrint}]
    BY <1>8 DEF Plan, RunFails, Run
  <2>2. PICK runs : /\ Is(cycle', cycle.by, cycle.stage, cycle.now, cycle.prints, cycle.todo,
                          runs, cycle.touched)
                    /\ DOMAIN runs = DOMAIN cycle.runs \ {g}
    BY <1>8, <2>1, RunOverDoes
  <2>3. \/ Gains(retry', retry, g, cycle.now + LockRetry) /\ Noted(g, "locked")
        \/ Loses(retry', retry, {g}) /\ Noted(g, "free")
    BY <1>8, <2>1, RunOverDoes
  <2>4. last[g].tried = cycle.now
    BY <1>8, <2>1, RunOverDoes DEF Tried
  <2>5. CASE Gains(retry', retry, g, cycle.now + LockRetry) /\ Noted(g, "locked")
    BY <2>2, <2>4, <2>5 DEF Is, Gains, Noted
  <2>6. CASE Loses(retry', retry, {g}) /\ Noted(g, "free")
    BY <2>2, <2>6 DEF Is, Loses, Noted
  <2> QED BY <2>3, <2>5, <2>6
<1>9. ASSUME NEW g \in Groups, RunSucceeds(g) PROVE Locked'
  BY <1>9, RunDoes DEF Is
<1>10. ASSUME NEW g \in Groups, RunMarksSuccess(g) PROVE Locked'
  <2>1. cycle.prints \in [Groups -> Prints \cup {NoPrint}]
    BY <1>10 DEF Plan, RunMarksSuccess, Run
  <2>2. PICK runs : /\ Is(cycle', cycle.by, cycle.stage, cycle.now, cycle.prints, cycle.todo,
                          runs, cycle.touched)
                    /\ DOMAIN runs = DOMAIN cycle.runs \ {g}
    BY <1>10, <2>1, RunOverDoes
  <2>3. \/ Gains(retry', retry, g, cycle.now + LockRetry) /\ Noted(g, "locked")
        \/ Loses(retry', retry, {g}) /\ Noted(g, "free")
    BY <1>10, <2>1, RunOverDoes
  <2>4. last[g].tried = cycle.now
    BY <1>10, <2>1, RunOverDoes DEF Tried
  <2>5. CASE Gains(retry', retry, g, cycle.now + LockRetry) /\ Noted(g, "locked")
    BY <2>2, <2>4, <2>5 DEF Is, Gains, Noted
  <2>6. CASE Loses(retry', retry, {g}) /\ Noted(g, "free")
    BY <2>2, <2>6 DEF Is, Loses, Noted
  <2> QED BY <2>3, <2>5, <2>6
<1>11. CASE Tick
  BY <1>11 DEF Tick
<1>12. CASE Restart
  BY <1>12 DEF Restart, NoCycle, NoMarks, NoTry
<1>13. CASE BeginInitial
  BY <1>13 DEF BeginInitial, BeginCycle, NoCycle
<1>14. CASE BeginOnEvent
  BY <1>14 DEF BeginOnEvent, BeginCycle, NoCycle
<1>15. CASE BeginOnTimer
  BY <1>15 DEF BeginOnTimer, BeginCycle, NoCycle
<1>16. CASE Reload
  BY <1>16 DEF Reload, Stage, Move
<1>17. CASE Discover
  BY <1>17, DiscoverDoes DEF Is
<1>18. CASE CycleFails
  BY <1>18 DEF CycleFails, Stage, GiveUp, NoCycle
<1>19. CASE GatePasses
  BY <1>19 DEF GatePasses, Stage, Move
<1>20. CASE GateFails
  BY <1>20 DEF GateFails, Stage, GiveUp, NoCycle
<1>21. CASE Generate
  BY <1>21, GenerateDoes DEF Is
<1>22. CASE RetainLive
  BY <1>22, RetainDoes DEF Is
<1>23. CASE Prune
  BY <1>23, PruneDoes DEF Is, Loses, NoTry
<1>24. CASE EndCycle
  BY <1>24 DEF EndCycle, CycleOver, Stage, GoOn, NoCycle
<1>25. CASE StartBegins
  BY <1>25 DEF StartBegins
<1>26. CASE Drain
  BY <1>26 DEF Drain
<1>27. CASE Rearmed
  BY <1>27 DEF Rearmed, TimerOff
<1>28. CASE NextWakeSnapshot
  BY <1>28 DEF NextWakeSnapshot
<1>29. CASE Arm
  BY <1>29 DEF Arm
<1>30. CASE Fires
  BY <1>30 DEF Fires, TimerOff
<1>31. CASE UNCHANGED vars
  BY <1>31 DEF vars
<1> QED BY <1>1, <1>2, <1>3, <1>4, <1>5, <1>6, <1>7, <1>8, <1>9, <1>10, <1>11, <1>12, <1>13,
     <1>14, <1>15, <1>16, <1>17, <1>18, <1>19, <1>20, <1>21, <1>22, <1>23, <1>24, <1>25, <1>26,
     <1>27, <1>28, <1>29, <1>30, <1>31
     DEF Next, GroupStep

LEMMA MarksPlannedStep ==
  ASSUME SInv, [Next]_vars
  PROVE  MarksPlanned'
<1> USE ScheduleDataAssumption, SchedulerAssumption
    DEF SInv, store, marks, start, Plan, Tried, MarksPlanned, Planned, Live
<1>1. ASSUME NEW g \in Groups, AdhocStarts(g) PROVE MarksPlanned'
  BY <1>1 DEF AdhocStarts
<1>2. ASSUME NEW g \in Groups, AdhocFinishes(g) PROVE MarksPlanned'
  BY <1>2, AdhocDoes DEF Is
<1>3. ASSUME NEW g \in Groups, AdhocMarksSuccess(g) PROVE MarksPlanned'
  BY <1>3, AdhocDoes DEF Is
<1>4. ASSUME NEW g \in Groups, PlanWaiting(g) PROVE MarksPlanned'
  <2>1. /\ cycle'.stage = cycle.stage /\ cycle'.prints = cycle.prints
        /\ attempt' = attempt /\ live' = live /\ Loses(retry', retry, {g})
    BY <1>4, PlanWaitingDoes DEF Is
  <2> QED BY <2>1 DEF Loses
<1>5. ASSUME NEW g \in Groups, PlanRun(g) PROVE MarksPlanned'
  <2>1. PICK runs : /\ Is(cycle', cycle.by, "plan", cycle.now, cycle.prints, cycle.todo \ {g},
                          runs, cycle.touched)
                    /\ DOMAIN runs = DOMAIN cycle.runs \cup {g}
    BY <1>5, PlanRunDoes
  <2>2. /\ g \in cycle.todo /\ cycle.stage = "plan" /\ Gains(attempt', attempt, g, cycle.now)
        /\ retry' = retry /\ live' = live
    BY <1>5, PlanRunDoes
  <2>3. g \in Live
    BY <2>2 DEF Plan
  <2>4. Live' = Live
    BY <2>1 DEF Is
  <2> HIDE DEF Live
  <2> QED BY <2>1, <2>2, <2>3, <2>4 DEF Is, Gains
<1>6. ASSUME NEW g \in Groups, RunStarts(g) PROVE MarksPlanned'
  BY <1>6, RunDoes DEF Is
<1>7. ASSUME NEW g \in Groups, RunLocked(g) PROVE MarksPlanned'
  <2>1. cycle.prints \in [Groups -> Prints \cup {NoPrint}]
    BY <1>7 DEF Plan, RunLocked, Run
  <2>2. PICK runs : /\ Is(cycle', cycle.by, cycle.stage, cycle.now, cycle.prints, cycle.todo,
                          runs, cycle.touched)
                    /\ DOMAIN runs = DOMAIN cycle.runs \ {g}
    BY <1>7, <2>1, RunOverDoes
  <2>3. /\ attempt' = attempt /\ live' = live /\ g \in DOMAIN cycle.runs
        /\ \/ Gains(retry', retry, g, cycle.now + LockRetry)
           \/ Loses(retry', retry, {g})
    BY <1>7, <2>1, RunOverDoes
  <2>4. g \in Live /\ cycle.stage \in {"plan", "prune", "wait"}
    BY <2>3 DEF Plan
  <2>5. DOMAIN retry' \subseteq DOMAIN retry \cup {g}
    BY <2>3 DEF Gains, Loses
  <2>6. Live' = Live
    BY <2>2 DEF Is
  <2> HIDE DEF Live
  <2> QED BY <2>2, <2>3, <2>4, <2>5, <2>6 DEF Is
<1>8. ASSUME NEW g \in Groups, RunFails(g) PROVE MarksPlanned'
  <2>1. cycle.prints \in [Groups -> Prints \cup {NoPrint}]
    BY <1>8 DEF Plan, RunFails, Run
  <2>2. PICK runs : /\ Is(cycle', cycle.by, cycle.stage, cycle.now, cycle.prints, cycle.todo,
                          runs, cycle.touched)
                    /\ DOMAIN runs = DOMAIN cycle.runs \ {g}
    BY <1>8, <2>1, RunOverDoes
  <2>3. /\ attempt' = attempt /\ live' = live /\ g \in DOMAIN cycle.runs
        /\ \/ Gains(retry', retry, g, cycle.now + LockRetry)
           \/ Loses(retry', retry, {g})
    BY <1>8, <2>1, RunOverDoes
  <2>4. g \in Live /\ cycle.stage \in {"plan", "prune", "wait"}
    BY <2>3 DEF Plan
  <2>5. DOMAIN retry' \subseteq DOMAIN retry \cup {g}
    BY <2>3 DEF Gains, Loses
  <2>6. Live' = Live
    BY <2>2 DEF Is
  <2> HIDE DEF Live
  <2> QED BY <2>2, <2>3, <2>4, <2>5, <2>6 DEF Is
<1>9. ASSUME NEW g \in Groups, RunSucceeds(g) PROVE MarksPlanned'
  BY <1>9, RunDoes DEF Is
<1>10. ASSUME NEW g \in Groups, RunMarksSuccess(g) PROVE MarksPlanned'
  <2>1. cycle.prints \in [Groups -> Prints \cup {NoPrint}]
    BY <1>10 DEF Plan, RunMarksSuccess, Run
  <2>2. PICK runs : /\ Is(cycle', cycle.by, cycle.stage, cycle.now, cycle.prints, cycle.todo,
                          runs, cycle.touched)
                    /\ DOMAIN runs = DOMAIN cycle.runs \ {g}
    BY <1>10, <2>1, RunOverDoes
  <2>3. /\ attempt' = attempt /\ live' = live /\ g \in DOMAIN cycle.runs
        /\ \/ Gains(retry', retry, g, cycle.now + LockRetry)
           \/ Loses(retry', retry, {g})
    BY <1>10, <2>1, RunOverDoes
  <2>4. g \in Live /\ cycle.stage \in {"plan", "prune", "wait"}
    BY <2>3 DEF Plan
  <2>5. DOMAIN retry' \subseteq DOMAIN retry \cup {g}
    BY <2>3 DEF Gains, Loses
  <2>6. Live' = Live
    BY <2>2 DEF Is
  <2> HIDE DEF Live
  <2> QED BY <2>2, <2>3, <2>4, <2>5, <2>6 DEF Is
<1>11. CASE Tick
  BY <1>11 DEF Tick
<1>12. CASE Restart
  BY <1>12 DEF Restart, NoCycle, NoMarks, NoTry
<1>13. CASE BeginInitial
  BY <1>13 DEF BeginInitial, BeginCycle, NoCycle
<1>14. CASE BeginOnEvent
  BY <1>14 DEF BeginOnEvent, BeginCycle, NoCycle
<1>15. CASE BeginOnTimer
  BY <1>15 DEF BeginOnTimer, BeginCycle, NoCycle
<1>16. CASE Reload
  BY <1>16 DEF Reload, Stage, Move
<1>17. CASE Discover
  BY <1>17, DiscoverDoes DEF Is
<1>18. CASE CycleFails
  BY <1>18 DEF CycleFails, Stage, GiveUp, NoCycle
<1>19. CASE GatePasses
  BY <1>19 DEF GatePasses, Stage, Move
<1>20. CASE GateFails
  BY <1>20 DEF GateFails, Stage, GiveUp, NoCycle
<1>21. CASE Generate
  BY <1>21, GenerateDoes DEF Is
<1>22. CASE RetainLive
  BY <1>22, RetainDoes DEF Is
<1>23. CASE Prune
  <2>1. /\ live' = Live /\ Loses(attempt', attempt, Groups \ Live)
        /\ Loses(retry', retry, Groups \ Live)
        /\ cycle'.stage = "wait" /\ cycle'.prints = cycle.prints
    BY <1>23, PruneDoes DEF Is
  <2>2. DOMAIN attempt \subseteq Groups /\ DOMAIN retry \subseteq Groups
    BY MarksArePartial, PartialAt DEF Types
  <2>3. Live' = Live
    BY <2>1
  <2> HIDE DEF Live
  <2> QED BY <2>1, <2>2, <2>3 DEF Loses
<1>24. CASE EndCycle
  BY <1>24 DEF EndCycle, CycleOver, Stage, GoOn, NoCycle
<1>25. CASE StartBegins
  BY <1>25 DEF StartBegins
<1>26. CASE Drain
  BY <1>26 DEF Drain
<1>27. CASE Rearmed
  BY <1>27 DEF Rearmed, TimerOff
<1>28. CASE NextWakeSnapshot
  BY <1>28 DEF NextWakeSnapshot
<1>29. CASE Arm
  BY <1>29 DEF Arm
<1>30. CASE Fires
  BY <1>30 DEF Fires, TimerOff
<1>31. CASE UNCHANGED vars
  BY <1>31 DEF vars
<1> QED BY <1>1, <1>2, <1>3, <1>4, <1>5, <1>6, <1>7, <1>8, <1>9, <1>10, <1>11, <1>12, <1>13,
     <1>14, <1>15, <1>16, <1>17, <1>18, <1>19, <1>20, <1>21, <1>22, <1>23, <1>24, <1>25, <1>26,
     <1>27, <1>28, <1>29, <1>30, <1>31
     DEF Next, GroupStep

LEMMA PlannedKnownStep ==
  ASSUME SInv, [Next]_vars
  PROVE  PlannedKnown'
<1> USE ScheduleDataAssumption, SchedulerAssumption
    DEF SInv, store, marks, start, Plan, PlannedKnown, Known, Live
<1>1. ASSUME NEW g \in Groups, AdhocStarts(g) PROVE PlannedKnown'
  BY <1>1 DEF AdhocStarts
<1>2. ASSUME NEW g \in Groups, AdhocFinishes(g) PROVE PlannedKnown'
  BY <1>2, AdhocDoes DEF Is
<1>3. ASSUME NEW g \in Groups, AdhocMarksSuccess(g) PROVE PlannedKnown'
  BY <1>3, AdhocDoes DEF Is
<1>4. ASSUME NEW g \in Groups, PlanWaiting(g) PROVE PlannedKnown'
  BY <1>4, PlanWaitingDoes DEF Is
<1>5. ASSUME NEW g \in Groups, PlanRun(g) PROVE PlannedKnown'
  <2>1. PICK runs : /\ Is(cycle', cycle.by, "plan", cycle.now, cycle.prints, cycle.todo \ {g},
                          runs, cycle.touched)
                    /\ DOMAIN runs = DOMAIN cycle.runs \cup {g}
    BY <1>5, PlanRunDoes
  <2>2. /\ g \in cycle.todo /\ cycle.stage = "plan" /\ Gains(attempt', attempt, g, cycle.now)
        /\ live' = live /\ UNCHANGED store
    BY <1>5, PlanRunDoes
  <2>3. Live' = Live
    BY <2>1 DEF Is
  <2> HIDE DEF Live
  <2> QED BY <2>1, <2>2, <2>3 DEF Is, Gains
<1>6. ASSUME NEW g \in Groups, RunStarts(g) PROVE PlannedKnown'
  BY <1>6, RunDoes DEF Is
<1>7. ASSUME NEW g \in Groups, RunLocked(g) PROVE PlannedKnown'
  <2>1. cycle.prints \in [Groups -> Prints \cup {NoPrint}]
    BY <1>7 DEF Plan, RunLocked, Run
  <2> QED BY <1>7, <2>1, RunOverDoes DEF Is
<1>8. ASSUME NEW g \in Groups, RunFails(g) PROVE PlannedKnown'
  <2>1. cycle.prints \in [Groups -> Prints \cup {NoPrint}]
    BY <1>8 DEF Plan, RunFails, Run
  <2> QED BY <1>8, <2>1, RunOverDoes DEF Is
<1>9. ASSUME NEW g \in Groups, RunSucceeds(g) PROVE PlannedKnown'
  BY <1>9, RunDoes DEF Is
<1>10. ASSUME NEW g \in Groups, RunMarksSuccess(g) PROVE PlannedKnown'
  <2>1. cycle.prints \in [Groups -> Prints \cup {NoPrint}]
    BY <1>10 DEF Plan, RunMarksSuccess, Run
  <2> QED BY <1>10, <2>1, RunOverDoes DEF Is
<1>11. CASE Tick
  BY <1>11 DEF Tick
<1>12. CASE Restart
  BY <1>12 DEF Restart, NoCycle, NoMarks, NoTry
<1>13. CASE BeginInitial
  BY <1>13 DEF BeginInitial, BeginCycle, NoCycle
<1>14. CASE BeginOnEvent
  BY <1>14 DEF BeginOnEvent, BeginCycle, NoCycle
<1>15. CASE BeginOnTimer
  BY <1>15 DEF BeginOnTimer, BeginCycle, NoCycle
<1>16. CASE Reload
  BY <1>16 DEF Reload, Stage, Move
<1>17. CASE Discover
  BY <1>17, DiscoverDoes DEF Is
<1>18. CASE CycleFails
  BY <1>18 DEF CycleFails, Stage, GiveUp, NoCycle
<1>19. CASE GatePasses
  BY <1>19 DEF GatePasses, Stage, Move
<1>20. CASE GateFails
  BY <1>20 DEF GateFails, Stage, GiveUp, NoCycle
<1>21. CASE Generate
  BY <1>21, GenerateDoes DEF Is
<1>22. CASE RetainLive
  BY <1>22, RetainDoes DEF Is
<1>23. CASE Prune
  BY <1>23, PruneDoes DEF Is, Loses
<1>24. CASE EndCycle
  BY <1>24 DEF EndCycle, CycleOver, Stage, GoOn, NoCycle
<1>25. CASE StartBegins
  BY <1>25 DEF StartBegins
<1>26. CASE Drain
  BY <1>26 DEF Drain
<1>27. CASE Rearmed
  BY <1>27 DEF Rearmed, TimerOff
<1>28. CASE NextWakeSnapshot
  BY <1>28 DEF NextWakeSnapshot
<1>29. CASE Arm
  BY <1>29 DEF Arm
<1>30. CASE Fires
  BY <1>30 DEF Fires, TimerOff
<1>31. CASE UNCHANGED vars
  BY <1>31 DEF vars
<1> QED BY <1>1, <1>2, <1>3, <1>4, <1>5, <1>6, <1>7, <1>8, <1>9, <1>10, <1>11, <1>12, <1>13,
     <1>14, <1>15, <1>16, <1>17, <1>18, <1>19, <1>20, <1>21, <1>22, <1>23, <1>24, <1>25, <1>26,
     <1>27, <1>28, <1>29, <1>30, <1>31
     DEF Next, GroupStep

LEMMA SyncedStep ==
  ASSUME SInv, [Next]_vars
  PROVE  Synced'
<1> USE ScheduleDataAssumption, SchedulerAssumption, RecordRunIs, MarkSuccessIs
    DEF SInv, store, marks, start, Plan, Synced
<1>1. ASSUME NEW g \in Groups, AdhocStarts(g) PROVE Synced'
  BY <1>1 DEF AdhocStarts
<1>2. ASSUME NEW g \in Groups, AdhocFinishes(g) PROVE Synced'
  BY <1>2, AdhocDoes DEF Is
<1>3. ASSUME NEW g \in Groups, AdhocMarksSuccess(g) PROVE Synced'
  BY <1>3, AdhocDoes DEF Is
<1>4. ASSUME NEW g \in Groups, PlanWaiting(g) PROVE Synced'
  BY <1>4, PlanWaitingDoes DEF Is
<1>5. ASSUME NEW g \in Groups, PlanRun(g) PROVE Synced'
  <2>1. PICK runs : /\ Is(cycle', cycle.by, "plan", cycle.now, cycle.prints, cycle.todo \ {g},
                          runs, cycle.touched)
                    /\ DOMAIN runs = DOMAIN cycle.runs \cup {g}
    BY <1>5, PlanRunDoes
  <2>2. cycle.stage = "plan" /\ UNCHANGED store
    BY <1>5, PlanRunDoes
  <2> QED BY <2>1, <2>2 DEF Is
<1>6. ASSUME NEW g \in Groups, RunStarts(g) PROVE Synced'
  BY <1>6, RunDoes DEF Is
<1>7. ASSUME NEW g \in Groups, RunLocked(g) PROVE Synced'
  <2>1. cycle.prints \in [Groups -> Prints \cup {NoPrint}]
    BY <1>7 DEF Plan, RunLocked, Run
  <2> QED BY <1>7, <2>1, RunOverDoes DEF Is
<1>8. ASSUME NEW g \in Groups, RunFails(g) PROVE Synced'
  <2>1. cycle.prints \in [Groups -> Prints \cup {NoPrint}]
    BY <1>8 DEF Plan, RunFails, Run
  <2> QED BY <1>8, <2>1, RunOverDoes DEF Is
<1>9. ASSUME NEW g \in Groups, RunSucceeds(g) PROVE Synced'
  BY <1>9, RunDoes DEF Is
<1>10. ASSUME NEW g \in Groups, RunMarksSuccess(g) PROVE Synced'
  <2>1. cycle.prints \in [Groups -> Prints \cup {NoPrint}]
    BY <1>10 DEF Plan, RunMarksSuccess, Run
  <2> QED BY <1>10, <2>1, RunOverDoes DEF Is
<1>11. CASE Tick
  BY <1>11 DEF Tick
<1>12. CASE Restart
  BY <1>12 DEF Restart, NoCycle, NoMarks, NoTry
<1>13. CASE BeginInitial
  BY <1>13 DEF BeginInitial, BeginCycle, NoCycle
<1>14. CASE BeginOnEvent
  BY <1>14 DEF BeginOnEvent, BeginCycle, NoCycle
<1>15. CASE BeginOnTimer
  BY <1>15 DEF BeginOnTimer, BeginCycle, NoCycle
<1>16. CASE Reload
  BY <1>16 DEF Reload, Stage, Move
<1>17. CASE Discover
  BY <1>17, DiscoverDoes DEF Is
<1>18. CASE CycleFails
  BY <1>18 DEF CycleFails, Stage, GiveUp, NoCycle
<1>19. CASE GatePasses
  BY <1>19 DEF GatePasses, Stage, Move
<1>20. CASE GateFails
  BY <1>20 DEF GateFails, Stage, GiveUp, NoCycle
<1>21. CASE Generate
  BY <1>21, GenerateDoes DEF Is
<1>22. CASE RetainLive
  BY <1>22, RetainDoes DEF Is
<1>23. CASE Prune
  BY <1>23, PruneDoes DEF Is
<1>24. CASE EndCycle
  BY <1>24 DEF EndCycle, CycleOver, Stage, GoOn, NoCycle
<1>25. CASE StartBegins
  BY <1>25 DEF StartBegins
<1>26. CASE Drain
  BY <1>26 DEF Drain
<1>27. CASE Rearmed
  BY <1>27 DEF Rearmed, TimerOff
<1>28. CASE NextWakeSnapshot
  BY <1>28 DEF NextWakeSnapshot
<1>29. CASE Arm
  BY <1>29 DEF Arm
<1>30. CASE Fires
  BY <1>30 DEF Fires, TimerOff
<1>31. CASE UNCHANGED vars
  BY <1>31 DEF vars
<1> QED BY <1>1, <1>2, <1>3, <1>4, <1>5, <1>6, <1>7, <1>8, <1>9, <1>10, <1>11, <1>12, <1>13,
     <1>14, <1>15, <1>16, <1>17, <1>18, <1>19, <1>20, <1>21, <1>22, <1>23, <1>24, <1>25, <1>26,
     <1>27, <1>28, <1>29, <1>30, <1>31
     DEF Next, GroupStep

LEMMA FreshStep ==
  ASSUME SInv, [Next]_vars
  PROVE  Fresh'
<1> USE ScheduleDataAssumption, SchedulerAssumption
    DEF SInv, store, marks, start, Plan, Fresh, NoCycle
<1>1. ASSUME NEW g \in Groups, AdhocStarts(g) PROVE Fresh'
  <2>1. UNCHANGED <<view, cycle, marks, rearm, start>>
    BY <1>1 DEF AdhocStarts
  <2> QED BY <2>1, TimesKept
<1>2. ASSUME NEW g \in Groups, AdhocFinishes(g) PROVE Fresh'
  <2>1. UNCHANGED <<view, marks, rearm, start>>
    BY <1>2, AdhocDoes
  <2>2. cycle' = NoCycle => cycle = NoCycle
    <3>1. cycle'.stage = cycle.stage
      BY <1>2, AdhocDoes DEF Is
    <3>2. cycle' = NoCycle => cycle.stage = "none"
      BY <3>1, NoCycleIs DEF Is
    <3> QED BY <1>2, <3>2, AdhocDoes
  <2> QED BY <2>1, <2>2, TimesKept
<1>3. ASSUME NEW g \in Groups, AdhocMarksSuccess(g) PROVE Fresh'
  <2>1. UNCHANGED <<view, marks, rearm, start>>
    BY <1>3, AdhocDoes
  <2>2. cycle' = NoCycle => cycle = NoCycle
    <3>1. cycle'.stage = cycle.stage
      BY <1>3, AdhocDoes DEF Is
    <3>2. cycle' = NoCycle => cycle.stage = "none"
      BY <3>1, NoCycleIs DEF Is
    <3> QED BY <1>3, <3>2, AdhocDoes
  <2> QED BY <2>1, <2>2, TimesKept
<1>4. ASSUME NEW g \in Groups, PlanWaiting(g) PROVE Fresh'
  BY <1>4, PlanWaitingDoes DEF Is
<1>5. ASSUME NEW g \in Groups, PlanRun(g) PROVE Fresh'
  BY <1>5, PlanRunDoes DEF Is
<1>6. ASSUME NEW g \in Groups, RunStarts(g) PROVE Fresh'
  BY <1>6, RunDoes DEF Is
<1>7. ASSUME NEW g \in Groups, RunLocked(g) PROVE Fresh'
  <2>1. cycle.prints \in [Groups -> Prints \cup {NoPrint}]
    BY <1>7 DEF Plan, RunLocked, Run
  <2>2. PICK runs : /\ Is(cycle', cycle.by, cycle.stage, cycle.now, cycle.prints, cycle.todo,
                          runs, cycle.touched)
                    /\ DOMAIN runs = DOMAIN cycle.runs \ {g}
    BY <1>7, <2>1, RunOverDoes
  <2>3. cycle.stage # "none"
    BY <1>7, <2>1, RunOverDoes DEF Plan
  <2>4. cycle' # NoCycle
    BY <2>2, <2>3, NoCycleIs DEF Is
  <2> QED BY <2>4
<1>8. ASSUME NEW g \in Groups, RunFails(g) PROVE Fresh'
  <2>1. cycle.prints \in [Groups -> Prints \cup {NoPrint}]
    BY <1>8 DEF Plan, RunFails, Run
  <2>2. PICK runs : /\ Is(cycle', cycle.by, cycle.stage, cycle.now, cycle.prints, cycle.todo,
                          runs, cycle.touched)
                    /\ DOMAIN runs = DOMAIN cycle.runs \ {g}
    BY <1>8, <2>1, RunOverDoes
  <2>3. cycle.stage # "none"
    BY <1>8, <2>1, RunOverDoes DEF Plan
  <2>4. cycle' # NoCycle
    BY <2>2, <2>3, NoCycleIs DEF Is
  <2> QED BY <2>4
<1>9. ASSUME NEW g \in Groups, RunSucceeds(g) PROVE Fresh'
  BY <1>9, RunDoes DEF Is
<1>10. ASSUME NEW g \in Groups, RunMarksSuccess(g) PROVE Fresh'
  <2>1. cycle.prints \in [Groups -> Prints \cup {NoPrint}]
    BY <1>10 DEF Plan, RunMarksSuccess, Run
  <2>2. PICK runs : /\ Is(cycle', cycle.by, cycle.stage, cycle.now, cycle.prints, cycle.todo,
                          runs, cycle.touched)
                    /\ DOMAIN runs = DOMAIN cycle.runs \ {g}
    BY <1>10, <2>1, RunOverDoes
  <2>3. cycle.stage # "none"
    BY <1>10, <2>1, RunOverDoes DEF Plan
  <2>4. cycle' # NoCycle
    BY <2>2, <2>3, NoCycleIs DEF Is
  <2> QED BY <2>4
<1>11. CASE Tick
  <2>1. UNCHANGED <<view, cycle, marks, rearm, start>>
    BY <1>11 DEF Tick
  <2> QED BY <2>1, TimesKept
<1>12. CASE Restart
  BY <1>12 DEF Restart, NoCycle, NoMarks, NoTry
<1>13. CASE BeginInitial
  BY <1>13 DEF BeginInitial, BeginCycle, NoCycle
<1>14. CASE BeginOnEvent
  BY <1>14 DEF BeginOnEvent, BeginCycle, NoCycle
<1>15. CASE BeginOnTimer
  BY <1>15 DEF BeginOnTimer, BeginCycle, NoCycle
<1>16. CASE Reload
  BY <1>16 DEF Reload, Stage, Move
<1>17. CASE Discover
  BY <1>17, DiscoverDoes DEF Is
<1>18. CASE CycleFails
  BY <1>18 DEF CycleFails, Stage, GiveUp, NoCycle
<1>19. CASE GatePasses
  BY <1>19 DEF GatePasses, Stage, Move
<1>20. CASE GateFails
  BY <1>20 DEF GateFails, Stage, GiveUp, NoCycle
<1>21. CASE Generate
  BY <1>21, GenerateDoes DEF Is
<1>22. CASE RetainLive
  BY <1>22, RetainDoes DEF Is
<1>23. CASE Prune
  BY <1>23, PruneDoes DEF Is
<1>24. CASE EndCycle
  BY <1>24 DEF EndCycle, CycleOver, Stage, GoOn, NoCycle
<1>25. CASE StartBegins
  BY <1>25 DEF StartBegins
<1>26. CASE Drain
  BY <1>26 DEF Drain
<1>27. CASE Rearmed
  BY <1>27 DEF Rearmed, TimerOff
<1>28. CASE NextWakeSnapshot
  BY <1>28 DEF NextWakeSnapshot
<1>29. CASE Arm
  <2>1. UNCHANGED <<view, cycle, marks, rearm, armed>> /\ spc = "arm" /\ spc' = "sleep"
    BY <1>29 DEF Arm
  <2>2. alarm' = Wake(TimesIn(snap))
    BY <1>29 DEF Arm, NextWake, TimesIn, DrivingIn, DueIn, Driving, NextDue
  <2> QED BY <2>1, <2>2, TimesKept
<1>30. CASE Fires
  BY <1>30 DEF Fires, TimerOff
<1>31. CASE UNCHANGED vars
  <2>1. UNCHANGED <<view, cycle, marks, rearm, start>>
    BY <1>31 DEF vars
  <2> QED BY <2>1, TimesKept
<1> QED BY <1>1, <1>2, <1>3, <1>4, <1>5, <1>6, <1>7, <1>8, <1>9, <1>10, <1>11, <1>12, <1>13,
     <1>14, <1>15, <1>16, <1>17, <1>18, <1>19, <1>20, <1>21, <1>22, <1>23, <1>24, <1>25, <1>26,
     <1>27, <1>28, <1>29, <1>30, <1>31
     DEF Next, GroupStep

-----------------------------------------------------------------------------
(* The invariant holds. *)

LEMMA InitSInv == Init => SInv
<1> SUFFICES ASSUME Init PROVE SInv
  OBVIOUS
<1>1. /\ clock = 1 /\ disk = Empty /\ view = Empty /\ snap = Empty
      /\ other = [g \in Groups |-> NoAdhoc] /\ cycle = NoCycle
      /\ attempt = NoMarks /\ retry = NoMarks /\ gate = 0 /\ live = {}
      /\ rearm = FALSE /\ opc = "initial" /\ spc = "off" /\ alarm = 0 /\ armed = 0
      /\ last = [g \in Groups |-> NoTry]
  BY DEF Init
<1>2. Types
  <2>1. NoAdhoc \in Adhoc
    BY SchedulerAssumption DEF NoAdhoc, Adhoc
  <2>2. clock \in 1..MaxTime /\ gate \in 0..MaxTime + GateRetry /\ armed \in 0..MaxTime
    BY <1>1, SchedulerAssumption
  <2>3. cycle \in Cycle
    BY <1>1, NoCycleIs
  <2>4. other \in [Groups -> Adhoc] /\ last \in [Groups -> Try]
    BY <1>1, <2>1, NothingIs
  <2> QED BY <1>1, <2>2, <2>3, <2>4, NothingIs DEF Types
<1>3. cycle.stage = "none" /\ cycle.todo = {} /\ DOMAIN cycle.runs = {}
  BY <1>1, NoCycleIs DEF Is
<1>4. DOMAIN attempt = {} /\ DOMAIN retry = {}
  BY <1>1 DEF NoMarks
<1>5. \A g \in Groups : last[g].tried = 0 /\ last[g].found = "free"
  BY <1>1 DEF NoTry
<1>6. Plan
  BY <1>3 DEF Plan
<1>7. Tried /\ Locked
  BY <1>3, <1>4, <1>5 DEF Tried, Locked, AtMark
<1>8. MarksPlanned /\ PlannedKnown /\ Synced /\ Fresh
  BY <1>1, <1>3, <1>4 DEF MarksPlanned, PlannedKnown, Synced, Fresh
<1> QED BY <1>2, <1>6, <1>7, <1>8 DEF SInv

LEMMA Invariance == Spec => []SInv
<1>1. SInv /\ [Next]_vars => SInv'
  BY TypesStep, PlanStep, TriedStep, LockedStep, MarksPlannedStep, PlannedKnownStep,
     SyncedStep, FreshStep DEF SInv
<1> QED BY <1>1, InitSInv, PTL DEF Spec

-----------------------------------------------------------------------------
(* What follows from it. *)

\* The variables keep their types, and a mark is of a group that was tried.
THEOREM TypeCorrect == Spec => []TypeOK
<1>1. SInv => TypeOK
  <2> SUFFICES ASSUME SInv PROVE TypeOK
    OBVIOUS
  <2>1. cycle.todo \subseteq Groups /\ DOMAIN cycle.runs \subseteq Groups
    BY PartialAt DEF SInv, Types, Cycle
  <2>2. DOMAIN attempt \subseteq {g \in Groups : last[g].tried # 0}
    BY MarksArePartial, PartialAt DEF SInv, Types, Tried, AtMark
  <2> QED BY <2>1, <2>2 DEF SInv, Types, TypeOK
<1> QED BY <1>1, Invariance, PTL

\* What a sleeping Start has set its timer to.
LEMMA AsleepIs ==
  ASSUME SInv, Asleep
  PROVE  /\ alarm = Wake(TimesIn(view)) /\ TimesIn(view) \subseteq Nat /\ armed \in Nat
         /\ cycle.stage = "none" /\ DOMAIN cycle.runs = {}
<1>1. TimesIn(view) \subseteq Nat /\ armed \in Nat
  <2>1. Types /\ view \in File /\ armed \in 0..MaxTime
    BY DEF SInv, Types
  <2> QED BY <2>1, TimesAreTimes
<1>2. cycle = NoCycle /\ spc = "sleep" /\ ~rearm
  BY DEF Asleep
<1>3. cycle.stage = "none" /\ DOMAIN cycle.runs = {}
  BY <1>2, NoCycleIs DEF Is
<1> QED BY <1>1, <1>2, <1>3 DEF SInv, Fresh

\* A sleeping Start wakes as soon as there is something to do.
THEOREM InTime == Spec => []WakesInTime
<1>1. SInv => WakesInTime
  <2> SUFFICES ASSUME SInv, Asleep
               PROVE  /\ By(armed + Period)
                      /\ \A g \in live :
                           Record(view, g).missing = 0
                             => By(Latest(Success(g), last[g].tried) + PeriodOf[g])
                      /\ \A g \in live : last[g].found = "locked" => By(last[g].tried + LockRetry)
                      /\ gate # 0 => By(gate)
    BY DEF WakesInTime
  <2>1. \A t \in TimesIn(view) \cup {armed + Period} : By(t)
    BY AsleepIs, WakeIs DEF By
  <2>2. live \subseteq Groups
    BY DEF SInv, Types
  <2>3. ASSUME NEW g \in live, Record(view, g).missing = 0
        PROVE  By(Latest(Success(g), last[g].tried) + PeriodOf[g])
    <3>1. g \in DrivingIn(view)
      BY <2>3, AsleepIs DEF SInv, PlannedKnown, Known, DrivingIn
    <3>2. DueIn(view, g) = Latest(Success(g), last[g].tried) + PeriodOf[g]
      BY <2>2 DEF SInv, Tried, DueIn, Success, LivePeriod
    <3> QED BY <2>1, <3>1, <3>2 DEF TimesIn
  <2>4. ASSUME NEW g \in live, last[g].found = "locked" PROVE By(last[g].tried + LockRetry)
    <3>1. g \in DOMAIN retry /\ retry[g] = last[g].tried + LockRetry
      BY <2>2, <2>4 DEF SInv, Locked
    <3> QED BY <2>1, <3>1 DEF TimesIn, Retries
  <2>5. ASSUME gate # 0 PROVE By(gate)
    BY <2>1, <2>5 DEF TimesIn, Retries
  <2> QED BY <2>1, <2>3, <2>4, <2>5
<1> QED BY <1>1, Invariance, PTL

\* It does not wake without a reason, however often a group fails.
THEOREM ForAReason == Spec => []WakesForAReason
<1>1. SInv => WakesForAReason
  <2> SUFFICES ASSUME SInv, Asleep
               PROVE  alarm >= armed + MinWake /\ alarm >= Earliest(Reasons)
    BY DEF WakesForAReason
  <2>1. /\ alarm \in Nat /\ alarm >= armed + MinWake /\ armed \in Nat
        /\ \E t \in TimesIn(view) \cup {armed + Period} : alarm = Latest(armed + MinWake, t)
    BY AsleepIs, WakeIs
  <2>2. /\ live \subseteq Groups /\ DOMAIN view.groups \subseteq Groups
        /\ DOMAIN attempt \cup DOMAIN retry \subseteq live
    BY AsleepIs, FileRecords DEF SInv, Types, MarksPlanned, Planned
  <2>3. TimesIn(view) \subseteq Reasons
    <3>1. ASSUME NEW g \in DOMAIN retry PROVE retry[g] \in Reasons
      <4>1. last[g].found = "locked" /\ retry[g] = last[g].tried + LockRetry
        BY <2>2, AsleepIs DEF SInv, Locked
      <4> QED BY <2>2, <4>1 DEF Reasons
    <3>2. ASSUME NEW g \in DrivingIn(view) PROVE DueIn(view, g) \in Reasons
      <4>1. g \in DOMAIN view.groups \cup live /\ Record(view, g).missing = 0 /\ g \in Groups
        BY <2>2 DEF DrivingIn
      <4>2. DueIn(view, g) = Latest(Success(g), last[g].tried) + LivePeriod(g)
        BY <4>1 DEF SInv, Tried, DueIn, Success
      <4> QED BY <4>1, <4>2 DEF Reasons
    <3>3. gate # 0 => gate \in Reasons
      BY DEF Reasons
    <3> QED BY <3>1, <3>2, <3>3 DEF TimesIn, Retries
  <2>4. Reasons \subseteq Nat
    <3>1. \A g \in Groups : last[g].tried \in Nat
      BY SchedulerAssumption DEF SInv, Types, Try
    <3>2. \A g \in Groups : Success(g) \in Nat
      BY FileRecords, SchedulerAssumption DEF SInv, Types, GroupRecord, Success
    <3>3. \A g \in Groups : LivePeriod(g) \in Nat
      BY SchedulerAssumption DEF LivePeriod
    <3>4. gate \in Nat /\ LockRetry \in Nat /\ Period \in Nat
      BY SchedulerAssumption DEF SInv, Types
    <3>5. ASSUME NEW g \in Groups
          PROVE  Latest(Success(g), last[g].tried) + LivePeriod(g) \in Nat
      <4>1. last[g].tried \in Nat /\ Success(g) \in Nat /\ LivePeriod(g) \in Nat
        BY <3>1, <3>2, <3>3, Zenon
      <4> QED BY <4>1 DEF Latest
    <3>6. ASSUME NEW g \in Groups PROVE last[g].tried + LockRetry \in Nat
      BY <3>1, <3>4
    <3>7. armed + Period \in Nat
      BY <2>1, <3>4
    <3> QED BY <2>2, <3>4, <3>5, <3>6, <3>7 DEF Reasons
  <2>5. PICK t \in Reasons : alarm = Latest(armed + MinWake, t)
    BY <2>1, <2>3 DEF Reasons
  <2>6. Earliest(Reasons) \in Nat /\ Earliest(Reasons) <= t
    BY <2>4, <2>5, EarliestIsLeast
  <2>7. armed \in Nat /\ alarm >= armed + MinWake
    BY <2>1
  <2>8. alarm >= t
    <3>1. MinWake \in Nat /\ t \in Nat
      BY <2>4, SchedulerAssumption
    <3> QED BY <2>5, <2>7, <3>1 DEF Latest
  <2> QED BY <2>1, <2>4, <2>6, <2>7, <2>8
<1> QED BY <1>1, Invariance, PTL

-----------------------------------------------------------------------------
(* Successes that count. *)

\* Only a plan that finds a group due adds a run.
LEMMA RunsAdded ==
  ASSUME SInv, [Next]_vars, NEW g \in Groups, Decided(g)
  PROVE  PlanRun(g)
<1> USE DEF SInv, Decided
<1>1. ASSUME NEW h \in Groups, AdhocFinishes(h) \/ AdhocMarksSuccess(h) PROVE FALSE
  BY <1>1, AdhocDoes DEF Is
<1>2. ASSUME NEW h \in Groups, PlanRun(h) PROVE PlanRun(g)
  <2>1. PICK runs : /\ cycle'.runs = runs
                    /\ DOMAIN runs = DOMAIN cycle.runs \cup {h}
    BY <1>2, PlanRunDoes DEF Is
  <2>2. g = h
    BY <2>1
  <2> QED BY <1>2, <2>2
<1>3. ASSUME NEW h \in Groups, PlanWaiting(h) PROVE FALSE
  BY <1>3, PlanWaitingDoes DEF Is
<1>4. ASSUME NEW h \in Groups, RunStarts(h) \/ RunSucceeds(h) PROVE FALSE
  BY <1>4, RunDoes DEF Is
<1>5. ASSUME NEW h \in Groups, RunLocked(h) \/ RunFails(h) \/ RunMarksSuccess(h) PROVE FALSE
  <2>1. cycle.prints \in [Groups -> Prints \cup {NoPrint}]
    BY <1>5 DEF Plan, RunLocked, RunFails, RunMarksSuccess, Run
  <2> QED BY <1>5, <2>1, RunOverDoes DEF Is
<1>6. CASE BeginInitial \/ BeginOnEvent \/ BeginOnTimer
  <2>1. PICK b : cycle' = [NoCycle EXCEPT !.by = b, !.stage = "reload"]
    BY <1>6 DEF BeginInitial, BeginOnEvent, BeginOnTimer, BeginCycle
  <2>2. cycle'.runs = NoCycle.runs
    BY <2>1, CycleEmpty DEF Is
  <2> QED BY <2>2, NoCycleIs
<1>7. CASE CycleFails \/ GateFails
  <2>1. cycle' = [NoCycle EXCEPT !.by = cycle.by, !.stage = "end"]
    BY <1>7 DEF CycleFails, GateFails, GiveUp
  <2>2. cycle'.runs = NoCycle.runs
    BY <2>1, CycleEmpty DEF Is
  <2> QED BY <2>2, NoCycleIs
<1>8. CASE Reload \/ GatePasses
  <2>1. PICK s \in Stages : Move(s)
    BY <1>8 DEF Reload, GatePasses, Stages
  <2> QED BY <2>1, MoveDoes DEF Is
<1>9. CASE Restart \/ EndCycle
  BY <1>9, NoCycleIs DEF Restart, EndCycle
<1>10. CASE Discover
  BY <1>10, DiscoverDoes DEF Is
<1>11. CASE Generate
  BY <1>11, GenerateDoes DEF Is
<1>12. CASE RetainLive
  BY <1>12, RetainDoes DEF Is
<1>13. CASE Prune
  BY <1>13, PruneDoes DEF Is
<1>14. CASE UNCHANGED cycle
  BY <1>14
<1> QED
  <2>1. ASSUME NEW h \in Groups, AdhocStarts(h) PROVE UNCHANGED cycle
    BY <2>1 DEF AdhocStarts
  <2>2. CASE \/ Tick \/ StartBegins \/ Drain \/ Rearmed \/ NextWakeSnapshot \/ Arm \/ Fires
             \/ UNCHANGED vars
    BY <2>2, <1>14 DEF Tick, StartBegins, Drain, Rearmed, NextWakeSnapshot, Arm, Fires, vars
  <2> HIDE DEF SInv, Decided
  <2> QED BY <1>1, <1>2, <1>3, <1>4, <1>5, <1>6, <1>7, <1>8, <1>9, <1>10, <1>11, <1>12, <1>13,
             <1>14, <2>1, <2>2, Zenon DEF Next, GroupStep

\* What another process recorded before the reload counts.
THEOREM SuccessesCount == Spec => SuccessCounts
<1>1. SInv /\ [Next]_vars
        => [\A g \in Groups :
              Decided(g) /\ g \notin cycle.touched
                => Due(disk, g, cycle.prints[g], cycle.now)]_vars
  <2> SUFFICES ASSUME SInv, [Next]_vars, NEW g \in Groups, Decided(g), g \notin cycle.touched
               PROVE  Due(disk, g, cycle.prints[g], cycle.now)
    OBVIOUS
  <2>1. cycle.stage = "plan" /\ Due(view, g, cycle.prints[g], cycle.now)
    BY RunsAdded DEF PlanRun, Stage
  <2>2. /\ g \in DOMAIN view.groups <=> g \in DOMAIN disk.groups
        /\ Record(view, g) = Record(disk, g)
    BY <2>1 DEF SInv, Synced, Record
  <2> QED BY <2>1, <2>2 DEF Due
<1> QED BY <1>1, Invariance, PTL DEF Spec, SuccessCounts
=============================================================================
