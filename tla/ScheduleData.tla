---------------------------- MODULE ScheduleData ----------------------------
(***************************************************************************)
(* The contents of schedule.json and the mutations the program applies to  *)
(* it: internal/state/schedule.go.  Per group it keeps the start and the   *)
(* membership fingerprint of the last success, and the number of           *)
(* consecutive cycles the group has been missing from; and the run IDs of  *)
(* pending runs.  What RecordRun says of the run (outcome, history,        *)
(* per-repository records) is left out.                                    *)
(***************************************************************************)
EXTENDS Naturals

CONSTANTS
  Groups, Runs,
  Times,          \* run start times, 0 being the zero time
  Prints,         \* fingerprints of what a group backs up
  NoPrint,        \* the fingerprint of a record without a success
  MaxMissing      \* bound on the counter of missed cycles

ASSUME ScheduleDataAssumption ==
  /\ 0 \in Times
  /\ MaxMissing \in Nat /\ MaxMissing >= 2

NoRecord == [success |-> 0, print |-> NoPrint, missing |-> 0]
GroupRecord == [success : Times, print : Prints \cup {NoPrint}, missing : 0..MaxMissing]

\* groups is a partial function: the groups that have a record.
File == UNION {[groups : [G -> GroupRecord], pending : SUBSET Runs] : G \in SUBSET Groups}
Empty == [groups |-> [g \in {} |-> NoRecord], pending |-> {}]

Record(f, g) == IF g \in DOMAIN f.groups THEN f.groups[g] ELSE NoRecord
Put(f, g, rec) ==
  [f EXCEPT !.groups = [h \in DOMAIN f.groups \cup {g} |-> IF h = g THEN rec ELSE f.groups[h]]]

Capped(n, bound) == IF n > bound THEN bound ELSE n

-----------------------------------------------------------------------------
MarkSuccess(f, g, print, started) ==
  Put(f, g, [Record(f, g) EXCEPT !.success = started, !.print = print, !.missing = 0])

\* Scheduling fields stay; a group never seen before gets a record.
RecordRun(f, g) == Put(f, g, Record(f, g))

RecordPending(f, r) == [f EXCEPT !.pending = @ \cup {r}]
ClearPending(f, r) == [f EXCEPT !.pending = @ \ {r}]

\* A group absent from this cycle goes once it has been absent twice before,
\* unless it is protected (cached as offline); a present one starts over.
Expired(f, g, active, protected) ==
  g \notin active \cup protected /\ f.groups[g].missing >= 2

Seen(rec) == [rec EXCEPT !.missing = 0]
Missed(rec) == [rec EXCEPT !.missing = Capped(rec.missing + 1, MaxMissing)]

Retain(f, active, protected) ==
  LET kept == {g \in DOMAIN f.groups : ~Expired(f, g, active, protected)}
  IN [f EXCEPT !.groups =
        [g \in kept |-> IF g \in active THEN Seen(f.groups[g]) ELSE Missed(f.groups[g])]]

\* The callers' mutations.
Mutation ==
  [op : {"MarkSuccess"}, group : Groups, print : Prints, started : Times \ {0}]
    \cup [op : {"RecordRun"}, group : Groups]
    \cup [op : {"RecordPending", "ClearPending"}, id : Runs]
    \cup [op : {"Retain"}, active : SUBSET Groups, protected : SUBSET Groups]

Apply(m, f) ==
  CASE m.op = "MarkSuccess" -> MarkSuccess(f, m.group, m.print, m.started)
    [] m.op = "RecordRun" -> RecordRun(f, m.group)
    [] m.op = "RecordPending" -> RecordPending(f, m.id)
    [] m.op = "ClearPending" -> ClearPending(f, m.id)
    [] m.op = "Retain" -> Retain(f, m.active, m.protected)

\* What the mutation reports: whether there is anything to write.
Changes(m, f) ==
  CASE m.op = "ClearPending" -> m.id \in f.pending
    [] m.op = "Retain" -> \E g \in DOMAIN f.groups : g \in m.active => f.groups[g].missing # 0
    [] OTHER -> TRUE
=============================================================================
