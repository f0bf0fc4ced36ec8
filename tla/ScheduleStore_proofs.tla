------------------------- MODULE ScheduleStore_proofs -------------------------
(***************************************************************************)
(* Proofs about ScheduleStore, for any processes, groups, runs and times:  *)
(* type correctness, the safety of the sweep, and that the store           *)
(* implements AtomicSchedule.                                              *)
(***************************************************************************)
EXTENDS ScheduleStore, TLAPS

\* A record can be put for any group.
LEMMA PutType ==
  ASSUME NEW f \in File, NEW g \in Groups, NEW rec \in GroupRecord
  PROVE  Put(f, g, rec) \in File
<1>1. PICK G \in SUBSET Groups : f \in [groups : [G -> GroupRecord], pending : SUBSET Runs]
  BY DEF File
<1>2. Put(f, g, rec) \in [groups : [(G \cup {g}) -> GroupRecord], pending : SUBSET Runs]
  BY <1>1 DEF Put
<1> QED BY <1>2 DEF File

LEMMA RecordType ==
  ASSUME NEW f \in File, NEW g \in Groups
  PROVE  Record(f, g) \in GroupRecord
<1>1. PICK G \in SUBSET Groups : f \in [groups : [G -> GroupRecord], pending : SUBSET Runs]
  BY DEF File
<1>2. NoRecord \in GroupRecord
  BY ScheduleDataAssumption DEF NoRecord, GroupRecord
<1> QED BY <1>1, <1>2 DEF Record

LEMMA AgedType ==
  ASSUME NEW r \in GroupRecord
  PROVE  Seen(r) \in GroupRecord /\ Missed(r) \in GroupRecord
<1>1. r.missing \in 0..MaxMissing /\ MaxMissing \in Nat
  BY ScheduleDataAssumption DEF GroupRecord
<1>2. Capped(r.missing + 1, MaxMissing) \in 0..MaxMissing /\ 0 \in 0..MaxMissing
  BY <1>1 DEF Capped
<1> QED BY <1>2 DEF GroupRecord, Seen, Missed

LEMMA SucceededType ==
  ASSUME NEW r \in GroupRecord, NEW t \in Times, NEW p \in Prints
  PROVE  [r EXCEPT !.success = t, !.print = p, !.missing = 0] \in GroupRecord
<1>1. 0 \in 0..MaxMissing
  BY ScheduleDataAssumption
<1> QED BY <1>1 DEF GroupRecord

LEMMA RetainType ==
  ASSUME NEW f \in File, NEW active, NEW protected
  PROVE  Retain(f, active, protected) \in File
<1>1. PICK G \in SUBSET Groups : f \in [groups : [G -> GroupRecord], pending : SUBSET Runs]
  BY DEF File
<1> DEFINE kept == {g \in DOMAIN f.groups : ~Expired(f, g, active, protected)}
           rec(g) == IF g \in active THEN Seen(f.groups[g]) ELSE Missed(f.groups[g])
<1>2. DOMAIN f.groups = G /\ kept \in SUBSET Groups
  BY <1>1
<1>3. ASSUME NEW g \in kept PROVE rec(g) \in GroupRecord
  <2>1. f.groups[g] \in GroupRecord
    BY <1>1, <1>2
  <2> QED BY <2>1, AgedType
<1>4. [g \in kept |-> rec(g)] \in [kept -> GroupRecord]
  BY <1>3
<1>5. Retain(f, active, protected) = [groups |-> [g \in kept |-> rec(g)], pending |-> f.pending]
  BY <1>1 DEF Retain
<1> HIDE DEF kept, rec
<1>6. Retain(f, active, protected) \in [groups : [kept -> GroupRecord], pending : SUBSET Runs]
  BY <1>1, <1>4, <1>5
<1> QED BY <1>2, <1>6 DEF File

LEMMA EmptyType == Empty \in File
<1>1. Empty \in [groups : [{} -> GroupRecord], pending : SUBSET Runs]
  BY DEF Empty
<1> QED BY <1>1 DEF File

LEMMA ApplyType ==
  ASSUME NEW f \in File, NEW m \in Mutation
  PROVE  Apply(m, f) \in File
<1>1. CASE m \in [op : {"MarkSuccess"}, group : Groups, print : Prints, started : Times \ {0}]
  <2>1. Record(f, m.group) \in GroupRecord
    BY <1>1, RecordType
  <2>2. [Record(f, m.group) EXCEPT !.success = m.started, !.print = m.print, !.missing = 0] \in GroupRecord
    BY <1>1, <2>1, SucceededType
  <2> QED BY <1>1, <2>2, PutType DEF Apply, MarkSuccess
<1>2. CASE m \in [op : {"RecordRun"}, group : Groups]
  BY <1>2, RecordType, PutType DEF Apply, RecordRun
<1>3. CASE m \in [op : {"RecordPending", "ClearPending"}, id : Runs]
  <2>1. PICK G \in SUBSET Groups : f \in [groups : [G -> GroupRecord], pending : SUBSET Runs]
    BY DEF File
  <2>2. \A P \in SUBSET Runs : [f EXCEPT !.pending = P] \in File
    BY <2>1 DEF File
  <2>3. f.pending \cup {m.id} \in SUBSET Runs /\ f.pending \ {m.id} \in SUBSET Runs
    BY <1>3, <2>1
  <2>4. RecordPending(f, m.id) \in File /\ ClearPending(f, m.id) \in File
    BY <2>2, <2>3 DEF RecordPending, ClearPending
  <2> QED BY <1>3, <2>4 DEF Apply
<1>4. CASE m \in [op : {"Retain"}, active : SUBSET Groups, protected : SUBSET Groups]
  BY <1>4, RetainType DEF Apply
<1> QED BY <1>1, <1>2, <1>3, <1>4 DEF Mutation

-----------------------------------------------------------------------------
(* The inductive invariant: whoever is in the critical section holds the    *)
(* flock, knows its mutation, and has computed what it writes from what the *)
(* file still holds.                                                        *)

Critical == {"sweep", "read", "create", "rename", "publish", "unwritten"}

LockHeld == \A p \in Procs : pc[p] \in Critical => lock = p

Prepared ==
  \A p \in Procs :
    /\ pc[p] \in {"lock", "read", "create", "rename"} => mutation[p] \in Mutation
    /\ pc[p] \in {"create", "rename"} => next[p] = Apply(mutation[p], Readable(file))

IInv == TypeOK /\ LockHeld /\ Prepared /\ LiveTempKept /\ PublishedIsOnDisk

LEMMA ReadableType == TypeOK => Readable(file) \in File
  BY EmptyType DEF TypeOK, Readable

LEMMA InitIInv == Init => IInv
  BY EmptyType, ProcsAssumption
  DEF Init, IInv, TypeOK, LockHeld, Critical, Prepared, LiveTempKept, PublishedIsOnDisk, States

\* One step per action.
LEMMA TypeStep == IInv /\ [Next]_vars => TypeOK'
<1> SUFFICES ASSUME IInv, [Next]_vars PROVE TypeOK'
  OBVIOUS
<1> USE DEF IInv, TypeOK, Goto, Forget, States
<1>1. CASE UNCHANGED vars
  BY <1>1 DEF vars
<1>2. ASSUME NEW p \in Procs, Start(p) PROVE TypeOK'
  BY <1>2 DEF Start
<1>3. ASSUME NEW p \in Procs, SweepLock(p) \/ SweepLockError(p) \/ Sweep(p) PROVE TypeOK'
  BY <1>3 DEF SweepLock, SweepLockError, Sweep
<1>4. ASSUME NEW p \in Procs, Reload(p) PROVE TypeOK'
  BY <1>4, EmptyType, ReadableType DEF Reload
<1>5. ASSUME NEW p \in Procs, NEW m \in Mutation, Update(p, m) PROVE TypeOK'
  BY <1>5 DEF Update
<1>6. ASSUME NEW p \in Procs, Lock(p) \/ LockError(p) PROVE TypeOK'
  BY <1>6, EmptyType DEF Lock, LockError
<1>7. ASSUME NEW p \in Procs, ReadUnchanged(p) \/ ReadError(p) PROVE TypeOK'
  BY <1>7, EmptyType DEF ReadUnchanged, ReadError
<1>8. ASSUME NEW p \in Procs, Read(p) PROVE TypeOK'
  <2>1. Apply(mutation[p], Readable(file)) \in File
    BY <1>8, ReadableType, ApplyType DEF Read, Prepared
  <2> QED BY <1>8, <2>1 DEF Read
<1>9. ASSUME NEW p \in Procs, CreateTemp(p) \/ WriteError(p) \/ Rename(p) PROVE TypeOK'
  BY <1>9 DEF CreateTemp, WriteError, Rename
<1>10. ASSUME NEW p \in Procs, Publish(p) \/ Die(p) PROVE TypeOK'
  BY <1>10, EmptyType DEF Publish, Die
<1> QED BY <1>1, <1>2, <1>3, <1>4, <1>5, <1>6, <1>7, <1>8, <1>9, <1>10 DEF Next, Step

LEMMA ProtocolStep ==
  IInv /\ [Next]_vars => LockHeld' /\ Prepared' /\ LiveTempKept' /\ PublishedIsOnDisk'
<1> DEFINE Goal == LockHeld' /\ Prepared' /\ LiveTempKept' /\ PublishedIsOnDisk'
<1> SUFFICES ASSUME IInv, [Next]_vars PROVE Goal
  OBVIOUS
<1> USE ProcsAssumption
    DEF IInv, TypeOK, Goto, Forget, States, LockHeld, Critical, Prepared, LiveTempKept,
        PublishedIsOnDisk
<1>1. CASE UNCHANGED vars
  BY <1>1 DEF vars, Readable
<1>2. ASSUME NEW p \in Procs, Start(p) PROVE Goal
  BY <1>2 DEF Start, Readable
<1>3. ASSUME NEW p \in Procs, SweepLock(p) PROVE Goal
  BY <1>3 DEF SweepLock, Readable
<1>4. ASSUME NEW p \in Procs, SweepLockError(p) PROVE Goal
  BY <1>4 DEF SweepLockError, Readable
<1>5. ASSUME NEW p \in Procs, Sweep(p) PROVE Goal
  BY <1>5 DEF Sweep, Readable
<1>6. ASSUME NEW p \in Procs, Reload(p) PROVE Goal
  BY <1>6 DEF Reload, Readable
<1>7. ASSUME NEW p \in Procs, NEW m \in Mutation, Update(p, m) PROVE Goal
  BY <1>7 DEF Update, Readable
<1>8. ASSUME NEW p \in Procs, Lock(p) PROVE Goal
  BY <1>8 DEF Lock, Readable
<1>9. ASSUME NEW p \in Procs, LockError(p) PROVE Goal
  BY <1>9 DEF LockError, Readable
<1>10. ASSUME NEW p \in Procs, ReadUnchanged(p) \/ ReadError(p) PROVE Goal
  BY <1>10 DEF ReadUnchanged, ReadError, Readable
<1>11. ASSUME NEW p \in Procs, Read(p) PROVE Goal
  BY <1>11 DEF Read, Readable
<1>12. ASSUME NEW p \in Procs, CreateTemp(p) PROVE Goal
  BY <1>12 DEF CreateTemp, Readable
<1>13. ASSUME NEW p \in Procs, WriteError(p) PROVE Goal
  BY <1>13 DEF WriteError, Readable
<1>14. ASSUME NEW p \in Procs, Rename(p) PROVE Goal
  BY <1>14 DEF Rename, Readable
<1>15. ASSUME NEW p \in Procs, Publish(p) PROVE Goal
  BY <1>15 DEF Publish, Readable
<1>16. ASSUME NEW p \in Procs, Die(p) PROVE Goal
  BY <1>16 DEF Die, Readable
<1> QED BY <1>1, <1>2, <1>3, <1>4, <1>5, <1>6, <1>7, <1>8, <1>9, <1>10, <1>11, <1>12,
           <1>13, <1>14, <1>15, <1>16 DEF Next, Step

LEMMA InductiveInvariant == Spec => []IInv
<1>1. IInv /\ [Next]_vars => IInv'
  BY TypeStep, ProtocolStep DEF IInv
<1> QED BY InitIInv, <1>1, PTL DEF Spec

\* Every variable keeps to its values: in particular the file is always whole,
\* parseable contents or the corrupt file of the start.
THEOREM TypeCorrect == Spec => []TypeOK
<1>1. IInv => TypeOK
  BY DEF IInv
<1> QED BY InductiveInvariant, <1>1, PTL

\* A starting process never sweeps the temporary file of a live write.
THEOREM SweepSafe == Spec => []LiveTempKept
<1>1. IInv => LiveTempKept
  BY DEF IInv
<1> QED BY InductiveInvariant, <1>1, PTL

\* What a successful write puts in memory is what the disk holds.
THEOREM PublishedView == Spec => []PublishedIsOnDisk
<1>1. IInv => PublishedIsOnDisk
  BY DEF IInv
<1> QED BY InductiveInvariant, <1>1, PTL

-----------------------------------------------------------------------------
(* Only Rename touches the file, and it applies one mutation. *)

\* AtomicSchedule instantiates the same data.
LEMMA SameData ==
  /\ Atomic!File = File /\ Atomic!Empty = Empty
  /\ Atomic!Mutation = Mutation
  /\ \A m, f : Atomic!Apply(m, f) = Apply(m, f)
<1>1. Atomic!File = File /\ Atomic!Empty = Empty /\ Atomic!Mutation = Mutation
  BY DEF Atomic!File, File, Atomic!GroupRecord, GroupRecord, Atomic!Empty, Empty,
         Atomic!NoRecord, NoRecord, Atomic!Mutation, Mutation
<1>2. \A f, g, rec : Atomic!Put(f, g, rec) = Put(f, g, rec)
  BY DEF Atomic!Put, Put
<1>3. \A f, g : Atomic!Record(f, g) = Record(f, g)
  BY DEF Atomic!Record, Record, Atomic!NoRecord, NoRecord
<1>4. \A f, a, q : Atomic!Retain(f, a, q) = Retain(f, a, q)
  BY DEF Atomic!Retain, Retain, Atomic!Expired, Expired, Atomic!Seen, Seen,
         Atomic!Missed, Missed, Atomic!Capped, Capped
<1>5. \A m, f : Atomic!Apply(m, f) = Apply(m, f)
  BY <1>2, <1>3, <1>4
  DEF Atomic!Apply, Apply, Atomic!MarkSuccess, MarkSuccess, Atomic!RecordRun, RecordRun,
      Atomic!RecordPending, RecordPending, Atomic!ClearPending, ClearPending
<1> QED BY <1>1, <1>5

LEMMA RefinementStep == IInv /\ [Next]_vars => [Atomic!Next]_file
<1> SUFFICES ASSUME IInv, [Next]_vars, file' # file PROVE Atomic!Next
  OBVIOUS
<1>1. PICK p \in Procs : Rename(p)
  BY DEF Next, Step, vars, Start, SweepLock, SweepLockError, Sweep, Reload, Update, Lock,
         LockError, ReadUnchanged, Read, ReadError, CreateTemp, WriteError, Publish, Die
<1>2. mutation[p] \in Mutation /\ file' = Apply(mutation[p], Readable(file))
  BY <1>1 DEF Rename, IInv, Prepared
<1> QED BY <1>2, SameData DEF Atomic!Next, Atomic!Readable, Readable

\* No update is lost: every change of schedule.json is one mutation applied to
\* what it holds at that moment.
THEOREM Refinement == Spec => ImplementsAtomicSchedule
<1>1. Init => Atomic!Init
  BY EmptyType, SameData DEF Init, Atomic!Init
<1> QED BY <1>1, InductiveInvariant, RefinementStep, PTL
        DEF Spec, ImplementsAtomicSchedule, Atomic!Spec
=============================================================================
