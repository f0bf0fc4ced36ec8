--------------------------- MODULE RunLocks_proofs ---------------------------
(***************************************************************************)
(* RunLocks for any processes, groups, repositories, volumes and           *)
(* generations: mutual exclusion, and that RunLocks implements             *)
(* ExclusiveRuns.                                                          *)
(***************************************************************************)
EXTENDS RunLocks, TLAPS

\* What each program counter says of the locks held.  Exclusion of runs needs
\* that a running worker holds the flock of every key it wants; that siblings
\* never skip needs that flocks are held only under the semaphores.
HeldInv ==
  /\ \A v, w \in Workers : v # w => flockHeld[v] \cap flockHeld[w] = {}
  /\ \A v, w \in Workers :
       v # w /\ ProcOf[v] = ProcOf[w] => semHeld[v] \cap semHeld[w] = {}
  /\ \A w \in Workers : flockHeld[w] \subseteq want[w]
  /\ \A w \in Workers : pc[w] = "running" => flockHeld[w] = want[w]
  /\ \A w \in Workers : pc[w] \in {"idle", "sems"} => flockHeld[w] = {}
  /\ \A w \in Workers : pc[w] = "idle" => semHeld[w] = {}
  /\ \A w \in Workers :
       pc[w] = "sems" => w \in Backups
  /\ \A w \in Backups :
       pc[w] \in {"flocks", "running"} => want[w] \subseteq semHeld[w]
  /\ \A w \in Backups : flockHeld[w] \subseteq semHeld[w]
  /\ \A w \in Backups :
       pc[w] \in {"sems", "flocks", "running"} => GroupLockKey(GroupOf[w]) \in want[w]

IInv == TypeOK /\ HeldInv

\* The keys of a call are lock keys.
LEMMA RunKeysType ==
  ASSUME NEW g \in Groups, NEW meta \in Meta
  PROVE  /\ RunKeys(g, meta) \subseteq Key
         /\ GroupLockKey(g) \in RunKeys(g, meta)
  BY DEF RunKeys, Key, Meta

LEMMA RestoreKeysType ==
  ASSUME NEW plan \in RestorePlan
  PROVE  RestoreKeys(plan) \subseteq Key
  BY DEF RestoreKeys, Key, RestorePlan

\* Every step keeps the types.
LEMMA TypeStep ==
  ASSUME TypeOK, [Next]_vars
  PROVE  TypeOK'
<1> USE DEF TypeOK, States
<1>1. ASSUME NEW w \in Workers, Call(w) PROVE TypeOK'
  <2>1. PICK meta \in Metas[GroupOf[w]] :
          /\ want' = [want EXCEPT ![w] = RunKeys(GroupOf[w], meta)]
          /\ semHeld' = [semHeld EXCEPT ![w] = {GroupLockKey(GroupOf[w])}]
          /\ pc' \in {[pc EXCEPT ![w] = "flocks"], [pc EXCEPT ![w] = "sems"]}
    BY <1>1 DEF Call, Goto
  <2>2. GroupOf[w] \in Groups /\ meta \in Meta
    BY <1>1, WorkersAssumption DEF Call
  <2>3. RunKeys(GroupOf[w], meta) \subseteq Key /\ GroupLockKey(GroupOf[w]) \in Key
    BY <2>2, RunKeysType
  <2>4. QED BY <1>1, <2>1, <2>3 DEF Call
<1>2. ASSUME NEW w \in Workers, StartRestore(w) PROVE TypeOK'
  <2>1. PICK plan \in RestorePlans : want' = [want EXCEPT ![w] = RestoreKeys(plan)]
    BY <1>2 DEF StartRestore
  <2>2. RestoreKeys(plan) \subseteq Key
    BY RestoreKeysType, WorkersAssumption
  <2>3. QED BY <1>2, <2>1, <2>2 DEF StartRestore, Goto
<1>3. ASSUME NEW w \in Workers, TakeSem(w) \/ TakeFlock(w) PROVE TypeOK'
  BY <1>3 DEF TakeSem, TakeFlock, Goto
<1>4. ASSUME NEW w \in Workers,
             CancelSem(w) \/ FlockHeldElsewhere(w) \/ FlockError(w) \/ Finish(w)
      PROVE TypeOK'
  BY <1>4 DEF CancelSem, FlockHeldElsewhere, FlockError, Finish, Goto
<1>5. ASSUME NEW w \in Workers, ReleaseFlock(w) \/ ReleaseSem(w) \/ Return(w)
      PROVE TypeOK'
  BY <1>5 DEF ReleaseFlock, ReleaseSem, Return, Goto
<1>6. ASSUME NEW p \in Procs, Cancel(p) \/ Die(p) PROVE TypeOK'
  BY <1>6 DEF Cancel, Die
<1>7. CASE UNCHANGED vars
  BY <1>7 DEF vars
<1>8. QED BY <1>1, <1>2, <1>3, <1>4, <1>5, <1>6, <1>7 DEF Next, Step

\* Type correctness of run locking.
THEOREM TypeCorrect == Spec => []TypeOK
<1>1. Init => TypeOK
  BY DEF Init, TypeOK, States
<1>2. TypeOK /\ [Next]_vars => TypeOK'
  BY TypeStep
<1>3. QED BY <1>1, <1>2, PTL DEF Spec

\* Every step keeps HeldInv.
LEMMA HeldStep ==
  ASSUME IInv, [Next]_vars
  PROVE  HeldInv'
<1> USE DEF IInv, TypeOK, HeldInv
<1>t. TypeOK'
  BY TypeStep
<1>w. Backups \subseteq Workers
  BY DEF Workers
<1>1. ASSUME NEW w \in Workers, Call(w) PROVE HeldInv'
  <2>1. PICK meta \in Metas[GroupOf[w]] :
          /\ want' = [want EXCEPT ![w] = RunKeys(GroupOf[w], meta)]
          /\ semHeld' = [semHeld EXCEPT ![w] = {GroupLockKey(GroupOf[w])}]
          /\ pc' = [pc EXCEPT ![w] =
                      IF RunKeys(GroupOf[w], meta) = {GroupLockKey(GroupOf[w])}
                        THEN "flocks" ELSE "sems"]
    BY <1>1 DEF Call, Goto
  <2>2. GroupOf[w] \in Groups /\ meta \in Meta
    BY <1>1, WorkersAssumption DEF Call
  <2>3. GroupLockKey(GroupOf[w]) \in RunKeys(GroupOf[w], meta)
    BY <2>2, RunKeysType
  <2>4. /\ w \in Backups /\ pc[w] = "idle" /\ flockHeld' = flockHeld
        /\ \A v \in Workers :
             v # w /\ ProcOf[v] = ProcOf[w] => GroupLockKey(GroupOf[w]) \notin semHeld[v]
    BY <1>1 DEF Call, SemFree, Siblings
  <2> DEFINE gk == GroupLockKey(GroupOf[w])
             keys == RunKeys(GroupOf[w], meta)
  <2>5. gk \in keys /\ want' = [want EXCEPT ![w] = keys] /\ semHeld' = [semHeld EXCEPT ![w] = {gk}]
        /\ pc' = [pc EXCEPT ![w] = IF keys = {gk} THEN "flocks" ELSE "sems"]
        /\ gk = GroupLockKey(GroupOf[w])
        /\ \A v \in Workers : v # w /\ ProcOf[v] = ProcOf[w] => gk \notin semHeld[v]
    BY <2>1, <2>3, <2>4
  <2> HIDE DEF gk, keys
  <2>6. \A v, u \in Workers :
          v # u /\ ProcOf[v] = ProcOf[u] => semHeld'[v] \cap semHeld'[u] = {}
    BY <2>5
  <2>7. flockHeld[w] = {}
    BY <2>4, <1>w
  <2>8. QED BY <1>t, <1>w, <2>4, <2>5, <2>6, <2>7
<1>2. ASSUME NEW w \in Workers, TakeSem(w) PROVE HeldInv'
  <2>1. PICK k \in want[w] :
          /\ SemFree(w, k)
          /\ semHeld' = [semHeld EXCEPT ![w] = @ \cup {k}]
          /\ pc' = [pc EXCEPT ![w] =
                      IF want[w] \subseteq semHeld[w] \cup {k} THEN "flocks" ELSE "sems"]
    BY <1>2 DEF TakeSem, Goto
  <2>2. /\ pc[w] = "sems" /\ want' = want /\ flockHeld' = flockHeld
        /\ w \in Backups /\ flockHeld[w] = {}
    BY <1>2 DEF TakeSem
  <2>3. \A v \in Workers : v # w /\ ProcOf[v] = ProcOf[w] => k \notin semHeld[v]
    BY <2>1 DEF SemFree, Siblings
  <2>4. \A v, u \in Workers :
          v # u /\ ProcOf[v] = ProcOf[u] => semHeld'[v] \cap semHeld'[u] = {}
    BY <2>1, <2>3
  <2>5. QED BY <1>t, <1>w, <2>1, <2>2, <2>4
<1>3. ASSUME NEW w \in Workers, StartRestore(w) PROVE HeldInv'
  <2>1. w \in Restores /\ w \notin Backups
    BY <1>3, WorkersAssumption DEF StartRestore
  <2>2. QED BY <1>3, <1>t, <1>w, <2>1 DEF StartRestore, Goto
<1>4. ASSUME NEW w \in Workers, TakeFlock(w) PROVE HeldInv'
  <2>1. PICK k \in want[w] :
          /\ FlockFree(w, k)
          /\ flockHeld' = [flockHeld EXCEPT ![w] = @ \cup {k}]
          /\ pc' = [pc EXCEPT ![w] =
                      IF want[w] \subseteq flockHeld[w] \cup {k} THEN "running" ELSE "flocks"]
    BY <1>4 DEF TakeFlock, Goto
  <2>2. pc[w] = "flocks" /\ want' = want /\ semHeld' = semHeld
    BY <1>4 DEF TakeFlock
  <2>3. \A v, u \in Workers : v # u => flockHeld'[v] \cap flockHeld'[u] = {}
    BY <2>1 DEF FlockFree
  <2>4. QED BY <1>t, <1>w, <2>1, <2>2, <2>3
<1>5. ASSUME NEW w \in Workers,
             CancelSem(w) \/ FlockHeldElsewhere(w) \/ FlockError(w) \/ Finish(w)
      PROVE HeldInv'
  BY <1>5, <1>t, <1>w DEF CancelSem, FlockHeldElsewhere, FlockError, Finish, Goto
<1>6. ASSUME NEW w \in Workers, ReleaseFlock(w) PROVE HeldInv'
  BY <1>6, <1>t, <1>w DEF ReleaseFlock
<1>7. ASSUME NEW w \in Workers, ReleaseSem(w) PROVE HeldInv'
  BY <1>7, <1>t, <1>w DEF ReleaseSem
<1>8. ASSUME NEW w \in Workers, Return(w) PROVE HeldInv'
  BY <1>8, <1>t, <1>w DEF Return, Goto
<1>9. ASSUME NEW p \in Procs, Cancel(p) PROVE HeldInv'
  BY <1>9, <1>t, <1>w DEF Cancel
<1>10. ASSUME NEW p \in Procs, Die(p) PROVE HeldInv'
  BY <1>10, <1>t, <1>w DEF Die
<1>11. CASE UNCHANGED vars
  BY <1>11 DEF vars
<1>12. QED
  BY <1>1, <1>2, <1>3, <1>4, <1>5, <1>6, <1>7, <1>8, <1>9, <1>10, <1>11 DEF Next, Step

LEMMA InductiveInvariant == Spec => []IInv
<1>1. Init => IInv
  BY DEF Init, IInv, TypeOK, HeldInv, States, Workers
<1>2. IInv /\ [Next]_vars => IInv'
  BY TypeStep, HeldStep DEF IInv
<1>3. QED BY <1>1, <1>2, PTL DEF Spec

\* No two runs or restores that share a repository, a group, a volume or the
\* snapshot facility are ever under way at once.
THEOREM Exclusion == Spec => []RunsExclusive
<1>1. IInv => RunsExclusive
  BY DEF IInv, HeldInv, RunsExclusive
<1>2. QED BY <1>1, InductiveInvariant, PTL

\* A group is never backed up twice at once, nor during a restore of a volume
\* it backs up, whatever repositories each process generated for it.
THEOREM GroupExclusion == Spec => []GroupExclusive
<1>1. ASSUME IInv, NEW v \in Backups, NEW w \in Workers,
             pc[v] = "running", pc[w] = "running", v # w
      PROVE  ~UsesGroup(w, GroupOf[v])
  <2>1. v \in Workers
    BY DEF Workers
  <2>2. want[v] \cap want[w] = {} /\ GroupLockKey(GroupOf[v]) \in want[v]
    BY <1>1, <2>1 DEF IInv, HeldInv
  <2>3. CASE w \in Backups
    <3>1. GroupLockKey(GroupOf[w]) \in want[w]
      BY <1>1, <2>3 DEF IInv, HeldInv
    <3>2. QED BY <2>2, <2>3, <3>1 DEF UsesGroup
  <2>4. CASE w \notin Backups
    BY <2>2, <2>4 DEF UsesGroup
  <2>5. QED BY <2>3, <2>4
<1>2. IInv => GroupExclusive
  BY <1>1 DEF GroupExclusive
<1>3. QED BY <1>2, InductiveInvariant, PTL

\* A run is never turned away because of another run of its own process.
THEOREM SiblingsSerialize == Spec => []SiblingsNeverSkip
<1>1. ASSUME IInv, NEW v \in Workers, NEW w \in Workers,
             pc[w] = "flocks", v # w, ProcOf[v] = ProcOf[w]
      PROVE  want[w] \cap flockHeld[v] = {}
  <2>1. v \in Backups /\ w \in Backups
    BY <1>1, RestoreProcsAssumption DEF Workers
  <2>2. want[w] \subseteq semHeld[w] /\ flockHeld[v] \subseteq semHeld[v]
    BY <1>1, <2>1 DEF IInv, HeldInv
  <2>3. semHeld[v] \cap semHeld[w] = {}
    BY <1>1 DEF IInv, HeldInv
  <2>4. QED BY <2>2, <2>3
<1>2. IInv => SiblingsNeverSkip
  BY <1>1 DEF SiblingsNeverSkip
<1>3. QED BY <1>2, InductiveInvariant, PTL

\* An idle worker holds nothing.
THEOREM NoLeak == Spec => []NothingLeaks
<1>1. IInv => NothingLeaks
  BY DEF IInv, HeldInv, NothingLeaks
<1>2. QED BY <1>1, InductiveInvariant, PTL

\* Run locking implements the abstract exclusion: only the last flock begins a
\* run there, only its return or its process's death ends one.
THEOREM Refinement == Spec => ImplementsExclusiveRuns
<1> DEFINE act == [w \in Workers |-> IF pc[w] = "running" THEN want[w] ELSE {}]
<1>1. Init => Abstract!Init
  BY DEF Init, Abstract!Init
<1>2. ASSUME IInv, IInv', [Next]_vars
      PROVE  [Abstract!Next]_act
  <2> USE DEF IInv, TypeOK
  <2>1. ASSUME NEW w \in Workers, TakeFlock(w) PROVE Abstract!Begin(w) \/ UNCHANGED act
    <3>1. pc[w] = "flocks" /\ want' = want /\ act[w] = {}
      BY <2>1 DEF TakeFlock
    <3>2. CASE pc'[w] = "running"
      <4>1. pc' = [pc EXCEPT ![w] = "running"]
        BY <2>1, <3>2, <1>2 DEF TakeFlock, Goto
      <4>2. act' = [act EXCEPT ![w] = want[w]]
        BY <3>1, <4>1, <1>2
      <4>3. \A v \in Workers \ {w} : act[v] \cap want[w] = {}
        <5> SUFFICES ASSUME NEW v \in Workers, v # w, pc[v] = "running"
                     PROVE  want[v] \cap want[w] = {}
          OBVIOUS
        <5>1. pc'[v] = "running"
          BY <4>1, <1>2
        <5>2. flockHeld'[v] = want'[v] /\ flockHeld'[w] = want'[w]
          BY <5>1, <3>2, <1>2 DEF HeldInv
        <5>3. QED BY <5>2, <3>1, <1>2 DEF HeldInv
      <4>4. want[w] \in SUBSET Key
        BY <1>2
      <4>5. QED BY <3>1, <4>2, <4>3, <4>4 DEF Abstract!Begin
    <3>3. CASE pc'[w] # "running"
      BY <2>1, <3>1, <3>3, <1>2 DEF TakeFlock, Goto
    <3>4. QED BY <3>2, <3>3
  <2>2. ASSUME NEW w \in Workers, Finish(w) PROVE Abstract!End(w)
    BY <2>2, <1>2 DEF Finish, Goto, Abstract!End
  <2>3. ASSUME NEW p \in Procs, Die(p)
        PROVE  Abstract!EndAll({w \in Workers : ProcOf[w] = p})
    BY <2>3, <1>2 DEF Die, Abstract!EndAll
  <2>4. ASSUME NEW w \in Workers,
               Call(w) \/ TakeSem(w) \/ CancelSem(w) \/ StartRestore(w)
        PROVE  UNCHANGED act
    BY <2>4, <1>2 DEF Call, TakeSem, CancelSem, StartRestore, Goto
  <2>5. ASSUME NEW w \in Workers,
               FlockHeldElsewhere(w) \/ FlockError(w) \/ ReleaseFlock(w)
                 \/ ReleaseSem(w) \/ Return(w)
        PROVE  UNCHANGED act
    BY <2>5, <1>2 DEF FlockHeldElsewhere, FlockError, ReleaseFlock, ReleaseSem, Return, Goto
  <2>6. ASSUME NEW p \in Procs, Cancel(p) PROVE UNCHANGED act
    BY <2>6 DEF Cancel
  <2>7. CASE UNCHANGED vars
    BY <2>7 DEF vars
  <2>8. ASSUME NEW p \in Procs PROVE {w \in Workers : ProcOf[w] = p} \in SUBSET Workers
    OBVIOUS
  <2>9. QED
    BY <1>2, <2>1, <2>2, <2>3, <2>4, <2>5, <2>6, <2>7, <2>8 DEF Next, Step, Abstract!Next
<1>3. QED
  BY <1>1, <1>2, InductiveInvariant, PTL DEF Spec, Abstract!Spec, ImplementsExclusiveRuns
=============================================================================
