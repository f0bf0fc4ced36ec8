---------------------------- MODULE ExclusiveRuns ----------------------------
(***************************************************************************)
(* What run locking promises, with no lock in sight: a backup or a restore *)
(* becomes active over a set of resources (its group, its repositories,    *)
(* the snapshot facility, a volume), and does so only while no other       *)
(* active one uses any of them.  RunLocks is shown to implement it.        *)
(***************************************************************************)
CONSTANTS Workers,    \* backups and restores that may become active
          Key         \* the resources

VARIABLE active       \* the resources each worker is using

Init == active = [w \in Workers |-> {}]

\* K may be any set of resources nobody uses.
Begin(w) ==
  /\ active[w] = {}
  /\ \E K \in SUBSET Key :
       /\ \A v \in Workers \ {w} : active[v] \cap K = {}
       /\ active' = [active EXCEPT ![w] = K]

End(w) == active' = [active EXCEPT ![w] = {}]

\* A process dies: several workers stop at once.
EndAll(S) == active' = [w \in Workers |-> IF w \in S THEN {} ELSE active[w]]

Next ==
  \/ \E w \in Workers : Begin(w) \/ End(w)
  \/ \E S \in SUBSET Workers : EndAll(S)

Spec == Init /\ [][Next]_active
=============================================================================
