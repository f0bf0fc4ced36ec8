-------------------------- MODULE GroupCache_proofs --------------------------
(***************************************************************************)
(* Proofs about GroupCache, for any number of processes and whatever       *)
(* containers, volumes and labels there are: types, that a volume somebody *)
(* claims is kept, that none is kept without a claim, and that no database *)
(* of a stopped container is forgotten.                                    *)
(***************************************************************************)
EXTENDS GroupCache, TLAPS

\* What the engine has.
EngineOK ==
  /\ DOMAIN boxes \subseteq Containers /\ \A c \in DOMAIN boxes : boxes[c] \in Box
  /\ DOMAIN vols \subseteq Volumes /\ \A v \in DOMAIN vols : vols[v] \in Vol

\* Only the holder of the lock is past it, and what it has read is on disk still.
Locking ==
  /\ pc \in [Procs -> Stages]
  /\ lock \in Procs \cup {Nobody}
  /\ \A p \in Procs : pc[p] \in {"locked", "read"} <=> lock = p
  /\ \A p \in Procs : pc[p] = "read" => base[p] = disk

\* A member of a group, as discovered or recorded: what is a volume of the
\* group has somebody who claims it.
Member(x) == x \in Entry /\ \A v \in x.vols : x.claims[v] # {}

\* What was discovered: only present containers claim anything.
Seen(d) ==
  /\ d.present \subseteq Containers
  /\ \A g \in Groups :
       /\ d.groups[g].vols \subseteq Volumes
       /\ d.groups[g].claims \in [Volumes -> SUBSET d.present]
       /\ d.groups[g].dbs \subseteq Containers \X Databases
       /\ \A v \in d.groups[g].vols : d.groups[g].claims[v] # {}

LiveOK == DOMAIN live = Procs /\ \A p \in Procs : Seen(live[p])

Files ==
  /\ disk \in [Groups -> Entry] /\ base \in [Procs -> [Groups -> Entry]]
  /\ \A g \in Groups : disk[g].vols \cup disk[g].dbs = {} => disk[g] = NoEntry
  /\ \A g \in Groups : \A v \in disk[g].vols : disk[g].claims[v] # {}

\* The claims on disk are those the containers were last seen to make.
Tracks ==
  /\ sighting \in [Containers -> SUBSET (Groups \X Volumes)]
  /\ \A g \in Groups, v \in Volumes, c \in Containers :
       <<g, v>> \in sighting[c] <=> c \in disk[g].claims[v]

-----------------------------------------------------------------------------
LEMMA NoEntryOK == NoEntry \in Entry /\ NoEntry.vols = {} /\ NoEntry.dbs = {}
                   /\ \A v \in Volumes : NoEntry.claims[v] = {}
  BY DEF NoEntry, Entry

\* Whatever containers there are, what is discovered of them is as LiveOK says.
LEMMA DiscoveredOK ==
  ASSUME NEW bs, DOMAIN bs \subseteq Containers, \A c \in DOMAIN bs : bs[c] \in Box,
         NEW vs, NEW g \in Groups
  PROVE  LET d == Discovered(bs, vs) IN
         /\ d.present = DOMAIN bs
         /\ d.groups[g].vols \subseteq Volumes
         /\ d.groups[g].claims \in [Volumes -> SUBSET DOMAIN bs]
         /\ d.groups[g].dbs \subseteq Containers \X Databases
         /\ \A v \in d.groups[g].vols : d.groups[g].claims[v] # {}
<1> DEFINE members == In(g, bs)
           found == UNION {Readable(bs[c], vs) : c \in members}
           claims == [v \in Volumes |-> {c \in members : v \in Claims(bs[c])}]
           dbs == UNION {{c} \X Dumpable(bs[c]) : c \in members}
           d == Discovered(bs, vs)
<1>1. members \subseteq DOMAIN bs
  BY DEF In
<1>2. ASSUME NEW c \in members
      PROVE  /\ Readable(bs[c], vs) \subseteq Claims(bs[c])
             /\ Claims(bs[c]) \subseteq Volumes
             /\ Dumpable(bs[c]) \subseteq Databases
  <2>1. bs[c] \in Box
    BY <1>1, <1>2
  <2>2. bs[c].mounts \subseteq Volumes /\ bs[c].said \in Said
    BY <2>1 DEF Box
  <2>3. bs[c].said.dbs \subseteq Databases
    BY <2>2 DEF Said
  <2> QED BY <2>2, <2>3 DEF Readable, Claims, Included, Dumpable
<1>3. found \subseteq Volumes
  BY <1>2
<1>4. claims \in [Volumes -> SUBSET DOMAIN bs]
  BY <1>1
<1>5. dbs \subseteq Containers \X Databases
  BY <1>1, <1>2
<1>6. \A v \in found : claims[v] # {}
  <2> TAKE v \in found
  <2>1. PICK c \in members : v \in Readable(bs[c], vs)
    OBVIOUS
  <2>2. v \in Claims(bs[c]) /\ v \in Volumes
    BY <1>2, <2>1
  <2>3. c \in claims[v]
    BY <2>2
  <2> QED BY <2>3
<1>7. d.present = DOMAIN bs
  BY DEF Discovered
<1>8. d.groups[g].vols = found /\ d.groups[g].claims = claims /\ d.groups[g].dbs = dbs
  BY DEF Discovered
<1> HIDE DEF found, claims, dbs, d
<1> QED BY <1>3, <1>4, <1>5, <1>6, <1>7, <1>8 DEF d

LEMMA SeenDiscovered ==
  ASSUME NEW bs, DOMAIN bs \subseteq Containers, \A c \in DOMAIN bs : bs[c] \in Box, NEW vs
  PROVE  Seen(Discovered(bs, vs))
<1>1. Discovered(bs, vs).present = DOMAIN bs
  BY DEF Discovered
<1> QED BY <1>1, DiscoveredOK DEF Seen

LEMMA SeenNothing == Seen(Nothing)
<1>1. DOMAIN [c \in {} |-> 0] = {}
  OBVIOUS
<1> QED BY <1>1, SeenDiscovered DEF Nothing

LEMMA BaseOK == NoCache \in [Groups -> Entry]
  BY NoEntryOK DEF NoCache

-----------------------------------------------------------------------------
(* What a merge yields. *)

\* The members of a merged entry are live or kept, and its claims are those of
\* present containers now and of absent ones before.
LEMMA MergedOK ==
  ASSUME Files, LiveOK, NEW p \in Procs, NEW g \in Groups, base[p] = disk
  PROVE  LET m == Merged(p)[g]
             now == live[p].groups[g]
             entry == disk[g]
             present == live[p].present
             members == now.vols \cup {v \in entry.vols : PathExists(v) /\ ~Deselected(v, now, entry, present)}
         IN /\ m \in Entry
            /\ m.vols = members /\ m.dbs = now.dbs \cup entry.dbs
            /\ m.vols \cup m.dbs = {} <=> m = NoEntry
            /\ m.vols \cup m.dbs # {} => \A v \in Volumes :
                 m.claims[v] = IF v \in entry.vols \ members THEN {}
                               ELSE now.claims[v] \cup (entry.claims[v] \ present)
<1> DEFINE now == live[p].groups[g]
           entry == disk[g]
           present == live[p].present
           members == now.vols \cup {v \in entry.vols : PathExists(v) /\ ~Deselected(v, now, entry, present)}
           dbs == now.dbs \cup entry.dbs
           claims == [v \in Volumes |-> IF v \in entry.vols \ members THEN {}
                                        ELSE now.claims[v] \cup (entry.claims[v] \ present)]
           m == Merged(p)[g]
<1>1. m = IF members \cup dbs = {} THEN NoEntry
          ELSE [vols |-> members, claims |-> claims, dbs |-> dbs]
  BY DEF Merged, MergedEntry, MergedClaims
<1>2. entry \in Entry
  BY DEF Files
<1>3. entry.vols \subseteq Volumes /\ entry.claims \in [Volumes -> SUBSET Containers]
      /\ entry.dbs \subseteq Containers \X Databases
  BY <1>2 DEF Entry
<1>4. now.vols \subseteq Volumes /\ now.claims \in [Volumes -> SUBSET present]
      /\ now.dbs \subseteq Containers \X Databases /\ present \subseteq Containers
  BY DEF LiveOK, Seen
<1>5. members \subseteq Volumes /\ dbs \subseteq Containers \X Databases
  BY <1>3, <1>4
<1>6. \A v \in Volumes : now.claims[v] \cup (entry.claims[v] \ present) \subseteq Containers
  BY <1>3, <1>4
<1>7. claims \in [Volumes -> SUBSET Containers]
  BY <1>6
<1>8. \A v \in Volumes : claims[v] = IF v \in entry.vols \ members THEN {}
                                     ELSE now.claims[v] \cup (entry.claims[v] \ present)
  OBVIOUS
<1> HIDE DEF now, entry, present, members, dbs, claims, m
<1>9. CASE members \cup dbs = {}
  <2>1. members = {} /\ dbs = {} /\ m = NoEntry
    BY <1>1, <1>9
  <2> QED BY <2>1, NoEntryOK DEF m, now, entry, present, members, dbs
<1>10. CASE members \cup dbs # {}
  <2>1. m = [vols |-> members, claims |-> claims, dbs |-> dbs]
    BY <1>1, <1>10
  <2>2. m \in Entry
    BY <1>5, <1>7, <2>1 DEF Entry
  <2>3. m.vols = members /\ m.dbs = dbs /\ m.claims = claims
    BY <2>1
  <2>4. m # NoEntry
    BY <1>10, <2>3, NoEntryOK
  <2> QED BY <1>8, <1>10, <2>2, <2>3, <2>4 DEF m, now, entry, present, members, dbs
<1> QED BY <1>9, <1>10

-----------------------------------------------------------------------------
(* The steps. *)

LEMMA NextEngine == EngineOK /\ [Next]_vars => EngineOK'
<1> USE DEF EngineOK, env
<1>1. ASSUME EngineOK, NEW p \in Procs, ListVolumes(p) PROVE EngineOK'
  BY <1>1 DEF ListVolumes, Goto
<1>2. ASSUME EngineOK, NEW p \in Procs, ListContainers(p) PROVE EngineOK'
  BY <1>2 DEF ListContainers, Goto
<1>3. ASSUME EngineOK, NEW p \in Procs, DiscoverFails(p) PROVE EngineOK'
  BY <1>3 DEF DiscoverFails, Forget, Goto
<1>4. ASSUME EngineOK, NEW p \in Procs, Lock(p) PROVE EngineOK'
  BY <1>4 DEF Lock, Goto
<1>5. ASSUME EngineOK, NEW p \in Procs, Read(p) PROVE EngineOK'
  BY <1>5 DEF Read, Goto
<1>6. ASSUME EngineOK, NEW p \in Procs, Write(p) PROVE EngineOK'
  BY <1>6 DEF Write, Forget, Goto
<1>7. ASSUME EngineOK, NEW p \in Procs, ReconcileFails(p) PROVE EngineOK'
  BY <1>7 DEF ReconcileFails, Forget, Goto
<1>8. ASSUME EngineOK, NEW c \in Containers, Create(c) PROVE EngineOK'
  <2>1. PICK box \in Boxes[c], state \in VolStates :
          /\ boxes' = [d \in DOMAIN boxes \cup {c} |-> IF d = c THEN box ELSE boxes[d]]
          /\ vols' = [v \in DOMAIN vols \cup box.mounts |->
                        IF v \in DOMAIN vols THEN vols[v] ELSE state]
    BY <1>8 DEF Create
  <2>2. box \in Box /\ state \in Vol
    BY <2>1, GroupCacheAssumption
  <2>3. box.mounts \subseteq Volumes
    BY <2>2 DEF Box
  <2> QED BY <1>8, <2>1, <2>2, <2>3
<1>9. ASSUME EngineOK, NEW c \in Containers, Remove(c) PROVE EngineOK'
  BY <1>9 DEF Remove, EngineStep
<1>10. ASSUME EngineOK, NEW c \in Containers, Toggle(c) PROVE EngineOK'
  <2>1. boxes' = [boxes EXCEPT ![c].exec = ~@] /\ UNCHANGED vols /\ c \in DOMAIN boxes
    BY <1>10 DEF Toggle
  <2>2. boxes'[c] = [boxes[c] EXCEPT !.exec = ~@] /\ boxes[c] \in Box
    BY <1>10, <2>1
  <2>3. boxes'[c] \in Box
    <3>1. boxes[c].exec \in BOOLEAN
      BY <2>2 DEF Box
    <3>2. (~boxes[c].exec) \in BOOLEAN
      OBVIOUS
    <3> QED BY <2>2, <3>2 DEF Box
  <2> QED BY <1>10, <2>1, <2>3
<1>11. ASSUME EngineOK, NEW v \in Volumes, VolumeChanges(v) PROVE EngineOK'
  <2>1. PICK state \in VolStates : vols' = [vols EXCEPT ![v] = state]
    BY <1>11 DEF VolumeChanges
  <2>2. state \in Vol /\ UNCHANGED boxes
    BY <1>11, <2>1, GroupCacheAssumption DEF VolumeChanges
  <2> QED BY <1>11, <2>1, <2>2
<1>12. ASSUME EngineOK, NEW v \in Volumes, DeleteVolume(v) PROVE EngineOK'
  BY <1>12 DEF DeleteVolume, EngineStep
<1>13. ASSUME EngineOK, CacheLost PROVE EngineOK'
  BY <1>13 DEF CacheLost
<1>14. ASSUME EngineOK, UNCHANGED vars PROVE EngineOK'
  BY <1>14 DEF vars
<1> QED
  BY <1>1, <1>2, <1>3, <1>4, <1>5, <1>6, <1>7, <1>8, <1>9, <1>10, <1>11, <1>12, <1>13,
     <1>14 DEF Next, ProcStep

LEMMA NobodyIsNone == Nobody \notin Procs
  BY GroupCacheAssumption DEF Nobody

LEMMA NextLocking == Locking /\ Files /\ [Next]_vars => Locking'
<1> USE DEF Locking, env, Stages
<1>1. ASSUME Locking, Files, NEW p \in Procs, ListVolumes(p) PROVE Locking'
  BY <1>1 DEF ListVolumes, Goto
<1>2. ASSUME Locking, Files, NEW p \in Procs, ListContainers(p) PROVE Locking'
  BY <1>2 DEF ListContainers, Goto
<1>3. ASSUME Locking, Files, NEW p \in Procs, DiscoverFails(p) PROVE Locking'
  <2>1. pc' = [pc EXCEPT ![p] = "idle"] /\ pc[p] = "listed" /\ base' = [base EXCEPT ![p] = NoCache]
        /\ UNCHANGED <<lock, disk>> /\ DOMAIN base = Procs
    BY <1>3 DEF DiscoverFails, Forget, Goto, Files
  <2> QED BY <1>3, <2>1
<1>4. ASSUME Locking, Files, NEW p \in Procs, Lock(p) PROVE Locking'
  <2>1. pc' = [pc EXCEPT ![p] = "locked"] /\ lock = Nobody /\ lock' = p /\ UNCHANGED <<disk, base>>
    BY <1>4 DEF Lock, Goto
  <2> QED BY <1>4, <2>1, NobodyIsNone
<1>5. ASSUME Locking, Files, NEW p \in Procs, Read(p) PROVE Locking'
  <2>1. pc' = [pc EXCEPT ![p] = "read"] /\ pc[p] = "locked" /\ base' = [base EXCEPT ![p] = disk]
        /\ UNCHANGED <<lock, disk>> /\ DOMAIN base = Procs
    BY <1>5 DEF Read, Goto, Files
  <2> QED BY <1>5, <2>1
<1>6. ASSUME Locking, Files, NEW p \in Procs, Write(p) PROVE Locking'
  <2>1. pc' = [pc EXCEPT ![p] = "idle"] /\ pc[p] = "read" /\ lock' = Nobody /\ lock = p
    BY <1>6 DEF Write, Forget, Goto
  <2>2. \A q \in Procs : pc'[q] \notin {"locked", "read"}
    BY <1>6, <2>1
  <2> QED BY <1>6, <2>1, <2>2, NobodyIsNone
<1>7. ASSUME Locking, Files, NEW p \in Procs, ReconcileFails(p) PROVE Locking'
  <2>1. pc' = [pc EXCEPT ![p] = "idle"] /\ base' = [base EXCEPT ![p] = NoCache]
        /\ lock' = (IF lock = p THEN Nobody ELSE lock) /\ UNCHANGED disk /\ DOMAIN base = Procs
    BY <1>7 DEF ReconcileFails, Forget, Goto, Files
  <2> QED BY <1>7, <2>1, NobodyIsNone
<1>8. ASSUME Locking, Files, NEW c \in Containers, Create(c) PROVE Locking'
  BY <1>8 DEF Create, EngineStep
<1>9. ASSUME Locking, Files, NEW c \in Containers, Remove(c) PROVE Locking'
  BY <1>9 DEF Remove, EngineStep
<1>10. ASSUME Locking, Files, NEW c \in Containers, Toggle(c) PROVE Locking'
  BY <1>10 DEF Toggle, EngineStep
<1>11. ASSUME Locking, Files, NEW v \in Volumes, VolumeChanges(v) PROVE Locking'
  BY <1>11 DEF VolumeChanges, EngineStep
<1>12. ASSUME Locking, Files, NEW v \in Volumes, DeleteVolume(v) PROVE Locking'
  BY <1>12 DEF DeleteVolume, EngineStep
<1>13. ASSUME Locking, Files, CacheLost PROVE Locking'
  <2>1. \A p \in Procs : pc[p] \notin {"locked", "read"}
    BY <1>13, NobodyIsNone DEF CacheLost
  <2> QED BY <1>13, <2>1 DEF CacheLost
<1>14. ASSUME Locking, Files, UNCHANGED vars PROVE Locking'
  BY <1>14 DEF vars
<1> QED
  BY <1>1, <1>2, <1>3, <1>4, <1>5, <1>6, <1>7, <1>8, <1>9, <1>10, <1>11, <1>12, <1>13,
     <1>14 DEF Next, ProcStep

LEMMA NextLive == EngineOK /\ LiveOK /\ [Next]_vars => LiveOK'
<1> USE DEF LiveOK, env
<1>1. ASSUME EngineOK, LiveOK, NEW p \in Procs, ListVolumes(p) PROVE LiveOK'
  BY <1>1 DEF ListVolumes, Goto
<1>2. ASSUME EngineOK, LiveOK, NEW p \in Procs, ListContainers(p) PROVE LiveOK'
  <2>1. live' = [live EXCEPT ![p] = Discovered(boxes, listed[p])]
    BY <1>2 DEF ListContainers
  <2>2. DOMAIN boxes \subseteq Containers /\ \A c \in DOMAIN boxes : boxes[c] \in Box
    BY <1>2 DEF EngineOK
  <2> QED BY <1>2, <2>1, <2>2, SeenDiscovered
<1>3. ASSUME EngineOK, LiveOK, NEW p \in Procs, DiscoverFails(p) PROVE LiveOK'
  <2>1. live' = [live EXCEPT ![p] = Nothing]
    BY <1>3 DEF DiscoverFails, Forget
  <2> QED BY <1>3, <2>1, SeenNothing
<1>4. ASSUME EngineOK, LiveOK, NEW p \in Procs, Lock(p) PROVE LiveOK'
  BY <1>4 DEF Lock, Goto
<1>5. ASSUME EngineOK, LiveOK, NEW p \in Procs, Read(p) PROVE LiveOK'
  BY <1>5 DEF Read, Goto
<1>6. ASSUME EngineOK, LiveOK, NEW p \in Procs, Write(p) PROVE LiveOK'
  <2>1. live' = [live EXCEPT ![p] = Nothing]
    BY <1>6 DEF Write, Forget
  <2> QED BY <1>6, <2>1, SeenNothing
<1>7. ASSUME EngineOK, LiveOK, NEW p \in Procs, ReconcileFails(p) PROVE LiveOK'
  <2>1. live' = [live EXCEPT ![p] = Nothing]
    BY <1>7 DEF ReconcileFails, Forget
  <2> QED BY <1>7, <2>1, SeenNothing
<1>8. ASSUME EngineOK, LiveOK, NEW c \in Containers, Create(c) PROVE LiveOK'
  BY <1>8 DEF Create, EngineStep
<1>9. ASSUME EngineOK, LiveOK, NEW c \in Containers, Remove(c) PROVE LiveOK'
  BY <1>9 DEF Remove, EngineStep
<1>10. ASSUME EngineOK, LiveOK, NEW c \in Containers, Toggle(c) PROVE LiveOK'
  BY <1>10 DEF Toggle, EngineStep
<1>11. ASSUME EngineOK, LiveOK, NEW v \in Volumes, VolumeChanges(v) PROVE LiveOK'
  BY <1>11 DEF VolumeChanges, EngineStep
<1>12. ASSUME EngineOK, LiveOK, NEW v \in Volumes, DeleteVolume(v) PROVE LiveOK'
  BY <1>12 DEF DeleteVolume, EngineStep
<1>13. ASSUME EngineOK, LiveOK, CacheLost PROVE LiveOK'
  BY <1>13 DEF CacheLost
<1>14. ASSUME EngineOK, LiveOK, UNCHANGED vars PROVE LiveOK'
  BY <1>14 DEF vars
<1> QED
  BY <1>1, <1>2, <1>3, <1>4, <1>5, <1>6, <1>7, <1>8, <1>9, <1>10, <1>11, <1>12, <1>13,
     <1>14 DEF Next, ProcStep

\* What a merge writes is a cache, and every volume of it has a claim.
LEMMA MergedClaimed ==
  ASSUME Files, LiveOK, NEW p \in Procs, base[p] = disk, NEW g \in Groups,
         NEW v \in Merged(p)[g].vols
  PROVE  Merged(p)[g].claims[v] # {}
<1> DEFINE m == Merged(p)[g]
           now == live[p].groups[g]
           entry == disk[g]
           present == live[p].present
           members == now.vols \cup {w \in entry.vols : PathExists(w) /\ ~Deselected(w, now, entry, present)}
<1>0. /\ m \in Entry /\ m.vols = members
      /\ m.vols \cup m.dbs # {} => \A w \in Volumes :
           m.claims[w] = IF w \in entry.vols \ members THEN {}
                         ELSE now.claims[w] \cup (entry.claims[w] \ present)
  BY MergedOK
<1>1. /\ v \in m.vols
      /\ v \in now.vols \/ (v \in entry.vols /\ ~Deselected(v, now, entry, present))
      /\ v \in Volumes
      /\ m.claims[v] = now.claims[v] \cup (entry.claims[v] \ present)
  <2>1. v \in m.vols /\ m.vols \subseteq Volumes
    BY <1>0 DEF Entry
  <2>2. v \in members
    BY <1>0, <2>1
  <2>3. v \in now.vols \/ (v \in entry.vols /\ ~Deselected(v, now, entry, present))
    BY <2>2
  <2> HIDE DEF m, now, entry, present, members
  <2>4. m.vols \cup m.dbs # {} /\ v \in Volumes
    BY <2>1
  <2> QED BY <1>0, <2>1, <2>2, <2>3, <2>4
<1>2. v \in now.vols => now.claims[v] # {}
  BY DEF LiveOK, Seen
<1>3. v \in entry.vols => entry.claims[v] # {}
  BY DEF Files
<1> HIDE DEF m, now, entry, present
<1> QED BY <1>1, <1>2, <1>3 DEF Deselected, m

LEMMA NextFiles == Locking /\ LiveOK /\ Files /\ [Next]_vars => Files'
<1> USE DEF Files
<1>1. ASSUME Locking, LiveOK, Files, NEW p \in Procs, ListVolumes(p) PROVE Files'
  BY <1>1 DEF ListVolumes
<1>2. ASSUME Locking, LiveOK, Files, NEW p \in Procs, ListContainers(p) PROVE Files'
  BY <1>2 DEF ListContainers
<1>3. ASSUME Locking, LiveOK, Files, NEW p \in Procs, DiscoverFails(p) PROVE Files'
  <2>1. base' = [base EXCEPT ![p] = NoCache] /\ UNCHANGED disk
    BY <1>3 DEF DiscoverFails, Forget
  <2> QED BY <1>3, <2>1, BaseOK
<1>4. ASSUME Locking, LiveOK, Files, NEW p \in Procs, Lock(p) PROVE Files'
  BY <1>4 DEF Lock
<1>5. ASSUME Locking, LiveOK, Files, NEW p \in Procs, Read(p) PROVE Files'
  <2>1. base' = [base EXCEPT ![p] = disk] /\ UNCHANGED disk
    BY <1>5 DEF Read
  <2> QED BY <1>5, <2>1
<1>6. ASSUME Locking, LiveOK, Files, NEW p \in Procs, Write(p) PROVE Files'
  <2>1. base' = [base EXCEPT ![p] = NoCache] /\ disk' = Merged(p) /\ base[p] = disk
    BY <1>6 DEF Write, Forget, Locking
  <2>2. base' \in [Procs -> [Groups -> Entry]]
    BY <1>6, <2>1, BaseOK
  <2>3. DOMAIN Merged(p) = Groups /\ Merged(p) = [g \in Groups |-> Merged(p)[g]]
    BY DEF Merged
  <2>4. \A g \in Groups : Merged(p)[g] \in Entry
    BY <1>6, <2>1, MergedOK
  <2>5. disk' \in [Groups -> Entry]
    BY <2>1, <2>3, <2>4
  <2>6. \A g \in Groups : disk'[g].vols \cup disk'[g].dbs = {} => disk'[g] = NoEntry
    BY <1>6, <2>1, MergedOK
  <2>7. \A g \in Groups : \A v \in disk'[g].vols : disk'[g].claims[v] # {}
    BY <1>6, <2>1, MergedClaimed
  <2> QED BY <2>2, <2>5, <2>6, <2>7
<1>7. ASSUME Locking, LiveOK, Files, NEW p \in Procs, ReconcileFails(p) PROVE Files'
  <2>1. base' = [base EXCEPT ![p] = NoCache] /\ UNCHANGED disk
    BY <1>7 DEF ReconcileFails, Forget
  <2> QED BY <1>7, <2>1, BaseOK
<1>8. ASSUME Locking, LiveOK, Files, NEW c \in Containers, Create(c) PROVE Files'
  BY <1>8 DEF Create, EngineStep
<1>9. ASSUME Locking, LiveOK, Files, NEW c \in Containers, Remove(c) PROVE Files'
  BY <1>9 DEF Remove, EngineStep
<1>10. ASSUME Locking, LiveOK, Files, NEW c \in Containers, Toggle(c) PROVE Files'
  BY <1>10 DEF Toggle, EngineStep
<1>11. ASSUME Locking, LiveOK, Files, NEW v \in Volumes, VolumeChanges(v) PROVE Files'
  BY <1>11 DEF VolumeChanges, EngineStep
<1>12. ASSUME Locking, LiveOK, Files, NEW v \in Volumes, DeleteVolume(v) PROVE Files'
  BY <1>12 DEF DeleteVolume, EngineStep
<1>13. ASSUME Locking, LiveOK, Files, CacheLost PROVE Files'
  <2>1. disk' = NoCache /\ UNCHANGED base
    BY <1>13 DEF CacheLost
  <2> QED BY <1>13, <2>1, BaseOK, NoEntryOK DEF NoCache
<1>14. ASSUME Locking, LiveOK, Files, UNCHANGED vars PROVE Files'
  BY <1>14 DEF vars
<1> QED
  BY <1>1, <1>2, <1>3, <1>4, <1>5, <1>6, <1>7, <1>8, <1>9, <1>10, <1>11, <1>12, <1>13,
     <1>14 DEF Next, ProcStep

LEMMA NextTracks == Locking /\ LiveOK /\ Files /\ Tracks /\ [Next]_vars => Tracks'
<1> USE DEF Tracks
<1>1. ASSUME Locking, LiveOK, Files, Tracks, NEW p \in Procs, ListVolumes(p) PROVE Tracks'
  BY <1>1 DEF ListVolumes
<1>2. ASSUME Locking, LiveOK, Files, Tracks, NEW p \in Procs, ListContainers(p) PROVE Tracks'
  BY <1>2 DEF ListContainers
<1>3. ASSUME Locking, LiveOK, Files, Tracks, NEW p \in Procs, DiscoverFails(p) PROVE Tracks'
  BY <1>3 DEF DiscoverFails, Forget
<1>4. ASSUME Locking, LiveOK, Files, Tracks, NEW p \in Procs, Lock(p) PROVE Tracks'
  BY <1>4 DEF Lock
<1>5. ASSUME Locking, LiveOK, Files, Tracks, NEW p \in Procs, Read(p) PROVE Tracks'
  BY <1>5 DEF Read
<1>6. ASSUME Locking, LiveOK, Files, Tracks, NEW p \in Procs, Write(p) PROVE Tracks'
  <2>1. /\ base[p] = disk /\ disk' = Merged(p) /\ UNCHANGED vols
        /\ sighting' = [c \in Containers |->
                          {gv \in Groups \X Volumes : Sighted(p, gv[1], gv[2], c)}]
    BY <1>6 DEF Write, Locking, env
  <2>2. ASSUME NEW g \in Groups, NEW v \in Volumes, NEW c \in Containers
        PROVE  Sighted(p, g, v, c) <=> c \in disk'[g].claims[v]
    <3> DEFINE now == live[p].groups[g]
               entry == disk[g]
               present == live[p].present
               m == Merged(p)[g]
               members == now.vols \cup {w \in entry.vols : PathExists(w) /\ ~Deselected(w, now, entry, present)}
    <3>1. StillClaims(p, g, v, c) <=> IF c \in present THEN c \in now.claims[v] ELSE c \in entry.claims[v]
      BY <1>6 DEF StillClaims
    <3>2. now.claims[v] \subseteq present
      BY <1>6 DEF LiveOK, Seen
    <3>3. disk'[g] = m
      BY <2>1
    <3>4. m.vols = members /\ (m # NoEntry => m.claims[v] =
            IF v \in entry.vols \ members THEN {} ELSE now.claims[v] \cup (entry.claims[v] \ present))
      <4>1. /\ m.vols = members
            /\ m.vols \cup m.dbs = {} <=> m = NoEntry
            /\ m.vols \cup m.dbs # {} => \A w \in Volumes :
                 m.claims[w] = IF w \in entry.vols \ members THEN {}
                               ELSE now.claims[w] \cup (entry.claims[w] \ present)
        BY <1>6, <2>1, MergedOK
      <4> HIDE DEF m, now, entry, present, members
      <4> QED BY <2>2, <4>1
    <3>5. Sighted(p, g, v, c) <=> /\ StillClaims(p, g, v, c)
                                  /\ v \in entry.vols \ now.vols => PathExists(v)
                                  /\ m # NoEntry
      BY <3>3 DEF Sighted
    <3>6. v \in entry.vols => (v \in members <=> v \in now.vols \/ (PathExists(v) /\ ~Deselected(v, now, entry, present)))
      OBVIOUS
    <3>7. now.vols \subseteq members
      OBVIOUS
    <3>8. Deselected(v, now, entry, present) <=>
            now.claims[v] = {} /\ entry.claims[v] # {} /\ entry.claims[v] \subseteq present
      BY DEF Deselected
    <3> HIDE DEF now, entry, present, m, members
    <3>9. CASE m = NoEntry
      BY <3>3, <3>5, <3>9, NoEntryOK
    <3>10. CASE m # NoEntry /\ v \in entry.vols \ members
      <4>1. v \notin now.vols /\ (~PathExists(v) \/ Deselected(v, now, entry, present))
        BY <3>6, <3>10
      <4>2. ~Sighted(p, g, v, c)
        BY <3>1, <3>5, <3>8, <3>10, <4>1
      <4> QED BY <3>3, <3>4, <3>10, <4>2
    <3>11. CASE m # NoEntry /\ v \notin entry.vols \ members
      <4>1. v \in entry.vols \ now.vols => PathExists(v)
        BY <3>6, <3>11
      <4>2. Sighted(p, g, v, c) <=> StillClaims(p, g, v, c)
        BY <3>5, <3>11, <4>1
      <4>3. c \in m.claims[v] <=> c \in now.claims[v] \/ (c \in entry.claims[v] /\ c \notin present)
        BY <3>4, <3>11
      <4> QED BY <3>1, <3>2, <3>3, <4>2, <4>3
    <3> QED BY <3>9, <3>10, <3>11
  <2>3. \A g \in Groups, v \in Volumes, c \in Containers :
          <<g, v>> \in sighting'[c] <=> Sighted(p, g, v, c)
    BY <2>1
  <2>4. sighting' \in [Containers -> SUBSET (Groups \X Volumes)]
    BY <2>1
  <2> QED BY <2>2, <2>3, <2>4
<1>7. ASSUME Locking, LiveOK, Files, Tracks, NEW p \in Procs, ReconcileFails(p) PROVE Tracks'
  BY <1>7 DEF ReconcileFails, Forget
<1>8. ASSUME Locking, LiveOK, Files, Tracks, NEW c \in Containers, Create(c) PROVE Tracks'
  BY <1>8 DEF Create, EngineStep
<1>9. ASSUME Locking, LiveOK, Files, Tracks, NEW c \in Containers, Remove(c) PROVE Tracks'
  BY <1>9 DEF Remove, EngineStep
<1>10. ASSUME Locking, LiveOK, Files, Tracks, NEW c \in Containers, Toggle(c) PROVE Tracks'
  BY <1>10 DEF Toggle, EngineStep
<1>11. ASSUME Locking, LiveOK, Files, Tracks, NEW v \in Volumes, VolumeChanges(v) PROVE Tracks'
  BY <1>11 DEF VolumeChanges, EngineStep
<1>12. ASSUME Locking, LiveOK, Files, Tracks, NEW v \in Volumes, DeleteVolume(v) PROVE Tracks'
  BY <1>12 DEF DeleteVolume, EngineStep
<1>13. ASSUME Locking, LiveOK, Files, Tracks, CacheLost PROVE Tracks'
  <2>1. disk' = NoCache /\ sighting' = [c \in Containers |-> {}]
    BY <1>13 DEF CacheLost
  <2> QED BY <1>13, <2>1, NoEntryOK DEF NoCache
<1>14. ASSUME Locking, LiveOK, Files, Tracks, UNCHANGED vars PROVE Tracks'
  BY <1>14 DEF vars
<1> QED
  BY <1>1, <1>2, <1>3, <1>4, <1>5, <1>6, <1>7, <1>8, <1>9, <1>10, <1>11, <1>12, <1>13,
     <1>14 DEF Next, ProcStep

-----------------------------------------------------------------------------
(* The inductive invariant: what is read is what is on disk while the lock is
   held, and the claims on disk are those last seen. *)
IInv == EngineOK /\ Locking /\ Files /\ LiveOK /\ Tracks

LEMMA InitIInv == Init => IInv
<1> SUFFICES ASSUME Init PROVE IInv
  OBVIOUS
<1>1. EngineOK
  BY DEF Init, EngineOK, NoVols
<1>2. Locking
  BY NobodyIsNone DEF Init, Locking, Stages
<1>3. Files
  BY BaseOK, NoEntryOK DEF Init, Files, NoCache
<1>4. LiveOK
  BY SeenNothing DEF Init, LiveOK
<1>5. Tracks
  BY NoEntryOK DEF Init, Tracks, NoCache
<1> QED BY <1>1, <1>2, <1>3, <1>4, <1>5 DEF IInv

LEMMA NextIInv == IInv /\ [Next]_vars => IInv'
  BY NextEngine, NextLocking, NextFiles, NextLive, NextTracks DEF IInv

LEMMA Invariant == Spec => []IInv
  BY InitIInv, NextIInv, PTL DEF Spec

\* Every variable keeps to its values, and only the holder of the lock is past
\* it (groupcache.go:160-173).
THEOREM TypeCorrect == Spec => []TypeOK
<1>1. IInv => TypeOK
  BY DEF IInv, EngineOK, Locking, Files, LiveOK, Seen, Tracks, TypeOK
<1> QED BY <1>1, Invariant, PTL

\* A volume that somebody claims is kept, whatever else the cycle saw
\* (groupcache.go:195-236).
THEOREM Owned == Spec => []OwnedIsKept
<1>1. IInv => OwnedIsKept
  <2> SUFFICES ASSUME IInv, NEW p \in Procs, NEW g \in Groups, pc[p] = "read",
                      NEW v \in disk[g].vols, PathExists(v),
                      NEW c \in Containers, StillClaims(p, g, v, c)
               PROVE  v \in Merged(p)[g].vols
    BY DEF OwnedIsKept
  <2> DEFINE now == live[p].groups[g]
             entry == disk[g]
             present == live[p].present
  <2>1. base[p] = disk /\ v \in Volumes
    BY DEF IInv, Locking, Files, Entry
  <2>2. IF c \in present THEN c \in now.claims[v] ELSE c \in entry.claims[v]
    BY <2>1 DEF StillClaims, IInv, Tracks
  <2>3. ~Deselected(v, now, entry, present)
    BY <2>2 DEF Deselected
  <2>4. Merged(p)[g].vols = now.vols \cup {w \in entry.vols : PathExists(w) /\ ~Deselected(w, now, entry, present)}
    BY <2>1, MergedOK DEF IInv
  <2> QED BY <2>3, <2>4
<1> QED BY <1>1, Invariant, PTL

\* No volume stays in the cache without a container that claimed it when last
\* seen, and so could let go of it (groupcache.go:286-323).
THEOREM Claimed == Spec => []NothingKeptForever
<1>1. IInv => NothingKeptForever
  <2> SUFFICES ASSUME IInv, NEW g \in Groups, NEW v \in disk[g].vols
               PROVE  \E c \in Containers : <<g, v>> \in sighting[c]
    BY DEF NothingKeptForever
  <2>1. v \in Volumes /\ disk[g].claims[v] # {} /\ disk[g].claims[v] \subseteq Containers
    BY DEF IInv, Files, Entry
  <2> QED BY <2>1 DEF IInv, Tracks
<1> QED BY <1>1, Invariant, PTL

\* What was recorded of a database stays recorded (groupcache.go:334-353).
THEOREM Databased == Spec => []DatabasesKept
<1>1. IInv => DatabasesKept
  <2> SUFFICES ASSUME IInv, NEW p \in Procs, NEW g \in Groups, pc[p] = "read"
               PROVE  disk[g].dbs \subseteq Merged(p)[g].dbs
    BY DEF DatabasesKept
  <2>1. base[p] = disk
    BY DEF IInv, Locking
  <2>2. Merged(p)[g].dbs = live[p].groups[g].dbs \cup disk[g].dbs
    BY <2>1, MergedOK DEF IInv
  <2> QED BY <2>2
<1> QED BY <1>1, Invariant, PTL
=============================================================================
