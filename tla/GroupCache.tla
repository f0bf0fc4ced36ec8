----------------------------- MODULE GroupCache -----------------------------
(***************************************************************************)
(* The membership of groups across cycles: containers and volumes come and *)
(* go, processes discover them and reconcile what they found with          *)
(* groups.json, which remembers the members whose container is gone.       *)
(* internal/state/groupcache.go, on what Discovery says of the listings.   *)
(*                                                                         *)
(* Label configs, periods and the time a group was last seen follow the    *)
(* live group and decide nothing here; they are left out.                  *)
(***************************************************************************)
EXTENDS Discovery

CONSTANTS
  Procs,      \* the daemon and the commands that discover
  Boxes,      \* the containers that may be created, by name
  VolStates   \* the states of a volume that exists

ASSUME GroupCacheAssumption ==
  /\ Boxes \in [Containers -> SUBSET Box]
  /\ VolStates \subseteq Vol
  /\ "nobody" \notin Procs

VARIABLES
  boxes,      \* the containers the engine has
  vols,       \* the volumes the engine has, whose paths exist
  disk,       \* groups.json
  lock,       \* who holds groups.json.lock
  pc,
  listed,     \* the volumes a process has listed
  live,       \* what it discovered
  base,       \* what it read of groups.json
  sighting    \* history: what each container claimed when last recorded

env == <<boxes, vols>>
vars == <<env, disk, lock, pc, listed, live, base, sighting>>

NoEntry == [vols |-> {}, claims |-> [v \in Volumes |-> {}], dbs |-> {}]
Entry == [vols : SUBSET Volumes, claims : [Volumes -> SUBSET Containers],
          dbs : SUBSET (Containers \X Databases)]

Nobody == "nobody"
NoVols == [v \in {} |-> 0]
Nothing == Discovered([c \in {} |-> 0], NoVols)
NoCache == [g \in Groups |-> NoEntry]

Init ==
  /\ boxes = [c \in {} |-> 0] /\ vols = NoVols
  /\ disk = NoCache /\ lock = Nobody
  /\ pc = [p \in Procs |-> "idle"]
  /\ listed = [p \in Procs |-> NoVols]
  /\ live = [p \in Procs |-> Nothing]
  /\ base = [p \in Procs |-> NoCache]
  /\ sighting = [c \in Containers |-> {}]

-----------------------------------------------------------------------------
(* Containers and volumes. *)

EngineStep == UNCHANGED <<disk, lock, pc, listed, live, base, sighting>>

\* The engine creates the named volumes that do not exist yet.
Create(c) ==
  /\ c \notin DOMAIN boxes
  /\ \E box \in Boxes[c], state \in VolStates :
       /\ boxes' = [d \in DOMAIN boxes \cup {c} |-> IF d = c THEN box ELSE boxes[d]]
       /\ vols' = [v \in DOMAIN vols \cup box.mounts |->
                     IF v \in DOMAIN vols THEN vols[v] ELSE state]
  /\ EngineStep

\* Stopped with --rm, or as a quadlet; to change its labels is to recreate it.
Remove(c) ==
  /\ c \in DOMAIN boxes
  /\ boxes' = [d \in DOMAIN boxes \ {c} |-> boxes[d]]
  /\ UNCHANGED vols /\ EngineStep

\* Stopped, paused or started again, which decides on its databases alone.
Toggle(c) ==
  /\ c \in DOMAIN boxes /\ boxes[c].said.dbs # {}
  /\ boxes' = [boxes EXCEPT ![c].exec = ~@]
  /\ UNCHANGED vols /\ EngineStep

VolumeChanges(v) ==
  /\ v \in DOMAIN vols
  /\ \E state \in VolStates \ {vols[v]} : vols' = [vols EXCEPT ![v] = state]
  /\ UNCHANGED boxes /\ EngineStep

DeleteVolume(v) ==
  /\ v \in DOMAIN vols /\ \A c \in DOMAIN boxes : v \notin boxes[c].mounts
  /\ vols' = [w \in DOMAIN vols \ {v} |-> vols[w]]
  /\ UNCHANGED boxes /\ EngineStep

\* groups.json is removed, or becomes unreadable as JSON: it counts as empty.
CacheLost ==
  /\ lock = Nobody
  /\ disk' = NoCache /\ sighting' = [c \in Containers |-> {}]
  /\ UNCHANGED <<env, lock, pc, listed, live, base>>

-----------------------------------------------------------------------------
(* A cycle's discovery. *)

Goto(p, to) == pc' = [pc EXCEPT ![p] = to]

ListVolumes(p) ==
  /\ pc[p] = "idle"
  /\ listed' = [listed EXCEPT ![p] = vols]
  /\ Goto(p, "listed")
  /\ UNCHANGED <<env, disk, lock, live, base, sighting>>

ListContainers(p) ==
  /\ pc[p] = "listed" /\ ~Refused(boxes, listed[p])
  /\ live' = [live EXCEPT ![p] = Discovered(boxes, listed[p])]
  /\ listed' = [listed EXCEPT ![p] = NoVols]
  /\ Goto(p, "discovered")
  /\ UNCHANGED <<env, disk, lock, base, sighting>>

\* What a process has done so far is forgotten.
Forget(p) ==
  /\ listed' = [listed EXCEPT ![p] = NoVols]
  /\ live' = [live EXCEPT ![p] = Nothing]
  /\ base' = [base EXCEPT ![p] = NoCache]
  /\ Goto(p, "idle")

\* A broken label, conflicting periods, an error of the engine, or a kill.
DiscoverFails(p) ==
  /\ pc[p] = "listed"
  /\ Forget(p)
  /\ UNCHANGED <<env, disk, lock, sighting>>

-----------------------------------------------------------------------------
(* Reconcile. *)

\* groups.json cannot be locked, read or replaced: the cycle goes on with the
\* members it has, and the file stays.  Or the process is killed.
ReconcileFails(p) ==
  /\ pc[p] \in {"discovered", "locked", "read"}
  /\ Forget(p)
  /\ lock' = IF lock = p THEN Nobody ELSE lock
  /\ UNCHANGED <<env, disk, sighting>>

Lock(p) ==
  /\ pc[p] = "discovered" /\ lock = Nobody
  /\ lock' = p
  /\ Goto(p, "locked")
  /\ UNCHANGED <<env, disk, listed, live, base, sighting>>

Read(p) ==
  /\ pc[p] = "locked"
  /\ base' = [base EXCEPT ![p] = disk]
  /\ Goto(p, "read")
  /\ UNCHANGED <<env, disk, lock, listed, live, sighting>>

PathExists(v) == v \in DOMAIN vols

\* mergeClaims: a present container claims what it claims now, an absent one
\* what it last claimed.
MergedClaims(now, entry, present) ==
  [v \in Volumes |-> now.claims[v] \cup (entry.claims[v] \ present)]

\* Faulty: judged on the claims as refreshed.
DeselectedRefreshed(v, now, entry, present) ==
  LET claims == MergedClaims(now, entry, present)[v]
  IN now.claims[v] = {} /\ claims # {} /\ claims \subseteq present

\* Faulty: a container that is gone claims nothing.
DeselectedIfUnclaimed(v, now, entry, present) ==
  now.claims[v] = {} /\ entry.claims[v] # {}

\* Nothing claims the volume now, and every container that did is still there.
Deselected(v, now, entry, present) ==
  now.claims[v] = {} /\ entry.claims[v] # {} /\ entry.claims[v] \subseteq present

\* Faulty: a database is known by its entry alone, whosever it is.
MergedEntryByName(now, entry, present) ==
  LET vs == now.vols \cup {v \in entry.vols : PathExists(v) /\ ~Deselected(v, now, entry, present)}
      dbs == now.dbs \cup {db \in entry.dbs : \A l \in now.dbs : l[2] # db[2]}
  IN IF vs \cup dbs = {} THEN NoEntry
     ELSE [vols |-> vs, claims |-> MergedClaims(now, entry, present), dbs |-> dbs]

\* Live members, and cached ones: volumes that have a path and were not
\* deselected, databases always.
MergedEntry(now, entry, present) ==
  LET kept == {v \in entry.vols : PathExists(v) /\ ~Deselected(v, now, entry, present)}
      members == now.vols \cup kept
      claims == [v \in Volumes |-> IF v \in entry.vols \ members
                                     THEN {} ELSE MergedClaims(now, entry, present)[v]]
      dbs == now.dbs \cup entry.dbs
  IN IF members \cup dbs = {} THEN NoEntry
     ELSE [vols |-> members, claims |-> claims, dbs |-> dbs]

Merged(p) ==
  [g \in Groups |-> MergedEntry(live[p].groups[g], base[p][g], live[p].present)]

\* A present container claims what it was seen to claim, another one what it
\* claimed when it was last recorded.
StillClaims(p, g, v, c) ==
  IF c \in live[p].present THEN c \in live[p].groups[g].claims[v] ELSE <<g, v>> \in sighting[c]

\* History: that, until the volume or the group is forgotten.
Sighted(p, g, v, c) ==
  /\ StillClaims(p, g, v, c)
  /\ v \in disk[g].vols \ live[p].groups[g].vols => PathExists(v)
  /\ disk'[g] # NoEntry

Write(p) ==
  /\ pc[p] = "read"
  /\ disk' = Merged(p)
  /\ lock' = Nobody
  /\ sighting' = [c \in Containers |-> {gv \in Groups \X Volumes : Sighted(p, gv[1], gv[2], c)}]
  /\ Forget(p)
  /\ UNCHANGED env

-----------------------------------------------------------------------------
ProcStep(p) ==
  \/ ListVolumes(p) \/ ListContainers(p) \/ DiscoverFails(p)
  \/ Lock(p) \/ Read(p) \/ Write(p) \/ ReconcileFails(p)

Next ==
  \/ \E p \in Procs : ProcStep(p)
  \/ \E c \in Containers : Create(c) \/ Remove(c) \/ Toggle(c)
  \/ \E v \in Volumes : VolumeChanges(v) \/ DeleteVolume(v)
  \/ CacheLost

Spec == Init /\ [][Next]_vars

-----------------------------------------------------------------------------
Stages == {"idle", "listed", "discovered", "locked", "read"}

TypeOK ==
  /\ DOMAIN boxes \subseteq Containers /\ \A c \in DOMAIN boxes : boxes[c] \in Box
  /\ DOMAIN vols \subseteq Volumes /\ \A v \in DOMAIN vols : vols[v] \in Vol
  /\ disk \in [Groups -> Entry] /\ base \in [Procs -> [Groups -> Entry]]
  /\ pc \in [Procs -> Stages]
  /\ lock \in Procs \cup {Nobody}
  /\ \A p \in Procs : pc[p] \in {"locked", "read"} <=> lock = p
  /\ \A g \in Groups : disk[g].vols \cup disk[g].dbs = {} => disk[g] = NoEntry
  /\ sighting \in [Containers -> SUBSET (Groups \X Volumes)]
  /\ \A p \in Procs : live[p].present \subseteq Containers

\* "A multi-container group whose app container stops must not lose the
\* volumes that container contributed" (CachedGroup): whatever another process
\* wrote meanwhile, and however often containers and volumes came and went, a
\* volume of the group is kept as long as its path exists and somebody claims
\* it: a container that is there and does, readable or not, or one that is
\* gone and did.
OwnedIsKept ==
  \A p \in Procs, g \in Groups : pc[p] = "read" =>
    \A v \in disk[g].vols :
      PathExists(v) /\ (\E c \in Containers : StillClaims(p, g, v, c)) => v \in Merged(p)[g].vols

\* "That is a deliberate removal, so it is dropped" (CachedGroup): no volume
\* stays in the cache for ever because nobody is left who could let go of it.
NothingKeptForever ==
  \A g \in Groups : \A v \in disk[g].vols : \E c \in Containers : <<g, v>> \in sighting[c]

\* "Conflating them would silently drop the stopped container's database from
\* tracking" (dbKey), and "the daemon and an ad-hoc command cannot erase each
\* other's entries" (GroupCache): what either ever recorded of a database stays.
DatabasesKept ==
  \A p \in Procs, g \in Groups : pc[p] = "read" => disk[g].dbs \subseteq Merged(p)[g].dbs

=============================================================================
