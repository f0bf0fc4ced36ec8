------------------------------ MODULE Discovery ------------------------------
(***************************************************************************)
(* What a cycle discovers: internal/discovery, from the two listings of    *)
(* the container engine to a BackupState.  Label texts are parsed already: *)
(* a container carries what its flat labels or its spec say, "broken" being *)
(* anything that the parsers answer with an error.                         *)
(***************************************************************************)
EXTENDS Naturals

CONSTANTS
  Containers, Volumes, Groups,
  NoGroup, BadGroup,    \* no group label; a name that is no valid file name
  Anonymous,            \* the volumes with a generated name
  Databases             \* database entries as labelled, without their container

ASSUME DiscoveryAssumption ==
  /\ {NoGroup, BadGroup} \cap Groups = {} /\ Anonymous \subseteq Volumes
  /\ \A db \in Databases :
       /\ db.engine \in {"server", "sqlite"} /\ db.hostname \in BOOLEAN
       /\ db.volume \in Volumes /\ db.escapes \in BOOLEAN

\* What is said of a container: filter names the volumes to back up, all named
\* ones if empty; a period of 0 is none.
Said ==
  [helper : BOOLEAN, spec : {"none", "good", "broken"}, group : Groups \cup {NoGroup, BadGroup},
   enable : BOOLEAN, filter : SUBSET Volumes, dbs : SUBSET Databases, dbsBroken : BOOLEAN,
   period : Nat, periodBroken : BOOLEAN, config : BOOLEAN]

\* A listed container: what is said of it, its volumes, whether it executes.
Box == [said : Said, mounts : SUBSET Volumes, exec : BOOLEAN]

\* A listed volume.
Vol == [local : BOOLEAN, options : BOOLEAN, mounted : BOOLEAN, empty : BOOLEAN,
        readable : BOOLEAN]

-----------------------------------------------------------------------------
(* containerIntentFor, for containers that have an intent. *)

\* Dump helpers, and containers that name no group.
Skipped(box) ==
  \/ box.said.helper
  \/ box.said.spec = "none" /\ box.said.group = NoGroup

Broken(box) ==
  /\ ~Skipped(box)
  /\ \/ box.said.spec = "broken"
     \/ box.said.group \in {NoGroup, BadGroup}
     \/ box.said.dbsBroken \/ box.said.periodBroken

HasIntent(box) == ~Skipped(box) /\ ~Broken(box)

-----------------------------------------------------------------------------
(* discoverContainerVolumes. *)

Included(box) ==
  box.mounts \cap (IF box.said.filter # {} THEN box.said.filter ELSE Volumes \ Anonymous)

\* shouldSkipVolume: a volume with mount options that is an empty directory is
\* one that is mounted only while used.
ShouldSkip(vol) ==
  \/ ~vol.local
  \/ vol.options /\ ~vol.mounted /\ vol.empty
  \/ ~vol.readable

\* Claimed by the labels, whether or not the volume can be read now.
Claims(box) == IF box.said.enable THEN Included(box) ELSE {}

Readable(box, vols) == {v \in Claims(box) : v \in DOMAIN vols /\ ~ShouldSkip(vols[v])}

-----------------------------------------------------------------------------
(* finalizeDatabases, and the databases that can be dumped. *)

DatabaseBroken(db, vols) ==
  db.engine = "sqlite" /\ (db.volume \notin DOMAIN vols \/ db.escapes)

NeedsNamespace(db) == db.engine # "sqlite" /\ ~db.hostname

Dumpable(box) == {db \in box.said.dbs : box.exec \/ ~NeedsNamespace(db)}

-----------------------------------------------------------------------------
(* Discover. *)

In(g, boxes) == {c \in DOMAIN boxes : HasIntent(boxes[c]) /\ boxes[c].said.group = g}

Periods(g, boxes) == {boxes[c].said.period : c \in In(g, boxes)} \ {0}

\* One broken container, or two that disagree on a period, fail the cycle.
Refused(boxes, vols) ==
  \/ \E c \in DOMAIN boxes : Broken(boxes[c])
  \/ \E c \in DOMAIN boxes :
       HasIntent(boxes[c]) /\ \E db \in boxes[c].said.dbs : DatabaseBroken(db, vols)
  \/ \E g \in Groups : \E p, q \in Periods(g, boxes) : p # q

\* The BackupState: per group its volumes, the containers that claim each
\* volume, its databases, each with its container, and whether any container
\* contributes anything (the group is in state.Groups).
Discovered(boxes, vols) ==
  [present |-> DOMAIN boxes,
   groups |-> [g \in Groups |->
     LET members == In(g, boxes)
         found == UNION {Readable(boxes[c], vols) : c \in members}
         dbs == UNION {{c} \X Dumpable(boxes[c]) : c \in members}
     IN [vols |-> found,
         claims |-> [v \in Volumes |-> {c \in members : v \in Claims(boxes[c])}],
         dbs |-> dbs,
         known |-> found # {} \/ dbs # {} \/ Periods(g, boxes) # {}
                     \/ \E c \in members : boxes[c].said.config]]]
=============================================================================
