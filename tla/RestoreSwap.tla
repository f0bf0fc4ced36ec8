----------------------------- MODULE RestoreSwap -----------------------------
(***************************************************************************)
(* RestoreSwap: a mirror restore extracts beside the volume's data         *)
(* directory and only then swaps the two, atomically where the filesystem  *)
(* can exchange two directories, by a pair of renames where it cannot.     *)
(* The manager may be killed between any two steps and every system call   *)
(* may fail; the next restore first repairs and clears what was left.      *)
(* Ownership of a directory is an extended attribute, which belongs to the *)
(* inode and moves with it; setting and clearing it is best effort, and an *)
(* attribute that cannot be read counts as none.  Containers do not write  *)
(* in the meantime.                                                        *)
(***************************************************************************)
EXTENDS FiniteSets

CONSTANTS
  Procs, NoProc,
  Target,             \* the resolved data directory of the volume
  Staging, Old, Kept, \* names MkdirTemp can make with each prefix
  Volumes,            \* whole, non-empty contents
  Empty, Partial, Foreign, None,
  Originals,          \* what the volume may hold before any restore
  Archives            \* what restores may restore

Names == {Target} \cup Staging \cup Old \cup Kept
Whole == Volumes \cup {Empty}
Data == Whole \cup {Partial, Foreign}
Dir == [data : Data, marked : BOOLEAN]
NoDir == [data |-> None, marked |-> FALSE]

ASSUME RestoreSwapAssumption ==
  /\ NoProc \notin Procs
  /\ None \notin Data \cup Names
  /\ {Empty, Partial, Foreign} \cap Volumes = {}
  /\ Cardinality({Empty, Partial, Foreign}) = 3
  /\ Originals \subseteq Whole /\ Archives \subseteq Whole
  /\ Target \notin Staging \cup Old \cup Kept
  /\ Staging \cap Old = {} /\ Kept \cap (Staging \cup Old) = {}

VARIABLES
  exchanges, \* whether the filesystem can exchange two directories
  dir,       \* the directory under each name
  holder,    \* who holds the restore lock of Target
  pc, archive, staging, displaced,  \* per process
  \* History: the contents of the last swap, those it replaced if it was not
  \* flushed since, the names others use, whether the volume was moved aside with
  \* a warning, and whether recovery has put back another copy since the swap.
  live, owed, foreign, warned, misled

history == <<live, owed, foreign, warned, misled>>
vars == <<exchanges, dir, holder, pc, archive, staging, displaced, history>>

Init ==
  /\ exchanges \in BOOLEAN
  /\ foreign \in SUBSET (Staging \cup Old)
  /\ live \in Originals /\ owed = None
  /\ warned = FALSE /\ misled = FALSE
  /\ dir = [n \in Names |-> IF n = Target THEN [data |-> live, marked |-> FALSE]
                            ELSE IF n \in foreign THEN [data |-> Foreign, marked |-> FALSE]
                            ELSE NoDir]
  /\ holder = NoProc
  /\ pc = [p \in Procs |-> "idle"]
  /\ archive = [p \in Procs |-> None]
  /\ staging = [p \in Procs |-> None]
  /\ displaced = [p \in Procs |-> None]

-----------------------------------------------------------------------------
Present(n) == dir[n] # NoDir
Free(names) == {n \in names : ~Present(n)}

\* Faulty: the name is the evidence.
OursByName(names) == {n \in names : Present(n)}

\* siblingsWithPrefix and provablyOurs: a name is no evidence, the mark is.
\* What cannot be read counts as not ours.
Ours(names) == {n \in names : Present(n) /\ dir[n].marked}
OursEmpty(names) == {n \in Ours(names) : dir[n].data = Empty}
WithData(names) == Ours(names) \ OursEmpty(names)

Fresh == [data |-> Empty, marked |-> FALSE]
Marked(d) == [d EXCEPT !.marked = TRUE]
Unmarked(d) == [d EXCEPT !.marked = FALSE]

\* markAsOurs and removeXattr: any call may fail, and the caller goes on.
MayMark(n) == dir' \in {dir, [dir EXCEPT ![n] = Marked(@)]}
MayUnmark(n) == dir' \in {dir, [dir EXCEPT ![n] = Unmarked(@)]}

\* Faulty: the mark stays with the name instead of the inode.
MovedWithoutMark(from, to) ==
  [dir EXCEPT ![to] = dir[from], ![from] = [NoDir EXCEPT !.marked = dir[from].marked]]

Moved(from, to) == [dir EXCEPT ![to] = dir[from], ![from] = NoDir]

Goto(p, s) == pc' = [pc EXCEPT ![p] = s]

\* The restore returns or dies: the lock goes with the process.
Leave(p) ==
  /\ Goto(p, "idle")
  /\ holder' = NoProc
  /\ archive' = [archive EXCEPT ![p] = None]
  /\ staging' = [staging EXCEPT ![p] = None]
  /\ displaced' = [displaced EXCEPT ![p] = None]

Stay == UNCHANGED <<exchanges, holder, archive, staging, displaced, history>>

-----------------------------------------------------------------------------
(* runRestoreVolume: the lock, the recovery, the leftovers. *)

Start(p, a) ==
  /\ pc[p] = "idle" /\ holder = NoProc
  /\ holder' = p
  /\ archive' = [archive EXCEPT ![p] = a]
  /\ Goto(p, "recover")
  /\ UNCHANGED <<exchanges, dir, staging, displaced, history>>

\* recoverInterruptedSwap, the volume in place: an empty directory of ours is a
\* name that was reserved and not used; one with data stays.
RemoveReservation(p) ==
  /\ pc[p] = "recover" /\ Present(Target)
  /\ \E m \in OursEmpty(Old) : dir' = [dir EXCEPT ![m] = NoDir]
  /\ UNCHANGED pc /\ Stay

NothingToRecover(p) ==
  /\ pc[p] = "recover"
  /\ IF Present(Target) THEN OursEmpty(Old) = {} ELSE Ours(Old) = {}
  /\ Goto(p, "clear")
  /\ UNCHANGED dir /\ Stay

\* For the history: a copy of the missing volume that recovery can tell.
Evident == \E m \in WithData(Old) : dir[m].data = live

\* The volume is missing: the one displaced directory goes back.  Emptiness
\* matters only when there is a choice.
PutBackDisplaced(p) ==
  /\ pc[p] = "recover" /\ ~Present(Target)
  /\ \E m \in Ours(Old) :
       /\ WithData(Old) \subseteq {m}
       /\ dir' = Moved(m, Target)
       /\ live' = IF Evident THEN live ELSE dir[m].data
  /\ misled' = (misled \/ live' # live) /\ warned' = FALSE
  /\ Goto(p, "flushback")
  /\ UNCHANGED <<exchanges, holder, archive, staging, displaced, owed, foreign>>

\* More than one displaced copy holds data: for the operator to choose.
Ambiguous == ~Present(Target) /\ \E m, n \in WithData(Old) : m # n

RefuseToChoose(p) ==
  /\ pc[p] = "recover" /\ Ambiguous
  /\ Leave(p)
  /\ UNCHANGED <<exchanges, dir, history>>

FlushPutBack(p) ==
  /\ pc[p] = "flushback"
  /\ Goto(p, "unmarkback")
  /\ owed' = None
  /\ UNCHANGED <<exchanges, dir, holder, archive, staging, displaced, live, foreign, warned, misled>>

UnmarkPutBack(p) ==
  /\ pc[p] = "unmarkback"
  /\ MayUnmark(Target)
  /\ Goto(p, "reclaim")
  /\ Stay

\* The other directories of ours are empty; some may resist removal.
Reclaim(p) ==
  /\ pc[p] = "reclaim"
  /\ \E removed \in SUBSET OursEmpty(Old) :
       dir' = [n \in Names |-> IF n \in removed THEN NoDir ELSE dir[n]]
  /\ Goto(p, "clear")
  /\ Stay

\* clearStagingLeftovers.
ClearLeftover(p) ==
  /\ pc[p] = "clear"
  /\ \E s \in Ours(Staging) : dir' = [dir EXCEPT ![s] = NoDir]
  /\ UNCHANGED pc /\ Stay

\* Part of the tree resists: the restore stops.
ClearLeftoverFails(p) ==
  /\ pc[p] = "clear"
  /\ \E s \in Ours(Staging) : dir' = [dir EXCEPT ![s].data = Partial]
  /\ Leave(p)
  /\ UNCHANGED <<exchanges, history>>

\* checkVolumeDataDir.
LeftoversCleared(p) ==
  /\ pc[p] = "clear"
  /\ Ours(Staging) = {} /\ Present(Target)
  /\ Goto(p, "stage")
  /\ UNCHANGED dir /\ Stay

\* An error before staging exists: the volume as it was.
Abandon(p) ==
  /\ pc[p] \in {"recover", "flushback", "clear", "stage"}
  /\ Leave(p)
  /\ UNCHANGED <<exchanges, dir, history>>

-----------------------------------------------------------------------------
(* restoreWithSwap up to the swap. *)

\* createStagingLike: the directory exists before it is marked.
CreateStaging(p) ==
  /\ pc[p] = "stage"
  /\ \E s \in Free(Staging) :
       /\ dir' = [dir EXCEPT ![s] = Fresh]
       /\ staging' = [staging EXCEPT ![p] = s]
  /\ Goto(p, "mark")
  /\ UNCHANGED <<exchanges, holder, archive, displaced, history>>

MarkStaging(p) ==
  /\ pc[p] = "mark"
  /\ MayMark(staging[p])
  /\ Goto(p, "extract")
  /\ Stay

Extract(p) ==
  /\ pc[p] = "extract"
  /\ dir' = [dir EXCEPT ![staging[p]].data = Partial]
  /\ Goto(p, "extracting")
  /\ Stay

Extracted(p) ==
  /\ pc[p] = "extracting"
  /\ dir' = [dir EXCEPT ![staging[p]].data = archive[p]]
  /\ Goto(p, "flushstaged")
  /\ Stay

\* Success, and nothing extracted though the archive has something.
ExtractedNothing(p) ==
  /\ pc[p] = "extracting" /\ archive[p] # Empty
  /\ dir' = [dir EXCEPT ![staging[p]].data = Empty]
  /\ Goto(p, "discard")
  /\ Stay

\* syncStagedData flushes the whole filesystem.
FlushStaged(p) ==
  /\ pc[p] = "flushstaged"
  /\ Goto(p, "check")
  /\ owed' = None
  /\ UNCHANGED <<exchanges, dir, holder, archive, staging, displaced, live, foreign, warned, misled>>

\* Faulty: a failed extract goes on.
StageFailsIgnored(p) ==
  /\ pc[p] \in {"mark", "extract", "extracting", "flushstaged"}
  /\ Goto(p, "check")
  /\ UNCHANGED dir /\ Stay

\* Setting up, extracting, or flushing fails.
StageFails(p) ==
  /\ pc[p] \in {"mark", "extract", "extracting", "flushstaged"}
  /\ Goto(p, "discard")
  /\ UNCHANGED dir /\ Stay

StillSafe(p) ==
  /\ pc[p] = "check"
  /\ Goto(p, "claim")
  /\ UNCHANGED dir /\ Stay

\* A container uses the volume by now: the finished extract is kept.
NotSafe(p) ==
  /\ pc[p] = "check"
  /\ Goto(p, "keep")
  /\ UNCHANGED dir /\ Stay

\* The deferred cleanup; part of the tree may resist.
Discard(p) ==
  /\ pc[p] = "discard"
  /\ dir' \in {[dir EXCEPT ![staging[p]] = NoDir],
               [dir EXCEPT ![staging[p]].data = Partial]}
  /\ Leave(p)
  /\ UNCHANGED <<exchanges, history>>

\* retainOrWarn: to a name of its own, or it stays where it is.
Retain(p) ==
  /\ pc[p] \in {"keep", "retain"}
  /\ LET from == IF pc[p] = "keep" THEN staging[p] ELSE displaced[p]
     IN \/ \E k \in Free(Kept) : dir' = Moved(from, k) /\ owed' \in {owed, None}
        \/ UNCHANGED <<dir, owed>>
  /\ Leave(p)
  /\ UNCHANGED <<exchanges, live, foreign, warned, misled>>

-----------------------------------------------------------------------------
(* swapIntoPlace and swapByRenamePair. *)

\* The directories that have just traded places, or followed one another.
Swapped(p) ==
  /\ live' = dir[staging[p]].data
  /\ owed' = live
  /\ warned' = FALSE /\ misled' = FALSE
  /\ UNCHANGED foreign

ClaimTarget(p) ==
  /\ pc[p] = "claim"
  /\ MayMark(Target)
  /\ Goto(p, "exchange")
  /\ Stay

Exchange(p) ==
  /\ pc[p] = "exchange" /\ exchanges
  /\ dir' = [dir EXCEPT ![Target] = dir[staging[p]], ![staging[p]] = dir[Target]]
  /\ displaced' = [displaced EXCEPT ![p] = staging[p]]
  /\ Swapped(p)
  /\ Goto(p, "unmark")
  /\ UNCHANGED <<exchanges, holder, archive, staging>>

\* Nothing was exchanged: unsupported, or an error.
ExchangeFails(p) ==
  /\ pc[p] = "exchange"
  /\ Goto(p, "unclaim")
  /\ UNCHANGED dir /\ Stay

Unclaim(p) ==
  /\ pc[p] = "unclaim"
  /\ MayUnmark(Target)
  /\ \/ ~exchanges /\ Goto(p, "reserve")
     \/ Goto(p, "discard")
  /\ Stay

Reserve(p) ==
  /\ pc[p] = "reserve"
  /\ \E o \in Free(Old) :
       /\ dir' = [dir EXCEPT ![o] = Fresh]
       /\ displaced' = [displaced EXCEPT ![p] = o]
  /\ Goto(p, "markreserved")
  /\ UNCHANGED <<exchanges, holder, archive, staging, history>>

ReserveFails(p) ==
  /\ pc[p] = "reserve"
  /\ Goto(p, "discard")
  /\ UNCHANGED dir /\ Stay

MarkReserved(p) ==
  /\ pc[p] = "markreserved"
  /\ MayMark(displaced[p])
  /\ Goto(p, "claimdisplaced")
  /\ Stay

\* Faulty: only the placeholder is marked, and the rename discards it.
ClaimDisplacedNot(p) ==
  /\ pc[p] = "claimdisplaced"
  /\ Goto(p, "aside")
  /\ UNCHANGED dir /\ Stay

\* The volume's own inode is marked before it moves; if that fails, the restore
\* warns and goes on.
ClaimDisplaced(p) ==
  /\ pc[p] = "claimdisplaced"
  /\ \/ dir' = [dir EXCEPT ![Target] = Marked(@)] /\ warned' = FALSE
     \/ UNCHANGED dir /\ warned' = TRUE
  /\ Goto(p, "aside")
  /\ UNCHANGED <<exchanges, holder, archive, staging, displaced, live, owed, foreign, misled>>

MoveAside(p) ==
  /\ pc[p] = "aside"
  /\ dir' = Moved(Target, displaced[p])
  /\ Goto(p, "promote")
  /\ Stay

\* The reservation may resist removal.
MoveAsideFails(p) ==
  /\ pc[p] = "aside"
  /\ \E volume \in {dir[Target], Unmarked(dir[Target])}, left \in {NoDir, dir[displaced[p]]} :
       dir' = [dir EXCEPT ![Target] = volume, ![displaced[p]] = left]
  /\ Goto(p, "discard")
  /\ Stay

Promote(p) ==
  /\ pc[p] = "promote"
  /\ dir' = Moved(staging[p], Target)
  /\ Swapped(p)
  /\ Goto(p, "unmark")
  /\ UNCHANGED <<exchanges, holder, archive, staging, displaced>>

PromoteFails(p) ==
  /\ pc[p] = "promote"
  /\ Goto(p, "putback")
  /\ UNCHANGED dir /\ Stay

PutBack(p) ==
  /\ pc[p] = "putback"
  /\ dir' \in {Moved(displaced[p], Target),
               [Moved(displaced[p], Target) EXCEPT ![Target] = Unmarked(@)]}
  /\ Goto(p, "discard")
  /\ Stay

\* errStranded: neither copy may be discarded.
Stranded(p) ==
  /\ pc[p] = "putback"
  /\ Leave(p)
  /\ UNCHANGED <<exchanges, dir, history>>

-----------------------------------------------------------------------------
(* restoreWithSwap after the swap. *)

UnmarkVolume(p) ==
  /\ pc[p] = "unmark"
  /\ MayUnmark(Target)
  /\ Goto(p, "flush")
  /\ Stay

FlushSwap(p) ==
  /\ pc[p] = "flush"
  /\ Goto(p, "dispose")
  /\ owed' = None
  /\ UNCHANGED <<exchanges, dir, holder, archive, staging, displaced, live, foreign, warned, misled>>

\* The copy that was replaced is kept.
FlushSwapFails(p) ==
  /\ pc[p] = "flush"
  /\ Goto(p, "retain")
  /\ UNCHANGED dir /\ Stay

Dispose(p) ==
  /\ pc[p] = "dispose"
  /\ dir' = [dir EXCEPT ![displaced[p]] = NoDir]
  /\ Leave(p)
  /\ UNCHANGED <<exchanges, history>>

\* Part of the tree resists, or the process dies in the middle of it.
DisposeFails(p) ==
  /\ pc[p] = "dispose"
  /\ dir' = [dir EXCEPT ![displaced[p]].data = Partial]
  /\ Goto(p, "retain")
  /\ Stay

Die(p) ==
  /\ pc[p] # "idle"
  /\ Leave(p)
  /\ UNCHANGED <<exchanges, dir, history>>

-----------------------------------------------------------------------------
Step(p) ==
  \/ \E a \in Archives : Start(p, a)
  \/ RemoveReservation(p) \/ NothingToRecover(p) \/ PutBackDisplaced(p) \/ RefuseToChoose(p)
  \/ FlushPutBack(p) \/ UnmarkPutBack(p) \/ Reclaim(p)
  \/ ClearLeftover(p) \/ ClearLeftoverFails(p) \/ LeftoversCleared(p) \/ Abandon(p)
  \/ CreateStaging(p) \/ MarkStaging(p) \/ Extract(p) \/ Extracted(p) \/ ExtractedNothing(p)
  \/ FlushStaged(p) \/ StageFails(p) \/ StillSafe(p) \/ NotSafe(p) \/ Discard(p) \/ Retain(p)
  \/ ClaimTarget(p) \/ Exchange(p) \/ ExchangeFails(p) \/ Unclaim(p)
  \/ Reserve(p) \/ ReserveFails(p) \/ MarkReserved(p) \/ ClaimDisplaced(p)
  \/ MoveAside(p) \/ MoveAsideFails(p) \/ Promote(p) \/ PromoteFails(p)
  \/ PutBack(p) \/ Stranded(p)
  \/ UnmarkVolume(p) \/ FlushSwap(p) \/ FlushSwapFails(p) \/ Dispose(p) \/ DisposeFails(p)
  \/ Die(p)

Next == \E p \in Procs : Step(p)

Spec == Init /\ [][Next]_vars

-----------------------------------------------------------------------------
States == {"idle", "recover", "flushback", "unmarkback", "reclaim", "clear", "stage", "mark",
           "extract", "extracting", "flushstaged", "check", "discard", "keep", "retain",
           "claim", "exchange", "unclaim", "reserve", "markreserved", "claimdisplaced",
           "aside", "promote", "putback", "unmark", "flush", "dispose"}

TypeOK ==
  /\ exchanges \in BOOLEAN
  /\ dir \in [Names -> Dir \cup {NoDir}]
  /\ holder \in Procs \cup {NoProc}
  /\ pc \in [Procs -> States]
  /\ archive \in [Procs -> Archives \cup {None}]
  /\ staging \in [Procs -> Staging \cup {None}]
  /\ displaced \in [Procs -> Staging \cup Old \cup {None}]
  /\ live \in Data /\ owed \in Data \cup {None}
  /\ warned \in BOOLEAN /\ misled \in BOOLEAN
  /\ foreign \subseteq Staging \cup Old

\* Whatever is killed or fails, the volume under its own name is whole: what it
\* held, or what the last completed swap put there from an archive, and never
\* anything else (restoreWithSwap: "the original survives every way the extract
\* can fail").  Recovery puts back another displaced copy, an older one or one
\* that was half removed, only where it cannot tell the missing volume from it:
\* the volume is empty, as an archive may be, or its mark could not be set.
\* Even then it is no directory of somebody else's.
VolumeIsWhole ==
  /\ live \in Originals \cup Archives \cup (IF misled THEN {Empty, Partial} ELSE {})
  /\ Present(Target) => dir[Target].data = live

\* While the volume is missing, between the two renames or after a kill there,
\* its contents are under a displaced name, with the mark that recovery looks
\* for unless the restore warned before it moved the volume that there is none
\* (swapByRenamePair: "the displaced copy carries proof from the instant it
\* exists"; "said before the window opens").
Recoverable ==
  ~Present(Target) => \E o \in Old : dir[o].data = live /\ (dir[o].marked \/ warned)

\* A directory that only looks like the restore's own is never touched
\* (scratchMarkerAttr: "delete on proof rather than on a filename").
ForeignUntouched ==
  \A n \in foreign : dir[n] = [data |-> Foreign, marked |-> FALSE]

\* Recovery never faces two displaced copies with data (recoverInterruptedSwap:
\* "Never expected: the window is two syscalls wide and one restore of a volume
\* runs at a time").
RecoveryUnambiguous == ~Ambiguous

\* The copy a swap replaced stays until the swap is on disk (restoreWithSwap:
\* "Persist the swap itself before removing the copy it replaced").
FlushBeforeRemove == owed # None => \E n \in Names : dir[n].data = owed
=============================================================================
