------------------------- MODULE RestoreSwap_proofs -------------------------
(***************************************************************************)
(* RestoreSwap for any processes, names and contents, whichever marks can  *)
(* be set: types, that nobody else's directory is touched, that the volume *)
(* is whole whenever it is there, and that it can be recovered whenever it *)
(* is not.                                                                 *)
(* BInv ties the directories to the phase of the one restore under way;    *)
(* DInv, which rests on it, is about what the directories hold.            *)
(***************************************************************************)
EXTENDS RestoreSwap, TLAPS

\* The phases of a restore.
Building == {"mark", "extract", "extracting", "flushstaged"}
Swapping == {"check", "claim", "exchange", "unclaim", "reserve", "markreserved",
             "claimdisplaced", "aside", "promote"}
Aside == {"markreserved", "claimdisplaced", "aside", "promote", "putback"}
After == {"unmark", "flush", "dispose", "retain"}
Between == {"promote", "putback"}

\* The restore under way, if there is one, is in one of these phases.
At(phases) == holder # NoProc /\ pc[holder] \in phases

\* One restore at a time, and it knows its archive.
OneRestore ==
  /\ \A p \in Procs : pc[p] # "idle" <=> holder = p
  /\ holder # NoProc => archive[holder] \in Archives

\* A restore's directories are its own.
OwnDirs ==
  /\ At(Building \cup Swapping \cup After \cup {"discard", "keep", "putback"}) =>
       staging[holder] \in Staging \ foreign
  /\ At(Aside) => displaced[holder] \in Old \ foreign
  /\ At(After) => displaced[holder] \in (Staging \cup Old) \ foreign
  /\ At(Building \cup Swapping \cup {"discard", "keep", "putback"}) =>
       Present(staging[holder])
  /\ At(Aside \cup After) => Present(displaced[holder])

Volume ==
  /\ holder # NoProc /\ ~At({"recover", "clear"} \cup Between) => Present(Target)
  /\ At(Between) => ~Present(Target)

\* The invariant that needs nothing of the contents.
BInv ==
  /\ TypeOK /\ OneRestore /\ OwnDirs /\ Volume /\ ForeignUntouched

\* The contents of the volume, unless recovery was misled.
InPlace ==
  /\ live \in Originals \cup Archives \/ misled
  /\ Present(Target) => dir[Target].data = live

\* What a restore has in hand: a whole extract, a claimed volume, a claimed copy.
InHand ==
  /\ At(Swapping \cup {"flushstaged"}) => dir[staging[holder]].data = archive[holder]
  /\ At({"aside"}) => dir[Target].marked \/ warned
  /\ At(Between) =>
       dir[displaced[holder]].data = live /\ (dir[displaced[holder]].marked \/ warned)

\* The invariant of the contents.
DInv == InPlace /\ Recoverable /\ InHand

IInv == BInv /\ DInv

-----------------------------------------------------------------------------
(* Constants and records. *)

LEMMA Apart ==
  /\ Target \in Names /\ Staging \subseteq Names /\ Old \subseteq Names /\ Kept \subseteq Names
  /\ Target \notin Staging \cup Old \cup Kept
  /\ Staging \cap Old = {} /\ Kept \cap (Staging \cup Old) = {}
  /\ NoProc \notin Procs
  BY RestoreSwapAssumption DEF Names

LEMMA DataFacts ==
  /\ Empty \in Data /\ Partial \in Data /\ Archives \subseteq Data /\ None \notin Data
  BY RestoreSwapAssumption DEF Data, Whole

LEMMA NoDirFacts == NoDir \notin Dir /\ ~NoDir.marked /\ NoDir.data = None
  BY DataFacts DEF NoDir, Dir

LEMMA DirType ==
  ASSUME NEW d \in Dir PROVE d.data \in Data /\ d.marked \in BOOLEAN
  BY DEF Dir

LEMMA WithMark ==
  ASSUME NEW d \in Dir, NEW m \in BOOLEAN
  PROVE  /\ [d EXCEPT !.marked = m] \in Dir
         /\ [d EXCEPT !.marked = m].data = d.data /\ [d EXCEPT !.marked = m].marked = m
  BY DEF Dir

LEMMA WithContents ==
  ASSUME NEW d \in Dir, NEW x \in Data
  PROVE  /\ [d EXCEPT !.data = x] \in Dir
         /\ [d EXCEPT !.data = x].data = x /\ [d EXCEPT !.data = x].marked = d.marked
  BY DEF Dir

LEMMA FreshFacts == Fresh \in Dir /\ Fresh.data = Empty /\ ~Fresh.marked
  BY DataFacts DEF Fresh, Dir

-----------------------------------------------------------------------------
(* What a step does to the directories. *)

Places == [Names -> Dir \cup {NoDir}]

\* Only directory n changes, and n is there afterwards.
Only(n) ==
  /\ dir' \in Places /\ dir'[n] # NoDir
  /\ \A k \in Names \ {n} : dir'[k] = dir[k]

\* Only directory n changes, and n is gone afterwards.
Gone(n) ==
  /\ dir' \in Places /\ dir'[n] = NoDir
  /\ \A k \in Names \ {n} : dir'[k] = dir[k]

\* Only the directory under name n changes its name, to k.
Renames(n, k) ==
  /\ dir' \in Places /\ dir'[n] = NoDir /\ dir'[k] = dir[n]
  /\ \A i \in Names \ {n, k} : dir'[i] = dir[i]

LEMMA Replaced ==
  ASSUME dir \in Places, NEW n \in Names, NEW d \in Dir, dir' = [dir EXCEPT ![n] = d]
  PROVE  Only(n) /\ dir'[n] = d
  BY NoDirFacts DEF Places, Only

LEMMA Remarked ==
  ASSUME dir \in Places, NEW n \in Names, Present(n), NEW m \in BOOLEAN,
         dir' = [dir EXCEPT ![n] = [@ EXCEPT !.marked = m]]
  PROVE  Only(n) /\ dir'[n].data = dir[n].data /\ dir'[n].marked = m
<1>1. dir[n] \in Dir
  BY DEF Present, Places
<1> QED BY <1>1, WithMark, Replaced

LEMMA Refilled ==
  ASSUME dir \in Places, NEW n \in Names, Present(n), NEW x \in Data,
         dir' = [dir EXCEPT ![n].data = x]
  PROVE  Only(n) /\ dir'[n].data = x /\ dir'[n].marked = dir[n].marked
<1>1. dir[n] \in Dir
  BY DEF Present, Places
<1>2. dir' = [dir EXCEPT ![n] = [dir[n] EXCEPT !.data = x]]
  OBVIOUS
<1>3. [dir[n] EXCEPT !.data = x] \in Dir /\ [dir[n] EXCEPT !.data = x].data = x
      /\ [dir[n] EXCEPT !.data = x].marked = dir[n].marked
  BY <1>1, WithContents
<1> HIDE DEF Dir
<1> QED BY <1>2, <1>3, Replaced

LEMMA Removed ==
  ASSUME dir \in Places, NEW n \in Names, dir' = [dir EXCEPT ![n] = NoDir]
  PROVE  Gone(n)
  BY DEF Places, Gone

LEMMA Renamed ==
  ASSUME dir \in Places, NEW n \in Names, NEW k \in Names, n # k, dir' = Moved(n, k)
  PROVE  Renames(n, k)
  BY DEF Places, Moved, Renames

-----------------------------------------------------------------------------
(* What a process knows, and what a step keeps. *)

\* What the invariant says to the process that takes the step.
LEMMA Now ==
  ASSUME BInv, NEW p \in Procs, pc[p] # "idle"
  PROVE  /\ dir \in Places
         /\ holder = p /\ holder # NoProc
         /\ At({"recover", "clear"} \cup Between) \/ (Present(Target) /\ Target \in Names \ foreign)
  BY Apart DEF BInv, TypeOK, Places, OneRestore, Volume

\* A step to another phase of the same restore.
LEMMA Goes ==
  ASSUME BInv, NEW p \in Procs, pc[p] # "idle", NEW s \in States \ {"idle"}, Goto(p, s),
         UNCHANGED <<holder, archive>>
  PROVE  /\ OneRestore' /\ pc' \in [Procs -> States]
         /\ holder' = p /\ holder # NoProc /\ holder = p /\ pc'[p] = s
<1>1. /\ holder = p /\ p # NoProc /\ pc \in [Procs -> States]
      /\ pc' = [pc EXCEPT ![p] = s] /\ holder' = p /\ archive' = archive
  BY Apart DEF BInv, TypeOK, OneRestore, Goto
<1>2. \A q \in Procs : pc'[q] # "idle" <=> holder' = q
  BY <1>1 DEF BInv, OneRestore
<1> QED BY <1>1, <1>2 DEF BInv, OneRestore

\* A step that ends the restore.
LEMMA Leaves ==
  ASSUME BInv, NEW p \in Procs, pc[p] # "idle", Leave(p)
  PROVE  /\ OneRestore' /\ OwnDirs' /\ Volume'
         /\ pc' \in [Procs -> States] /\ holder' = NoProc
         /\ archive' \in [Procs -> Archives \cup {None}]
         /\ staging' \in [Procs -> Staging \cup {None}]
         /\ displaced' \in [Procs -> Staging \cup Old \cup {None}]
<1>1. /\ holder = p /\ pc' = [pc EXCEPT ![p] = "idle"] /\ holder' = NoProc
  BY DEF BInv, OneRestore, Leave, Goto
<1>2. \A q \in Procs : pc'[q] # "idle" <=> holder' = q
  BY <1>1, Apart DEF BInv, OneRestore, TypeOK
<1>3. OneRestore' /\ OwnDirs' /\ Volume'
  BY <1>1, <1>2 DEF OneRestore, OwnDirs, Volume, At
<1> QED BY <1>1, <1>3 DEF BInv, TypeOK, Leave, States

\* A step that changes no directory of others.
LEMMA Touches ==
  ASSUME BInv, NEW changed \in SUBSET (Names \ foreign),
         \A n \in Names \ changed : dir'[n] = dir[n], UNCHANGED foreign
  PROVE  ForeignUntouched'
  BY Apart DEF BInv, TypeOK, ForeignUntouched

LEMMA TouchesTwo ==
  ASSUME BInv, NEW m \in Names \ foreign, NEW k \in Names \ foreign,
         \A n \in Names \ {m, k} : dir'[n] = dir[n], UNCHANGED foreign
  PROVE  ForeignUntouched'
  BY Apart DEF BInv, TypeOK, ForeignUntouched

LEMMA TouchesOne ==
  ASSUME BInv, NEW m \in Names \ foreign, dir' = dir \/ Only(m), UNCHANGED foreign
  PROVE  ForeignUntouched'
  BY Apart DEF Only, BInv, TypeOK, ForeignUntouched

\* The directories of a restore under way are its own.
LEMMA Staged ==
  ASSUME BInv, NEW p \in Procs,
         pc[p] \in Building \cup Swapping \cup After \cup {"discard", "keep", "putback"}
  PROVE  /\ staging[p] \in Staging \ foreign /\ staging[p] \in Names \ foreign
         /\ staging[p] # Target
         /\ pc[p] \notin After => Present(staging[p])
  BY Apart DEF BInv, OneRestore, OwnDirs, At, Building, Swapping, After

LEMMA SetAside ==
  ASSUME BInv, NEW p \in Procs, pc[p] \in Aside \cup After
  PROVE  /\ displaced[p] \in (Staging \cup Old) \ foreign /\ displaced[p] \in Names \ foreign
         /\ displaced[p] # Target
         /\ pc[p] \in Aside => displaced[p] \in Old \ foreign /\ displaced[p] # staging[p]
         /\ Present(displaced[p])
<1>1. holder = p /\ holder # NoProc
  BY Apart DEF BInv, OneRestore, Aside, After
<1>2. displaced[p] \in (Staging \cup Old) \ foreign
  BY <1>1 DEF BInv, OwnDirs, At
<1>3. pc[p] \in Aside => displaced[p] \in Old \ foreign
  BY <1>1 DEF BInv, OwnDirs, At
<1>4. pc[p] \in Aside => staging[p] \in Staging
  BY <1>1, Staged DEF Aside, Swapping
<1>5. Present(displaced[p])
  BY <1>1 DEF BInv, OwnDirs, At
<1> QED BY <1>2, <1>3, <1>4, <1>5, Apart

\* A name that others use is not marked, and not free.
LEMMA NotForeign ==
  ASSUME BInv, NEW n \in Names, dir[n].marked \/ ~Present(n)
  PROVE  n \notin foreign
  BY DataFacts DEF BInv, ForeignUntouched, Present, NoDir, Data

\* What a step that leaves the contents of the volume alone keeps.
Safe == InPlace /\ Recoverable

LEMMA VolumeKept ==
  ASSUME DInv, Present(Target), Present(Target)', dir'[Target].data = dir[Target].data,
         UNCHANGED <<live, misled>>
  PROVE  Safe'
  BY DEF Safe, DInv, InPlace, Recoverable, Present

LEMMA CopiesKept ==
  ASSUME DInv, \A n \in Old \cup {Target} : dir'[n] = dir[n], UNCHANGED <<live, misled, warned>>
  PROVE  Safe'
  BY DEF Safe, DInv, InPlace, Recoverable, Present

\* A step to the next phase that leaves the directories alone.
Follows == {<<"recover", "clear">>, <<"flushback", "unmarkback">>, <<"clear", "stage">>,
            <<"mark", "discard">>, <<"extract", "discard">>, <<"extracting", "discard">>,
            <<"flushstaged", "discard">>, <<"flushstaged", "check">>, <<"check", "claim">>,
            <<"check", "keep">>, <<"exchange", "unclaim">>, <<"reserve", "discard">>,
            <<"promote", "putback">>, <<"flush", "dispose">>, <<"flush", "retain">>}

LEMMA PhaseStep ==
  ASSUME BInv, DInv, NEW p \in Procs, NEW s \in States,
         <<pc[p], s>> \in Follows, s = "stage" => Present(Target), Goto(p, s),
         owed' \in Data \cup {None},
         UNCHANGED <<exchanges, dir, holder, archive, staging, displaced, live, foreign, warned,
                     misled>>
  PROVE  BInv' /\ DInv'
<1>1. pc[p] # "idle" /\ s # "idle"
  BY DEF Follows
<1>2. /\ OneRestore' /\ pc' \in [Procs -> States] /\ pc'[p] = s
      /\ holder' = p /\ holder = p /\ holder # NoProc
  BY <1>1, Goes
<1>3. OwnDirs' /\ Volume'
  BY <1>2 DEF BInv, OwnDirs, Volume, Present, Follows, At, Building, Swapping, Aside, After,
       Between
<1>4. TypeOK' /\ ForeignUntouched'
  BY <1>2 DEF BInv, TypeOK, ForeignUntouched
<1>5. InHand'
  BY <1>2 DEF DInv, InHand, Follows, At, Swapping, Between
<1>6. DInv'
  BY <1>5 DEF DInv, InPlace, Recoverable, Present
<1> QED BY <1>2, <1>3, <1>4, <1>6 DEF BInv

\* A step that ends the restore and leaves the directories alone.
LEMMA LastStep ==
  ASSUME BInv, DInv, NEW p \in Procs, pc[p] # "idle", Leave(p),
         UNCHANGED <<exchanges, dir, history>>
  PROVE  BInv' /\ DInv'
<1>1. TypeOK' /\ ForeignUntouched'
  BY Leaves DEF BInv, TypeOK, ForeignUntouched, history
<1>2. OneRestore' /\ OwnDirs' /\ Volume' /\ holder' = NoProc
  BY Leaves
<1>3. DInv'
  BY <1>2 DEF DInv, InPlace, Recoverable, InHand, Present, At, history
<1> QED BY <1>1, <1>2, <1>3 DEF BInv

-----------------------------------------------------------------------------
(* The invariant. *)

LEMMA NextIInv == IInv /\ [Next]_vars => IInv'
<1> SUFFICES ASSUME BInv, DInv, [Next]_vars
             PROVE  BInv' /\ DInv'
  BY DEF IInv
<1>1. ASSUME NEW p \in Procs, NothingToRecover(p) PROVE BInv' /\ DInv'
  BY <1>1, PhaseStep DEF NothingToRecover, Stay, history, States, Follows, BInv, TypeOK
<1>2. ASSUME NEW p \in Procs, FlushPutBack(p) PROVE BInv' /\ DInv'
  BY <1>2, PhaseStep DEF FlushPutBack, Stay, history, States, Follows, BInv, TypeOK
<1>3. ASSUME NEW p \in Procs, LeftoversCleared(p) PROVE BInv' /\ DInv'
  BY <1>3, PhaseStep DEF LeftoversCleared, Stay, history, States, Follows, BInv, TypeOK
<1>4. ASSUME NEW p \in Procs, StageFails(p) PROVE BInv' /\ DInv'
  BY <1>4, PhaseStep DEF StageFails, Stay, history, States, Follows, BInv, TypeOK
<1>5. ASSUME NEW p \in Procs, FlushStaged(p) PROVE BInv' /\ DInv'
  BY <1>5, PhaseStep DEF FlushStaged, Stay, history, States, Follows, BInv, TypeOK
<1>6. ASSUME NEW p \in Procs, StillSafe(p) PROVE BInv' /\ DInv'
  BY <1>6, PhaseStep DEF StillSafe, Stay, history, States, Follows, BInv, TypeOK
<1>7. ASSUME NEW p \in Procs, NotSafe(p) PROVE BInv' /\ DInv'
  BY <1>7, PhaseStep DEF NotSafe, Stay, history, States, Follows, BInv, TypeOK
<1>8. ASSUME NEW p \in Procs, ExchangeFails(p) PROVE BInv' /\ DInv'
  BY <1>8, PhaseStep DEF ExchangeFails, Stay, history, States, Follows, BInv, TypeOK
<1>9. ASSUME NEW p \in Procs, ReserveFails(p) PROVE BInv' /\ DInv'
  BY <1>9, PhaseStep DEF ReserveFails, Stay, history, States, Follows, BInv, TypeOK
<1>10. ASSUME NEW p \in Procs, PromoteFails(p) PROVE BInv' /\ DInv'
  BY <1>10, PhaseStep DEF PromoteFails, Stay, history, States, Follows, BInv, TypeOK
<1>11. ASSUME NEW p \in Procs, FlushSwap(p) PROVE BInv' /\ DInv'
  BY <1>11, PhaseStep DEF FlushSwap, Stay, history, States, Follows, BInv, TypeOK
<1>12. ASSUME NEW p \in Procs, FlushSwapFails(p) PROVE BInv' /\ DInv'
  BY <1>12, PhaseStep DEF FlushSwapFails, Stay, history, States, Follows, BInv, TypeOK
<1>13. ASSUME NEW p \in Procs, RefuseToChoose(p) PROVE BInv' /\ DInv'
  BY <1>13, LastStep DEF RefuseToChoose, history
<1>14. ASSUME NEW p \in Procs, Abandon(p) PROVE BInv' /\ DInv'
  BY <1>14, LastStep DEF Abandon, history
<1>15. ASSUME NEW p \in Procs, Stranded(p) PROVE BInv' /\ DInv'
  BY <1>15, LastStep DEF Stranded, history
<1>16. ASSUME NEW p \in Procs, Die(p) PROVE BInv' /\ DInv'
  BY <1>16, LastStep DEF Die, history
<1>17. ASSUME NEW p \in Procs, UnmarkVolume(p) PROVE BInv' /\ DInv'
  <2>1. pc[p] = "unmark" /\ Goto(p, "flush") /\ Stay /\ UNCHANGED foreign
    BY <1>17 DEF UnmarkVolume, Stay, history
  <2>2. /\ dir \in Places /\ holder = p /\ holder # NoProc
        /\ Present(Target) /\ Target \in Names \ foreign
    BY <2>1, Now DEF At, Between
  <2>3. dir' = dir \/ (Only(Target) /\ dir'[Target].data = dir[Target].data)
    BY <1>17, <2>2, Remarked DEF UnmarkVolume, MayUnmark, Unmarked
  <2>4. staging[p] \in Names \ foreign /\ staging[p] \in Staging \ foreign
    BY <2>1, Staged DEF Building, Swapping, After
  <2>5. /\ displaced[p] \in (Staging \cup Old) \ foreign
        /\ displaced[p] \in Names \ foreign /\ displaced[p] # Target
        /\ Present(displaced[p])
    BY <2>1, SetAside DEF Aside, After
  <2>6. ForeignUntouched'
    BY <2>1, <2>2, <2>3, <2>4, <2>5, TouchesOne DEF BInv, ForeignUntouched
  <2>7. /\ OneRestore' /\ pc' \in [Procs -> States] /\ pc'[p] = "flush"
        /\ holder' = p /\ holder = p /\ holder # NoProc
    BY <1>17, <2>1, Goes DEF UnmarkVolume, Stay, States
  <2>8. OwnDirs' /\ Volume'
    BY <2>1, <2>2, <2>3, <2>4, <2>5, <2>7, Now DEF Stay, history, BInv, TypeOK, OwnDirs, Volume,
         Present, Only, At, Building, Swapping, Aside, After, Between
  <2>9. TypeOK'
    BY <2>1, <2>2, <2>3, <2>4, <2>5, <2>7 DEF Stay, history, BInv, TypeOK, Places, Only
  <2>10. DInv'
    <3>1. Safe'
      BY <1>17, <2>1, <2>2, <2>3, <2>4, <2>5, VolumeKept, NoDirFacts, Apart DEF
           UnmarkVolume, Stay, history, Only, Present
    <3>2. InHand'
      BY <2>1, <2>2, <2>3, <2>4, <2>5, <2>7, <2>8, NoDirFacts DEF Stay, history, BInv,
           TypeOK, Only, Present, At, Building, Swapping, Aside, After, Between, DInv, InHand
    <3> QED BY <3>1, <3>2 DEF Safe, DInv
  <2> QED BY <2>6, <2>7, <2>8, <2>9, <2>10 DEF BInv
<1>18. ASSUME NEW p \in Procs, ClaimTarget(p) PROVE BInv' /\ DInv'
  <2>1. pc[p] = "claim" /\ Goto(p, "exchange") /\ Stay /\ UNCHANGED foreign
    BY <1>18 DEF ClaimTarget, Stay, history
  <2>2. /\ dir \in Places /\ holder = p /\ holder # NoProc
        /\ Present(Target) /\ Target \in Names \ foreign
    BY <2>1, Now DEF At, Between
  <2>3. dir' = dir \/ (Only(Target) /\ dir'[Target].data = dir[Target].data)
    BY <1>18, <2>2, Remarked DEF ClaimTarget, MayMark, Marked
  <2>4. staging[p] \in Names \ foreign /\ Present(staging[p]) /\ staging[p] # Target
    BY <2>1, Staged DEF Building, Swapping, After
  <2>5. ForeignUntouched'
    BY <2>1, <2>2, <2>3, <2>4, TouchesOne
  <2>6. /\ OneRestore' /\ pc' \in [Procs -> States] /\ pc'[p] = "exchange"
        /\ holder' = p /\ holder = p /\ holder # NoProc
    BY <1>18, <2>1, Goes DEF ClaimTarget, Stay, States
  <2>7. OwnDirs' /\ Volume'
    BY <2>1, <2>2, <2>3, <2>4, <2>6, Now DEF Stay, history, BInv, TypeOK, OwnDirs, Volume,
         Present, Only, At, Building, Swapping, Aside, After, Between
  <2>8. TypeOK'
    BY <2>1, <2>2, <2>3, <2>4, <2>6 DEF Stay, history, BInv, TypeOK, Places, Only
  <2>9. DInv'
    <3>1. Safe'
      BY <1>18, <2>1, <2>2, <2>3, <2>4, VolumeKept, NoDirFacts, Apart DEF ClaimTarget,
           Stay, history, Only, Present
    <3>2. InHand'
      BY <2>1, <2>2, <2>3, <2>4, <2>6, <2>7, NoDirFacts DEF Stay, history, BInv, TypeOK,
           Only, Present, At, Building, Swapping, Aside, After, Between, DInv, InHand
    <3> QED BY <3>1, <3>2 DEF Safe, DInv
  <2> QED BY <2>5, <2>6, <2>7, <2>8, <2>9 DEF BInv
<1>19. ASSUME NEW p \in Procs, ClaimDisplaced(p) PROVE BInv' /\ DInv'
  <2>1. /\ pc[p] = "claimdisplaced" /\ Goto(p, "aside")
        /\ UNCHANGED <<exchanges, holder, archive, staging, displaced, live, owed, foreign, misled>>
    BY <1>19 DEF ClaimDisplaced
  <2>2. /\ dir \in Places /\ holder = p /\ holder # NoProc
        /\ Present(Target) /\ Target \in Names \ foreign
    BY <2>1, Now DEF At, Between
  <2>3. /\ dir' = dir \/ (Only(Target) /\ dir'[Target].data = dir[Target].data)
        /\ dir'[Target].marked \/ warned'
        /\ warned' \in BOOLEAN
    BY <1>19, <2>2, Remarked DEF ClaimDisplaced, Marked
  <2>4. staging[p] \in Names \ foreign /\ Present(staging[p]) /\ staging[p] # Target
    BY <2>1, Staged DEF Building, Swapping, After
  <2>5. /\ displaced[p] \in Old \ foreign /\ displaced[p] \in Names \ foreign
        /\ displaced[p] # Target /\ displaced[p] # staging[p] /\ Present(displaced[p])
    BY <2>1, SetAside DEF Aside, After
  <2>6. ForeignUntouched'
    BY <2>1, <2>2, <2>3, <2>4, <2>5, TouchesOne
  <2>7. /\ OneRestore' /\ pc' \in [Procs -> States] /\ pc'[p] = "aside"
        /\ holder' = p /\ holder = p /\ holder # NoProc
    BY <1>19, <2>1, Goes DEF ClaimDisplaced, Stay, States
  <2>8. OwnDirs' /\ Volume'
    BY <2>1, <2>2, <2>3, <2>4, <2>5, <2>7, Now DEF Stay, history, BInv, TypeOK, OwnDirs, Volume,
         Present, Only, At, Building, Swapping, Aside, After, Between
  <2>9. TypeOK'
    BY <2>1, <2>2, <2>3, <2>4, <2>5, <2>7 DEF Stay, history, BInv, TypeOK, Places, Only
  <2>10. DInv'
    <3>1. Safe'
      BY <1>19, <2>1, <2>2, <2>3, <2>4, <2>5, VolumeKept, NoDirFacts, Apart DEF
           ClaimDisplaced, Stay, history, Only, Present
    <3>2. InHand'
      BY <2>1, <2>2, <2>3, <2>4, <2>5, <2>7, <2>8, NoDirFacts DEF Stay, history, BInv,
           TypeOK, Only, Present, At, Building, Swapping, Aside, After, Between, DInv, InHand
    <3> QED BY <3>1, <3>2 DEF Safe, DInv
  <2> QED BY <2>6, <2>7, <2>8, <2>9, <2>10 DEF BInv
<1>20. ASSUME NEW p \in Procs, MarkStaging(p) PROVE BInv' /\ DInv'
  <2>1. pc[p] = "mark" /\ Goto(p, "extract") /\ Stay /\ UNCHANGED foreign
    BY <1>20 DEF MarkStaging, Stay, history
  <2>2. /\ dir \in Places /\ holder = p /\ holder # NoProc
        /\ Present(Target) /\ Target \in Names \ foreign
    BY <2>1, Now DEF At, Between
  <2>3. staging[p] \in Names \ foreign /\ Present(staging[p]) /\ staging[p] # Target
    BY <2>1, Staged DEF Building, Swapping, After
  <2>4. dir' = dir \/ Only(staging[p])
    BY <1>20, <2>2, <2>3, Remarked DEF MarkStaging, MayMark, Marked
  <2>5. ForeignUntouched'
    BY <2>1, <2>2, <2>3, <2>4, TouchesOne
  <2>6. /\ OneRestore' /\ pc' \in [Procs -> States] /\ pc'[p] = "extract"
        /\ holder' = p /\ holder = p /\ holder # NoProc
    BY <1>20, <2>1, Goes DEF MarkStaging, Stay, States
  <2>7. OwnDirs' /\ Volume'
    BY <2>1, <2>2, <2>3, <2>4, <2>6, Now DEF Stay, history, BInv, TypeOK, OwnDirs, Volume,
         Present, Only, At, Building, Swapping, Aside, After, Between
  <2>8. TypeOK'
    BY <2>1, <2>2, <2>3, <2>4, <2>6 DEF Stay, history, BInv, TypeOK, Places, Only
  <2>9. DInv'
    <3>1. Safe'
      BY <1>20, <2>1, <2>2, <2>3, <2>4, VolumeKept, NoDirFacts, Apart DEF MarkStaging,
           Stay, history, Only, Present
    <3>2. InHand'
      BY <2>1, <2>2, <2>3, <2>4, <2>6, <2>7, NoDirFacts DEF Stay, history, BInv, TypeOK,
           Only, Present, At, Building, Swapping, Aside, After, Between, DInv, InHand
    <3> QED BY <3>1, <3>2 DEF Safe, DInv
  <2> QED BY <2>5, <2>6, <2>7, <2>8, <2>9 DEF BInv
<1>21. ASSUME NEW p \in Procs, Extract(p) PROVE BInv' /\ DInv'
  <2>1. pc[p] = "extract" /\ Goto(p, "extracting") /\ Stay /\ UNCHANGED foreign
    BY <1>21 DEF Extract, Stay, history
  <2>2. /\ dir \in Places /\ holder = p /\ holder # NoProc
        /\ Present(Target) /\ Target \in Names \ foreign
    BY <2>1, Now DEF At, Between
  <2>3. staging[p] \in Names \ foreign /\ Present(staging[p]) /\ staging[p] # Target
    BY <2>1, Staged DEF Building, Swapping, After
  <2>4. Partial \in Data
    BY <2>1, Now, DataFacts DEF BInv, OneRestore
  <2>5. /\ Only(staging[p]) /\ dir'[staging[p]].marked = dir[staging[p]].marked
        /\ dir'[staging[p]].data = Partial
    BY <1>21, <2>2, <2>3, <2>4, Refilled DEF Extract
  <2>6. ForeignUntouched'
    BY <2>1, <2>2, <2>3, <2>4, <2>5, TouchesOne
  <2>7. /\ OneRestore' /\ pc' \in [Procs -> States] /\ pc'[p] = "extracting"
        /\ holder' = p /\ holder = p /\ holder # NoProc
    BY <1>21, <2>1, Goes DEF Extract, Stay, States
  <2>8. OwnDirs' /\ Volume'
    BY <2>1, <2>2, <2>3, <2>4, <2>5, <2>7, Now DEF Stay, history, BInv, TypeOK, OwnDirs, Volume,
         Present, Only, At, Building, Swapping, Aside, After, Between
  <2>9. TypeOK'
    BY <2>1, <2>2, <2>3, <2>4, <2>5, <2>7 DEF Stay, history, BInv, TypeOK, Places, Only
  <2>10. DInv'
    <3>1. Safe'
      BY <1>21, <2>1, <2>2, <2>3, <2>4, <2>5, VolumeKept, NoDirFacts, Apart DEF Extract,
           Stay, history, Only, Present
    <3>2. InHand'
      BY <2>1, <2>2, <2>3, <2>4, <2>5, <2>7, <2>8, NoDirFacts DEF Stay, history, BInv,
           TypeOK, Only, Present, At, Building, Swapping, Aside, After, Between, DInv, InHand
    <3> QED BY <3>1, <3>2 DEF Safe, DInv
  <2> QED BY <2>6, <2>7, <2>8, <2>9, <2>10 DEF BInv
<1>22. ASSUME NEW p \in Procs, Extracted(p) PROVE BInv' /\ DInv'
  <2>1. pc[p] = "extracting" /\ Goto(p, "flushstaged") /\ Stay /\ UNCHANGED foreign
    BY <1>22 DEF Extracted, Stay, history
  <2>2. /\ dir \in Places /\ holder = p /\ holder # NoProc
        /\ Present(Target) /\ Target \in Names \ foreign
    BY <2>1, Now DEF At, Between
  <2>3. staging[p] \in Names \ foreign /\ Present(staging[p]) /\ staging[p] # Target
    BY <2>1, Staged DEF Building, Swapping, After
  <2>4. archive[p] \in Data
    BY <2>1, Now, DataFacts DEF BInv, OneRestore
  <2>5. /\ Only(staging[p]) /\ dir'[staging[p]].marked = dir[staging[p]].marked
        /\ dir'[staging[p]].data = archive[p]
    BY <1>22, <2>2, <2>3, <2>4, Refilled DEF Extracted
  <2>6. ForeignUntouched'
    BY <2>1, <2>2, <2>3, <2>4, <2>5, TouchesOne
  <2>7. /\ OneRestore' /\ pc' \in [Procs -> States] /\ pc'[p] = "flushstaged"
        /\ holder' = p /\ holder = p /\ holder # NoProc
    BY <1>22, <2>1, Goes DEF Extracted, Stay, States
  <2>8. OwnDirs' /\ Volume'
    BY <2>1, <2>2, <2>3, <2>4, <2>5, <2>7, Now DEF Stay, history, BInv, TypeOK, OwnDirs, Volume,
         Present, Only, At, Building, Swapping, Aside, After, Between
  <2>9. TypeOK'
    BY <2>1, <2>2, <2>3, <2>4, <2>5, <2>7 DEF Stay, history, BInv, TypeOK, Places, Only
  <2>10. DInv'
    <3>1. Safe'
      BY <1>22, <2>1, <2>2, <2>3, <2>4, <2>5, VolumeKept, NoDirFacts, Apart DEF
           Extracted, Stay, history, Only, Present
    <3>2. InHand'
      BY <2>1, <2>2, <2>3, <2>4, <2>5, <2>7, <2>8, NoDirFacts DEF Stay, history, BInv,
           TypeOK, Only, Present, At, Building, Swapping, Aside, After, Between, DInv, InHand
    <3> QED BY <3>1, <3>2 DEF Safe, DInv
  <2> QED BY <2>6, <2>7, <2>8, <2>9, <2>10 DEF BInv
<1>23. ASSUME NEW p \in Procs, ExtractedNothing(p) PROVE BInv' /\ DInv'
  <2>1. pc[p] = "extracting" /\ Goto(p, "discard") /\ Stay /\ UNCHANGED foreign
    BY <1>23 DEF ExtractedNothing, Stay, history
  <2>2. /\ dir \in Places /\ holder = p /\ holder # NoProc
        /\ Present(Target) /\ Target \in Names \ foreign
    BY <2>1, Now DEF At, Between
  <2>3. staging[p] \in Names \ foreign /\ Present(staging[p]) /\ staging[p] # Target
    BY <2>1, Staged DEF Building, Swapping, After
  <2>4. Empty \in Data
    BY <2>1, Now, DataFacts DEF BInv, OneRestore
  <2>5. /\ Only(staging[p]) /\ dir'[staging[p]].marked = dir[staging[p]].marked
        /\ dir'[staging[p]].data = Empty
    BY <1>23, <2>2, <2>3, <2>4, Refilled DEF ExtractedNothing
  <2>6. ForeignUntouched'
    BY <2>1, <2>2, <2>3, <2>4, <2>5, TouchesOne
  <2>7. /\ OneRestore' /\ pc' \in [Procs -> States] /\ pc'[p] = "discard"
        /\ holder' = p /\ holder = p /\ holder # NoProc
    BY <1>23, <2>1, Goes DEF ExtractedNothing, Stay, States
  <2>8. OwnDirs' /\ Volume'
    BY <2>1, <2>2, <2>3, <2>4, <2>5, <2>7, Now DEF Stay, history, BInv, TypeOK, OwnDirs, Volume,
         Present, Only, At, Building, Swapping, Aside, After, Between
  <2>9. TypeOK'
    BY <2>1, <2>2, <2>3, <2>4, <2>5, <2>7 DEF Stay, history, BInv, TypeOK, Places, Only
  <2>10. DInv'
    <3>1. Safe'
      BY <1>23, <2>1, <2>2, <2>3, <2>4, <2>5, VolumeKept, NoDirFacts, Apart DEF
           ExtractedNothing, Stay, history, Only, Present
    <3>2. InHand'
      BY <2>1, <2>2, <2>3, <2>4, <2>5, <2>7, <2>8, NoDirFacts DEF Stay, history, BInv,
           TypeOK, Only, Present, At, Building, Swapping, Aside, After, Between, DInv, InHand
    <3> QED BY <3>1, <3>2 DEF Safe, DInv
  <2> QED BY <2>6, <2>7, <2>8, <2>9, <2>10 DEF BInv
<1>24. ASSUME NEW p \in Procs, MarkReserved(p) PROVE BInv' /\ DInv'
  <2>1. pc[p] = "markreserved" /\ Goto(p, "claimdisplaced") /\ Stay /\ UNCHANGED foreign
    BY <1>24 DEF MarkReserved, Stay, history
  <2>2. /\ dir \in Places /\ holder = p /\ holder # NoProc
        /\ Present(Target) /\ Target \in Names \ foreign
    BY <2>1, Now DEF At, Between
  <2>3. /\ displaced[p] \in Old \ foreign /\ displaced[p] \in Names \ foreign
        /\ displaced[p] # Target /\ displaced[p] # staging[p] /\ Present(displaced[p])
    BY <2>1, SetAside DEF Aside, After
  <2>4. dir' = dir \/ Only(displaced[p])
    BY <1>24, <2>2, <2>3, Remarked DEF MarkReserved, MayMark, Marked
  <2>5. staging[p] \in Names \ foreign /\ Present(staging[p]) /\ staging[p] # Target
    BY <2>1, Staged DEF Building, Swapping, After
  <2>6. ForeignUntouched'
    BY <2>1, <2>2, <2>3, <2>4, <2>5, TouchesOne
  <2>7. /\ OneRestore' /\ pc' \in [Procs -> States] /\ pc'[p] = "claimdisplaced"
        /\ holder' = p /\ holder = p /\ holder # NoProc
    BY <1>24, <2>1, Goes DEF MarkReserved, Stay, States
  <2>8. OwnDirs' /\ Volume'
    BY <2>1, <2>2, <2>3, <2>4, <2>5, <2>7, Now DEF Stay, history, BInv, TypeOK, OwnDirs, Volume,
         Present, Only, At, Building, Swapping, Aside, After, Between
  <2>9. TypeOK'
    BY <2>1, <2>2, <2>3, <2>4, <2>5, <2>7 DEF Stay, history, BInv, TypeOK, Places, Only
  <2>10. DInv'
    <3>1. Safe'
      BY <1>24, <2>1, <2>2, <2>3, <2>4, <2>5, VolumeKept, NoDirFacts, Apart DEF
           MarkReserved, Stay, history, Only, Present
    <3>2. InHand'
      BY <2>1, <2>2, <2>3, <2>4, <2>5, <2>7, <2>8, NoDirFacts DEF Stay, history, BInv,
           TypeOK, Only, Present, At, Building, Swapping, Aside, After, Between, DInv, InHand
    <3> QED BY <3>1, <3>2 DEF Safe, DInv
  <2> QED BY <2>6, <2>7, <2>8, <2>9, <2>10 DEF BInv
<1>25. ASSUME NEW p \in Procs, UnmarkPutBack(p) PROVE BInv' /\ DInv'
  <2>1. pc[p] = "unmarkback" /\ Goto(p, "reclaim") /\ Stay /\ UNCHANGED foreign
    BY <1>25 DEF UnmarkPutBack, Stay, history
  <2>2. /\ dir \in Places /\ holder = p /\ holder # NoProc
        /\ Present(Target) /\ Target \in Names \ foreign
    BY <2>1, Now DEF At, Between
  <2>3. dir' = dir \/ (Only(Target) /\ dir'[Target].data = dir[Target].data)
    BY <1>25, <2>2, Remarked DEF UnmarkPutBack, MayUnmark, Unmarked
  <2>4. ForeignUntouched'
    BY <2>1, <2>2, <2>3, TouchesOne DEF BInv, ForeignUntouched
  <2>5. /\ OneRestore' /\ pc' \in [Procs -> States] /\ pc'[p] = "reclaim"
        /\ holder' = p /\ holder = p /\ holder # NoProc
    BY <1>25, <2>1, Goes DEF UnmarkPutBack, Stay, States
  <2>6. OwnDirs' /\ Volume'
    BY <2>1, <2>2, <2>3, <2>5, Now DEF Stay, history, BInv, TypeOK, OwnDirs, Volume, Present,
         Only, At, Building, Swapping, Aside, After, Between
  <2>7. TypeOK'
    BY <2>1, <2>2, <2>3, <2>5 DEF Stay, history, BInv, TypeOK, Places, Only
  <2>8. DInv'
    <3>1. Safe'
      BY <1>25, <2>1, <2>2, <2>3, VolumeKept, NoDirFacts, Apart DEF UnmarkPutBack, Stay,
           history, Only, Present
    <3>2. InHand'
      BY <2>1, <2>2, <2>3, <2>5, <2>6, NoDirFacts DEF Stay, history, BInv, TypeOK, Only,
           Present, At, Building, Swapping, Aside, After, Between, DInv, InHand
    <3> QED BY <3>1, <3>2 DEF Safe, DInv
  <2> QED BY <2>4, <2>5, <2>6, <2>7, <2>8 DEF BInv
<1>26. ASSUME NEW p \in Procs, CreateStaging(p) PROVE BInv' /\ DInv'
  <2>1. pc[p] = "stage" /\ Goto(p, "mark") /\ UNCHANGED foreign
    BY <1>26 DEF CreateStaging, Stay, history
  <2>2. /\ dir \in Places /\ holder = p /\ holder # NoProc
        /\ Present(Target) /\ Target \in Names \ foreign
    BY <2>1, Now DEF At, Between
  <2>3. PICK s \in Free(Staging) : dir' = [dir EXCEPT ![s] = Fresh] /\ staging' = [staging
       EXCEPT ![p] = s]
    BY <1>26 DEF CreateStaging
  <2>4. s \in Names \ foreign /\ s # Target /\ ~Present(s) /\ s \in Staging
    BY <2>3, NotForeign, Apart DEF Free
  <2>5. Only(s) /\ ~dir'[s].marked
    BY <2>2, <2>3, <2>4, FreshFacts, Replaced
  <2>6. ForeignUntouched'
    BY <2>1, <2>2, <2>3, <2>4, <2>5, TouchesOne
  <2>7. /\ OneRestore' /\ pc' \in [Procs -> States] /\ pc'[p] = "mark"
        /\ holder' = p /\ holder = p /\ holder # NoProc
    BY <1>26, <2>1, Goes DEF CreateStaging, Stay, States
  <2>8. OwnDirs' /\ Volume'
    BY <1>26, <2>1, <2>2, <2>3, <2>4, <2>5, <2>7, Now DEF CreateStaging, Stay, history, BInv,
         TypeOK, OwnDirs, Volume, Present, Only, At, Building, Swapping, Aside, After, Between
  <2>9. TypeOK'
    BY <1>26, <2>1, <2>2, <2>3, <2>4, <2>5, <2>7 DEF CreateStaging, Stay, history, BInv, TypeOK,
         Places, Only
  <2>10. DInv'
    <3>1. Safe'
      BY <1>26, <2>1, <2>2, <2>3, <2>4, <2>5, VolumeKept, NoDirFacts, Apart DEF
           CreateStaging, Stay, history, Only, Present
    <3>2. InHand'
      BY <1>26, <2>1, <2>2, <2>3, <2>4, <2>5, <2>7, <2>8, NoDirFacts DEF CreateStaging,
           Stay, history, BInv, TypeOK, Only, Present, At, Building, Swapping, Aside, After,
           Between, DInv, InHand
    <3> QED BY <3>1, <3>2 DEF Safe, DInv
  <2> QED BY <2>6, <2>7, <2>8, <2>9, <2>10 DEF BInv
<1>27. ASSUME NEW p \in Procs, Reserve(p) PROVE BInv' /\ DInv'
  <2>1. pc[p] = "reserve" /\ Goto(p, "markreserved") /\ UNCHANGED foreign
    BY <1>27 DEF Reserve, Stay, history
  <2>2. /\ dir \in Places /\ holder = p /\ holder # NoProc
        /\ Present(Target) /\ Target \in Names \ foreign
    BY <2>1, Now DEF At, Between
  <2>3. PICK o \in Free(Old) : dir' = [dir EXCEPT ![o] = Fresh] /\ displaced' = [displaced
       EXCEPT ![p] = o]
    BY <1>27 DEF Reserve
  <2>4. o \in Names \ foreign /\ o # Target /\ ~Present(o) /\ o \in Old
    BY <2>3, NotForeign, Apart DEF Free
  <2>5. Only(o) /\ ~dir'[o].marked
    BY <2>2, <2>3, <2>4, FreshFacts, Replaced
  <2>6. staging[p] \in Names \ foreign /\ Present(staging[p]) /\ staging[p] # Target
    BY <2>1, Staged DEF Building, Swapping, After
  <2>7. ForeignUntouched'
    BY <2>1, <2>2, <2>3, <2>4, <2>5, <2>6, TouchesOne
  <2>8. /\ OneRestore' /\ pc' \in [Procs -> States] /\ pc'[p] = "markreserved"
        /\ holder' = p /\ holder = p /\ holder # NoProc
    BY <1>27, <2>1, Goes DEF Reserve, Stay, States
  <2>9. OwnDirs' /\ Volume'
    BY <1>27, <2>1, <2>2, <2>3, <2>4, <2>5, <2>6, <2>8, Now DEF Reserve, Stay, history, BInv,
         TypeOK, OwnDirs, Volume, Present, Only, At, Building, Swapping, Aside, After, Between
  <2>10. TypeOK'
    BY <1>27, <2>1, <2>2, <2>3, <2>4, <2>5, <2>6, <2>8 DEF Reserve, Stay, history, BInv, TypeOK,
         Places, Only
  <2>11. DInv'
    <3>1. Safe'
      BY <1>27, <2>1, <2>2, <2>3, <2>4, <2>5, <2>6, VolumeKept, NoDirFacts, Apart DEF
           Reserve, Stay, history, Only, Present
    <3>2. InHand'
      BY <1>27, <2>1, <2>2, <2>3, <2>4, <2>5, <2>6, <2>8, <2>9, NoDirFacts DEF Reserve,
           Stay, history, BInv, TypeOK, Only, Present, At, Building, Swapping, Aside, After,
           Between, DInv, InHand
    <3> QED BY <3>1, <3>2 DEF Safe, DInv
  <2> QED BY <2>7, <2>8, <2>9, <2>10, <2>11 DEF BInv
<1>28. ASSUME NEW p \in Procs, RemoveReservation(p) PROVE BInv' /\ DInv'
  <2>1. pc[p] = "recover" /\ UNCHANGED pc /\ Stay /\ UNCHANGED foreign
    BY <1>28 DEF RemoveReservation, Stay, history
  <2>2. dir \in Places
    BY <2>1, Now
  <2>3. PICK n \in OursEmpty(Old) : dir' = [dir EXCEPT ![n] = NoDir]
    BY <1>28 DEF RemoveReservation
  <2>4. n \in Names \ foreign /\ n # Target /\ n \in Old
    BY <2>3, NotForeign, Apart DEF Ours, OursEmpty
  <2>5. Gone(n)
    BY <2>2, <2>3, <2>4, Removed
  <2>6. ForeignUntouched'
    BY <2>1, <2>2, <2>3, <2>4, <2>5, NoDirFacts, TouchesTwo DEF Gone
  <2>7. /\ OneRestore' /\ pc' \in [Procs -> States] /\ pc'[p] = "recover"
        /\ holder' = p /\ holder = p /\ holder # NoProc
    BY <1>28, <2>1, Now DEF RemoveReservation, Stay, BInv, OneRestore, TypeOK
  <2>8. OwnDirs' /\ Volume'
    BY <2>1, <2>2, <2>3, <2>4, <2>5, <2>7, Now DEF Stay, history, BInv, TypeOK, OwnDirs, Volume,
         Present, Gone, At, Building, Swapping, Aside, After, Between
  <2>9. TypeOK'
    BY <2>1, <2>2, <2>3, <2>4, <2>5, <2>7 DEF Stay, history, BInv, TypeOK, Places, Gone
  <2>10. DInv'
    <3>1. Safe'
      BY <1>28, <2>1, <2>2, <2>3, <2>4, <2>5, VolumeKept, NoDirFacts, Apart DEF
           RemoveReservation, Stay, history, Gone, Present
    <3>2. InHand'
      BY <2>1, <2>2, <2>3, <2>4, <2>5, <2>7, <2>8, NoDirFacts DEF Stay, history, BInv,
           TypeOK, Gone, Present, At, Building, Swapping, Aside, After, Between, DInv, InHand
    <3> QED BY <3>1, <3>2 DEF Safe, DInv
  <2> QED BY <2>6, <2>7, <2>8, <2>9, <2>10 DEF BInv
<1>29. ASSUME NEW p \in Procs, ClearLeftover(p) PROVE BInv' /\ DInv'
  <2>1. pc[p] = "clear" /\ UNCHANGED pc /\ Stay /\ UNCHANGED foreign
    BY <1>29 DEF ClearLeftover, Stay, history
  <2>2. dir \in Places
    BY <2>1, Now
  <2>3. PICK n \in Ours(Staging) : dir' = [dir EXCEPT ![n] = NoDir]
    BY <1>29 DEF ClearLeftover
  <2>4. n \in Names \ foreign /\ n # Target /\ n \in Staging
    BY <2>3, NotForeign, Apart DEF Ours, OursEmpty
  <2>5. Gone(n)
    BY <2>2, <2>3, <2>4, Removed
  <2>6. ForeignUntouched'
    BY <2>1, <2>2, <2>3, <2>4, <2>5, NoDirFacts, TouchesTwo DEF Gone
  <2>7. /\ OneRestore' /\ pc' \in [Procs -> States] /\ pc'[p] = "clear"
        /\ holder' = p /\ holder = p /\ holder # NoProc
    BY <1>29, <2>1, Now DEF ClearLeftover, Stay, BInv, OneRestore, TypeOK
  <2>8. OwnDirs' /\ Volume'
    BY <2>1, <2>2, <2>3, <2>4, <2>5, <2>7, Now DEF Stay, history, BInv, TypeOK, OwnDirs, Volume,
         Present, Gone, At, Building, Swapping, Aside, After, Between
  <2>9. TypeOK'
    BY <2>1, <2>2, <2>3, <2>4, <2>5, <2>7 DEF Stay, history, BInv, TypeOK, Places, Gone
  <2>10. DInv'
    <3>1. Safe'
      BY <1>29, <2>1, <2>2, <2>3, <2>4, <2>5, CopiesKept, NoDirFacts, Apart DEF
           ClearLeftover, Stay, history, Gone, Present
    <3>2. InHand'
      BY <2>1, <2>2, <2>3, <2>4, <2>5, <2>7, <2>8, NoDirFacts DEF Stay, history, BInv,
           TypeOK, Gone, Present, At, Building, Swapping, Aside, After, Between, DInv, InHand
    <3> QED BY <3>1, <3>2 DEF Safe, DInv
  <2> QED BY <2>6, <2>7, <2>8, <2>9, <2>10 DEF BInv
<1>30. ASSUME NEW p \in Procs, ClearLeftoverFails(p) PROVE BInv' /\ DInv'
  <2>1. pc[p] = "clear" /\ Leave(p) /\ UNCHANGED foreign
    BY <1>30 DEF ClearLeftoverFails, Stay, history
  <2>2. dir \in Places
    BY <2>1, Now
  <2>3. PICK s \in Ours(Staging) : dir' = [dir EXCEPT ![s].data = Partial]
    BY <1>30 DEF ClearLeftoverFails
  <2>4. s \in Names \ foreign /\ Present(s) /\ s \in Staging
    BY <2>3, NotForeign, Apart DEF Ours
  <2>5. Only(s) /\ dir'[s].marked = dir[s].marked
    BY <2>2, <2>3, <2>4, DataFacts, Refilled
  <2>6. ForeignUntouched'
    BY <2>1, <2>2, <2>3, <2>4, <2>5, TouchesOne
  <2>7. OneRestore' /\ OwnDirs' /\ Volume' /\ holder' = NoProc
    BY <2>1, Leaves
  <2>8. TypeOK'
    BY <1>30, <2>1, <2>2, <2>3, <2>4, <2>5, Leaves DEF ClearLeftoverFails, BInv, TypeOK, Places,
         Only, history
  <2>9. DInv'
    <3>1. Safe'
      BY <1>30, <2>1, <2>2, <2>3, <2>4, <2>5, CopiesKept, NoDirFacts, Apart DEF
           ClearLeftoverFails, Stay, history, Only, Present
    <3> QED BY <3>1, <2>7 DEF Safe, DInv, InHand, At
  <2> QED BY <2>6, <2>7, <2>8, <2>9 DEF BInv
<1>31. ASSUME NEW p \in Procs, PutBackDisplaced(p) PROVE BInv' /\ DInv'
  <2>1. /\ pc[p] = "recover" /\ Goto(p, "flushback") /\ warned' = FALSE
        /\ misled' = (misled \/ live' # live)
        /\ UNCHANGED <<exchanges, holder, archive, staging, displaced, owed, foreign>>
    BY <1>31 DEF PutBackDisplaced
  <2>2. dir \in Places
    BY <2>1, Now
  <2>3. PICK m \in Ours(Old) :
          /\ WithData(Old) \subseteq {m} /\ dir' = Moved(m, Target)
          /\ live' = IF Evident THEN live ELSE dir[m].data
    BY <1>31 DEF PutBackDisplaced
  <2>4. m \in Names \ foreign /\ m # Target /\ Present(m) /\ Target \in Names \ foreign
    BY <2>3, NotForeign, Apart DEF Ours, BInv, TypeOK
  <2>5. Renames(m, Target)
    BY <2>2, <2>3, <2>4, Renamed
  <2>6. ForeignUntouched'
    BY <2>1, <2>2, <2>3, <2>4, <2>5, NoDirFacts, TouchesTwo DEF Renames
  <2>7. /\ OneRestore' /\ pc' \in [Procs -> States] /\ pc'[p] = "flushback"
        /\ holder' = p /\ holder = p /\ holder # NoProc
    BY <1>31, <2>1, Goes DEF PutBackDisplaced, Stay, States
  <2>8. OwnDirs' /\ Volume'
    BY <2>1, <2>2, <2>3, <2>4, <2>5, <2>7, Now DEF Stay, history, BInv, TypeOK, OwnDirs, Volume,
         Present, Renames, At, Building, Swapping, Aside, After, Between
  <2>9. TypeOK'
    <3>1. live' \in Data
      BY <2>2, <2>3, <2>4, DirType DEF Places, Present, BInv, TypeOK
    <3>2. misled' \in BOOLEAN
      BY <2>1 DEF BInv, TypeOK
    <3> QED BY <3>1, <3>2, <2>1, <2>4, <2>5, <2>7 DEF BInv, TypeOK, Places, Renames
  <2>10. DInv'
    <3>1. Safe'
      <4>1. live' = dir[m].data
        BY <2>3 DEF Evident
      <4>2. live' \in Originals \cup Archives \/ misled'
        BY <2>1 DEF DInv, InPlace
      <4> QED BY <4>1, <4>2, <2>4, <2>5 DEF Renames, Safe, InPlace, Recoverable, Present
    <3>2. InHand'
      BY <2>1, <2>2, <2>3, <2>4, <2>5, <2>7, <2>8, NoDirFacts DEF Stay, history, BInv,
           TypeOK, Renames, Present, At, Building, Swapping, Aside, After, Between, DInv, InHand
    <3> QED BY <3>1, <3>2 DEF Safe, DInv
  <2> QED BY <2>6, <2>7, <2>8, <2>9, <2>10 DEF BInv
<1>32. ASSUME NEW p \in Procs, Reclaim(p) PROVE BInv' /\ DInv'
  <2>1. pc[p] = "reclaim" /\ Goto(p, "clear") /\ Stay /\ UNCHANGED foreign
    BY <1>32 DEF Reclaim, Stay, history
  <2>2. /\ dir \in Places /\ holder = p /\ holder # NoProc
        /\ Present(Target) /\ Target \in Names \ foreign
    BY <2>1, Now DEF At, Between
  <2>3. PICK removed \in SUBSET OursEmpty(Old) : dir' = [n \in Names |-> IF n \in removed THEN
       NoDir ELSE dir[n]]
    BY <1>32 DEF Reclaim
  <2>4. removed \subseteq Names \ foreign /\ Target \notin removed
    BY <2>3, NotForeign, Apart DEF Ours, OursEmpty
  <2>5. dir' \in Places /\ \A n \in Names : dir'[n] = (IF n \in removed THEN NoDir ELSE dir[n])
    BY <2>2, <2>3 DEF Places
  <2>6. ForeignUntouched'
    <3> DEFINE changed == removed
    <3>1. /\ changed \subseteq Names \ foreign /\ dir' \in Places
          /\ \A n \in Names \ changed : dir'[n] = dir[n]
      BY <2>1, <2>2, <2>3, <2>4, <2>5, NoDirFacts
    <3> HIDE DEF changed
    <3> QED BY <2>1, <3>1, Touches
  <2>7. /\ OneRestore' /\ pc' \in [Procs -> States] /\ pc'[p] = "clear"
        /\ holder' = p /\ holder = p /\ holder # NoProc
    BY <1>32, <2>1, Goes DEF Reclaim, Stay, States
  <2>8. OwnDirs' /\ Volume'
    BY <2>1, <2>2, <2>3, <2>4, <2>5, <2>7, Now DEF Stay, history, BInv, TypeOK, OwnDirs, Volume,
         Present, At, Building, Swapping, Aside, After, Between
  <2>9. TypeOK'
    BY <2>1, <2>2, <2>3, <2>4, <2>5, <2>7 DEF Stay, history, BInv, TypeOK, Places
  <2>10. DInv'
    <3>1. Safe'
      BY <1>32, <2>1, <2>2, <2>3, <2>4, <2>5, VolumeKept, NoDirFacts, Apart DEF Reclaim,
           Stay, history, Present
    <3>2. InHand'
      BY <2>1, <2>2, <2>3, <2>4, <2>5, <2>7, <2>8, NoDirFacts DEF Stay, history, BInv,
           TypeOK, Present, At, Building, Swapping, Aside, After, Between, DInv, InHand
    <3> QED BY <3>1, <3>2 DEF Safe, DInv
  <2> QED BY <2>6, <2>7, <2>8, <2>9, <2>10 DEF BInv
<1>33. ASSUME NEW p \in Procs, Exchange(p) PROVE BInv' /\ DInv'
  <2>1. pc[p] = "exchange" /\ Goto(p, "unmark") /\ UNCHANGED foreign
    BY <1>33 DEF Exchange, Stay, history, Swapped
  <2>2. dir \in Places
    BY <2>1, Now
  <2>3. staging[p] \in Names \ foreign /\ Present(staging[p]) /\ staging[p] # Target
    BY <2>1, Staged DEF Building, Swapping, After
  <2>4. /\ dir \in Places /\ holder = p /\ holder # NoProc
        /\ Present(Target) /\ Target \in Names \ foreign
    BY <2>1, Now DEF At, Between
  <2>5. /\ dir' \in Places /\ dir'[Target] = dir[staging[p]] /\ dir'[staging[p]] = dir[Target]
        /\ \A i \in Names \ {staging[p], Target} : dir'[i] = dir[i]
    BY <1>33, <2>2, <2>3, <2>4 DEF Exchange, Places
  <2>6. staging[p] \in Staging \ foreign /\ dir[staging[p]].data \in Data
    BY <2>1, <2>2, <2>3, Staged, DirType DEF Swapping, Present, Places
  <2>7. ForeignUntouched'
    BY <2>1, <2>2, <2>3, <2>4, <2>5, <2>6, NoDirFacts, TouchesTwo
  <2>8. /\ OneRestore' /\ pc' \in [Procs -> States] /\ pc'[p] = "unmark"
        /\ holder' = p /\ holder = p /\ holder # NoProc
    BY <1>33, <2>1, Goes DEF Exchange, Stay, States
  <2>9. OwnDirs' /\ Volume'
    BY <1>33, <2>1, <2>2, <2>3, <2>4, <2>5, <2>6, <2>8, Now DEF Exchange, Stay, history,
         Swapped, BInv, TypeOK, OwnDirs, Volume, Present, At, Building, Swapping, Aside, After,
         Between
  <2>10. TypeOK'
    BY <1>33, <2>1, <2>2, <2>3, <2>4, <2>5, <2>6, <2>8 DEF Exchange, Stay, history, Swapped,
         BInv, TypeOK, Places
  <2>11. DInv'
    <3>1. Safe'
      <4>1. dir[staging[p]].data = archive[p] /\ archive[p] \in Archives
        BY <2>1, Now DEF DInv, InHand, At, Swapping, BInv, OneRestore
      <4>2. live' = dir[staging[p]].data
        BY <1>33 DEF Exchange, Promote, Swapped
      <4> QED BY <4>1, <4>2, <2>3, <2>5 DEF Safe, InPlace, Recoverable, Present
    <3>2. InHand'
      BY <1>33, <2>1, <2>2, <2>3, <2>4, <2>5, <2>6, <2>8, <2>9, NoDirFacts DEF Exchange,
           Stay, history, Swapped, BInv, TypeOK, Present, At, Building, Swapping, Aside, After,
           Between, DInv, InHand
    <3> QED BY <3>1, <3>2 DEF Safe, DInv
  <2> QED BY <2>7, <2>8, <2>9, <2>10, <2>11 DEF BInv
<1>34. ASSUME NEW p \in Procs, MoveAside(p) PROVE BInv' /\ DInv'
  <2>1. pc[p] = "aside" /\ Goto(p, "promote") /\ Stay /\ UNCHANGED foreign
    BY <1>34 DEF MoveAside, Stay, history
  <2>2. dir \in Places
    BY <2>1, Now
  <2>3. /\ displaced[p] \in Old \ foreign /\ displaced[p] \in Names \ foreign
        /\ displaced[p] # Target /\ displaced[p] # staging[p] /\ Present(displaced[p])
    BY <2>1, SetAside DEF Aside, After
  <2>4. /\ dir \in Places /\ holder = p /\ holder # NoProc
        /\ Present(Target) /\ Target \in Names \ foreign
    BY <2>1, Now DEF At, Between
  <2>5. Renames(Target, displaced[p])
    BY <1>34, <2>2, <2>3, <2>4, Renamed DEF MoveAside
  <2>6. /\ staging[p] \in Staging \ foreign /\ staging[p] # Target /\ staging[p] \in Names
        /\ Present(staging[p])
    BY <2>1, Staged DEF Swapping, After
  <2>7. ForeignUntouched'
    BY <2>1, <2>2, <2>3, <2>4, <2>5, <2>6, NoDirFacts, TouchesTwo DEF Renames
  <2>8. /\ OneRestore' /\ pc' \in [Procs -> States] /\ pc'[p] = "promote"
        /\ holder' = p /\ holder = p /\ holder # NoProc
    BY <1>34, <2>1, Goes DEF MoveAside, Stay, States
  <2>9. OwnDirs' /\ Volume'
    BY <2>1, <2>2, <2>3, <2>4, <2>5, <2>6, <2>8, Now DEF Stay, history, BInv, TypeOK, OwnDirs,
         Volume, Present, Renames, At, Building, Swapping, Aside, After, Between
  <2>10. TypeOK'
    BY <2>1, <2>2, <2>3, <2>4, <2>5, <2>6, <2>8 DEF Stay, history, BInv, TypeOK, Places, Renames
  <2>11. DInv'
    <3>1. Safe'
      <4>1. dir[Target].data = live /\ (dir[Target].marked \/ warned)
        BY <2>1, <2>4 DEF DInv, InPlace, InHand, At
      <4>2. live' = live /\ misled' = misled /\ warned' = warned
        BY <1>34 DEF MoveAside, Stay, history
      <4> QED BY <4>1, <4>2, <2>3, <2>5 DEF Renames, Safe, DInv, InPlace,
           Recoverable, Present
    <3>2. InHand'
      <4>1. /\ dir[Target].data = live /\ (dir[Target].marked \/ warned)
            /\ dir[staging[p]].data = archive[p]
        BY <2>1, <2>4 DEF DInv, InPlace, InHand, At, Swapping
      <4> QED BY <4>1, <2>1, <2>3, <2>5, <2>6, <2>8 DEF Renames, InHand, At, Swapping, Between,
           Stay, history
    <3> QED BY <3>1, <3>2 DEF Safe, DInv
  <2> QED BY <2>7, <2>8, <2>9, <2>10, <2>11 DEF BInv
<1>35. ASSUME NEW p \in Procs, Promote(p) PROVE BInv' /\ DInv'
  <2>1. pc[p] = "promote" /\ Goto(p, "unmark") /\ UNCHANGED foreign
    BY <1>35 DEF Promote, Stay, history, Swapped
  <2>2. dir \in Places
    BY <2>1, Now
  <2>3. staging[p] \in Names \ foreign /\ Present(staging[p]) /\ staging[p] # Target
    BY <2>1, Staged DEF Building, Swapping, After
  <2>4. Target \in Names \ foreign
    BY Apart DEF BInv, TypeOK
  <2>5. Renames(staging[p], Target)
    BY <1>35, <2>2, <2>3, <2>4, Renamed DEF Promote
  <2>6. dir[staging[p]].data \in Data
    BY <2>2, <2>3, DirType DEF Present, Places
  <2>7. /\ displaced[p] \in Old \ foreign /\ displaced[p] \in Names \ foreign
        /\ displaced[p] # Target /\ displaced[p] # staging[p] /\ Present(displaced[p])
    BY <2>1, SetAside DEF Aside, After
  <2>8. ForeignUntouched'
    BY <2>1, <2>2, <2>3, <2>4, <2>5, <2>6, <2>7, NoDirFacts, TouchesTwo DEF
         Renames
  <2>9. /\ OneRestore' /\ pc' \in [Procs -> States] /\ pc'[p] = "unmark"
        /\ holder' = p /\ holder = p /\ holder # NoProc
    BY <1>35, <2>1, Goes DEF Promote, Stay, States
  <2>10. OwnDirs' /\ Volume'
    BY <1>35, <2>1, <2>2, <2>3, <2>4, <2>5, <2>6, <2>7, <2>9, Now DEF Promote, Stay, history,
         Swapped, BInv, TypeOK, OwnDirs, Volume, Present, Renames, At, Building, Swapping,
         Aside, After, Between
  <2>11. TypeOK'
    BY <1>35, <2>1, <2>2, <2>3, <2>4, <2>5, <2>6, <2>7, <2>9 DEF Promote, Stay, history,
         Swapped, BInv, TypeOK, Places, Renames
  <2>12. DInv'
    <3>1. Safe'
      <4>1. dir[staging[p]].data = archive[p] /\ archive[p] \in Archives
        BY <2>1, Now DEF DInv, InHand, At, Swapping, BInv, OneRestore
      <4>2. live' = dir[staging[p]].data
        BY <1>35 DEF Exchange, Promote, Swapped
      <4> QED BY <4>1, <4>2, <2>3, <2>5 DEF Renames, Safe, InPlace, Recoverable, Present
    <3>2. InHand'
      BY <1>35, <2>1, <2>2, <2>3, <2>4, <2>5, <2>6, <2>7, <2>9, <2>10, NoDirFacts DEF
           Promote, Stay, history, Swapped, BInv, TypeOK, Renames, Present, At, Building,
           Swapping, Aside, After, Between, DInv, InHand
    <3> QED BY <3>1, <3>2 DEF Safe, DInv
  <2> QED BY <2>8, <2>9, <2>10, <2>11, <2>12 DEF BInv
<1>36. ASSUME NEW p \in Procs, Discard(p) PROVE BInv' /\ DInv'
  <2>1. pc[p] = "discard" /\ Leave(p) /\ UNCHANGED foreign
    BY <1>36 DEF Discard, Stay, history
  <2>2. /\ dir \in Places /\ holder = p /\ holder # NoProc
        /\ Present(Target) /\ Target \in Names \ foreign
    BY <2>1, Now DEF At, Between
  <2>3. staging[p] \in Names \ foreign /\ Present(staging[p]) /\ staging[p] # Target
    BY <2>1, Staged DEF Building, Swapping, After
  <2>4. Gone(staging[p]) \/ (Only(staging[p]) /\ dir'[staging[p]].marked =
       dir[staging[p]].marked)
    BY <1>36, <2>2, <2>3, Removed, Refilled, DataFacts DEF Discard
  <2>5. ForeignUntouched'
    BY <2>1, <2>2, <2>3, <2>4, NoDirFacts, TouchesTwo DEF Only, Gone
  <2>6. OneRestore' /\ OwnDirs' /\ Volume' /\ holder' = NoProc
    BY <2>1, Leaves
  <2>7. TypeOK'
    BY <1>36, <2>1, <2>2, <2>3, <2>4, Leaves DEF Discard, BInv, TypeOK, Places, Only, Gone,
         history
  <2>8. DInv'
    <3>1. Safe'
      BY <1>36, <2>1, <2>2, <2>3, <2>4, VolumeKept, NoDirFacts, Apart DEF Discard, Stay,
           history, Only, Gone, Present
    <3> QED BY <3>1, <2>6 DEF Safe, DInv, InHand, At
  <2> QED BY <2>5, <2>6, <2>7, <2>8 DEF BInv
<1>37. ASSUME NEW p \in Procs, Dispose(p) PROVE BInv' /\ DInv'
  <2>1. pc[p] = "dispose" /\ Leave(p) /\ UNCHANGED foreign
    BY <1>37 DEF Dispose, Stay, history
  <2>2. /\ dir \in Places /\ holder = p /\ holder # NoProc
        /\ Present(Target) /\ Target \in Names \ foreign
    BY <2>1, Now DEF At, Between
  <2>3. /\ displaced[p] \in (Staging \cup Old) \ foreign
        /\ displaced[p] \in Names \ foreign /\ displaced[p] # Target
        /\ Present(displaced[p])
    BY <2>1, SetAside DEF Aside, After
  <2>4. Gone(displaced[p])
    BY <1>37, <2>2, <2>3, Removed DEF Dispose
  <2>5. ForeignUntouched'
    BY <2>1, <2>2, <2>3, <2>4, NoDirFacts, TouchesTwo DEF Gone
  <2>6. OneRestore' /\ OwnDirs' /\ Volume' /\ holder' = NoProc
    BY <2>1, Leaves
  <2>7. TypeOK'
    BY <1>37, <2>1, <2>2, <2>3, <2>4, Leaves DEF Dispose, BInv, TypeOK, Places, Gone, history
  <2>8. DInv'
    <3>1. Safe'
      BY <1>37, <2>1, <2>2, <2>3, <2>4, VolumeKept, NoDirFacts, Apart DEF Dispose, Stay,
           history, Gone, Present
    <3> QED BY <3>1, <2>6 DEF Safe, DInv, InHand, At
  <2> QED BY <2>5, <2>6, <2>7, <2>8 DEF BInv
<1>38. ASSUME NEW p \in Procs, DisposeFails(p) PROVE BInv' /\ DInv'
  <2>1. pc[p] = "dispose" /\ Goto(p, "retain") /\ Stay /\ UNCHANGED foreign
    BY <1>38 DEF DisposeFails, Stay, history
  <2>2. /\ dir \in Places /\ holder = p /\ holder # NoProc
        /\ Present(Target) /\ Target \in Names \ foreign
    BY <2>1, Now DEF At, Between
  <2>3. /\ displaced[p] \in (Staging \cup Old) \ foreign
        /\ displaced[p] \in Names \ foreign /\ displaced[p] # Target
        /\ Present(displaced[p])
    BY <2>1, SetAside DEF Aside, After
  <2>4. Only(displaced[p]) /\ dir'[displaced[p]].marked = dir[displaced[p]].marked
    BY <1>38, <2>2, <2>3, Refilled, DataFacts DEF DisposeFails
  <2>5. ForeignUntouched'
    BY <2>1, <2>2, <2>3, <2>4, TouchesOne
  <2>6. /\ OneRestore' /\ pc' \in [Procs -> States] /\ pc'[p] = "retain"
        /\ holder' = p /\ holder = p /\ holder # NoProc
    BY <1>38, <2>1, Goes DEF DisposeFails, Stay, States
  <2>7. OwnDirs' /\ Volume'
    BY <2>1, <2>2, <2>3, <2>4, <2>6, Now DEF Stay, history, BInv, TypeOK, OwnDirs, Volume,
         Present, Only, At, Building, Swapping, Aside, After, Between
  <2>8. TypeOK'
    BY <2>1, <2>2, <2>3, <2>4, <2>6 DEF Stay, history, BInv, TypeOK, Places, Only
  <2>9. DInv'
    <3>1. Safe'
      BY <1>38, <2>1, <2>2, <2>3, <2>4, VolumeKept, NoDirFacts, Apart DEF DisposeFails,
           Stay, history, Only, Present
    <3>2. InHand'
      BY <2>1, <2>2, <2>3, <2>4, <2>6, <2>7, NoDirFacts DEF Stay, history, BInv, TypeOK,
           Only, Present, At, Building, Swapping, Aside, After, Between, DInv, InHand
    <3> QED BY <3>1, <3>2 DEF Safe, DInv
  <2> QED BY <2>5, <2>6, <2>7, <2>8, <2>9 DEF BInv
<1>39. ASSUME NEW p \in Procs, MoveAsideFails(p) PROVE BInv' /\ DInv'
  <2>1. pc[p] = "aside" /\ Goto(p, "discard") /\ Stay /\ UNCHANGED foreign
    BY <1>39 DEF MoveAsideFails, Stay, history
  <2>2. /\ dir \in Places /\ holder = p /\ holder # NoProc
        /\ Present(Target) /\ Target \in Names \ foreign
    BY <2>1, Now DEF At, Between
  <2>3. /\ displaced[p] \in Old \ foreign /\ displaced[p] \in Names \ foreign
        /\ displaced[p] # Target /\ displaced[p] # staging[p] /\ Present(displaced[p])
    BY <2>1, SetAside DEF Aside, After
  <2>4. staging[p] \in Names \ foreign /\ Present(staging[p]) /\ staging[p] # Target
    BY <2>1, Staged DEF Building, Swapping, After
  <2>5. \A d \in {dir[Target], Unmarked(dir[Target])} : d \in Dir /\ d.data = dir[Target].data
    BY <2>2, WithMark DEF Places, Present, Unmarked
  <2>6. PICK volume \in {dir[Target], Unmarked(dir[Target])}, left \in {NoDir, dir[displaced[p]]} :
          dir' = [dir EXCEPT ![Target] = volume, ![displaced[p]] = left]
    BY <1>39 DEF MoveAsideFails
  <2>7. /\ dir' \in Places /\ dir'[Target] # NoDir /\ dir'[Target].data = dir[Target].data
        /\ dir'[displaced[p]] \in {NoDir, dir[displaced[p]]}
        /\ \A n \in Names \ {Target, displaced[p]} : dir'[n] = dir[n]
    BY <2>2, <2>3, <2>5, <2>6, NoDirFacts DEF Places, Present
  <2>8. ForeignUntouched'
    BY <2>1, <2>2, <2>3, <2>4, <2>5, <2>6, <2>7, NoDirFacts, TouchesTwo
  <2>9. /\ OneRestore' /\ pc' \in [Procs -> States] /\ pc'[p] = "discard"
        /\ holder' = p /\ holder = p /\ holder # NoProc
    BY <1>39, <2>1, Goes DEF MoveAsideFails, Stay, States
  <2>10. OwnDirs' /\ Volume'
    BY <2>1, <2>2, <2>3, <2>4, <2>5, <2>6, <2>7, <2>9, Now DEF Stay, history, BInv, TypeOK,
         OwnDirs, Volume, Present, At, Building, Swapping, Aside, After, Between
  <2>11. TypeOK'
    BY <2>1, <2>2, <2>3, <2>4, <2>5, <2>6, <2>7, <2>9 DEF Stay, history, BInv, TypeOK, Places
  <2>12. DInv'
    <3>1. Safe'
      BY <1>39, <2>1, <2>2, <2>3, <2>4, <2>5, <2>6, <2>7, VolumeKept, NoDirFacts, Apart
           DEF MoveAsideFails, Stay, history, Present
    <3>2. InHand'
      BY <2>1, <2>2, <2>3, <2>4, <2>5, <2>6, <2>7, <2>9, <2>10, NoDirFacts DEF Stay,
           history, BInv, TypeOK, Present, At, Building, Swapping, Aside, After, Between, DInv,
           InHand
    <3> QED BY <3>1, <3>2 DEF Safe, DInv
  <2> QED BY <2>8, <2>9, <2>10, <2>11, <2>12 DEF BInv
<1>40. ASSUME NEW p \in Procs, PutBack(p) PROVE BInv' /\ DInv'
  <2>1. pc[p] = "putback" /\ Goto(p, "discard") /\ Stay /\ UNCHANGED foreign
    BY <1>40 DEF PutBack, Stay, history
  <2>2. dir \in Places
    BY <2>1, Now
  <2>3. /\ displaced[p] \in Old \ foreign /\ displaced[p] \in Names \ foreign
        /\ displaced[p] # Target /\ displaced[p] # staging[p] /\ Present(displaced[p])
    BY <2>1, SetAside DEF Aside, After
  <2>4. staging[p] \in Names \ foreign /\ Present(staging[p]) /\ staging[p] # Target
    BY <2>1, Staged DEF Building, Swapping, After
  <2>5. Target \in Names \ foreign
    BY Apart DEF BInv, TypeOK
  <2>6. /\ dir' \in Places /\ dir'[Target] # NoDir
        /\ dir'[Target].data = dir[displaced[p]].data
        /\ dir'[displaced[p]] = NoDir /\ \A n \in Names \ {Target, displaced[p]} : dir'[n] = dir[n]
    BY <1>40, <2>2, <2>3, <2>5, WithMark, NoDirFacts DEF PutBack, Moved, Unmarked, Places,
         Present
  <2>7. ForeignUntouched'
    BY <2>1, <2>2, <2>3, <2>4, <2>5, <2>6, NoDirFacts, TouchesTwo
  <2>8. /\ OneRestore' /\ pc' \in [Procs -> States] /\ pc'[p] = "discard"
        /\ holder' = p /\ holder = p /\ holder # NoProc
    BY <1>40, <2>1, Goes DEF PutBack, Stay, States
  <2>9. OwnDirs' /\ Volume'
    BY <2>1, <2>2, <2>3, <2>4, <2>5, <2>6, <2>8, Now DEF Stay, history, BInv, TypeOK, OwnDirs,
         Volume, Present, At, Building, Swapping, Aside, After, Between
  <2>10. TypeOK'
    BY <2>1, <2>2, <2>3, <2>4, <2>5, <2>6, <2>8 DEF Stay, history, BInv, TypeOK, Places
  <2>11. DInv'
    <3>1. Safe'
      <4>1. dir[displaced[p]].data = live /\ (live \in Originals \cup Archives \/ misled)
        BY <2>1, <2>2, Now DEF DInv, InHand, InPlace, At, Between
      <4> QED BY <4>1, <2>1, <2>6 DEF Stay, history, Safe, InPlace, Recoverable, Present
    <3>2. InHand'
      BY <2>1, <2>2, <2>3, <2>4, <2>5, <2>6, <2>8, <2>9, NoDirFacts DEF Stay, history,
           BInv, TypeOK, Present, At, Building, Swapping, Aside, After, Between, DInv, InHand
    <3> QED BY <3>1, <3>2 DEF Safe, DInv
  <2> QED BY <2>7, <2>8, <2>9, <2>10, <2>11 DEF BInv
<1>41. ASSUME NEW p \in Procs, Retain(p) PROVE BInv' /\ DInv'
  <2>1. pc[p] \in {"keep", "retain"} /\ Leave(p) /\ UNCHANGED foreign
    BY <1>41 DEF Retain, Stay, history
  <2>2. /\ dir \in Places /\ holder = p /\ holder # NoProc
        /\ Present(Target) /\ Target \in Names \ foreign
    BY <2>1, Now DEF At, Between
  <2>3. PICK from \in Names \ foreign :
          /\ from = (IF pc[p] = "keep" THEN staging[p] ELSE displaced[p])
          /\ from # Target /\ from \notin Kept
    BY <2>1, Staged, SetAside, Apart DEF Building, Swapping, After, Aside
  <2>4. Kept \subseteq Names \ foreign
    BY Apart DEF BInv, TypeOK
  <2>5. dir' = dir \/ \E k \in Kept : dir' = Moved(from, k)
    BY <1>41, <2>3 DEF Retain, Free
  <2>6. /\ dir' \in Places /\ \A n \in Names \ (Kept \cup {from}) : dir'[n] = dir[n]
        /\ \A n \in Names : dir'[n] \in {dir[n], NoDir, dir[from]}
    BY <2>2, <2>3, <2>4, <2>5, Renamed DEF Renames
  <2>7. ForeignUntouched'
    <3> DEFINE changed == Kept \cup {IF pc[p] = "keep" THEN staging[p] ELSE displaced[p]}
    <3>1. /\ changed \subseteq Names \ foreign /\ dir' \in Places
          /\ \A n \in Names \ changed : dir'[n] = dir[n]
      BY <2>1, <2>2, <2>3, <2>4, <2>5, <2>6, NoDirFacts DEF Renames
    <3> HIDE DEF changed
    <3> QED BY <2>1, <3>1, Touches
  <2>8. OneRestore' /\ OwnDirs' /\ Volume' /\ holder' = NoProc
    BY <2>1, Leaves
  <2>9. TypeOK'
    BY <1>41, <2>1, <2>2, <2>3, <2>4, <2>5, <2>6, Leaves DEF Retain, BInv, TypeOK, Places,
         Renames, history
  <2>10. DInv'
    <3>1. Safe'
      BY <1>41, <2>1, <2>2, <2>3, <2>4, <2>5, <2>6, VolumeKept, NoDirFacts, Apart DEF
           Retain, Stay, history, Renames, Present
    <3> QED BY <3>1, <2>8 DEF Safe, DInv, InHand, At
  <2> QED BY <2>7, <2>8, <2>9, <2>10 DEF BInv
<1>42. ASSUME NEW p \in Procs, Unclaim(p), ~exchanges, Goto(p, "reserve")
       PROVE  BInv' /\ DInv'
  <2>1. pc[p] = "unclaim" /\ Goto(p, "reserve") /\ Stay /\ UNCHANGED foreign
    BY <1>42 DEF Unclaim, Stay, history
  <2>2. /\ dir \in Places /\ holder = p /\ holder # NoProc
        /\ Present(Target) /\ Target \in Names \ foreign
    BY <2>1, Now DEF At, Between
  <2>3. dir' = dir \/ (Only(Target) /\ dir'[Target].data = dir[Target].data)
    BY <1>42, <2>2, Remarked DEF Unclaim, MayUnmark, Unmarked
  <2>4. staging[p] \in Names \ foreign /\ Present(staging[p]) /\ staging[p] # Target
    BY <2>1, Staged DEF Building, Swapping, After
  <2>5. ForeignUntouched'
    BY <2>1, <2>2, <2>3, <2>4, TouchesOne DEF BInv, ForeignUntouched
  <2>6. /\ OneRestore' /\ pc' \in [Procs -> States] /\ pc'[p] = "reserve"
        /\ holder' = p /\ holder = p /\ holder # NoProc
    BY <1>42, <2>1, Goes DEF Unclaim, Stay, States
  <2>7. OwnDirs' /\ Volume'
    BY <2>1, <2>2, <2>3, <2>4, <2>6, Now DEF Stay, history, BInv, TypeOK, OwnDirs, Volume,
         Present, Only, At, Building, Swapping, Aside, After, Between
  <2>8. TypeOK'
    BY <2>1, <2>2, <2>3, <2>4, <2>6 DEF Stay, history, BInv, TypeOK, Places, Only
  <2>9. DInv'
    <3>1. Safe'
      BY <1>42, <2>1, <2>2, <2>3, <2>4, VolumeKept, NoDirFacts, Apart DEF Unclaim, Stay,
           history, Only, Present
    <3>2. InHand'
      BY <2>1, <2>2, <2>3, <2>4, <2>6, <2>7, NoDirFacts DEF Stay, history, BInv, TypeOK,
           Only, Present, At, Building, Swapping, Aside, After, Between, DInv, InHand
    <3> QED BY <3>1, <3>2 DEF Safe, DInv
  <2> QED BY <2>5, <2>6, <2>7, <2>8, <2>9 DEF BInv
<1>43. ASSUME NEW p \in Procs, Unclaim(p), Goto(p, "discard")
       PROVE  BInv' /\ DInv'
  <2>1. pc[p] = "unclaim" /\ Goto(p, "discard") /\ Stay /\ UNCHANGED foreign
    BY <1>43 DEF Unclaim, Stay, history
  <2>2. /\ dir \in Places /\ holder = p /\ holder # NoProc
        /\ Present(Target) /\ Target \in Names \ foreign
    BY <2>1, Now DEF At, Between
  <2>3. dir' = dir \/ (Only(Target) /\ dir'[Target].data = dir[Target].data)
    BY <1>43, <2>2, Remarked DEF Unclaim, MayUnmark, Unmarked
  <2>4. staging[p] \in Names \ foreign /\ Present(staging[p]) /\ staging[p] # Target
    BY <2>1, Staged DEF Building, Swapping, After
  <2>5. ForeignUntouched'
    BY <2>1, <2>2, <2>3, <2>4, TouchesOne DEF BInv, ForeignUntouched
  <2>6. /\ OneRestore' /\ pc' \in [Procs -> States] /\ pc'[p] = "discard"
        /\ holder' = p /\ holder = p /\ holder # NoProc
    BY <1>43, <2>1, Goes DEF Unclaim, Stay, States
  <2>7. OwnDirs' /\ Volume'
    BY <2>1, <2>2, <2>3, <2>4, <2>6, Now DEF Stay, history, BInv, TypeOK, OwnDirs, Volume,
         Present, Only, At, Building, Swapping, Aside, After, Between
  <2>8. TypeOK'
    BY <2>1, <2>2, <2>3, <2>4, <2>6 DEF Stay, history, BInv, TypeOK, Places, Only
  <2>9. DInv'
    <3>1. Safe'
      BY <1>43, <2>1, <2>2, <2>3, <2>4, VolumeKept, NoDirFacts, Apart DEF Unclaim, Stay,
           history, Only, Present
    <3>2. InHand'
      BY <2>1, <2>2, <2>3, <2>4, <2>6, <2>7, NoDirFacts DEF Stay, history, BInv, TypeOK,
           Only, Present, At, Building, Swapping, Aside, After, Between, DInv, InHand
    <3> QED BY <3>1, <3>2 DEF Safe, DInv
  <2> QED BY <2>5, <2>6, <2>7, <2>8, <2>9 DEF BInv
<1>44. ASSUME NEW p \in Procs, NEW a \in Archives, Start(p, a)
       PROVE  BInv' /\ DInv'
  <2>1. /\ pc[p] = "idle" /\ holder = NoProc /\ holder' = p /\ p # NoProc
        /\ pc' = [pc EXCEPT ![p] = "recover"]
        /\ archive' = [archive EXCEPT ![p] = a]
        /\ UNCHANGED <<exchanges, dir, staging, displaced, history>>
    BY <1>44, Apart DEF Start, Goto
  <2>2. /\ pc'[p] = "recover" /\ pc' \in [Procs -> States] /\ archive'[p] = a
        /\ archive' \in [Procs -> Archives \cup {None}]
    BY <2>1 DEF BInv, TypeOK, States
  <2>3. OneRestore'
    BY <2>1, <2>2, Apart DEF OneRestore, BInv, TypeOK
  <2>4. OwnDirs' /\ Volume'
    BY <2>1, <2>2 DEF OwnDirs, Volume, At, Building, Swapping, Aside, After, Between
  <2>5. TypeOK' /\ ForeignUntouched'
    BY <2>1, <2>2 DEF BInv, TypeOK, ForeignUntouched, history
  <2>6. ASSUME DInv PROVE DInv'
    BY <2>1, <2>2, <2>6 DEF DInv, InPlace, Recoverable, InHand, At, Present,
         history, Building, Swapping, Aside, After, Between
  <2> QED BY <2>3, <2>4, <2>5, <2>6 DEF BInv
<1>45. CASE UNCHANGED vars
  <2>1. BInv'
    BY <1>45 DEF vars, history, BInv, TypeOK, OneRestore, OwnDirs, Volume,
         ForeignUntouched, Present, At
  <2>2. ASSUME DInv PROVE DInv'
    BY <1>45, <2>2 DEF vars, history, Present, At, DInv, InPlace, Recoverable, InHand
  <2> QED BY <2>1, <2>2
<1> QED
  BY <1>1, <1>2, <1>3, <1>4, <1>5, <1>6, <1>7, <1>8, <1>9, <1>10, <1>11, <1>12, <1>13, <1>14,
       <1>15, <1>16, <1>17, <1>18, <1>19, <1>20, <1>21, <1>22, <1>23, <1>24, <1>25, <1>26,
       <1>27, <1>28, <1>29, <1>30, <1>31, <1>32, <1>33, <1>34, <1>35, <1>36, <1>37, <1>38,
       <1>39, <1>40, <1>41, <1>42, <1>43, <1>44, <1>45 DEF Next, Step, Unclaim

LEMMA InitIInv == Init => IInv
<1> SUFFICES ASSUME Init PROVE IInv
  OBVIOUS
<1>1. [data |-> Foreign, marked |-> FALSE] \in Dir
  BY DEF Dir, Data
<1>2. [data |-> live, marked |-> FALSE] \in Dir /\ live \in Data
  BY RestoreSwapAssumption DEF Init, Dir, Data
<1>3. /\ dir \in Places /\ dir[Target] = [data |-> live, marked |-> FALSE]
      /\ \A n \in foreign : dir[n] = [data |-> Foreign, marked |-> FALSE]
      /\ \A n \in Names : ~dir[n].marked
  BY <1>1, <1>2, Apart, NoDirFacts DEF Init, Places
<1>4. Present(Target)
  BY <1>2, <1>3, NoDirFacts DEF Present
<1>5. TypeOK
  BY <1>2, <1>3 DEF Init, TypeOK, Places, States
<1>6. BInv
  BY <1>3, <1>4, <1>5, Apart DEF BInv, Init, OneRestore, OwnDirs, Volume,
       ForeignUntouched, At
<1>7. DInv
  BY <1>3, <1>4 DEF Init, DInv, InPlace, Recoverable, InHand, At
<1> QED BY <1>6, <1>7 DEF IInv

LEMMA InductiveInvariant == Spec => []IInv
<1>1. IInv /\ [Next]_vars => IInv'
  BY NextIInv
<1> QED BY <1>1, InitIInv, PTL DEF Spec

-----------------------------------------------------------------------------
(* What recovery may be misled to put back: a copy, empty, or half removed. *)

Copies == Originals \cup Archives \cup {Empty, Partial}

\* A displaced name that nobody else uses holds one of these.
CInv ==
  /\ live \in Copies
  /\ \A o \in Old \ foreign : dir[o].data \in Copies \cup {None}

LEMMA NextCInv == IInv /\ CInv /\ [Next]_vars => CInv'
<1> SUFFICES ASSUME IInv, CInv, [Next]_vars PROVE CInv'
  OBVIOUS
<1>0. BInv /\ DInv /\ dir \in Places
  BY DEF IInv, BInv, TypeOK, Places
<1>1. ASSUME UNCHANGED <<dir, live, foreign>> PROVE CInv'
  BY <1>1 DEF CInv
<1>2. ASSUME NEW p \in Procs,
             \/ \E a \in Archives : Start(p, a)
             \/ NothingToRecover(p) \/ RefuseToChoose(p) \/ FlushPutBack(p) \/ LeftoversCleared(p)
             \/ Abandon(p) \/ FlushStaged(p) \/ StageFails(p) \/ StillSafe(p) \/ NotSafe(p)
             \/ ExchangeFails(p) \/ ReserveFails(p) \/ PromoteFails(p) \/ Stranded(p)
             \/ FlushSwap(p) \/ FlushSwapFails(p) \/ Die(p)
      PROVE  CInv'
  <2>1. UNCHANGED <<dir, live, foreign>>
    BY <1>2 DEF Start, NothingToRecover, RefuseToChoose, FlushPutBack, LeftoversCleared, Abandon,
         FlushStaged, StageFails, StillSafe, NotSafe, ExchangeFails, ReserveFails, PromoteFails,
         Stranded, FlushSwap, FlushSwapFails, Die, Stay, history
  <2> QED BY <2>1, <1>1
<1>3. ASSUME NEW p \in Procs,
             \/ UnmarkPutBack(p) \/ ClaimTarget(p) \/ Unclaim(p) \/ ClaimDisplaced(p)
             \/ UnmarkVolume(p)
      PROVE  CInv'
  <2>1. UNCHANGED <<live, foreign>>
    BY <1>3 DEF UnmarkPutBack, ClaimTarget, Unclaim, ClaimDisplaced, UnmarkVolume, Stay, history
  <2>2. \A o \in Old : dir'[o] = dir[o]
    BY <1>3, <1>0, Apart DEF UnmarkPutBack, ClaimTarget, Unclaim, ClaimDisplaced, UnmarkVolume,
         MayMark, MayUnmark, Places
  <2> QED BY <2>1, <2>2 DEF CInv
<1>4. ASSUME NEW p \in Procs, ClearLeftover(p) \/ ClearLeftoverFails(p) \/ CreateStaging(p)
      PROVE  CInv'
  <2>1. UNCHANGED <<live, foreign>>
    BY <1>4 DEF ClearLeftover, ClearLeftoverFails, CreateStaging, Stay, history
  <2>2. \A o \in Old : dir'[o] = dir[o]
    BY <1>4, <1>0, Apart DEF ClearLeftover, ClearLeftoverFails, CreateStaging, Ours, Free, Places
  <2> QED BY <2>1, <2>2 DEF CInv
<1>5. ASSUME NEW p \in Procs,
             \/ MarkStaging(p) \/ Extract(p) \/ Extracted(p) \/ ExtractedNothing(p) \/ Discard(p)
      PROVE  CInv'
  <2>1. UNCHANGED <<live, foreign>>
    BY <1>5 DEF MarkStaging, Extract, Extracted, ExtractedNothing, Discard, Stay, history
  <2>2. staging[p] \in Staging
    BY <1>5, <1>0, Staged DEF MarkStaging, Extract, Extracted, ExtractedNothing, Discard, Building
  <2>3. \A o \in Old : dir'[o] = dir[o]
    BY <1>5, <1>0, <2>2, Apart DEF MarkStaging, Extract, Extracted, ExtractedNothing, Discard,
         MayMark, Places
  <2> QED BY <2>1, <2>3 DEF CInv
<1>6. ASSUME NEW p \in Procs, RemoveReservation(p) \/ Reclaim(p) PROVE CInv'
  <2>1. UNCHANGED <<live, foreign>>
    BY <1>6 DEF RemoveReservation, Reclaim, Stay, history
  <2>2. \A o \in Old : dir'[o] = dir[o] \/ dir'[o] = NoDir
    BY <1>6, <1>0, Apart DEF RemoveReservation, Reclaim, Places
  <2> QED BY <2>1, <2>2, NoDirFacts DEF CInv
<1>7. ASSUME NEW p \in Procs, PutBackDisplaced(p) PROVE CInv'
  <2>1. PICK m \in Ours(Old) :
          /\ dir' = Moved(m, Target) /\ live' = IF Evident THEN live ELSE dir[m].data
          /\ UNCHANGED foreign
    BY <1>7 DEF PutBackDisplaced
  <2>2. m \in Old \ foreign /\ dir[m].data # None /\ m \in Names
    BY <1>0, <2>1, NotForeign, Apart, DirType, DataFacts DEF Ours, Present, Places
  <2>3. live' \in Copies
    BY <2>1, <2>2 DEF CInv
  <2>4. \A o \in Old : dir'[o] = dir[o] \/ dir'[o] = NoDir
    BY <2>1, <2>2, <1>0, Apart DEF Moved, Places
  <2> QED BY <2>1, <2>3, <2>4, NoDirFacts DEF CInv
<1>8. ASSUME NEW p \in Procs, Reserve(p) PROVE CInv'
  <2>1. UNCHANGED <<live, foreign>>
    BY <1>8 DEF Reserve, history
  <2>2. \A o \in Old : dir'[o] = dir[o] \/ dir'[o] = Fresh
    BY <1>8, <1>0, Apart DEF Reserve, Free, Places
  <2> QED BY <2>1, <2>2, FreshFacts DEF CInv, Copies
<1>9. ASSUME NEW p \in Procs, MarkReserved(p) PROVE CInv'
  <2>1. UNCHANGED <<live, foreign>>
    BY <1>9 DEF MarkReserved, Stay, history
  <2>2. displaced[p] \in Names /\ Present(displaced[p])
    BY <1>9, <1>0, SetAside DEF MarkReserved, Aside
  <2>3. dir' = dir \/ (Only(displaced[p]) /\ dir'[displaced[p]].data = dir[displaced[p]].data)
    BY <1>9, <1>0, <2>2, Remarked DEF MarkReserved, MayMark, Marked
  <2>4. \A o \in Old : dir'[o].data = dir[o].data
    BY <2>3, Apart DEF Only
  <2> QED BY <2>1, <2>4 DEF CInv
<1>10. ASSUME NEW p \in Procs, MoveAside(p) PROVE CInv'
  <2>1. UNCHANGED <<live, foreign>> /\ dir' = Moved(Target, displaced[p])
    BY <1>10 DEF MoveAside, Stay, history
  <2>2. displaced[p] \in Names /\ displaced[p] # Target
    BY <1>10, <1>0, SetAside DEF MoveAside, Aside
  <2>3. dir[Target].data = live
    BY <1>10, <1>0, Now DEF MoveAside, Between, At, DInv, InPlace
  <2>4. Renames(Target, displaced[p])
    BY <1>0, <2>1, <2>2, Apart, Renamed
  <2>5. \A o \in Old : dir'[o] = dir[o] \/ dir'[o].data = live
    BY <2>3, <2>4, Apart DEF Renames
  <2> QED BY <2>1, <2>5 DEF CInv
<1>11. ASSUME NEW p \in Procs, MoveAsideFails(p) PROVE CInv'
  <2>1. UNCHANGED <<live, foreign>>
    BY <1>11 DEF MoveAsideFails, Stay, history
  <2>2. displaced[p] \in Names /\ displaced[p] # Target
    BY <1>11, <1>0, SetAside DEF MoveAsideFails, Aside
  <2>3. \A o \in Old : dir'[o] = dir[o] \/ dir'[o] = NoDir
    BY <1>11, <1>0, <2>2, Apart DEF MoveAsideFails, Places
  <2> QED BY <2>1, <2>3, NoDirFacts DEF CInv
<1>12. ASSUME NEW p \in Procs, Exchange(p) \/ Promote(p) PROVE CInv'
  <2>1. live' = dir[staging[p]].data /\ UNCHANGED foreign
    BY <1>12 DEF Exchange, Promote, Swapped
  <2>2. holder = p /\ holder # NoProc /\ pc[p] \in Swapping
    BY <1>12, <1>0, Now DEF Exchange, Promote, Swapping
  <2>3. live' \in Archives
    BY <1>0, <2>1, <2>2 DEF DInv, InHand, At, BInv, OneRestore
  <2>4. staging[p] \in Staging
    BY <1>0, <2>2, Staged
  <2>5. \A o \in Old : dir'[o] = dir[o]
    BY <1>0, <1>12, <2>4, Apart DEF Exchange, Promote, Moved, Places
  <2> QED BY <2>1, <2>3, <2>5 DEF CInv, Copies
<1>13. ASSUME NEW p \in Procs, PutBack(p) PROVE CInv'
  <2>1. UNCHANGED <<live, foreign>>
    BY <1>13 DEF PutBack, Stay, history
  <2>2. displaced[p] \in Names /\ displaced[p] # Target
    BY <1>13, <1>0, SetAside DEF PutBack, Aside
  <2>3. \A o \in Old : dir'[o] = dir[o] \/ dir'[o] = NoDir
    BY <1>13, <1>0, <2>2, Apart DEF PutBack, Moved, Places
  <2> QED BY <2>1, <2>3, NoDirFacts DEF CInv
<1>14. ASSUME NEW p \in Procs, Retain(p) PROVE CInv'
  <2>1. UNCHANGED <<live, foreign>>
    BY <1>14 DEF Retain
  <2>2. \A o \in Old : dir'[o] = dir[o] \/ dir'[o] = NoDir
    BY <1>14, <1>0, Apart DEF Retain, Free, Moved, Places
  <2> QED BY <2>1, <2>2, NoDirFacts DEF CInv
<1>15. ASSUME NEW p \in Procs, Dispose(p) \/ DisposeFails(p) PROVE CInv'
  <2>1. UNCHANGED <<live, foreign>>
    BY <1>15 DEF Dispose, DisposeFails, Stay, history
  <2>2. displaced[p] \in Names /\ Present(displaced[p])
    BY <1>15, <1>0, SetAside DEF Dispose, DisposeFails, After
  <2>3. \/ Gone(displaced[p])
        \/ Only(displaced[p]) /\ dir'[displaced[p]].data = Partial
    BY <1>15, <1>0, <2>2, Removed, Refilled, DataFacts DEF Dispose, DisposeFails
  <2>4. \A o \in Old : dir'[o] = dir[o] \/ dir'[o] = NoDir \/ dir'[o].data = Partial
    BY <2>3, Apart DEF Gone, Only
  <2> QED BY <2>1, <2>4, NoDirFacts DEF CInv, Copies
<1>16. CASE UNCHANGED vars
  BY <1>16, <1>1 DEF vars, history
<1> QED
  BY <1>2, <1>3, <1>4, <1>5, <1>6, <1>7, <1>8, <1>9, <1>10, <1>11, <1>12, <1>13, <1>14, <1>15,
     <1>16 DEF Next, Step

LEMMA CopiesInvariant == Spec => []CInv
<1>1. Init => CInv
  <2> SUFFICES ASSUME Init PROVE CInv
    OBVIOUS
  <2>1. \A o \in Old \ foreign : dir[o] = NoDir
    BY Apart DEF Init
  <2> QED BY <2>1, NoDirFacts DEF CInv, Copies, Init
<1>2. IInv /\ CInv /\ [Next]_vars => CInv'
  BY NextCInv
<1> QED BY <1>1, <1>2, InductiveInvariant, PTL DEF Spec

-----------------------------------------------------------------------------
\* Type correctness of the mirror restore.
THEOREM TypeCorrect == Spec => []TypeOK
<1>1. IInv => TypeOK
  BY DEF IInv, BInv
<1> QED BY <1>1, InductiveInvariant, PTL

\* No restore and no recovery touches a directory it did not make, on any
\* filesystem, whatever is killed or fails.
THEOREM OthersUntouched == Spec => []ForeignUntouched
<1>1. IInv => ForeignUntouched
  BY DEF IInv, BInv
<1> QED BY <1>1, InductiveInvariant, PTL

\* The volume under its own name is whole, whatever is killed or fails; recovery
\* puts back another displaced copy only where it cannot tell the missing volume
\* from it, and never somebody else's directory.
THEOREM WholeVolume == Spec => []VolumeIsWhole
<1>1. IInv /\ CInv => VolumeIsWhole
  BY DEF IInv, DInv, InPlace, CInv, Copies, VolumeIsWhole
<1> QED BY <1>1, InductiveInvariant, CopiesInvariant, PTL

\* While the volume is missing, its contents are beside it, with the mark that
\* recovery looks for unless the restore warned that there is none.
THEOREM AlwaysRecoverable == Spec => []Recoverable
<1>1. IInv => Recoverable
  BY DEF IInv, DInv
<1> QED BY <1>1, InductiveInvariant, PTL
===============================================================================
