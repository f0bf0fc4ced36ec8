------------------------ MODULE RunSupervision_proofs ------------------------
(***************************************************************************)
(* Proofs about RunSupervision, for any labels, destinations and           *)
(* configurations and any number of runs: types, that the locks are not    *)
(* released over a child or over what is left of its group, that what is   *)
(* recorded of a run is what ended it, and that every recorded success is  *)
(* an archive.                                                             *)
(***************************************************************************)
EXTENDS RunSupervision, TLAPS

\* What each phase says of the child and of what is left of its group: a child
\* lives while it is waited for, and an empty group is left behind by validation.
Phases ==
  /\ phase = "idle" => leader = NoChild
  /\ phase \in {"validating", "validation ending", "running"} => leader.state \in {"alive", "zombie"}
  /\ phase \in {"valid", "waited", "draining", "drain grace", "interpreting", "done"} =>
       leader.state = "reaped"
  /\ phase \in {"idle", "validating", "validation ending", "valid"} => holders = {} /\ watch = "off"
  /\ phase \in {"idle", "validating", "valid"} => sent = "none"
  /\ phase # "idle" => n >= 1
  /\ phase \notin {"idle", "done"} => result = "none"
  /\ phase \in {"interpreting", "done"} /\ "group" \in holders => sent = "kill"

\* What a death says of its cause: the manager kills a run only after a timeout,
\* and its SIGTERM is never mistaken for the run's own failure.
Deaths ==
  /\ leader.state \in {"zombie", "reaped"} => (leader.code \in {0, 1} <=> leader.by = "itself")
  /\ phase = "validating" => leader.by # "manager"
  /\ watch \in {"terminating", "grace"} => timedOut
  /\ phase = "running" /\ sent = "kill" => timedOut
  /\ phase \in {"running", "waited", "draining", "drain grace", "interpreting"} =>
       (leader.by = "manager" /\ leader.code = 137 => timedOut)

\* A child is through with some repositories, and has failed, only while it lives.
\* As long as it has not failed it has written to all of these; a create cycle
\* that exits 0 has written to every one.
Evidence ==
  /\ ~(phase = "running" /\ leader.state = "alive") => tried = {} /\ ~failed
  /\ ~failed => \A id \in tried : id \in Repos /\ n \in archives[conf.path[id]]
  /\ /\ phase \in {"running", "waited", "draining", "drain grace", "interpreting"}
     /\ leader.state # "alive" /\ leader.code = 0 /\ creates
     => \A id \in Repos : n \in archives[conf.path[id]]

-----------------------------------------------------------------------------
(* The types. *)

LEMMA MaxRunsNat == MaxRuns \in Nat
  BY RunSupervisionAssumption

LEMMA NatN == Control => n \in Nat
<1>1. Control => n \in 0..MaxRuns
  BY DEF Control
<1> QED BY <1>1, MaxRunsNat

LEMMA DiesOK ==
  ASSUME NEW code \in {0, 1, 137, 143}, NEW by \in {"itself", "manager", "others"}, Dies(code, by)
  PROVE  leader' \in Leaders /\ holders' \subseteq {"group", "elsewhere"}
  BY DEF Dies, Leaders

LEMMA NextControl == Control /\ [Next]_vars => Control'
<1> USE DEF Control, plan, child, kept
<1>1. ASSUME Control, Generate PROVE Control'
  BY <1>1 DEF Generate
<1>2. ASSUME Control, Begin PROVE Control'
  <2>1. n' \in 0..MaxRuns
    BY <1>2, MaxRunsNat DEF Begin
  <2> QED BY <1>2, <2>1 DEF Begin, Started, Leaders
<1>3. ASSUME Control, EndValidation PROVE Control'
  BY <1>3 DEF EndValidation
<1>4. ASSUME Control, KillValidation PROVE Control'
  BY <1>4 DEF KillValidation
<1>5. ASSUME Control, Validated PROVE Control'
  <2>1. leader' \in Leaders
    BY <1>5 DEF Validated, Leaders
  <2>2. result' \in {"none", "ok", "failed", "terminated", "config-invalid"} /\ phase' \in {"valid", "done"}
    BY <1>5 DEF Validated, RecordRun
  <2> QED BY <1>5, <2>1, <2>2 DEF Validated
<1>6. ASSUME Control, Spawn PROVE Control'
  <2>1. leader' \in Leaders
    BY <1>6 DEF Spawn, Started, Leaders
  <2>2. phase' \in {"running", "done"} /\ watch' \in {"watching", watch}
    BY <1>6 DEF Spawn
  <2> QED BY <1>6, <2>1, <2>2 DEF Spawn
<1>7. ASSUME Control, WatchTimeout PROVE Control'
  BY <1>7 DEF WatchTimeout
<1>8. ASSUME Control, Terminate PROVE Control'
  BY <1>8 DEF Terminate, Stronger
<1>9. ASSUME Control, KillAfterGrace PROVE Control'
  BY <1>9 DEF KillAfterGrace, Done
<1>10. ASSUME Control, WatchShutdown PROVE Control'
  BY <1>10 DEF WatchShutdown, Stronger
<1>11. ASSUME Control, WatchDone PROVE Control'
  BY <1>11 DEF WatchDone, Done
<1>12. ASSUME Control, Wait PROVE Control'
  BY <1>12 DEF Wait, Leaders
<1>13. ASSUME Control, CloseDone PROVE Control'
  BY <1>13 DEF CloseDone
<1>14. ASSUME Control, Drained PROVE Control'
  BY <1>14 DEF Drained
<1>15. ASSUME Control, DrainTimeout PROVE Control'
  BY <1>15 DEF DrainTimeout, Stronger
<1>16. ASSUME Control, DrainKill PROVE Control'
  BY <1>16 DEF DrainKill
<1>17. ASSUME Control, InterpretResult PROVE Control'
  <2>1. result' \in {"ok", "failed", "terminated"}
    BY <1>17 DEF InterpretResult, RecordRun
  <2> QED BY <1>17, <2>1 DEF InterpretResult
<1>18. ASSUME Control, Release PROVE Control'
  BY <1>18 DEF Release, NoChild, Leaders
<1>19. ASSUME Control, OtherFailure PROVE Control'
  BY <1>19 DEF OtherFailure, ChildOnly, Running
<1>20. ASSUME Control, Exit PROVE Control'
  <2>1. leader' \in Leaders /\ holders' \subseteq {"group", "elsewhere"}
    BY <1>20, DiesOK DEF Exit
  <2>2. UNCHANGED <<plan, phase, sent, watch, timedOut, kept>>
    BY <1>20 DEF Exit, ChildOnly
  <2> QED BY <1>20, <2>1, <2>2
<1>21. ASSUME Control, DieOfSignal PROVE Control'
  <2>1. leader' \in Leaders /\ holders' \subseteq {"group", "elsewhere"}
    BY <1>21, DiesOK DEF DieOfSignal
  <2>2. UNCHANGED <<plan, phase, sent, watch, timedOut, kept>>
    BY <1>21 DEF DieOfSignal, ChildOnly
  <2> QED BY <1>21, <2>1, <2>2
<1>22. ASSUME Control, DieOfOthers PROVE Control'
  <2>1. leader' \in Leaders /\ holders' \subseteq {"group", "elsewhere"}
    BY <1>22, DiesOK DEF DieOfOthers
  <2>2. UNCHANGED <<plan, phase, sent, watch, timedOut, kept>>
    BY <1>22 DEF DieOfOthers, ChildOnly
  <2> QED BY <1>22, <2>1, <2>2
<1>23. ASSUME Control, Shutdown PROVE Control'
  BY <1>23 DEF Shutdown
<1>24. ASSUME Control, NEW id \in Repos, Create(id) PROVE Control'
  BY <1>24 DEF Create, ChildOnly, Running
<1>25. ASSUME Control, NEW where \in {"group", "elsewhere"}, HolderExits(where) PROVE Control'
  BY <1>25 DEF HolderExits, ChildOnly
<1>26. ASSUME Control, UNCHANGED vars PROVE Control'
  BY <1>26 DEF vars
<1> QED
  BY <1>1, <1>2, <1>3, <1>4, <1>5, <1>6, <1>7, <1>8, <1>9, <1>10, <1>11, <1>12, <1>13,
     <1>14, <1>15, <1>16, <1>17, <1>18, <1>19, <1>20, <1>21, <1>22, <1>23, <1>24, <1>25,
     <1>26 DEF Next, Manager, Child

LEMMA NextPhases == Control /\ Phases /\ [Next]_vars => Phases'
<1> USE DEF Phases, plan, child, kept
<1>1. ASSUME Control, Phases, Generate PROVE Phases'
  BY <1>1 DEF Generate
<1>2. ASSUME Control, Phases, Begin PROVE Phases'
  <2>1. n \in Nat
    BY <1>2, NatN
  <2> QED BY <1>2, <2>1 DEF Begin, Started
<1>3. ASSUME Control, Phases, EndValidation PROVE Phases'
  BY <1>3 DEF EndValidation
<1>4. ASSUME Control, Phases, KillValidation PROVE Phases'
  BY <1>4 DEF KillValidation
<1>5. ASSUME Control, Phases, Validated PROVE Phases'
  <2>1. /\ leader.state = "zombie" /\ leader' = [leader EXCEPT !.state = "reaped"] /\ sent' = "none"
        /\ phase \in {"validating", "validation ending"} /\ phase' \in {"valid", "done"}
        /\ phase' = "valid" => leader.code = 0 /\ UNCHANGED result
        /\ UNCHANGED <<n, holders, watch, timedOut>>
    BY <1>5 DEF Validated
  <2>2. leader'.state = "reaped" /\ leader'.code = leader.code /\ leader'.by = leader.by
    BY <1>5, <2>1 DEF Control, Leaders
  <2> QED BY <1>5, <2>1, <2>2
<1>6. ASSUME Control, Phases, Spawn PROVE Phases'
  <2>1. CASE phase' = "running"
    BY <1>6, <2>1 DEF Spawn, Started
  <2>2. CASE phase' = "done"
    BY <1>6, <2>2 DEF Spawn
  <2> QED BY <1>6, <2>1, <2>2 DEF Spawn
<1>7. ASSUME Control, Phases, WatchTimeout PROVE Phases'
  BY <1>7 DEF WatchTimeout
<1>8. ASSUME Control, Phases, Terminate PROVE Phases'
  BY <1>8 DEF Terminate, Stronger
<1>9. ASSUME Control, Phases, KillAfterGrace PROVE Phases'
  BY <1>9 DEF KillAfterGrace, Done
<1>10. ASSUME Control, Phases, WatchShutdown PROVE Phases'
  BY <1>10 DEF WatchShutdown, Stronger
<1>11. ASSUME Control, Phases, WatchDone PROVE Phases'
  BY <1>11 DEF WatchDone, Done
<1>12. ASSUME Control, Phases, Wait PROVE Phases'
  BY <1>12 DEF Wait
<1>13. ASSUME Control, Phases, CloseDone PROVE Phases'
  BY <1>13 DEF CloseDone
<1>14. ASSUME Control, Phases, Drained PROVE Phases'
  BY <1>14 DEF Drained
<1>15. ASSUME Control, Phases, DrainTimeout PROVE Phases'
  BY <1>15 DEF DrainTimeout, Stronger
<1>16. ASSUME Control, Phases, DrainKill PROVE Phases'
  BY <1>16 DEF DrainKill
<1>17. ASSUME Control, Phases, InterpretResult PROVE Phases'
  BY <1>17 DEF InterpretResult
<1>18. ASSUME Control, Phases, Release PROVE Phases'
  BY <1>18 DEF Release, NoChild
<1>19. ASSUME Control, Phases, OtherFailure PROVE Phases'
  BY <1>19 DEF OtherFailure, ChildOnly, Running
<1>20. ASSUME Control, Phases, Exit PROVE Phases'
  <2>1. PICK code \in {0, 1} : Dies(code, "itself")
    BY <1>20 DEF Exit
  <2>2. /\ leader'.state = "zombie" /\ leader'.code = code /\ leader'.by = "itself"
        /\ holders' \subseteq (IF phase = "running" THEN {"group", "elsewhere"} ELSE {})
    BY <2>1 DEF Dies
  <2> QED BY <1>20, <2>2 DEF Exit, ChildOnly
<1>21. ASSUME Control, Phases, DieOfSignal PROVE Phases'
  <2>0. leader.state = "alive" /\ UNCHANGED <<plan, phase, sent, watch, timedOut, kept>>
    BY <1>21 DEF DieOfSignal, ChildOnly
  <2>1. CASE sent = "term" /\ Dies(143, "manager")
    <3>1. /\ leader'.state = "zombie" /\ leader'.code = 143 /\ leader'.by = "manager"
          /\ holders' \subseteq (IF phase = "running" THEN {"group", "elsewhere"} ELSE {})
      BY <2>1 DEF Dies
    <3> QED BY <1>21, <2>0, <2>1, <3>1
  <2>2. CASE sent = "kill" /\ Dies(137, "manager")
    <3>1. /\ leader'.state = "zombie" /\ leader'.code = 137 /\ leader'.by = "manager"
          /\ holders' \subseteq (IF phase = "running" THEN {"group", "elsewhere"} ELSE {})
      BY <2>2 DEF Dies
    <3> QED BY <1>21, <2>0, <2>2, <3>1
  <2> QED BY <1>21, <2>1, <2>2 DEF DieOfSignal
<1>22. ASSUME Control, Phases, DieOfOthers PROVE Phases'
  BY <1>22 DEF DieOfOthers, ChildOnly, Dies, Running
<1>23. ASSUME Control, Phases, Shutdown PROVE Phases'
  BY <1>23 DEF Shutdown
<1>24. ASSUME Control, Phases, NEW id \in Repos, Create(id) PROVE Phases'
  BY <1>24 DEF Create, ChildOnly, Running
<1>25. ASSUME Control, Phases, NEW where \in {"group", "elsewhere"}, HolderExits(where) PROVE Phases'
  BY <1>25 DEF HolderExits, ChildOnly
<1>26. ASSUME Control, Phases, UNCHANGED vars PROVE Phases'
  BY <1>26 DEF vars
<1> QED
  BY <1>1, <1>2, <1>3, <1>4, <1>5, <1>6, <1>7, <1>8, <1>9, <1>10, <1>11, <1>12, <1>13,
     <1>14, <1>15, <1>16, <1>17, <1>18, <1>19, <1>20, <1>21, <1>22, <1>23, <1>24, <1>25,
     <1>26 DEF Next, Manager, Child

LEMMA ReposOK == conf \in Configs => Repos \subseteq Ids /\ \A id \in Repos : conf.path[id] \in Paths
  BY RunSupervisionAssumption DEF Repos

LEMMA NextData == Control /\ Phases /\ Data /\ [Next]_vars => Data'
<1> USE DEF Data, plan, child, kept
<1>1. ASSUME Control, Phases, Data, Generate PROVE Data'
  BY <1>1 DEF Generate
<1>2. ASSUME Control, Phases, Data, Begin PROVE Data'
  BY <1>2 DEF Begin, Started
<1>3. ASSUME Control, Phases, Data, EndValidation PROVE Data'
  BY <1>3 DEF EndValidation
<1>4. ASSUME Control, Phases, Data, KillValidation PROVE Data'
  BY <1>4 DEF KillValidation
<1>5. ASSUME Control, Phases, Data, Validated PROVE Data'
  BY <1>5 DEF Validated
<1>6. ASSUME Control, Phases, Data, Spawn PROVE Data'
  BY <1>6 DEF Spawn, Started
<1>7. ASSUME Control, Phases, Data, WatchTimeout PROVE Data'
  BY <1>7 DEF WatchTimeout
<1>8. ASSUME Control, Phases, Data, Terminate PROVE Data'
  BY <1>8 DEF Terminate, Stronger
<1>9. ASSUME Control, Phases, Data, KillAfterGrace PROVE Data'
  BY <1>9 DEF KillAfterGrace, Done
<1>10. ASSUME Control, Phases, Data, WatchShutdown PROVE Data'
  BY <1>10 DEF WatchShutdown, Stronger
<1>11. ASSUME Control, Phases, Data, WatchDone PROVE Data'
  BY <1>11 DEF WatchDone, Done
<1>12. ASSUME Control, Phases, Data, Wait PROVE Data'
  BY <1>12 DEF Wait
<1>13. ASSUME Control, Phases, Data, CloseDone PROVE Data'
  BY <1>13 DEF CloseDone
<1>14. ASSUME Control, Phases, Data, Drained PROVE Data'
  BY <1>14 DEF Drained
<1>15. ASSUME Control, Phases, Data, DrainTimeout PROVE Data'
  BY <1>15 DEF DrainTimeout, Stronger
<1>16. ASSUME Control, Phases, Data, DrainKill PROVE Data'
  BY <1>16 DEF DrainKill
<1>17. ASSUME Control, Phases, Data, InterpretResult PROVE Data'
  BY <1>17 DEF InterpretResult
<1>18. ASSUME Control, Phases, Data, Release PROVE Data'
  BY <1>18 DEF Release, NoChild
<1>19. ASSUME Control, Phases, Data, OtherFailure PROVE Data'
  <2>1. named' = named \/ \E id \in Repos : named' = named \cup {conf.path[id]}
    BY <1>19 DEF OtherFailure
  <2>2. named' \subseteq Paths
    BY <1>19, <2>1, ReposOK
  <2> QED BY <1>19, <2>2 DEF OtherFailure, ChildOnly
<1>20. ASSUME Control, Phases, Data, Exit PROVE Data'
  <2>1. tried' = {} /\ UNCHANGED <<named, archives>>
    BY <1>20 DEF Exit, Dies
  <2>2. UNCHANGED plan
    BY <1>20 DEF Exit, ChildOnly
  <2> QED BY <1>20, <2>1, <2>2
<1>21. ASSUME Control, Phases, Data, DieOfSignal PROVE Data'
  <2>1. tried' = {} /\ UNCHANGED <<named, archives>>
    BY <1>21 DEF DieOfSignal, Dies
  <2>2. UNCHANGED plan
    BY <1>21 DEF DieOfSignal, ChildOnly
  <2> QED BY <1>21, <2>1, <2>2
<1>22. ASSUME Control, Phases, Data, DieOfOthers PROVE Data'
  <2>1. tried' = {} /\ UNCHANGED <<named, archives>>
    BY <1>22 DEF DieOfOthers, Dies
  <2>2. UNCHANGED plan
    BY <1>22 DEF DieOfOthers, ChildOnly
  <2> QED BY <1>22, <2>1, <2>2
<1>23. ASSUME Control, Phases, Data, Shutdown PROVE Data'
  BY <1>23 DEF Shutdown
<1>24. ASSUME Control, Phases, Data, NEW id \in Repos, Create(id) PROVE Data'
  <2>1. n \in 1..MaxRuns
    BY <1>24, MaxRunsNat DEF Control, Phases, Create, Running
  <2>2. id \in Ids /\ conf.path[id] \in Paths
    BY <1>24, ReposOK DEF Create
  <2>3. tried' \subseteq Ids /\ UNCHANGED conf
    BY <1>24, <2>2 DEF Create, ChildOnly
  <2>4. CASE archives' = [archives EXCEPT ![conf.path[id]] = archives[conf.path[id]] \cup {n}] /\ UNCHANGED named
    <3>1. archives[conf.path[id]] \cup {n} \in SUBSET (1..MaxRuns)
      BY <1>24, <2>1, <2>2
    <3>2. archives' \in [Paths -> SUBSET (1..MaxRuns)]
      BY <1>24, <2>4, <3>1
    <3> QED BY <1>24, <2>3, <2>4, <3>2
  <2>5. CASE UNCHANGED archives /\ named' \in {named, named \cup {conf.path[id]}}
    BY <1>24, <2>2, <2>3, <2>5
  <2>6. \/ archives' = [archives EXCEPT ![conf.path[id]] = archives[conf.path[id]] \cup {n}] /\ UNCHANGED named
        \/ UNCHANGED archives /\ named' \in {named, named \cup {conf.path[id]}}
    BY <1>24 DEF Create
  <2> QED BY <2>4, <2>5, <2>6
<1>25. ASSUME Control, Phases, Data, NEW where \in {"group", "elsewhere"}, HolderExits(where) PROVE Data'
  BY <1>25 DEF HolderExits, ChildOnly
<1>26. ASSUME Control, Phases, Data, UNCHANGED vars PROVE Data'
  BY <1>26 DEF vars
<1> QED
  BY <1>1, <1>2, <1>3, <1>4, <1>5, <1>6, <1>7, <1>8, <1>9, <1>10, <1>11, <1>12, <1>13,
     <1>14, <1>15, <1>16, <1>17, <1>18, <1>19, <1>20, <1>21, <1>22, <1>23, <1>24, <1>25,
     <1>26 DEF Next, Manager, Child

LEMMA NextDeaths == Control /\ Phases /\ Deaths /\ [Next]_vars => Deaths'
<1> USE DEF Phases, Deaths, plan, child, kept
<1>1. ASSUME Control, Phases, Deaths, Generate PROVE Deaths'
  BY <1>1 DEF Generate
<1>2. ASSUME Control, Phases, Deaths, Begin PROVE Deaths'
  BY <1>2 DEF Begin, Started
<1>3. ASSUME Control, Phases, Deaths, EndValidation PROVE Deaths'
  BY <1>3 DEF EndValidation
<1>4. ASSUME Control, Phases, Deaths, KillValidation PROVE Deaths'
  BY <1>4 DEF KillValidation
<1>5. ASSUME Control, Phases, Deaths, Validated PROVE Deaths'
  <2>1. /\ leader.state = "zombie" /\ leader' = [leader EXCEPT !.state = "reaped"] /\ sent' = "none"
        /\ phase \in {"validating", "validation ending"} /\ phase' \in {"valid", "done"}
        /\ phase' = "valid" => leader.code = 0 /\ UNCHANGED result
        /\ UNCHANGED <<n, holders, watch, timedOut>>
    BY <1>5 DEF Validated
  <2>2. leader'.state = "reaped" /\ leader'.code = leader.code /\ leader'.by = leader.by
    BY <1>5, <2>1 DEF Control, Leaders
  <2> QED BY <1>5, <2>1, <2>2
<1>6. ASSUME Control, Phases, Deaths, Spawn PROVE Deaths'
  <2>1. CASE phase' = "running"
    BY <1>6, <2>1 DEF Spawn, Started
  <2>2. CASE phase' = "done"
    BY <1>6, <2>2 DEF Spawn
  <2> QED BY <1>6, <2>1, <2>2 DEF Spawn
<1>7. ASSUME Control, Phases, Deaths, WatchTimeout PROVE Deaths'
  BY <1>7 DEF WatchTimeout
<1>8. ASSUME Control, Phases, Deaths, Terminate PROVE Deaths'
  BY <1>8 DEF Terminate, Stronger
<1>9. ASSUME Control, Phases, Deaths, KillAfterGrace PROVE Deaths'
  BY <1>9 DEF KillAfterGrace, Done
<1>10. ASSUME Control, Phases, Deaths, WatchShutdown PROVE Deaths'
  BY <1>10 DEF WatchShutdown, Stronger
<1>11. ASSUME Control, Phases, Deaths, WatchDone PROVE Deaths'
  BY <1>11 DEF WatchDone, Done
<1>12. ASSUME Control, Phases, Deaths, Wait PROVE Deaths'
  BY <1>12 DEF Wait
<1>13. ASSUME Control, Phases, Deaths, CloseDone PROVE Deaths'
  BY <1>13 DEF CloseDone
<1>14. ASSUME Control, Phases, Deaths, Drained PROVE Deaths'
  BY <1>14 DEF Drained
<1>15. ASSUME Control, Phases, Deaths, DrainTimeout PROVE Deaths'
  BY <1>15 DEF DrainTimeout, Stronger
<1>16. ASSUME Control, Phases, Deaths, DrainKill PROVE Deaths'
  BY <1>16 DEF DrainKill
<1>17. ASSUME Control, Phases, Deaths, InterpretResult PROVE Deaths'
  BY <1>17 DEF InterpretResult
<1>18. ASSUME Control, Phases, Deaths, Release PROVE Deaths'
  BY <1>18 DEF Release, NoChild
<1>19. ASSUME Control, Phases, Deaths, OtherFailure PROVE Deaths'
  BY <1>19 DEF OtherFailure, ChildOnly, Running
<1>20. ASSUME Control, Phases, Deaths, Exit PROVE Deaths'
  <2>1. PICK code \in {0, 1} : Dies(code, "itself")
    BY <1>20 DEF Exit
  <2>2. /\ leader'.state = "zombie" /\ leader'.code = code /\ leader'.by = "itself"
        /\ holders' \subseteq (IF phase = "running" THEN {"group", "elsewhere"} ELSE {})
    BY <2>1 DEF Dies
  <2> QED BY <1>20, <2>2 DEF Exit, ChildOnly
<1>21. ASSUME Control, Phases, Deaths, DieOfSignal PROVE Deaths'
  <2>0. leader.state = "alive" /\ phase # "validating" /\ UNCHANGED <<phase, sent, watch, timedOut>>
    BY <1>21 DEF DieOfSignal, ChildOnly
  <2>1. \/ Dies(143, "manager")
        \/ Dies(137, "manager") /\ sent = "kill"
    BY <1>21 DEF DieOfSignal
  <2>2. leader'.by = "manager" /\ leader'.code \in {137, 143} /\ (leader'.code = 137 => sent = "kill")
    <3>1. CASE Dies(143, "manager")
      BY <3>1 DEF Dies
    <3>2. CASE Dies(137, "manager") /\ sent = "kill"
      BY <3>2 DEF Dies
    <3> QED BY <2>1, <3>1, <3>2
  <2>3. phase \notin {"valid", "waited", "draining", "drain grace", "interpreting", "done"}
    BY <1>21, <2>0
  <2>4. (watch \in {"terminating", "grace"} => timedOut) /\ (phase = "running" /\ sent = "kill" => timedOut)
    BY <1>21
  <2>5. (phase \in {"running", "waited", "draining", "drain grace", "interpreting"} =>
           (leader.by = "manager" /\ leader.code = 137 => timedOut))'
    BY <2>0, <2>2, <2>3, <2>4
  <2>6. (leader.state \in {"zombie", "reaped"} => (leader.code \in {0, 1} <=> leader.by = "itself"))'
    BY <2>2
  <2>7. (/\ phase = "validating" => leader.by # "manager"
         /\ watch \in {"terminating", "grace"} => timedOut
         /\ phase = "running" /\ sent = "kill" => timedOut)'
    BY <2>0, <2>4
  <2> QED BY <2>5, <2>6, <2>7
<1>22. ASSUME Control, Phases, Deaths, DieOfOthers PROVE Deaths'
  BY <1>22 DEF DieOfOthers, ChildOnly, Dies, Running
<1>23. ASSUME Control, Phases, Deaths, Shutdown PROVE Deaths'
  BY <1>23 DEF Shutdown
<1>24. ASSUME Control, Phases, Deaths, NEW id \in Repos, Create(id) PROVE Deaths'
  BY <1>24 DEF Create, ChildOnly, Running
<1>25. ASSUME Control, Phases, Deaths, NEW where \in {"group", "elsewhere"}, HolderExits(where) PROVE Deaths'
  BY <1>25 DEF HolderExits, ChildOnly
<1>26. ASSUME Control, Phases, Deaths, UNCHANGED vars PROVE Deaths'
  BY <1>26 DEF vars
<1> QED
  BY <1>1, <1>2, <1>3, <1>4, <1>5, <1>6, <1>7, <1>8, <1>9, <1>10, <1>11, <1>12, <1>13,
     <1>14, <1>15, <1>16, <1>17, <1>18, <1>19, <1>20, <1>21, <1>22, <1>23, <1>24, <1>25,
     <1>26 DEF Next, Manager, Child

LEMMA NextTruth == Control /\ Phases /\ Deaths /\ OutcomeIsTruthful /\ [Next]_vars => OutcomeIsTruthful'
<1> USE DEF Phases, Deaths, OutcomeIsTruthful, ValidationTimedOut, plan, child, kept
<1>1. ASSUME Control, Phases, Deaths, OutcomeIsTruthful, Generate PROVE OutcomeIsTruthful'
  BY <1>1 DEF Generate
<1>2. ASSUME Control, Phases, Deaths, OutcomeIsTruthful, Begin PROVE OutcomeIsTruthful'
  BY <1>2 DEF Begin, Started
<1>3. ASSUME Control, Phases, Deaths, OutcomeIsTruthful, EndValidation PROVE OutcomeIsTruthful'
  BY <1>3 DEF EndValidation
<1>4. ASSUME Control, Phases, Deaths, OutcomeIsTruthful, KillValidation PROVE OutcomeIsTruthful'
  BY <1>4 DEF KillValidation
<1>5. ASSUME Control, Phases, Deaths, OutcomeIsTruthful, Validated PROVE OutcomeIsTruthful'
  <2>1. /\ leader.state = "zombie" /\ leader' = [leader EXCEPT !.state = "reaped"]
        /\ phase \in {"validating", "validation ending"} /\ result = "none"
    BY <1>5 DEF Validated
  <2>2. leader'.code = leader.code /\ leader'.by = leader.by
    BY <1>5, <2>1 DEF Control, Leaders
  <2>3. result' \in {"none", "terminated", "config-invalid"}
    BY <1>5, <2>1 DEF Validated, RecordRun
  <2>4. phase' = "done" /\ result' = "config-invalid" => phase = "validating"
    BY <1>5, <2>1 DEF Validated, RecordRun
  <2>5. /\ result' = "terminated" => timedOut
        /\ sent' = "none" /\ watch = "off" /\ UNCHANGED <<timedOut, watch>>
    BY <1>5, <2>1 DEF Validated, RecordRun
  <2> QED BY <1>5, <2>1, <2>2, <2>3, <2>4, <2>5
<1>6. ASSUME Control, Phases, Deaths, OutcomeIsTruthful, Spawn PROVE OutcomeIsTruthful'
  BY <1>6 DEF Spawn, Started
<1>7. ASSUME Control, Phases, Deaths, OutcomeIsTruthful, WatchTimeout PROVE OutcomeIsTruthful'
  BY <1>7 DEF WatchTimeout
<1>8. ASSUME Control, Phases, Deaths, OutcomeIsTruthful, Terminate PROVE OutcomeIsTruthful'
  BY <1>8 DEF Terminate, Stronger
<1>9. ASSUME Control, Phases, Deaths, OutcomeIsTruthful, KillAfterGrace PROVE OutcomeIsTruthful'
  BY <1>9 DEF KillAfterGrace, Done
<1>10. ASSUME Control, Phases, Deaths, OutcomeIsTruthful, WatchShutdown PROVE OutcomeIsTruthful'
  BY <1>10 DEF WatchShutdown, Stronger
<1>11. ASSUME Control, Phases, Deaths, OutcomeIsTruthful, WatchDone PROVE OutcomeIsTruthful'
  BY <1>11 DEF WatchDone, Done
<1>12. ASSUME Control, Phases, Deaths, OutcomeIsTruthful, Wait PROVE OutcomeIsTruthful'
  BY <1>12 DEF Wait
<1>13. ASSUME Control, Phases, Deaths, OutcomeIsTruthful, CloseDone PROVE OutcomeIsTruthful'
  BY <1>13 DEF CloseDone
<1>14. ASSUME Control, Phases, Deaths, OutcomeIsTruthful, Drained PROVE OutcomeIsTruthful'
  BY <1>14 DEF Drained
<1>15. ASSUME Control, Phases, Deaths, OutcomeIsTruthful, DrainTimeout PROVE OutcomeIsTruthful'
  BY <1>15 DEF DrainTimeout, Stronger
<1>16. ASSUME Control, Phases, Deaths, OutcomeIsTruthful, DrainKill PROVE OutcomeIsTruthful'
  BY <1>16 DEF DrainKill
<1>17. ASSUME Control, Phases, Deaths, OutcomeIsTruthful, InterpretResult PROVE OutcomeIsTruthful'
  <2>1. /\ leader.state = "reaped" /\ leader.code \in {0, 1, 137, 143}
        /\ leader.code \in {0, 1} <=> leader.by = "itself"
        /\ leader.by = "manager" /\ leader.code = 137 => timedOut
        /\ UNCHANGED <<leader, timedOut>>
    BY <1>17 DEF InterpretResult, Control, Leaders
  <2>2. \/ result' = "ok" /\ leader.code = 0
        \/ result' = "terminated" /\ Terminated
        \/ result' = "failed" /\ leader.code # 0 /\ ~Terminated
    BY <1>17 DEF InterpretResult, RecordRun
  <2>3. Terminated => leader.by # "itself" /\ (leader.code = 143 \/ timedOut)
    BY <2>1 DEF Terminated
  <2>4. leader.code # 0 /\ ~Terminated => leader.by # "manager"
    BY <2>1 DEF Terminated
  <2> QED BY <2>1, <2>2, <2>3, <2>4
<1>18. ASSUME Control, Phases, Deaths, OutcomeIsTruthful, Release PROVE OutcomeIsTruthful'
  BY <1>18 DEF Release, NoChild
<1>19. ASSUME Control, Phases, Deaths, OutcomeIsTruthful, OtherFailure PROVE OutcomeIsTruthful'
  BY <1>19 DEF OtherFailure, ChildOnly, Running
<1>20. ASSUME Control, Phases, Deaths, OutcomeIsTruthful, Exit PROVE OutcomeIsTruthful'
  BY <1>20 DEF Exit, ChildOnly, Dies
<1>21. ASSUME Control, Phases, Deaths, OutcomeIsTruthful, DieOfSignal PROVE OutcomeIsTruthful'
  BY <1>21 DEF DieOfSignal, ChildOnly, Dies
<1>22. ASSUME Control, Phases, Deaths, OutcomeIsTruthful, DieOfOthers PROVE OutcomeIsTruthful'
  BY <1>22 DEF DieOfOthers, ChildOnly, Dies, Running
<1>23. ASSUME Control, Phases, Deaths, OutcomeIsTruthful, Shutdown PROVE OutcomeIsTruthful'
  BY <1>23 DEF Shutdown
<1>24. ASSUME Control, Phases, Deaths, OutcomeIsTruthful, NEW id \in Repos, Create(id) PROVE OutcomeIsTruthful'
  BY <1>24 DEF Create, ChildOnly, Running
<1>25. ASSUME Control, Phases, Deaths, OutcomeIsTruthful, NEW where \in {"group", "elsewhere"}, HolderExits(where) PROVE OutcomeIsTruthful'
  BY <1>25 DEF HolderExits, ChildOnly
<1>26. ASSUME Control, Phases, Deaths, OutcomeIsTruthful, UNCHANGED vars PROVE OutcomeIsTruthful'
  BY <1>26 DEF vars
<1> QED
  BY <1>1, <1>2, <1>3, <1>4, <1>5, <1>6, <1>7, <1>8, <1>9, <1>10, <1>11, <1>12, <1>13,
     <1>14, <1>15, <1>16, <1>17, <1>18, <1>19, <1>20, <1>21, <1>22, <1>23, <1>24, <1>25,
     <1>26 DEF Next, Manager, Child

LEMMA NextFlags == Flags /\ [Next]_vars => Flags'
<1> USE DEF Flags, plan, child, kept
<1>1. ASSUME Flags, Generate PROVE Flags'
  BY <1>1 DEF Generate
<1>2. ASSUME Flags, Begin PROVE Flags'
  BY <1>2 DEF Begin, Started
<1>3. ASSUME Flags, EndValidation PROVE Flags'
  BY <1>3 DEF EndValidation
<1>4. ASSUME Flags, KillValidation PROVE Flags'
  BY <1>4 DEF KillValidation
<1>5. ASSUME Flags, Validated PROVE Flags'
  BY <1>5 DEF Validated, RecordRun
<1>6. ASSUME Flags, Spawn PROVE Flags'
  BY <1>6 DEF Spawn, Started
<1>7. ASSUME Flags, WatchTimeout PROVE Flags'
  BY <1>7 DEF WatchTimeout
<1>8. ASSUME Flags, Terminate PROVE Flags'
  BY <1>8 DEF Terminate, Stronger
<1>9. ASSUME Flags, KillAfterGrace PROVE Flags'
  BY <1>9 DEF KillAfterGrace, Done
<1>10. ASSUME Flags, WatchShutdown PROVE Flags'
  BY <1>10 DEF WatchShutdown, Stronger
<1>11. ASSUME Flags, WatchDone PROVE Flags'
  BY <1>11 DEF WatchDone, Done
<1>12. ASSUME Flags, Wait PROVE Flags'
  BY <1>12 DEF Wait
<1>13. ASSUME Flags, CloseDone PROVE Flags'
  BY <1>13 DEF CloseDone
<1>14. ASSUME Flags, Drained PROVE Flags'
  BY <1>14 DEF Drained
<1>15. ASSUME Flags, DrainTimeout PROVE Flags'
  BY <1>15 DEF DrainTimeout, Stronger
<1>16. ASSUME Flags, DrainKill PROVE Flags'
  BY <1>16 DEF DrainKill
<1>17. ASSUME Flags, InterpretResult PROVE Flags'
  BY <1>17 DEF InterpretResult, RecordRun
<1>18. ASSUME Flags, Release PROVE Flags'
  BY <1>18 DEF Release, NoChild
<1>19. ASSUME Flags, OtherFailure PROVE Flags'
  BY <1>19 DEF OtherFailure, ChildOnly, Running
<1>20. ASSUME Flags, Exit PROVE Flags'
  BY <1>20 DEF Exit, ChildOnly, Dies
<1>21. ASSUME Flags, DieOfSignal PROVE Flags'
  BY <1>21 DEF DieOfSignal, ChildOnly, Dies
<1>22. ASSUME Flags, DieOfOthers PROVE Flags'
  BY <1>22 DEF DieOfOthers, ChildOnly, Dies, Running
<1>23. ASSUME Flags, Shutdown PROVE Flags'
  BY <1>23 DEF Shutdown
<1>24. ASSUME Flags, NEW id \in Repos, Create(id) PROVE Flags'
  BY <1>24 DEF Create, ChildOnly, Running
<1>25. ASSUME Flags, NEW where \in {"group", "elsewhere"}, HolderExits(where) PROVE Flags'
  BY <1>25 DEF HolderExits, ChildOnly
<1>26. ASSUME Flags, UNCHANGED vars PROVE Flags'
  BY <1>26 DEF vars
<1> QED
  BY <1>1, <1>2, <1>3, <1>4, <1>5, <1>6, <1>7, <1>8, <1>9, <1>10, <1>11, <1>12, <1>13,
     <1>14, <1>15, <1>16, <1>17, <1>18, <1>19, <1>20, <1>21, <1>22, <1>23, <1>24, <1>25,
     <1>26 DEF Next, Manager, Child

-----------------------------------------------------------------------------
(* What was written, and what is recorded of it. *)

LEMMA DiesEffect ==
  ASSUME NEW code, NEW by, Dies(code, by)
  PROVE  /\ tried' = {} /\ ~failed' /\ UNCHANGED archives
         /\ leader'.state = "zombie" /\ leader'.code = code
<1>1. leader'.state = "zombie" /\ leader'.code = code
  BY DEF Dies
<1> QED BY <1>1 DEF Dies

LEMMA NextEvidence == Control /\ Data /\ Phases /\ Evidence /\ [Next]_vars => Evidence'
<1> USE DEF Phases, Evidence, Repos, plan, child, kept
<1>1. ASSUME Control, Data, Phases, Evidence, Generate PROVE Evidence'
  BY <1>1 DEF Generate
<1>2. ASSUME Control, Data, Phases, Evidence, Begin PROVE Evidence'
  BY <1>2 DEF Begin, Started
<1>3. ASSUME Control, Data, Phases, Evidence, EndValidation PROVE Evidence'
  BY <1>3 DEF EndValidation
<1>4. ASSUME Control, Data, Phases, Evidence, KillValidation PROVE Evidence'
  BY <1>4 DEF KillValidation
<1>5. ASSUME Control, Data, Phases, Evidence, Validated PROVE Evidence'
  <2>1. leader'.state = "reaped" /\ phase' \in {"valid", "done"} /\ UNCHANGED <<tried, failed, archives, conf, n>>
    BY <1>5 DEF Validated, Control, Leaders
  <2>2. tried = {} /\ ~failed
    BY <1>5 DEF Validated
  <2> QED BY <2>1, <2>2
<1>6. ASSUME Control, Data, Phases, Evidence, Spawn PROVE Evidence'
  <2>1. CASE phase' = "running"
    BY <1>6, <2>1 DEF Spawn, Started
  <2>2. CASE phase' = "done"
    BY <1>6, <2>2 DEF Spawn
  <2> QED BY <1>6, <2>1, <2>2 DEF Spawn
<1>7. ASSUME Control, Data, Phases, Evidence, WatchTimeout PROVE Evidence'
  BY <1>7 DEF WatchTimeout
<1>8. ASSUME Control, Data, Phases, Evidence, Terminate PROVE Evidence'
  BY <1>8 DEF Terminate, Stronger
<1>9. ASSUME Control, Data, Phases, Evidence, KillAfterGrace PROVE Evidence'
  BY <1>9 DEF KillAfterGrace, Done
<1>10. ASSUME Control, Data, Phases, Evidence, WatchShutdown PROVE Evidence'
  BY <1>10 DEF WatchShutdown, Stronger
<1>11. ASSUME Control, Data, Phases, Evidence, WatchDone PROVE Evidence'
  BY <1>11 DEF WatchDone, Done
<1>12. ASSUME Control, Data, Phases, Evidence, Wait PROVE Evidence'
  <2>1. leader'.state = "reaped" /\ leader'.code = leader.code /\ leader.state = "zombie"
    BY <1>12 DEF Wait, Control, Leaders
  <2> QED BY <1>12, <2>1 DEF Wait
<1>13. ASSUME Control, Data, Phases, Evidence, CloseDone PROVE Evidence'
  BY <1>13 DEF CloseDone
<1>14. ASSUME Control, Data, Phases, Evidence, Drained PROVE Evidence'
  BY <1>14 DEF Drained
<1>15. ASSUME Control, Data, Phases, Evidence, DrainTimeout PROVE Evidence'
  BY <1>15 DEF DrainTimeout, Stronger
<1>16. ASSUME Control, Data, Phases, Evidence, DrainKill PROVE Evidence'
  BY <1>16 DEF DrainKill
<1>17. ASSUME Control, Data, Phases, Evidence, InterpretResult PROVE Evidence'
  BY <1>17 DEF InterpretResult
<1>18. ASSUME Control, Data, Phases, Evidence, Release PROVE Evidence'
  BY <1>18 DEF Release, NoChild
<1>19. ASSUME Control, Data, Phases, Evidence, OtherFailure PROVE Evidence'
  BY <1>19 DEF OtherFailure, ChildOnly, Running
<1>20. ASSUME Control, Data, Phases, Evidence, Exit PROVE Evidence'
  <2>1. PICK code \in {0, 1} : Dies(code, "itself") /\ (phase = "running" /\ code = 0 => ~failed /\ (creates => tried = Repos))
    <3>1. CASE phase \in {"validating", "validation ending"} /\ \E code \in {0, 1} : Dies(code, "itself")
      <4>1. phase # "running"
        BY <3>1
      <4> QED BY <3>1, <4>1
    <3>2. CASE phase = "running" /\ failed /\ Dies(1, "itself")
      BY <3>2
    <3>3. CASE phase = "running" /\ ~failed /\ (creates => tried = Repos) /\ Dies(0, "itself")
      BY <3>3
    <3> QED BY <1>20, <3>1, <3>2, <3>3 DEF Exit
  <2>2. tried' = {} /\ ~failed' /\ UNCHANGED archives /\ leader'.state = "zombie" /\ leader'.code = code
    BY <2>1, DiesEffect
  <2>3. UNCHANGED <<conf, creates, n, phase>>
    BY <1>20 DEF Exit, ChildOnly
  <2>4. phase \in {"validating", "validation ending", "running"}
    BY <1>20 DEF Exit
  <2>5. CASE phase = "running" /\ code = 0
    BY <1>20, <2>1, <2>2, <2>3, <2>5
  <2>6. CASE phase # "running" \/ code # 0
    BY <2>2, <2>3, <2>4, <2>6
  <2> QED BY <2>5, <2>6
<1>21. ASSUME Control, Data, Phases, Evidence, DieOfSignal PROVE Evidence'
  <2>1. PICK code \in {137, 143}, by \in {"manager", "others"} : Dies(code, by)
    BY <1>21 DEF DieOfSignal
  <2>2. tried' = {} /\ ~failed' /\ UNCHANGED archives /\ leader'.state = "zombie" /\ leader'.code # 0
    BY <2>1, DiesEffect
  <2> QED BY <2>2
<1>22. ASSUME Control, Data, Phases, Evidence, DieOfOthers PROVE Evidence'
  <2>1. PICK code \in {137, 143}, by \in {"manager", "others"} : Dies(code, by)
    BY <1>22 DEF DieOfOthers
  <2>2. tried' = {} /\ ~failed' /\ UNCHANGED archives /\ leader'.state = "zombie" /\ leader'.code # 0
    BY <2>1, DiesEffect
  <2> QED BY <2>2
<1>23. ASSUME Control, Data, Phases, Evidence, Shutdown PROVE Evidence'
  BY <1>23 DEF Shutdown
<1>24. ASSUME Control, Data, Phases, Evidence, NEW id \in Repos, Create(id) PROVE Evidence'
  <2>0. /\ phase = "running" /\ leader.state = "alive" /\ UNCHANGED <<conf, n, phase, leader>>
        /\ id \in Repos /\ tried' = tried \cup {id}
    BY <1>24 DEF Create, Running, ChildOnly
  <2>1. CASE failed' = TRUE
    BY <2>0, <2>1
  <2>2. CASE archives' = [archives EXCEPT ![conf.path[id]] = archives[conf.path[id]] \cup {n}] /\ UNCHANGED failed
    <3>1. conf.path[id] \in Paths /\ archives \in [Paths -> SUBSET (1..MaxRuns)]
      BY <1>24, <2>0, ReposOK DEF Data
    <3>2. n \in archives'[conf.path[id]] /\ \A path \in Paths : archives[path] \subseteq archives'[path]
      BY <2>2, <3>1
    <3>3. \A r \in Repos : conf.path[r] \in Paths
      BY <1>24, ReposOK DEF Data
    <3> QED BY <1>24, <2>0, <2>2, <3>2, <3>3
  <2> QED BY <1>24, <2>1, <2>2 DEF Create
<1>25. ASSUME Control, Data, Phases, Evidence, NEW where \in {"group", "elsewhere"}, HolderExits(where) PROVE Evidence'
  BY <1>25 DEF HolderExits, ChildOnly
<1>26. ASSUME Control, Data, Phases, Evidence, UNCHANGED vars PROVE Evidence'
  BY <1>26 DEF vars
<1> QED
  BY <1>1, <1>2, <1>3, <1>4, <1>5, <1>6, <1>7, <1>8, <1>9, <1>10, <1>11, <1>12, <1>13,
     <1>14, <1>15, <1>16, <1>17, <1>18, <1>19, <1>20, <1>21, <1>22, <1>23, <1>24, <1>25,
     <1>26 DEF Next, Manager, Child

(* What RecordRun does to the record. *)

\* A judgement is sound if it calls ok only what was written to.
Sound(judged) == \A id \in Repos \cap DOMAIN judged :
  judged[id] \in {"ok", "failed"} /\ (judged[id] = "ok" => n \in archives[conf.path[id]])

LEMMA RecordRunSound ==
  ASSUME conf \in Configs, n \in Nat, RecordOK, FreshnessIsReal,
         NEW verdict, NEW judged, Sound(judged), RecordRun(verdict, judged),
         UNCHANGED <<n, archives>>
  PROVE  RecordOK' /\ FreshnessIsReal'
<1>1. CASE ~conf.known
  BY <1>1 DEF RecordRun, RecordOK, FreshnessIsReal
<1>2. CASE conf.known
  <2> DEFINE rec(id) == IF id \in DOMAIN judged THEN Judged(id, judged[id]) ELSE Base(id)
  <2>1. record' = [id \in Repos |-> rec(id)]
    BY <1>2 DEF RecordRun
  <2>2. ASSUME NEW id \in Repos
        PROVE  /\ Base(id) \in [path : Paths, success : 0..n, last : {"none", "ok", "failed"}]
               /\ Base(id).path = conf.path[id]
               /\ Base(id).success > 0 => Base(id).success \in archives[conf.path[id]]
    BY <2>2, ReposOK DEF Base, RecordOK, FreshnessIsReal
  <2>3. ASSUME NEW id \in Repos
        PROVE  /\ rec(id) \in [path : Paths, success : 0..n, last : {"none", "ok", "failed"}]
               /\ rec(id).success > 0 => rec(id).success \in archives[rec(id).path]
    <3>1. CASE id \notin DOMAIN judged
      BY <2>2, <2>3, <3>1
    <3>2. CASE id \in DOMAIN judged
      <4> DEFINE b == Base(id)  v == judged[id]
      <4>1. v \in {"ok", "failed"} /\ (v = "ok" => n \in archives[conf.path[id]])
        BY <2>3, <3>2 DEF Sound
      <4>2. rec(id) = [b EXCEPT !.last = v, !.success = IF v = "ok" THEN n ELSE @]
        BY <3>2 DEF Judged
      <4>3. b \in [path : Paths, success : 0..n, last : {"none", "ok", "failed"}] /\ b.path = conf.path[id]
            /\ (b.success > 0 => b.success \in archives[conf.path[id]])
        BY <2>2, <2>3
      <4> HIDE DEF b, v, rec
      <4>4. rec(id) = [path |-> b.path, success |-> IF v = "ok" THEN n ELSE b.success, last |-> v]
        BY <4>2, <4>3
      <4>5. /\ b.path \in Paths /\ v \in {"none", "ok", "failed"}
            /\ (IF v = "ok" THEN n ELSE b.success) \in 0..n
        BY <4>1, <4>3
      <4> QED BY <4>1, <4>3, <4>4, <4>5
    <3> QED BY <3>1, <3>2
  <2> HIDE DEF rec
  <2>4. DOMAIN record' = Repos /\ \A id \in Repos : record'[id] = rec(id)
    BY <2>1
  <2>5. Repos \subseteq Ids
    BY ReposOK
  <2>6. RecordOK'
    BY <2>3, <2>4, <2>5 DEF RecordOK
  <2>7. FreshnessIsReal'
    BY <2>3, <2>4 DEF FreshnessIsReal
  <2> QED BY <2>6, <2>7
<1> QED BY <1>1, <1>2

\* What is recorded stays true: archives are not lost.
LEMMA KeptRecord ==
  ASSUME RecordOK, FreshnessIsReal, n \in Nat, n' \in Nat, n' >= n, UNCHANGED record,
         archives \in [Paths -> SUBSET (1..MaxRuns)],
         \A path \in Paths : archives[path] \subseteq archives'[path]
  PROVE  RecordOK' /\ FreshnessIsReal'
  BY DEF RecordOK, FreshnessIsReal

Recorded == RecordOK /\ FreshnessIsReal

LEMMA NextRecorded == Control /\ Data /\ Phases /\ Evidence /\ Recorded /\ [Next]_vars => Recorded'
<1> USE DEF Recorded, plan, child, kept
<1>1. ASSUME Control, Data, Phases, Evidence, Recorded, Generate PROVE Recorded'
  <2>1. UNCHANGED <<n, archives, record>>
    BY <1>1 DEF Generate
  <2> QED BY <1>1, <2>1, NatN, KeptRecord DEF Data
<1>2. ASSUME Control, Data, Phases, Evidence, Recorded, Begin PROVE Recorded'
  <2>1. n \in Nat /\ n' = n + 1 /\ UNCHANGED <<record, archives>>
    BY <1>2, NatN DEF Begin
  <2> QED BY <1>2, <2>1, KeptRecord DEF Data
<1>3. ASSUME Control, Data, Phases, Evidence, Recorded, EndValidation PROVE Recorded'
  <2>1. UNCHANGED <<n, archives, record>>
    BY <1>3 DEF EndValidation
  <2> QED BY <1>3, <2>1, NatN, KeptRecord DEF Data
<1>4. ASSUME Control, Data, Phases, Evidence, Recorded, KillValidation PROVE Recorded'
  <2>1. UNCHANGED <<n, archives, record>>
    BY <1>4 DEF KillValidation
  <2> QED BY <1>4, <2>1, NatN, KeptRecord DEF Data
<1>5. ASSUME Control, Data, Phases, Evidence, Recorded, Validated PROVE Recorded'
  <2>1. n \in Nat /\ conf \in Configs /\ UNCHANGED <<n, archives>>
    BY <1>5, NatN DEF Validated, Data
  <2>2. Sound(Empty)
    BY DEF Sound, Empty
  <2>3. CASE RecordRun("config-invalid", Empty)
    BY <1>5, <2>1, <2>2, <2>3, RecordRunSound
  <2>4. CASE RecordRun("terminated", Empty)
    BY <1>5, <2>1, <2>2, <2>4, RecordRunSound
  <2>5. CASE UNCHANGED record
    BY <1>5, <2>1, <2>5, KeptRecord DEF Data
  <2> QED BY <1>5, <2>3, <2>4, <2>5 DEF Validated
<1>6. ASSUME Control, Data, Phases, Evidence, Recorded, Spawn PROVE Recorded'
  <2>1. UNCHANGED <<n, archives, record>>
    BY <1>6 DEF Spawn
  <2> QED BY <1>6, <2>1, NatN, KeptRecord DEF Data
<1>7. ASSUME Control, Data, Phases, Evidence, Recorded, WatchTimeout PROVE Recorded'
  <2>1. UNCHANGED <<n, archives, record>>
    BY <1>7 DEF WatchTimeout
  <2> QED BY <1>7, <2>1, NatN, KeptRecord DEF Data
<1>8. ASSUME Control, Data, Phases, Evidence, Recorded, Terminate PROVE Recorded'
  <2>1. UNCHANGED <<n, archives, record>>
    BY <1>8 DEF Terminate
  <2> QED BY <1>8, <2>1, NatN, KeptRecord DEF Data
<1>9. ASSUME Control, Data, Phases, Evidence, Recorded, KillAfterGrace PROVE Recorded'
  <2>1. UNCHANGED <<n, archives, record>>
    BY <1>9 DEF KillAfterGrace
  <2> QED BY <1>9, <2>1, NatN, KeptRecord DEF Data
<1>10. ASSUME Control, Data, Phases, Evidence, Recorded, WatchShutdown PROVE Recorded'
  <2>1. UNCHANGED <<n, archives, record>>
    BY <1>10 DEF WatchShutdown
  <2> QED BY <1>10, <2>1, NatN, KeptRecord DEF Data
<1>11. ASSUME Control, Data, Phases, Evidence, Recorded, WatchDone PROVE Recorded'
  <2>1. UNCHANGED <<n, archives, record>>
    BY <1>11 DEF WatchDone
  <2> QED BY <1>11, <2>1, NatN, KeptRecord DEF Data
<1>12. ASSUME Control, Data, Phases, Evidence, Recorded, Wait PROVE Recorded'
  <2>1. UNCHANGED <<n, archives, record>>
    BY <1>12 DEF Wait
  <2> QED BY <1>12, <2>1, NatN, KeptRecord DEF Data
<1>13. ASSUME Control, Data, Phases, Evidence, Recorded, CloseDone PROVE Recorded'
  <2>1. UNCHANGED <<n, archives, record>>
    BY <1>13 DEF CloseDone
  <2> QED BY <1>13, <2>1, NatN, KeptRecord DEF Data
<1>14. ASSUME Control, Data, Phases, Evidence, Recorded, Drained PROVE Recorded'
  <2>1. UNCHANGED <<n, archives, record>>
    BY <1>14 DEF Drained
  <2> QED BY <1>14, <2>1, NatN, KeptRecord DEF Data
<1>15. ASSUME Control, Data, Phases, Evidence, Recorded, DrainTimeout PROVE Recorded'
  <2>1. UNCHANGED <<n, archives, record>>
    BY <1>15 DEF DrainTimeout
  <2> QED BY <1>15, <2>1, NatN, KeptRecord DEF Data
<1>16. ASSUME Control, Data, Phases, Evidence, Recorded, DrainKill PROVE Recorded'
  <2>1. UNCHANGED <<n, archives, record>>
    BY <1>16 DEF DrainKill
  <2> QED BY <1>16, <2>1, NatN, KeptRecord DEF Data
<1>17. ASSUME Control, Data, Phases, Evidence, Recorded, InterpretResult PROVE Recorded'
  <2>1. n \in Nat /\ conf \in Configs /\ UNCHANGED <<n, archives>>
    BY <1>17, NatN DEF InterpretResult, Data
  <2>2. phase = "interpreting" /\ leader.state = "reaped"
    BY <1>17 DEF InterpretResult, Phases
  <2>3. PICK matched \in Matches :
          \/ leader.code = 0 /\ RecordRun("ok", PerRepoSuccess)
          \/ RecordRun("terminated", MeasuredOutcomes(matched))
          \/ \E confirmed \in SUBSET Confirmable(matched) :
               RecordRun("failed", PerRepoFailure(matched, confirmed))
    BY <1>17 DEF InterpretResult
  <2>4. matched \subseteq Repos /\ \A id \in matched : n \in archives[conf.path[id]]
    BY <2>3 DEF Matches
  <2>5. CASE leader.code = 0 /\ RecordRun("ok", PerRepoSuccess)
    <3>1. Sound(PerRepoSuccess)
      <4>1. CASE creates
        BY <1>17, <2>2, <2>5, <4>1 DEF Sound, PerRepoSuccess, Evidence
      <4>2. CASE ~creates
        BY <4>2 DEF Sound, PerRepoSuccess, Empty
      <4> QED BY <4>1, <4>2
    <3> QED BY <1>17, <2>1, <2>5, <3>1, RecordRunSound
  <2>6. CASE RecordRun("terminated", MeasuredOutcomes(matched))
    <3>1. Sound(MeasuredOutcomes(matched))
      BY <2>4 DEF Sound, MeasuredOutcomes
    <3> QED BY <1>17, <2>1, <2>6, <3>1, RecordRunSound
  <2>7. ASSUME NEW confirmed \in SUBSET Confirmable(matched), RecordRun("failed", PerRepoFailure(matched, confirmed))
        PROVE  RecordOK' /\ FreshnessIsReal'
    <3>1. \A id \in confirmed : n \in archives[conf.path[id]]
      BY DEF Confirmable
    <3>2. Sound(PerRepoFailure(matched, confirmed))
      BY <2>4, <3>1 DEF Sound, PerRepoFailure
    <3> QED BY <1>17, <2>1, <2>7, <3>2, RecordRunSound
  <2> QED BY <2>3, <2>5, <2>6, <2>7
<1>18. ASSUME Control, Data, Phases, Evidence, Recorded, Release PROVE Recorded'
  <2>1. UNCHANGED <<n, archives, record>>
    BY <1>18 DEF Release
  <2> QED BY <1>18, <2>1, NatN, KeptRecord DEF Data
<1>19. ASSUME Control, Data, Phases, Evidence, Recorded, OtherFailure PROVE Recorded'
  <2>1. UNCHANGED <<n, archives, record>>
    BY <1>19 DEF OtherFailure, ChildOnly
  <2> QED BY <1>19, <2>1, NatN, KeptRecord DEF Data
<1>20. ASSUME Control, Data, Phases, Evidence, Recorded, Exit PROVE Recorded'
  <2>1. UNCHANGED <<n, archives, record>>
    BY <1>20 DEF Exit, ChildOnly, Dies
  <2> QED BY <1>20, <2>1, NatN, KeptRecord DEF Data
<1>21. ASSUME Control, Data, Phases, Evidence, Recorded, DieOfSignal PROVE Recorded'
  <2>1. UNCHANGED <<n, archives, record>>
    BY <1>21 DEF DieOfSignal, ChildOnly, Dies
  <2> QED BY <1>21, <2>1, NatN, KeptRecord DEF Data
<1>22. ASSUME Control, Data, Phases, Evidence, Recorded, DieOfOthers PROVE Recorded'
  <2>1. UNCHANGED <<n, archives, record>>
    BY <1>22 DEF DieOfOthers, ChildOnly, Dies
  <2> QED BY <1>22, <2>1, NatN, KeptRecord DEF Data
<1>23. ASSUME Control, Data, Phases, Evidence, Recorded, Shutdown PROVE Recorded'
  <2>1. UNCHANGED <<n, archives, record>>
    BY <1>23 DEF Shutdown
  <2> QED BY <1>23, <2>1, NatN, KeptRecord DEF Data
<1>24. ASSUME Control, Data, Phases, Evidence, Recorded, NEW id \in Repos, Create(id) PROVE Recorded'
  <2>1. n \in Nat /\ UNCHANGED <<n, record>> /\ conf.path[id] \in Paths
    BY <1>24, NatN, ReposOK DEF Create, ChildOnly, Data
  <2>2. archives \in [Paths -> SUBSET (1..MaxRuns)]
    BY <1>24 DEF Data
  <2>3. \/ UNCHANGED archives
        \/ archives' = [archives EXCEPT ![conf.path[id]] = archives[conf.path[id]] \cup {n}]
    BY <1>24 DEF Create
  <2>4. \A path \in Paths : archives[path] \subseteq archives'[path]
    BY <2>1, <2>2, <2>3
  <2> QED BY <1>24, <2>1, <2>2, <2>4, KeptRecord
<1>25. ASSUME Control, Data, Phases, Evidence, Recorded, NEW where \in {"group", "elsewhere"}, HolderExits(where) PROVE Recorded'
  <2>1. UNCHANGED <<n, archives, record>>
    BY <1>25 DEF HolderExits, ChildOnly
  <2> QED BY <1>25, <2>1, NatN, KeptRecord DEF Data
<1>26. ASSUME Control, Data, Phases, Evidence, Recorded, UNCHANGED vars PROVE Recorded'
  <2>1. UNCHANGED <<n, archives, record>>
    BY <1>26 DEF vars
  <2> QED BY <1>26, <2>1, NatN, KeptRecord DEF Data
<1> QED
  BY <1>1, <1>2, <1>3, <1>4, <1>5, <1>6, <1>7, <1>8, <1>9, <1>10, <1>11, <1>12, <1>13,
     <1>14, <1>15, <1>16, <1>17, <1>18, <1>19, <1>20, <1>21, <1>22, <1>23, <1>24, <1>25,
     <1>26 DEF Next, Manager, Child

-----------------------------------------------------------------------------
(* The inductive invariant: the types, what each phase and each death say, what
   was written, and that the records keep to it. *)
IInv == /\ Flags /\ Control /\ Data /\ Phases /\ Deaths
        /\ Evidence /\ OutcomeIsTruthful /\ Recorded

LEMMA InitIInv == Init => IInv
<1> SUFFICES ASSUME Init PROVE IInv
  OBVIOUS
<1>1. Flags
  BY DEF Init, Flags
<1>2. Control
  BY MaxRunsNat DEF Init, Control, Leaders, NoChild
<1>3. Data
  BY DEF Init, Data
<1>4. Phases /\ Deaths /\ Evidence
  BY DEF Init, Phases, Deaths, Evidence, NoChild
<1>5. OutcomeIsTruthful
  BY DEF Init, OutcomeIsTruthful
<1>6. Recorded
  <2>1. DOMAIN record = {}
    BY DEF Init, Empty
  <2> QED BY <2>1 DEF Recorded, RecordOK, FreshnessIsReal
<1> QED BY <1>1, <1>2, <1>3, <1>4, <1>5, <1>6 DEF IInv

LEMMA NextIInv == IInv /\ [Next]_vars => IInv'
  BY NextFlags, NextControl, NextData, NextPhases, NextDeaths, NextTruth, NextEvidence,
     NextRecorded DEF IInv

LEMMA Invariant == Spec => []IInv
  BY InitIInv, NextIInv, PTL DEF Spec

\* Every variable keeps to its values, the records to theirs.
THEOREM TypeCorrect == Spec => []TypeOK
<1>1. IInv => TypeOK
  BY DEF IInv, Recorded, TypeOK
<1> QED BY <1>1, Invariant, PTL

\* The locks are not released over a child that still runs, nor over a member of
\* its group that holds its pipes and was not killed (runner.go:406).
THEOREM LocksSafe == Spec => []LocksOutliveTheGroup
<1>1. IInv => LocksOutliveTheGroup
  BY DEF IInv, Phases, LocksOutliveTheGroup
<1> QED BY <1>1, Invariant, PTL

\* What is recorded of a run is what ended it (runner.go:645-668).
THEOREM Truthful == Spec => []OutcomeIsTruthful
<1>1. IInv => OutcomeIsTruthful
  BY DEF IInv
<1> QED BY <1>1, Invariant, PTL

\* A recorded success is a run that wrote an archive to the destination the
\* record is about (schedule.go:406-503).
THEOREM Freshness == Spec => []FreshnessIsReal
<1>1. IInv => FreshnessIsReal
  BY DEF IInv, Recorded
<1> QED BY <1>1, Invariant, PTL
===============================================================================
