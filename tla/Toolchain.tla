------------------------------ MODULE Toolchain ------------------------------
(***************************************************************************)
(* internal/toolchain/toolchain.go: manager processes that launch together *)
(* make sure of the managed borgmatic.  Each build is a directory of its   *)
(* own (a generation), "current" is a link flipped to it, provision.lock   *)
(* admits one builder, and retired generations are removed while other     *)
(* processes may still be running borgmatic from them.                     *)
(***************************************************************************)
EXTENDS Naturals, FiniteSets

CONSTANTS
  Procs,        \* manager processes, each of which launches once
  Pins,         \* the compiled-in versions
  Pinned,       \* of each process
  Gens,         \* names that MkdirTemp may give: a bound on the builds
  Nothing,      \* no generation, no process
  Copy          \* the one "current" may start as a copy of, or Nothing

ASSUME ToolchainAssumption ==
  /\ IsFiniteSet(Procs) /\ IsFiniteSet(Gens)
  /\ Pinned \in [Procs -> Pins]
  /\ Nothing \notin Procs \cup Gens
  /\ Copy \in Gens \cup {Nothing}

VARIABLES
  current,      \* the entry "current" and the generation its launcher leads to
  stage,        \* of each generation: how much of it there is
  pin,          \* what was installed there
  health,       \* whether its borgmatic runs
  lock,         \* the holder of provision.lock
  pc,           \* of each process: where it is in Ensure
  prev, build,  \* provision's prev and vdir
  todo,         \* the directories cleanOldVersions has still to visit
  run           \* the borgmatic each process has started

disk == <<current, stage, pin, health>>
\* The specification's names are prefixed: Preparation_proofs extends Generation too.
toolchainVars == <<disk, lock, pc, prev, build, todo, run>>

NoRun == [gen |-> Nothing, mapped |-> FALSE]

Present == {g \in Gens : stage[g] \in {"partial", "installed", "sealed"}}

Ended == {"ok", "failed", "dead"}

Inside == {"recheck", "tidying", "sweeping", "installing", "testing", "flipping",
           "retiring", "degrade"}

\* Either nothing was ever provisioned, or one generation is current, as a link
\* or, from a backup or by hand, as a copied directory whose launcher leads to it;
\* another may be left of an attempt that was killed.
ToolchainInit ==
  /\ \/ /\ current = [kind |-> "none", gen |-> Nothing]
        /\ stage = [g \in Gens |-> IF g = Copy THEN "gone" ELSE "unused"]
     \/ \E old \in Gens, debris \in SUBSET Gens :
          /\ Cardinality(debris) <= 1 /\ debris \cap {old, Copy} = {}
          /\ current = [kind |-> IF old = Copy THEN "copy" ELSE "link", gen |-> old]
          /\ stage = [g \in Gens |-> IF g = old THEN "sealed" ELSE IF g = Copy THEN "gone"
                                     ELSE IF g \in debris THEN "partial" ELSE "unused"]
  /\ \E p \in Pins : pin = [g \in Gens |-> p]
  /\ health = [g \in Gens |-> "good"]
  /\ lock = Nothing
  /\ pc = [p \in Procs |-> "launch"]
  /\ prev = [p \in Procs |-> Nothing] /\ build = [p \in Procs |-> Nothing]
  /\ todo = [p \in Procs |-> {}]
  /\ run = [p \in Procs |-> NoRun]

-----------------------------------------------------------------------------
\* BorgmaticPath: the launcher that "current" leads to is there.
BorgmaticPath == current.gen # Nothing /\ stage[current.gen] \in {"installed", "sealed"}

\* Fresh: the manifest is there, and names this process's pins.
Fresh(p) == stage[current.gen] = "sealed" /\ pin[current.gen] = Pinned[p]

\* healthy: it runs, and reports a version.
Healthy == BorgmaticPath /\ health[current.gen] = "good"

FreshAndHealthy(p) == Healthy /\ Fresh(p)

\* currentTargetBase: only a link has a target.
CurrentTargetBase == IF current.kind = "link" THEN current.gen ELSE Nothing

\* generationInUse: a process maps files of it.
GenerationInUse(g) == \E p \in Procs : run[p].mapped /\ run[p].gen = g

\* Assumed: a borgmatic exec'd before a flip shows in /proc before any later
\* pass begins (the code spares prev for one pass, and no longer).
ExecIsPrompt == \A p \in Procs :
  run[p].gen # Nothing /\ ~run[p].mapped => run[p].gen = current.gen

Goto(p, label) == pc' = [pc EXCEPT ![p] = label]

\* provision's locals end with it.
Forget(p) == prev' = [prev EXCEPT ![p] = Nothing] /\ build' = [build EXCEPT ![p] = Nothing]

\* The directories one call of cleanOldVersions weighs.
CleanAllBut(p, keep) == todo' = [todo EXCEPT ![p] = Present \ keep]

\* One directory of a cleanOldVersions pass; RemoveAll may stop part of the way.
CleanOldVersions(p) == \E g \in todo[p] :
  /\ pc[p] \in {"tidying", "sweeping", "retiring"}
  /\ todo' = [todo EXCEPT ![p] = @ \ {g}]
  /\ \/ GenerationInUse(g) /\ UNCHANGED stage
     \/ /\ ~GenerationInUse(g)
        /\ \E left \in {"gone", "partial"} : stage' = [stage EXCEPT ![g] = left]
  /\ UNCHANGED <<current, pin, health, lock, pc, prev, build, run>>

-----------------------------------------------------------------------------
\* Ensure, before the lock.
Launch(p) ==
  /\ pc[p] = "launch"
  /\ Goto(p, IF FreshAndHealthy(p) THEN "tidy" ELSE "waiting")
  /\ UNCHANGED <<disk, lock, prev, build, todo, run>>

\* TryCleanUnlocked does not ask for the lock.
TryCleanUnlocked(p) ==
  /\ pc[p] = "tidy" /\ ExecIsPrompt
  /\ CleanAllBut(p, {CurrentTargetBase})
  /\ Goto(p, "tidying")
  /\ UNCHANGED <<disk, lock, prev, build, run>>

\* tryCleanOldVersions: no lock, no cleanup.
TryCleanOldVersions(p) ==
  /\ pc[p] = "tidy"
  /\ \/ /\ lock = Nothing /\ ExecIsPrompt
        /\ lock' = p
        /\ CleanAllBut(p, {CurrentTargetBase})
        /\ Goto(p, "tidying")
     \/ /\ lock # Nothing
        /\ Goto(p, "ok") /\ UNCHANGED <<lock, todo>>
  /\ UNCHANGED <<disk, prev, build, run>>

\* acquireProvisionLock's poll succeeds; or the context ends first.
AcquireProvisionLock(p) ==
  /\ pc[p] = "waiting"
  /\ lock = Nothing /\ ExecIsPrompt
  /\ lock' = p
  /\ Goto(p, "recheck")
  /\ UNCHANGED <<disk, prev, build, todo, run>>

CancelWait(p) ==
  /\ pc[p] = "waiting"
  /\ Goto(p, "failed")
  /\ UNCHANGED <<disk, lock, prev, build, todo, run>>

\* Whoever held the lock may have provisioned what was needed; otherwise
\* provision reads prev and sweeps the debris.
Recheck(p) ==
  /\ pc[p] = "recheck"
  /\ \/ /\ FreshAndHealthy(p)
        /\ Goto(p, "ok") /\ lock' = Nothing
        /\ UNCHANGED <<prev, todo>>
     \/ /\ ~FreshAndHealthy(p)
        /\ prev' = [prev EXCEPT ![p] = CurrentTargetBase]
        /\ CleanAllBut(p, {CurrentTargetBase})
        /\ Goto(p, "sweeping") /\ UNCHANGED lock
  /\ UNCHANGED <<disk, build, run>>

\* MkdirTemp: a name that never was.
MakeVersionDir(p) ==
  /\ pc[p] = "sweeping" /\ todo[p] = {}
  /\ \E g \in Gens :
       /\ stage[g] = "unused"
       /\ stage' = [stage EXCEPT ![g] = "partial"]
       /\ build' = [build EXCEPT ![p] = g]
  /\ Goto(p, "installing")
  /\ UNCHANGED <<current, pin, health, lock, prev, todo, run>>

\* downloadUV and uv tool install; what they give may not run.
Install(p) ==
  /\ pc[p] = "installing"
  /\ stage' = [stage EXCEPT ![build[p]] = "installed"]
  /\ pin' = [pin EXCEPT ![build[p]] = Pinned[p]]
  /\ \E outcome \in {"good", "bad"} : health' = [health EXCEPT ![build[p]] = outcome]
  /\ Goto(p, "testing")
  /\ UNCHANGED <<current, lock, prev, build, todo, run>>

\* SealUntested writes the manifest without the smoke test.
SealUntested(p) ==
  /\ pc[p] = "testing"
  /\ stage' = [stage EXCEPT ![build[p]] = "sealed"]
  /\ Goto(p, "flipping")
  /\ UNCHANGED <<current, pin, health, lock, prev, build, todo, run>>

\* The smoke test, then the manifest.
SmokeTest(p) ==
  /\ pc[p] = "testing" /\ health[build[p]] = "good"
  /\ stage' = [stage EXCEPT ![build[p]] = "sealed"]
  /\ Goto(p, "flipping")
  /\ UNCHANGED <<current, pin, health, lock, prev, build, todo, run>>

\* A directory in the link's place is cleared first.
ClearMalformed(p) ==
  /\ pc[p] = "flipping" /\ current.kind = "copy"
  /\ current' = [kind |-> "none", gen |-> Nothing]
  /\ UNCHANGED <<stage, pin, health, lock, pc, prev, build, todo, run>>

\* FlipForgetsPrev retires at once what was current until now.
FlipForgetsPrev(p) ==
  /\ pc[p] = "flipping" /\ current.kind # "copy"
  /\ current' = [kind |-> "link", gen |-> build[p]]
  /\ CleanAllBut(p, {build[p]})
  /\ Goto(p, "retiring")
  /\ UNCHANGED <<stage, pin, health, lock, prev, build, run>>

Flip(p) ==
  /\ pc[p] = "flipping" /\ current.kind # "copy"
  /\ current' = [kind |-> "link", gen |-> build[p]]
  /\ CleanAllBut(p, {build[p], prev[p]})
  /\ Goto(p, "retiring")
  /\ UNCHANGED <<stage, pin, health, lock, prev, build, run>>

\* Every other way out of provision removes what it built.
ProvisionFails(p) ==
  /\ \/ pc[p] = "sweeping" /\ todo[p] = {}
     \/ pc[p] \in {"installing", "testing", "flipping"}
  /\ \E left \in {"gone", "partial"} :
       stage' = [g \in Gens |-> IF g = build[p] THEN left ELSE stage[g]]
  /\ Goto(p, "degrade")
  /\ Forget(p)
  /\ UNCHANGED <<current, pin, health, lock, todo, run>>

\* A stale borgmatic that works beats none.
Degrade(p) ==
  /\ pc[p] = "degrade"
  /\ Goto(p, IF Healthy THEN "ok" ELSE "failed")
  /\ lock' = Nothing
  /\ UNCHANGED <<disk, prev, build, todo, run>>

\* A pass is over: the lock is released, and Ensure returns.
Return(p) ==
  /\ pc[p] \in {"tidying", "retiring"} /\ todo[p] = {}
  /\ Goto(p, IF pc[p] = "tidying" \/ BorgmaticPath THEN "ok" ELSE "failed")
  /\ lock' = Nothing
  /\ Forget(p)
  /\ UNCHANGED <<disk, todo, run>>

-----------------------------------------------------------------------------
\* A manager execs current/bin/borgmatic: the link is followed, then the
\* interpreter is mapped.  A run outlives a manager that is killed.
StartRun(p) ==
  /\ pc[p] = "ok" /\ run[p] = NoRun /\ Healthy
  /\ run' = [run EXCEPT ![p] = [gen |-> current.gen, mapped |-> FALSE]]
  /\ UNCHANGED <<disk, lock, pc, prev, build, todo>>

Map(p) ==
  /\ run[p].gen # Nothing /\ ~run[p].mapped
  /\ run' = [run EXCEPT ![p] = [gen |-> run[p].gen, mapped |-> TRUE]]
  /\ UNCHANGED <<disk, lock, pc, prev, build, todo>>

EndRun(p) ==
  /\ run[p].mapped
  /\ run' = [run EXCEPT ![p] = NoRun]
  /\ UNCHANGED <<disk, lock, pc, prev, build, todo>>

\* Killed in Ensure: the kernel drops the lock, and what was being built stays.
\* (Killed later, it starts no more runs.)
Kill(p) ==
  /\ pc[p] \notin Ended
  /\ Goto(p, "dead")
  /\ lock' = IF lock = p THEN Nothing ELSE lock
  /\ todo' = [todo EXCEPT ![p] = {}]
  /\ Forget(p)
  /\ UNCHANGED <<disk, run>>

\* A managed Python deleted, a launcher truncated.
Damage(g) ==
  /\ stage[g] = "sealed" /\ health[g] = "good"
  /\ health' = [health EXCEPT ![g] = "damaged"]
  /\ UNCHANGED <<current, stage, pin, lock, pc, prev, build, todo, run>>

Ensure(p) ==
  \/ Launch(p) \/ TryCleanOldVersions(p) \/ AcquireProvisionLock(p) \/ CancelWait(p)
  \/ Recheck(p) \/ CleanOldVersions(p) \/ MakeVersionDir(p) \/ Install(p) \/ SmokeTest(p)
  \/ ClearMalformed(p) \/ Flip(p) \/ ProvisionFails(p) \/ Degrade(p) \/ Return(p)

ToolchainNext ==
  \/ \E p \in Procs : Ensure(p) \/ StartRun(p) \/ Map(p) \/ EndRun(p) \/ Kill(p)
  \/ \E g \in Gens : Damage(g)

ToolchainSpec == ToolchainInit /\ [][ToolchainNext]_toolchainVars

-----------------------------------------------------------------------------
\* Every variable keeps to its values, and the lock is held by exactly the
\* process that is past it.
ToolchainTypeOK ==
  /\ current \in [kind : {"none", "link", "copy"}, gen : Gens \cup {Nothing}]
  /\ stage \in [Gens -> {"unused", "partial", "installed", "sealed", "gone"}]
  /\ pin \in [Gens -> Pins]
  /\ health \in [Gens -> {"good", "bad", "damaged"}]
  /\ lock \in Procs \cup {Nothing}
  /\ pc \in [Procs -> {"launch", "tidy", "waiting"} \cup Inside \cup Ended]
  /\ \A p \in Procs : pc[p] \in Inside <=> lock = p
  /\ prev \in [Procs -> Gens \cup {Nothing}] /\ build \in [Procs -> Gens \cup {Nothing}]
  /\ todo \in [Procs -> SUBSET Gens]
  /\ run \in [Procs -> [gen : Gens \cup {Nothing}, mapped : BOOLEAN]]

\* As a link, "current" only ever leads to a complete install that passed its
\* smoke test, whoever is building, failing, cleaning up or killed meanwhile: a
\* crash or a failed download never damages a working install (toolchain.go:103).
CurrentIsComplete == current.gen \notin {Nothing, Copy} =>
  stage[current.gen] = "sealed" /\ health[current.gen] # "bad"

\* A build in progress is nobody's debris: no pass of another process removes
\* the directory a live provisioner is filling (toolchain.go:482).
BuildsUndisturbed == \A p \in Procs :
  /\ pc[p] = "installing" => stage[build[p]] = "partial"
  /\ pc[p] = "testing" => stage[build[p]] = "installed"
  /\ pc[p] = "flipping" => stage[build[p]] = "sealed"

\* A borgmatic keeps the generation it was started from, through the link, for
\* as long as it runs, however many flips and passes there are (toolchain.go:709).
RunsKeepTheirGeneration == \A p \in Procs :
  run[p].gen \notin {Nothing, Copy} => stage[run[p].gen] = "sealed"

\* The same of a copied "current": it keeps working until it is replaced. The
\* code does not keep this: a pass spares only what a link names.
CopyIsComplete == current.kind = "copy" => stage[current.gen] = "sealed"
=============================================================================
