----------------------------- MODULE Generation -----------------------------
(***************************************************************************)
(* One plan of internal/config/generate.go: which of the discovered groups *)
(* get a borgmatic configuration, and which are refused because their      *)
(* retention would prune another group's archives.  Pass 2 demands the     *)
(* {group} token, pass 3 refuses in rounds.                                *)
(***************************************************************************)
EXTENDS ArchiveNames, FiniteSets

CONSTANTS
  Groups,
  Name,         \* of each group, as a text
  Merged,       \* the archive_name_formats that may be merged for the groups
  Locations,    \* where repositories are
  RepoLists,    \* the lists of repositories that may be merged for a group
  NameBound     \* checked: how much of a placeholder of any text is spelt out

\* A repository's path is its location, or hides it: "expands" holds a variable
\* that this process resolves, "default" one that only borgmatic does.
RepoEntry == [at : Locations, written : {"plain", "expands", "default"}]

ASSUME GenerationAssumption ==
  /\ IsFiniteSet(Groups) /\ Groups # {}
  /\ Name \in [Groups -> Seq(Chars)]
  /\ \A formats \in Merged :
       DOMAIN formats = Groups /\ \A g \in Groups : IsFormat(formats[g])
  /\ RepoLists \subseteq SUBSET RepoEntry
  /\ "unknown" \notin Locations
  /\ NameBound \in Nat

VARIABLES
  final,        \* of each group, its format with the token replaced
  groupToken,   \* whether there was a token
  repos,        \* its repositories
  restoring,    \* keepOvermatched
  pass,         \* the pass that is next
  kept,         \* the groups not refused
  refusals,     \* the others, with the reason
  rounds        \* history: pass 3, what each round refused

config == <<final, groupToken, repos, restoring>>
vars == <<config, pass, kept, refusals, rounds>>

\* Pass 1 has merged every group's configuration.
Init ==
  /\ \E formats \in Merged :
       /\ final = [g \in Groups |-> Resolved(formats[g], Name[g])]
       /\ groupToken = [g \in Groups |-> HasGroupToken(formats[g])]
  /\ repos \in [Groups -> RepoLists]
  /\ restoring \in BOOLEAN
  /\ pass = 2
  /\ kept = Groups /\ refusals = {} /\ rounds = <<>>

-----------------------------------------------------------------------------
\* CanonicalRepoKey: what cannot be resolved has one key for all.
CanonicalRepoKey(entry) == IF entry.written = "default" THEN "unknown" ELSE entry.at

\* extractRepoKeys.
RepoKeys(g) == {CanonicalRepoKey(entry) : entry \in repos[g]}

Shares(g, h) == g # h /\ RepoKeys(g) \cap RepoKeys(h) # {}

\* Pass 2, judged on all groups, those that will be refused included.
NeedsToken(g) == (\E h \in Groups : Shares(g, h)) /\ ~groupToken[g]

Tokens ==
  /\ pass = 2
  /\ kept' = {g \in Groups : ~NeedsToken(g)}
  /\ refusals' = {[group |-> g, reason |-> "token"] : g \in Groups \ kept'}
  /\ pass' = IF restoring THEN 4 ELSE 3
  /\ UNCHANGED <<config, rounds>>

-----------------------------------------------------------------------------
(* Pass 3: overmatchingPatterns. *)

Finals == UNION {{Resolved(formats[g], Name[g]) : g \in Groups} : formats \in Merged}

\* patternOvermatches, of any two resolved formats.
Overmatches ==
  [f \in Finals |-> [h \in Finals |->
     PatternOvermatches(ArchiveMatchPattern(f), ArchiveFormatSegments(h))]]

\* Which group's pattern claims archives of which, in a repository of both.
Edges(among) ==
  {e \in among \X among : Shares(e[1], e[2]) /\ Overmatches[final[e[1]]][final[e[2]]]}

Sources(edges) == {e[1] : e \in edges}

\* The groups that claim archives of one that claims nobody's.
InnocentClaimers(edges) == {e[1] : e \in {e \in edges : e[2] \notin Sources(edges)}}

\* No edge leaves the set.
Closed(set, edges) == \A e \in edges : e[1] \in set => e[2] \in set

\* The strongly connected components with no edge leaving: such sets of claimers
\* that have no smaller one within.
SinkCycles(edges) ==
  UNION {set \in (SUBSET Sources(edges)) \ {{}} :
           /\ Closed(set, edges)
           /\ \A part \in (SUBSET set) \ {{}, set} : ~Closed(part, edges)}

\* sinkCycleMembers: if there are none, which never happens, everybody.
SinkCycleMembers(edges) == IF SinkCycles(edges) # {} THEN SinkCycles(edges) ELSE Sources(edges)

\* Faulty: whoever claims anything is refused at once.
RoundAtOnce(edges) == Sources(edges)

Round(edges) ==
  IF InnocentClaimers(edges) # {} THEN InnocentClaimers(edges) ELSE SinkCycleMembers(edges)

\* Faulty: groups that claim each other's archives all wait for another one.
RefuseForInnocents ==
  /\ pass = 3 /\ InnocentClaimers(Edges(kept)) # {}
  /\ LET round == Round(Edges(kept))
     IN /\ kept' = kept \ round
        /\ refusals' = refusals \cup {[group |-> g, reason |-> "overlap"] : g \in round}
        /\ rounds' = Append(rounds, round)
  /\ UNCHANGED <<config, pass>>

\* Faulty: one round, as if it settled everything.
RefuseOnce ==
  /\ pass = 3 /\ Edges(kept) # {}
  /\ LET round == Round(Edges(kept))
     IN /\ kept' = kept \ round
        /\ refusals' = refusals \cup {[group |-> g, reason |-> "overlap"] : g \in round}
        /\ rounds' = Append(rounds, round)
  /\ pass' = 4
  /\ UNCHANGED config

Refuse ==
  /\ pass = 3 /\ Edges(kept) # {}
  /\ LET round == Round(Edges(kept))
     IN /\ kept' = kept \ round
        /\ refusals' = refusals \cup {[group |-> g, reason |-> "overlap"] : g \in round}
        /\ rounds' = Append(rounds, round)
  /\ UNCHANGED <<config, pass>>

Settled ==
  /\ pass = 3 /\ Edges(kept) = {}
  /\ pass' = 4
  /\ UNCHANGED <<config, kept, refusals, rounds>>

Next == Tokens \/ Refuse \/ Settled

Spec == Init /\ [][Next]_vars /\ WF_vars(Next)

-----------------------------------------------------------------------------
Done == pass = 4

Refused(reason) == {r.group : r \in {r \in refusals : r.reason = reason}}

TypeOK ==
  /\ final \in [Groups -> Finals] /\ groupToken \in [Groups -> BOOLEAN]
  /\ repos \in [Groups -> RepoLists]
  /\ restoring \in BOOLEAN /\ pass \in {2, 3, 4}
  /\ kept \subseteq Groups
  /\ refusals \subseteq [group : Groups, reason : {"token", "overlap"}]
  /\ kept = Groups \ (Refused("token") \cup Refused("overlap"))
  /\ Refused("token") \cap Refused("overlap") = {}
  /\ rounds \in Seq(SUBSET Groups)
  /\ Refused("overlap") = UNION Range(rounds)

\* Which patterns match a name that which formats generate.
ClaimsGenerated ==
  [f \in Finals |-> [h \in Finals |->
     ClaimsSome(ArchiveMatchPattern(f), ArchiveFormatSegments(h), NameBound)]]

\* "Refuse any group whose archive pattern claims a sibling's archives in a
\* shared repository; its retention would prune them" (pass 3): when the plan
\* stands, no pattern of a group that runs is said to claim, and none matches, a
\* name of an archive that another one generates in a repository that both are
\* known to have.
SiblingsSafe ==
  Done /\ ~restoring =>
    \A g, h \in kept : g # h /\ RepoKeys(g) \cap RepoKeys(h) # {} =>
      ~Overmatches[final[g]][final[h]] /\ ~ClaimsGenerated[final[g]][final[h]]

\* That decision is the right one: a pattern is said to over-match a format if
\* and only if it matches a name that the format generates, whatever the
\* characters, classes and directives of the two (patternMatchesFormat).
OvermatchIsExact ==
  \A g, h \in Groups : Overmatches[final[g]][final[h]] <=> ClaimsGenerated[final[g]][final[h]]

\* It is right of a format that says something, with a pattern in which every
\* element can match and that has no more elements to match than a placeholder
\* is spelt out at.
Comparable(format) ==
  LET p == ArchiveMatchPattern(format)
  IN /\ p # <<>> /\ ArchiveFormatSegments(format) # <<>>
     /\ Matchable(p) /\ Cardinality(Literals(p, 1)) <= NameBound

\* Whoever follows the edges from g, wherever they lead, comes back to g.
OnCycle(g, edges) ==
  \A set \in SUBSET Groups :
    (\A e \in edges : e[1] \in set \cup {g} => e[2] \in set) => g \in set

\* "A refused group never runs and must not condemn anyone else"
\* (overmatchingPatterns): a group refused for an overlap claims the archives of
\* one that does run, or of one refused with it for claiming its own in turn,
\* over any number of groups.
RefusedForCause ==
  Done => \A k \in DOMAIN rounds : \A g \in rounds[k] :
    \/ \E h \in kept : <<g, h>> \in Edges(kept \cup {g})
    \/ OnCycle(g, Edges(rounds[k]))

\* "An empty round would spin forever": every plan comes to an end.
PlanEnds == <>Done

\* "Groups sharing a repository must keep distinguishable archive names, or one
\* group's retention prunes another's" (pass 2), of the repositories that the
\* groups have, however their paths are written.
NoSiblingPruned ==
  Done /\ ~restoring =>
    \A g, h \in kept :
      g # h /\ {e.at : e \in repos[g]} \cap {e.at : e \in repos[h]} # {} =>
        ~Overmatches[final[g]][final[h]]
=============================================================================
