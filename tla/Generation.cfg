CONSTANTS
  a = a b = b c = c d = d
  Groups = {a, b, c, d}
  Name <- MCName
  Alphabet <- MCAlphabet
  Digits <- MCDigits
  HostNames <- MCHostNames
  UserNames <- MCUserNames
  DigitRuns <- MCDigitRuns
  Domains <- MCDomains
  Merged <- MCMerged
  Locations = {"r1", "r2"}
  RepoLists <- MCRepoLists
  NameBound = 3
SPECIFICATION Spec
INVARIANTS SiblingsSafe OvermatchIsExact RefusedForCause
PROPERTIES PlanEnds
CHECK_DEADLOCK FALSE
