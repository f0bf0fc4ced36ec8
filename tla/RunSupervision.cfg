SPECIFICATION Spec
CONSTANTS
  a = a
  b = b
  x = x
  y = y
  Ids = {a, b}
  Paths = {x, y}
  Configs <- MCConfigs
  RunTimeout = TRUE
  MaxRuns = 2
INVARIANTS
  LocksOutliveTheGroup
  FreshnessIsReal
  OutcomeIsTruthful
PROPERTIES
  RunsEnd
CHECK_DEADLOCK FALSE
