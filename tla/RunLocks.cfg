CONSTANTS
  daemon = daemon adhoc = adhoc restore = restore
  b1 = b1 b2 = b2 b3 = b3 b4 = b4 a1 = a1 x1 = x1
  Procs <- MCProcs
  Backups <- MCBackups
  Restores <- MCRestores
  ProcOf <- MCProcOf
  GroupOf <- MCGroupOf
  Groups = {1, 2}
  Repos = {1, 2}
  Volumes = {1}
  Metas <- MCMetas
  RestorePlans <- MCRestorePlans
SPECIFICATION Spec
INVARIANTS RunsExclusive GroupExclusive SiblingsNeverSkip NothingLeaks
PROPERTY ImplementsExclusiveRuns
