CONSTANTS
  d1 = d1 a1 = a1 a2 = a2 NoRun = NoRun
  DaemonRuns = {d1}
  AdhocRuns = {a1}
  ProbedRuns = {a1}
  Faults = TRUE
SPECIFICATION Spec
INVARIANTS TypeOK LiveRunNotReaped ProbeTellsTruth OrphansStayRecorded
