CONSTANTS
  a = a p1 = p1 NoPrint = NoPrint
  Groups = {a}
  Runs = {}
  Prints = {p1}
  Times <- MCTimes
  MaxMissing = 2
  MaxTime = 4
  Period = 4
  PeriodOf <- OwnPeriods
  MinWake = 1 LockRetry = 2 GateRetry = 2
  AdhocGroups = {a}
SPECIFICATION Spec
INVARIANTS TypeOK WakesInTime WakesForAReason
PROPERTY SuccessCounts
