SPECIFICATION FairSpec
CONSTANTS
  Debounce = 2
  MaxWait = 4
  MaxInFlight = 2
INVARIANTS NothingMissed ObservedIsOwed
PROPERTY ChangeSeen
