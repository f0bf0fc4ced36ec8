CONSTANTS
  daemon = daemon adhoc = adhoc g1 = g1 p1 = p1
  Procs = {daemon, adhoc}
  NoProc = NoProc
  Corrupt = Corrupt
  Groups = {g1}
  Runs = {}
  Prints = {p1}
  NoPrint = NoPrint
  Times = {0, 1}
  MaxMissing = 2
SPECIFICATION FairSpec
INVARIANTS LiveTempKept PublishedIsOnDisk
PROPERTIES ImplementsAtomicSchedule UpdatesEnd
