CONSTANTS
  daemon = daemon adhoc = adhoc restore = restore
  b1 = b1 b2 = b2 b3 = b3 b4 = b4 a1 = a1 x1 = x1
  Procs <- QueueProcs
  Backups <- QueueBackups
  Restores = {}
  ProcOf <- QueueProcOf
  GroupOf <- QueueGroupOf
  Groups = {1, 2, 3}
  Repos = {1, 2}
  Volumes = {}
  Metas <- QueueMetas
  RestorePlans = {}
SPECIFICATION FairSpec
PROPERTY QueueDrains
