CONSTANTS
  g = g a = a b = b v = v db = db nogroup = nogroup badgroup = badgroup
  daemon = daemon adhoc = adhoc
  Procs = {daemon, adhoc}
  Containers = {a, b}
  Volumes = {v}
  Groups = {g}
  NoGroup = nogroup
  BadGroup = badgroup
  Anonymous = {}
  Databases <- MCDatabases
  Boxes <- MCBoxes
  VolStates <- MCVolStates
SPECIFICATION Spec
INVARIANTS OwnedIsKept NothingKeptForever DatabasesKept
SYMMETRY MCSymmetry
