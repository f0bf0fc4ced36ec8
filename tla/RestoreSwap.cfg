CONSTANTS
  p1 = p1 p2 = p2 s1 = s1 s2 = s2 o1 = o1 o2 = o2 k1 = k1 v0 = v0 v1 = v1
  Procs = {p1, p2}
  NoProc = NoProc
  Target = Target
  Staging = {s1, s2}
  Old = {o1, o2}
  Kept = {k1}
  Volumes = {v0, v1}
  Empty = Empty Partial = Partial Foreign = Foreign None = None
  Originals = {v0}
  Archives = {v1, Empty}
SPECIFICATION Spec
INVARIANTS TypeOK VolumeIsWhole Recoverable ForeignUntouched
SYMMETRY NameSymmetry
