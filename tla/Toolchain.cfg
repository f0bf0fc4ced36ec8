SPECIFICATION ToolchainSpec
CONSTANTS
  p1 = p1
  p2 = p2
  p3 = p3
  old = old
  new = new
  Procs = {p1, p2, p3}
  Pins = {old, new}
  Pinned <- MCPinned
  g0 = g0
  g1 = g1
  g2 = g2
  g3 = g3
  Gens = {g0, g1, g2, g3}
  Nothing = Nothing
  Copy = g0
SYMMETRY MCSymmetry
INVARIANTS
  CurrentIsComplete
  BuildsUndisturbed
  RunsKeepTheirGeneration
CHECK_DEADLOCK FALSE
