----------------------------- MODULE MCToolchain -----------------------------
(* Toolchain with three processes of two versions of the manager: an old     *)
(* one, and two that race after an upgrade.                                  *)
EXTENDS Toolchain, TLC

CONSTANTS p1, p2, p3, old, new, g0, g1, g2, g3

MCSymmetry == Permutations({p2, p3}) \cup Permutations({g1, g2, g3})

MCPinned == (p1 :> old) @@ (p2 :> new) @@ (p3 :> new)
==============================================================================
