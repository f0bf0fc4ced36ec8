---------------------------- MODULE MCRestoreSwap ----------------------------
(* Small instances of RestoreSwap for TLC. *)
EXTENDS RestoreSwap, TLC
CONSTANTS p1, p2, s1, s2, o1, o2, k1, v0, v1

NameSymmetry ==
  Permutations({p1, p2}) \cup Permutations({s1, s2}) \cup Permutations({o1, o2})
=============================================================================
