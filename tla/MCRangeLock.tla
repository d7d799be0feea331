----------------------------- MODULE MCRangeLock -----------------------------
(* Instances of RangeLock for TLC. *)
EXTENDS RangeLock

CONSTANTS s1, s2, n1

MCOffset == {-1, 0, 1}
MCLength == {-1, 1, 3}
MCSymmetry == Permutations(Session)
=============================================================================
