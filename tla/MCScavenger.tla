----------------------------- MODULE MCScavenger -----------------------------
(* Instances of Scavenger for TLC. *)
EXTENDS Scavenger

MCSymmetry == Permutations(Connection)
=============================================================================
