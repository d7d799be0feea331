--------------------------- MODULE MCVolumeSharing ---------------------------
(* Instances of VolumeSharing for TLC. *)
EXTENDS VolumeSharing

CONSTANTS p1, p2, p3, work, home

(* Two of the paths end in the same name.                                  *)
MCLeaf == p1 :> work @@ p2 :> work @@ p3 :> home

MCSymmetry == Permutations(Session) \cup Permutations(Address) \cup Permutations({p1, p2})
=============================================================================
