----------------------------- MODULE MCCatalog -----------------------------
(***************************************************************************)
(* Two sessions, a folder, two files and the names 1 and 2 beside ".".     *)
(***************************************************************************)
EXTENDS Catalog

CONSTANTS s1, s2, f1, f2

MCName == 0..2
MCSymmetry == Permutations({s1, s2}) \cup Permutations({f1, f2})
=============================================================================
