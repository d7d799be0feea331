--------------------------- MODULE MCResourceFork ---------------------------
(***************************************************************************)
(* One file; contents of two lengths beside none.                          *)
(***************************************************************************)
EXTENDS ResourceFork

CONSTANTS s1, s2, c0, c1, c2, g

MCContent == {c0, c1, c2, g}
MCSize == [c \in MCContent |-> CASE c = c0 -> 0 [] c = c2 -> 2 [] OTHER -> 1]
MCSymmetry == Permutations({s1, s2})
=============================================================================
