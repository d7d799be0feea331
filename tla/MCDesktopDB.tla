---------------------------- MODULE MCDesktopDB ----------------------------
(* Two sessions, two creators and up to three entries: enough for a        *)
(* removal from the middle, for an icon behind an application, and for a   *)
(* first header that comes late.                                           *)
EXTENDS DesktopDB

CONSTANTS s1, s2, c1, c2, k1, t1, o1, text

MCSession == {s1, s2}
MCCreator == {c1, c2}
MCKind == {k1}
MCSize == {1, 2}
MCTag == {t1}
MCObject == {o1}
MCComment == {text}
MCSymmetry == Permutations(MCSession) \cup Permutations(MCCreator)
=============================================================================
