---------------------------- MODULE MCReviewDesk ----------------------------
(***************************************************************************)
(* An instance of ReviewDesk for TLC: two sessions, one tab, two saved     *)
(* reviews of which an export takes one. A word is a label or it is none;  *)
(* SetLabel reaches the other labels.                                      *)
(***************************************************************************)
EXTENDS ReviewDesk, TLC

CONSTANTS r1, r2, t1

TwoSessions == {r1, r2}
OneTab == {t1}
SomeWords == {"good", "chatter"}
Symmetric == Permutations(TwoSessions)
=============================================================================
