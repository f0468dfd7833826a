------------------------------- MODULE MCBoot -------------------------------
(***************************************************************************)
(* An instance of Boot for TLC: two processes, the nine migrations of      *)
(* which the second cannot be repeated, and a database that is empty, was  *)
(* initialised with the eight files that install.sh downloads, or with all.*)
(***************************************************************************)
EXTENDS Boot

CONSTANTS s1, s2

TwoServices == {s1, s2}
AllModes == {"waiting", "disabled", "stub"}
Triggers == {2}
SchemasBefore == {0, 8, 9}
=============================================================================
