-------------------------- MODULE MCSessionLineage --------------------------
(***************************************************************************)
(* Instances of SessionLineage for TLC: three or four tasks of one agent,  *)
(* so that two of them race while a third one follows, and one of another. *)
(***************************************************************************)
EXTENDS SessionLineage, TLC

CONSTANTS e1, e2, e3, e4, a1, a2

FourEvents == {e1, e2, e3, e4}
TwoAgents == {a1, a2}
FourAgentOf == e1 :> a1 @@ e2 :> a1 @@ e3 :> a1 @@ e4 :> a2

\* Events of one agent are interchangeable.
SameAgentEvents == Permutations({e1, e2, e3})
=============================================================================
