-------------------------- MODULE MCEventPipeline --------------------------
(***************************************************************************)
(* Instances of EventPipeline for TLC: two agents that share the events    *)
(* between them, so that a batch can hold one agent twice or both agents.  *)
(***************************************************************************)
EXTENDS EventPipeline, TLC

CONSTANTS e1, e2, e3, a1, a2

ThreeEvents == {e1, e2, e3}
TwoAgents == {a1, a2}
ThreeAgentOf == e1 :> a1 @@ e2 :> a1 @@ e3 :> a2
=============================================================================
