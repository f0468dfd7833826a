--------------------------- MODULE MCProxyHandler ---------------------------
(***************************************************************************)
(* Instances of ProxyHandler for TLC: two requests of one agent, the one   *)
(* in flight while the other meets the kill switch, and one of another.    *)
(***************************************************************************)
EXTENDS ProxyHandler, TLC

CONSTANTS r1, r2, r3, a1, a2

ThreeRequests == {r1, r2, r3}
TwoAgents == {a1, a2}
ThreeAgentOf == r1 :> a1 @@ r2 :> a1 @@ r3 :> a2

TwoRequests == {r1, r2}
OneAgent == {a1}
TwoAgentOf == r1 :> a1 @@ r2 :> a1
=============================================================================
