------------------------------ MODULE MCBudget ------------------------------
(***************************************************************************)
(* An instance of Budget for TLC. Two exchanges of an agent together reach *)
(* the alert of its token limit and exceed its cost limit; the exchange of *)
(* another agent, which has no limit of its own, makes the difference for  *)
(* the global limits.                                                      *)
(***************************************************************************)
EXTENDS Budget, TLC

CONSTANTS x1, x2, x3, a1, a2

ThreeExchanges == {x1, x2, x3}
TwoAgents == {a1, a2}
ThreeAgentOf == x1 :> a1 @@ x2 :> a1 @@ x3 :> a2
Uses(tokens, cost) == [u \in Units |-> IF u = "tokens" THEN tokens ELSE cost]
ThreeAmounts == x1 :> Uses(3, 4) @@ x2 :> Uses(4, 2) @@ x3 :> Uses(2, 3)

AllLimits ==
    <<a1, "tokens">> :> 7 @@ <<a1, "cost">> :> 5
      @@ <<Global, "tokens">> :> 8 @@ <<Global, "cost">> :> 6
=============================================================================
