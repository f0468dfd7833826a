---------------------------- MODULE MCManagement ----------------------------
(***************************************************************************)
(* An instance of Management for TLC: two clients and two agents, one      *)
(* project, pages of one row, listed whole, by status or by name. The nine *)
(* migrations are three: what comes before agents, agents with its trigger,*)
(* and what comes after.                                                   *)
(***************************************************************************)
EXTENDS Management

CONSTANTS s1, c1, c2, a1, a2, p1

OneService == {s1}
TwoClients == {c1, c2}
TwoAgents == {a1, a2}
OneProject == {p1}
SchemasBefore == {0, 2, 3}
PoolOrNone == {"waiting", "stub"}
Triggers == {2}

Everything ==
    [status |-> Statuses, ofType |-> TwoAgents, name |-> TwoClients \cup {Null}]
ThreeFilters ==
    {Everything, [Everything EXCEPT !.status = {"active"}], [Everything EXCEPT !.name = {Null}]}
=============================================================================
