------------------------------ MODULE EventLog ------------------------------
(***************************************************************************)
(* What the event pipeline promises to whoever reads the events table: an  *)
(* append-only log. An accepted event waits behind the ones accepted       *)
(* before it; a group of at most BatchMax of the oldest ones is settled    *)
(* together, either appended to the log in order or given up as a whole; a *)
(* failure of the process gives up everything that waits. Fail-open, so    *)
(* nothing promises that an accepted event is stored.                      *)
(***************************************************************************)
EXTENDS Integers, Sequences, Functions

CONSTANTS Events, BatchMax

VARIABLES
    accepted,   \* every event ever accepted
    pending,    \* accepted and not settled, oldest first
    log         \* the stored events

vars == <<accepted, pending, log>>

Init ==
    /\ accepted = {}
    /\ pending = <<>>
    /\ log = <<>>

Oldest(n) == SubSeq(pending, 1, n)
Younger(n) == SubSeq(pending, n + 1, Len(pending))

\* A new event joins the end of the line.
Accept(e) ==
    /\ e \notin accepted
    /\ accepted' = accepted \cup {e}
    /\ pending' = Append(pending, e)
    /\ UNCHANGED log

\* The n oldest events leave the line, stored together or given up together.
Settle(n) ==
    /\ n \in 1 .. Len(pending)
    /\ n =< BatchMax
    /\ \/ log' = log \o Oldest(n)
       \/ UNCHANGED log
    /\ pending' = Younger(n)
    /\ UNCHANGED accepted

\* A failure gives up all that waits, except a group it may still have stored.
Fail ==
    /\ \/ UNCHANGED log
       \/ \E n \in 1 .. Len(pending) : n =< BatchMax /\ log' = log \o Oldest(n)
    /\ pending' = <<>>
    /\ UNCHANGED accepted

SettleSome == \E n \in 1 .. Len(pending) : Settle(n)

Next ==
    \/ \E e \in Events : Accept(e)
    \/ SettleSome
    \/ Fail

Spec == Init /\ [][Next]_vars
FairSpec == Spec /\ WF_vars(SettleSome)
=============================================================================
