---------------------------- MODULE MCTrajectory ----------------------------
(***************************************************************************)
(* Instances of Trajectory for TLC: three exchanges, of one conversation   *)
(* or of two, and two tools that may be called more than once.             *)
(***************************************************************************)
EXTENDS Trajectory

CONSTANTS t1, t2

TwoThreads == {t1, t2}
FourAnswers == {<< >>, <<"search">>, <<"divide">>, <<"search", "divide">>}

\* Threads are interchangeable.
AnyThread == Permutations(TwoThreads)
=============================================================================
