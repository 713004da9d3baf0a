------------------------------- MODULE MCActivity -------------------------------
(***************************************************************************)
(* Instances of Activity for TLC: a second is two ticks, a callback runs   *)
(* at most one tick late.                                                  *)
(***************************************************************************)
EXTENDS Activity

CONSTANTS d1, d2

\* d1 has both timers; d2 only a deletion timer, of one second.
PauseAfterOf == [d \in Deployments |-> IF d = d1 THEN 4 ELSE 0]
DeleteAfterOf == [d \in Deployments |-> IF d = d1 THEN 4 ELSE 2]

=============================================================================
