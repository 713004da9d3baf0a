------------------------- MODULE MCDeploymentService --------------------------
(***************************************************************************)
(* DeploymentService on small instances.                                   *)
(***************************************************************************)
EXTENDS DeploymentService, TLC

Body(start, timers) == [autoStart |-> start, timers |-> timers]

StartedThenDeleted == {Body(TRUE, {"delete"})}
CreatedThenDeleted == {Body(FALSE, {"delete"})}
CreatedThenPaused == {Body(FALSE, {"pause"})}
AllTimers == {Body(TRUE, Timers), Body(FALSE, Timers)}

\* No pass is used by name anywhere.
PassSymmetry == Permutations(DeletePasses) \cup Permutations(PausePasses)

=============================================================================
