-------------------------- MODULE DeploymentContract --------------------------
(***************************************************************************)
(* What the runner promises about one deployment's artifacts, with no      *)
(* processes, calls or faults: a deployment acquires its artifacts while   *)
(* it is provisioned, is published only when it owns all of them, and from *)
(* then on can only lose them.  A provisioning that fails may leave        *)
(* artifacts behind; what it leaves nobody ever touches again.             *)
(***************************************************************************)
EXTENDS FiniteSets

CONSTANT Deployments

VARIABLES
  life,   \* [Deployments -> Lives]
  held    \* [Deployments -> SUBSET Artifacts], what exists on the host

vars == <<life, held>>

Lives == {"fresh", "provisioning", "failed", "listed", "deleted"}
Artifacts == {"user", "network", "container"}

TypeOK ==
  /\ life \in [Deployments -> Lives]
  /\ held \in [Deployments -> SUBSET Artifacts]

Init ==
  /\ life = [d \in Deployments |-> "fresh"]
  /\ held = [d \in Deployments |-> {}]

Become(d, l) == life' = [life EXCEPT ![d] = l]

Begin(d) ==
  /\ life[d] = "fresh"
  /\ Become(d, "provisioning")
  /\ UNCHANGED held

Acquire(d) ==
  /\ life[d] = "provisioning"
  /\ \E a \in Artifacts \ held[d] : held' = [held EXCEPT ![d] = @ \cup {a}]
  /\ UNCHANGED life

\* A deletion that overlaps another may still be at work when the row is gone.
Release(d) ==
  /\ life[d] \in {"provisioning", "listed", "deleted"}
  /\ \E a \in held[d] : held' = [held EXCEPT ![d] = @ \ {a}]
  /\ UNCHANGED life

\* The last step of the undoing may release an artifact.
Fail(d) ==
  /\ life[d] = "provisioning"
  /\ Become(d, "failed")
  /\ \E kept \in {held[d], held[d] \ {"user"}} : held' = [held EXCEPT ![d] = kept]

Publish(d) ==
  /\ life[d] = "provisioning"
  /\ held[d] = Artifacts
  /\ Become(d, "listed")
  /\ UNCHANGED held

Delete(d) ==
  /\ life[d] = "listed"
  /\ Become(d, "deleted")
  /\ UNCHANGED held

\* Every provisioning under way fails at once.
Crash ==
  /\ life' = [d \in Deployments |-> IF life[d] = "provisioning" THEN "failed" ELSE life[d]]
  /\ UNCHANGED held

Next ==
  \/ Crash
  \/ \E d \in Deployments :
       Begin(d) \/ Acquire(d) \/ Release(d) \/ Fail(d) \/ Publish(d) \/ Delete(d)

Spec == Init /\ [][Next]_vars

=============================================================================
