------------------------------ MODULE DockerHost ------------------------------
(***************************************************************************)
(* The machine mcp-runner drives: the Docker daemon (one container and one *)
(* bridge network per deployment) and the Linux user table.  The operators *)
(* are the calls ContainerService, NetworkService and LinuxUserService     *)
(* make, each with the effect the daemon has and the result `res' the      *)
(* caller sees.  A call takes effect in one step.                          *)
(*                                                                         *)
(*   "ok"           the promise resolved                                   *)
(*   "304"/"404"    the daemon's not-modified / not-found answers          *)
(*   "409"          conflict: removing a running container, killing a      *)
(*                  stopped one                                            *)
(*   "500"          any other rejection                                    *)
(*                                                                         *)
(* Container, network and user names are random and used once, so the      *)
(* three tables are indexed by the deployment that owns the entry.         *)
(***************************************************************************)
EXTENDS FiniteSets

CONSTANTS
  Deployments,  \* deployment ids (dp_<64 random bytes>), never reused
  Faults        \* the calls that may fail here, and the events that may occur

VARIABLES
  container,    \* [Deployments -> ContainerStates]
  network,      \* [Deployments -> BOOLEAN], TRUE when <id>-network exists
  user          \* [Deployments -> BOOLEAN], TRUE when the Linux user exists

host == <<container, network, user>>

ContainerStates == {"none", "created", "running", "exited"}

HostTypeOK ==
  /\ container \in [Deployments -> ContainerStates]
  /\ network \in [Deployments -> BOOLEAN]
  /\ user \in [Deployments -> BOOLEAN]

HostInit ==
  /\ container = [d \in Deployments |-> "none"]
  /\ network = [d \in Deployments |-> FALSE]
  /\ user = [d \in Deployments |-> FALSE]

\* Nothing of deployment d is left on the machine.
Gone(d) == container[d] = "none" /\ ~network[d] /\ ~user[d]

Fails(call) == call \in Faults

\* The call rejects without having had an effect.
Rejects(call, res) ==
  /\ Fails(call)
  /\ res = "500"
  /\ UNCHANGED host

SetContainer(d, s) ==
  /\ container' = [container EXCEPT ![d] = s]
  /\ UNCHANGED <<network, user>>

-----------------------------------------------------------------------------
(* LinuxUserService *)

UserAdd(d, res) ==
  \/ /\ res = "ok"
     /\ user' = [user EXCEPT ![d] = TRUE]
     /\ UNCHANGED <<container, network>>
  \/ Rejects("useradd", res)

\* userdel exits non-zero when there is no such user.
DeleteUser(d, res) ==
  \/ /\ user[d]
     /\ res = "ok"
     /\ user' = [user EXCEPT ![d] = FALSE]
     /\ UNCHANGED <<container, network>>
  \/ /\ ~user[d]
     /\ res = "500"
     /\ UNCHANGED host
  \/ Rejects("userdel", res)

-----------------------------------------------------------------------------
(* NetworkService *)

CreateIsolatedNetwork(d, res) ==
  \/ /\ res = "ok"
     /\ network' = [network EXCEPT ![d] = TRUE]
     /\ UNCHANGED <<container, user>>
  \/ Rejects("createNetwork", res)

\* A network with a running endpoint cannot be removed; that error is only
\* logged, and so is any other removal error ("warned").  Only a failing list
\* call makes cleanupNetwork throw.
CleanupNetwork(d, res) ==
  \/ /\ network[d] => container[d] # "running"
     /\ res = "ok"
     /\ network' = [network EXCEPT ![d] = FALSE]
     /\ UNCHANGED <<container, user>>
  \/ /\ network[d]
     /\ container[d] = "running" \/ Fails("removeNetwork")
     /\ res = "warned"
     /\ UNCHANGED host
  \/ Rejects("listNetworks", res)

-----------------------------------------------------------------------------
(* ContainerService *)

\* A mistake the runs must notice: the container is run, not only created.
RunSecureContainer(d, res) ==
  \/ res = "ok" /\ SetContainer(d, "running")
  \/ Rejects("createContainer", res)

CreateSecureContainer(d, res) ==
  \/ res = "ok" /\ SetContainer(d, "created")
  \/ Rejects("createContainer", res)

\* start() needs a stopped container whose network still exists.  The attach()
\* that follows, of no effect on the host, may reject when the container is running.
Startable(d) == container[d] \in {"created", "exited"} /\ network[d]

StartContainer(d, res) ==
  \/ /\ Startable(d)
     /\ res = "ok" \/ (Fails("attach") /\ res = "500")
     /\ SetContainer(d, "running")
  \/ /\ ~Startable(d)
     /\ res = IF container[d] = "running" THEN "304" ELSE "404"
     /\ UNCHANGED host
  \/ Rejects("start", res)

\* stop() when graceful, else kill().
StopContainer(d, graceful, res) ==
  \/ /\ container[d] = "running"
     /\ res = "ok"
     /\ SetContainer(d, "exited")
  \/ /\ container[d] \in {"created", "exited"}
     /\ res = IF graceful THEN "304" ELSE "409"
     /\ UNCHANGED host
  \/ /\ container[d] = "none"
     /\ res = "404"
     /\ UNCHANGED host
  \/ Rejects("stop", res)

\* remove() is not forced.  Its 404 is swallowed; and since the rethrow asks
\* for a statusCode, so is an error that has none, such as a refused or reset
\* connection to the daemon's socket ("removeSocket").
RemoveContainer(d, res) ==
  \/ /\ container[d] # "running"
     /\ res = "ok"
     /\ SetContainer(d, "none")
  \/ /\ container[d] = "running"
     /\ res = "409"
     /\ UNCHANGED host
  \/ /\ Fails("removeSocket")
     /\ res = "ok"
     /\ UNCHANGED host
  \/ Rejects("remove", res)

\* The State.Status an inspect answers, or an error.
InspectContainer(d, res) ==
  /\ \/ container[d] = "none" /\ res = "404"
     \/ container[d] # "none" /\ res = container[d]
     \/ Fails("inspect") /\ res = "500"
  /\ UNCHANGED host

\* The MCP server's own process ends; no restart policy is configured.
ContainerExits(d) ==
  /\ container[d] = "running"
  /\ SetContainer(d, "exited")

=============================================================================
