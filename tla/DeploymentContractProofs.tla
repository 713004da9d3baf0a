------------------------ MODULE DeploymentContractProofs ------------------------
(***************************************************************************)
(* DeploymentService implements DeploymentContract: every step of the      *)
(* handlers, cron jobs, shutdown and crashes is one step of the contract   *)
(* for one deployment (for all of them at once, if the process dies), or   *)
(* changes nothing the contract sees.                                      *)
(***************************************************************************)
EXTENDS DeploymentServiceProofs

-----------------------------------------------------------------------------
(* The contract's view of a deployment *)

\* The refinement mapping of Contract, one deployment at a time.
LifeOf(d) ==
  CASE d \notin minted -> "fresh"
    [] d \in minted \ listed -> IF Provisioning(d) THEN "provisioning" ELSE "failed"
    [] d \in listed -> IF HasRow(d) THEN "listed" ELSE "deleted"

HeldOf(d) ==
  {a \in {"user", "network", "container"} :
     CASE a = "user" -> user[d]
       [] a = "network" -> network[d]
       [] a = "container" -> container[d] # "none"}

SameLife(d) == LifeOf(d)' = LifeOf(d)
SameHeld(d) == HeldOf(d)' = HeldOf(d)
Becomes(d, l, m) == LifeOf(d) = l /\ LifeOf(d)' = m

\* The steps of the contract as this view shows them.
ContractStep(d) ==
  \/ Becomes(d, "fresh", "provisioning") /\ SameHeld(d)
  \/ /\ LifeOf(d) = "provisioning" /\ SameLife(d)
     /\ \E a \in {"user", "network", "container"} \ HeldOf(d) : HeldOf(d)' = HeldOf(d) \cup {a}
  \/ /\ LifeOf(d) \in {"provisioning", "listed", "deleted"} /\ SameLife(d)
     /\ \E a \in HeldOf(d) : HeldOf(d)' = HeldOf(d) \ {a}
  \/ /\ Becomes(d, "provisioning", "failed")
     /\ HeldOf(d)' \in {HeldOf(d), HeldOf(d) \ {"user"}}
  \/ /\ Becomes(d, "provisioning", "listed") /\ SameHeld(d)
     /\ HeldOf(d) = {"user", "network", "container"}
  \/ Becomes(d, "listed", "deleted") /\ SameHeld(d)
  \/ SameLife(d) /\ SameHeld(d)

Simulated == [Contract!Next]_(Contract!vars)

\* One deployment takes a step of the contract and the others none.
LEMMA OneStepSimulates ==
  ASSUME NEW d \in Deployments, ContractStep(d),
         \A e \in Deployments \ {d} : SameLife(e) /\ SameHeld(e)
  PROVE  Simulated
<1> DEFINE L == [e \in Deployments |-> LifeOf(e)]
           H == [e \in Deployments |-> HeldOf(e)]
           Held == {"user", "network", "container"}
<1>1. /\ L' = [L EXCEPT ![d] = LifeOf(d)']
      /\ H' = [H EXCEPT ![d] = HeldOf(d)']
      /\ L[d] = LifeOf(d) /\ H[d] = HeldOf(d)
  BY DEF SameLife, SameHeld
<1>2. (SameLife(d) => L' = L) /\ (SameHeld(d) => H' = H)
  BY DEF SameLife, SameHeld
<1>3. /\ Contract!vars = <<L, H>>
      /\ (Contract!vars)' = <<L', H'>>
  BY DEF Contract!vars, LifeOf, HeldOf
<1>4. /\ Contract!Begin(d) <=> L[d] = "fresh" /\ L' = [L EXCEPT ![d] = "provisioning"] /\ H' = H
      /\ Contract!Publish(d) <=> /\ L[d] = "provisioning" /\ H[d] = Held
                                 /\ L' = [L EXCEPT ![d] = "listed"] /\ H' = H
      /\ Contract!Delete(d) <=> L[d] = "listed" /\ L' = [L EXCEPT ![d] = "deleted"] /\ H' = H
  BY DEF Contract!Begin, Contract!Publish, Contract!Delete, Contract!Become,
         Contract!Artifacts, LifeOf, HeldOf
<1>5. /\ Contract!Acquire(d) <=>
           /\ L[d] = "provisioning" /\ L' = L
           /\ \E a \in Held \ H[d] : H' = [H EXCEPT ![d] = @ \cup {a}]
      /\ Contract!Release(d) <=>
           /\ L[d] \in {"provisioning", "listed", "deleted"} /\ L' = L
           /\ \E a \in H[d] : H' = [H EXCEPT ![d] = @ \ {a}]
      /\ Contract!Fail(d) <=>
           /\ L[d] = "provisioning" /\ L' = [L EXCEPT ![d] = "failed"]
           /\ \E kept \in {H[d], H[d] \ {"user"}} : H' = [H EXCEPT ![d] = kept]
  BY DEF Contract!Acquire, Contract!Release, Contract!Fail, Contract!Become,
         Contract!Artifacts, LifeOf, HeldOf
<1> HIDE DEF L, H
<1>6. CASE SameLife(d) /\ SameHeld(d)
  BY <1>2, <1>3, <1>6 DEF Simulated
<1>7. CASE ~(SameLife(d) /\ SameHeld(d))
  <2>1. \/ Contract!Begin(d) \/ Contract!Acquire(d) \/ Contract!Release(d)
        \/ Contract!Fail(d) \/ Contract!Publish(d) \/ Contract!Delete(d)
    BY <1>1, <1>2, <1>4, <1>5, <1>7 DEF ContractStep, Becomes
  <2> QED
    BY <2>1 DEF Simulated, Contract!Next
<1> QED
  BY <1>6, <1>7

-----------------------------------------------------------------------------
(* What a step leaves alone *)

SameHost(e) == container'[e] = container[e] /\ network'[e] = network[e] /\ user'[e] = user[e]

\* A call that creates nothing leaves a deployment's artifacts, or takes one.
LetsGo(d) == SameHeld(d) \/ \E a \in HeldOf(d) : HeldOf(d)' = HeldOf(d) \ {a}

LEMMA HeldKept ==
  ASSUME NEW d, SameHost(d)
  PROVE  SameHeld(d)
BY DEF SameHost, SameHeld, HeldOf

LEMMA CallsElsewhere ==
  ASSUME HostTypeOK, NEW d, NEW e \in Deployments \ {d}, NEW res, NEW graceful,
         \/ UserAdd(d, res) \/ CreateIsolatedNetwork(d, res) \/ CreateSecureContainer(d, res)
         \/ DeleteUser(d, res) \/ CleanupNetwork(d, res)
         \/ StartContainer(d, res) \/ StopContainer(d, graceful, res)
         \/ RemoveContainer(d, res) \/ InspectContainer(d, res)
         \/ ContainerExits(d) \/ UNCHANGED host
  PROVE  SameHost(e)
BY DEF HostTypeOK, SameHost, UserAdd, DeleteUser, CreateIsolatedNetwork,
       CleanupNetwork, CreateSecureContainer, StartContainer, Startable,
       StopContainer, RemoveContainer, InspectContainer, ContainerExits,
       Rejects, SetContainer, host

LEMMA CallsLetGo ==
  ASSUME HostTypeOK, NEW d \in Deployments, NEW res, NEW graceful,
         \/ DeleteUser(d, res) \/ CleanupNetwork(d, res)
         \/ StartContainer(d, res) \/ StopContainer(d, graceful, res)
         \/ RemoveContainer(d, res) \/ InspectContainer(d, res)
         \/ ContainerExits(d) \/ UNCHANGED host
  PROVE  LetsGo(d)
<1>1. CASE \/ StartContainer(d, res) \/ StopContainer(d, graceful, res)
           \/ InspectContainer(d, res) \/ ContainerExits(d) \/ UNCHANGED host
  <2>1. /\ network' = network /\ user' = user
        /\ container'[d] = "none" <=> container[d] = "none"
    BY <1>1 DEF HostTypeOK, StartContainer, Startable, StopContainer, InspectContainer,
                ContainerExits, Rejects, SetContainer, host
  <2> QED
    BY <2>1 DEF LetsGo, SameHeld, HeldOf
<1>2. CASE DeleteUser(d, res)
  <2>1. /\ container' = container /\ network' = network
        /\ (user'[d] <=> user[d]) \/ ~user'[d]
    BY <1>2 DEF HostTypeOK, DeleteUser, Rejects, host
  <2>2. HeldOf(d)' = HeldOf(d) \/ HeldOf(d)' = HeldOf(d) \ {"user"}
    BY <2>1 DEF HeldOf
  <2> QED
    BY <2>2 DEF LetsGo, SameHeld
<1>3. CASE CleanupNetwork(d, res)
  <2>1. /\ container' = container /\ user' = user
        /\ (network'[d] <=> network[d]) \/ ~network'[d]
    BY <1>3 DEF HostTypeOK, CleanupNetwork, Rejects, host
  <2>2. HeldOf(d)' = HeldOf(d) \/ HeldOf(d)' = HeldOf(d) \ {"network"}
    BY <2>1 DEF HeldOf
  <2> QED
    BY <2>2 DEF LetsGo, SameHeld
<1>4. CASE RemoveContainer(d, res)
  <2>1. /\ network' = network /\ user' = user
        /\ container'[d] = container[d] \/ container'[d] = "none"
    BY <1>4 DEF HostTypeOK, RemoveContainer, SetContainer, Rejects, host
  <2>2. HeldOf(d)' = HeldOf(d) \/ HeldOf(d)' = HeldOf(d) \ {"container"}
    BY <2>1 DEF HeldOf
  <2> QED
    BY <2>2 DEF LetsGo, SameHeld
<1> QED
  BY <1>1, <1>2, <1>3, <1>4

\* The row of e comes or goes with nothing else.
SameRow(e) == HasRow(e)' <=> HasRow(e)

SameIds(e) == (e \in minted' <=> e \in minted) /\ (e \in listed' <=> e \in listed)

SameProvisioning(e) == Provisioning(e)' <=> Provisioning(e)

LEMMA LifeKept ==
  ASSUME NEW e, SameRow(e), SameIds(e), SameProvisioning(e)
  PROVE  SameLife(e)
<1>1. LifeOf(e)' = CASE e \notin minted' -> "fresh"
                     [] e \in minted' \ listed' -> IF Provisioning(e)' THEN "provisioning" ELSE "failed"
                     [] e \in listed' -> IF HasRow(e)' THEN "listed" ELSE "deleted"
  BY DEF LifeOf
<1> QED
  BY <1>1 DEF SameLife, LifeOf, SameRow, SameIds, SameProvisioning

\* Who provisions e is a matter of the frames that work on e.
LEMMA ProvisioningKept ==
  ASSUME NEW f \in Frames, Alone(f), NEW e \in Deployments,
         f \in Creators /\ target[f] = e => pc[f] \notin ProvisionSteps,
         f \in Creators /\ target'[f] = e => pc'[f] \notin ProvisionSteps
  PROVE  SameProvisioning(e)
BY DEF Alone, SameProvisioning, Provisioning, Frames

\* While f stays a provisioner of d it makes no difference to any deployment.
LEMMA ProvisionerStays ==
  ASSUME NEW f \in Creators, NEW d, Alone(f), target[f] = d, target'[f] = d,
         pc[f] \in ProvisionSteps, pc'[f] \in ProvisionSteps, NEW e \in Deployments
  PROVE  SameProvisioning(e)
BY DEF Alone, SameProvisioning, Provisioning, Frames

\* Of a listed deployment the life shows only whether it has a row.
LEMMA ListedLife ==
  ASSUME Ownership, NEW d \in listed
  PROVE  LifeOf(d) = IF HasRow(d) THEN "listed" ELSE "deleted"
BY DEF LifeOf, Ownership, RowsListed

LEMMA ProvisioningLife ==
  ASSUME Ownership, NEW f \in Creators, pc[f] \in ProvisionSteps
  PROVE  LifeOf(target[f]) = "provisioning" /\ target[f] \in minted \ listed
<1>1. target[f] \in minted \ listed /\ Provisioning(target[f])
  BY DEF Ownership, FramesOwn, Frames, Provisioning
<1> QED
  BY <1>1 DEF LifeOf

-----------------------------------------------------------------------------
(* A creation has what the calls it has made created *)

ProvisionedAt(f) ==
  /\ pc[f] \in {"id", "createNetwork", "createContainer", "insert"} => user[target[f]]
  /\ pc[f] \in {"createContainer", "insert"} => network[target[f]]
  /\ pc[f] = "insert" => container[target[f]] # "none"

Provisioned == \A f \in Creators : ProvisionedAt(f)

\* Nobody else touches what a creation is working on.
LEMMA ProvisionedKept ==
  ASSUME TypeOK, Ownership, Provisioned, NEW f \in Frames, Alone(f),
         \A e \in Deployments : e # target[f] => SameHost(e),
         f \in Creators => ProvisionedAt(f)'
  PROVE  Provisioned'
<1> SUFFICES ASSUME NEW g \in Creators, g # f
             PROVE  ProvisionedAt(g)'
  BY DEF Provisioned
<1>1. g \in Frames /\ pc'[g] = pc[g] /\ target'[g] = target[g]
  BY DEF Alone, Frames
<1>2. CASE pc[g] \in ProvisionSteps
  <2>1. target[g] \in Deployments /\ target[g] # target[f]
    BY <1>1, <1>2 DEF Ownership, FramesOwn, OneProvisioner, TypeOK
  <2>2. SameHost(target[g])
    BY <2>1
  <2> QED
    BY <1>1, <2>2 DEF Provisioned, ProvisionedAt, SameHost
<1>3. CASE pc[g] \notin ProvisionSteps
  BY <1>1, <1>3 DEF ProvisionedAt, ProvisionSteps
<1> QED
  BY <1>2, <1>3

LEMMA StutterSimulates ==
  ASSUME \A e \in Deployments : SameLife(e) /\ SameHeld(e)
  PROVE  Simulated
<1> DEFINE L == [e \in Deployments |-> LifeOf(e)]
           H == [e \in Deployments |-> HeldOf(e)]
<1>1. L' = L /\ H' = H
  BY DEF SameLife, SameHeld
<1>2. /\ Contract!vars = <<L, H>>
      /\ (Contract!vars)' = <<L', H'>>
  BY DEF Contract!vars, LifeOf, HeldOf
<1> HIDE DEF L, H
<1> QED
  BY <1>1, <1>2 DEF Simulated

\* Steps on a listed deployment that write no row: at most an artifact goes.
LEMMA ListedStep ==
  ASSUME TypeOK, Ownership, Provisioned, NEW f \in Frames, Alone(f), NEW d, d = target[f],
         pc[f] \notin ProvisionSteps, pc'[f] \notin ProvisionSteps,
         UNCHANGED history, \A e \in Deployments : SameRow(e),
         \A e \in Deployments : e # d => SameHost(e),
         UNCHANGED host \/ (d \in listed /\ LetsGo(d))
  PROVE  Provisioned' /\ Simulated
<1>1. Provisioned'
  <2>1. ProvisionedAt(f)'
    BY DEF ProvisionedAt, ProvisionSteps
  <2> QED
    BY <2>1, ProvisionedKept
<1>2. \A e \in Deployments : SameLife(e)
  <2> SUFFICES ASSUME NEW e \in Deployments
               PROVE  SameLife(e)
    OBVIOUS
  <2>1. SameProvisioning(e)
    BY ProvisioningKept
  <2>2. SameIds(e)
    BY DEF SameIds, history
  <2> QED
    BY <2>1, <2>2, LifeKept
<1>3. CASE UNCHANGED host
  <2>1. \A e \in Deployments : SameHeld(e)
    BY <1>3, HeldKept DEF SameHost, host
  <2> QED
    BY <1>1, <1>2, <2>1, StutterSimulates
<1>4. CASE d \in listed /\ LetsGo(d)
  <2>1. d \in Deployments
    BY <1>4 DEF TypeOK
  <2>2. \A e \in Deployments \ {d} : SameHeld(e)
    BY HeldKept
  <2>3. LifeOf(d) \in {"listed", "deleted"}
    BY <1>4, ListedLife
  <2>4. ContractStep(d)
    BY <1>2, <1>4, <2>1, <2>3 DEF ContractStep, LetsGo
  <2> QED
    BY <1>1, <1>2, <2>1, <2>2, <2>4, OneStepSimulates
<1> QED
  BY <1>3, <1>4

\* The same, for the frames' own ways of moving.
LEMMA ListedMove ==
  ASSUME FramesTypeOK, NEW f \in Frames, NEW label \in Labels \ ProvisionSteps, NEW d, NEW logs,
         Enter(f, label, d) \/ Goto(f, label, logs) \/ Return(f) \/ BeginDelete(f, d)
  PROVE  Alone(f) /\ pc'[f] \notin ProvisionSteps
<1>1. Alone(f)
  BY MovesAlone
<1>2. pc'[f] \in {label, "idle", "stop", "dropRow"}
  BY DEF FramesTypeOK, Enter, Goto, Return, BeginDelete
<1> QED
  BY <1>1, <1>2 DEF ProvisionSteps

\* A step of a creation before its row exists: its deployment d takes the step.
LEMMA ProvisioningStep ==
  ASSUME TypeOK, Ownership, Provisioned, NEW f \in Creators, pc[f] \in ProvisionSteps,
         NEW d, d = target[f], Alone(f), UNCHANGED history, UNCHANGED row,
         \A e \in Deployments : e # d => SameHost(e),
         ProvisionedAt(f)',
         \/ /\ pc'[f] \in ProvisionSteps /\ target'[f] = d
            /\ \/ LetsGo(d)
               \/ \E a \in {"user", "network", "container"} \ HeldOf(d) :
                    HeldOf(d)' = HeldOf(d) \cup {a}
         \/ /\ pc'[f] = "idle" /\ target'[f] = None
            /\ HeldOf(d)' \in {HeldOf(d), HeldOf(d) \ {"user"}}
  PROVE  Provisioned' /\ Simulated
<1>1. Provisioned'
  BY ProvisionedKept DEF Frames
<1>2. d \in Deployments /\ d \in minted \ listed /\ LifeOf(d) = "provisioning"
  BY ProvisioningLife DEF TypeOK
<1>3. \A e \in Deployments : SameRow(e) /\ SameIds(e)
  BY DEF SameRow, SameIds, history, HasRow
<1>4. \A e \in Deployments \ {d} : SameHeld(e)
  BY HeldKept
<1>5. CASE pc'[f] \in ProvisionSteps /\ target'[f] = d
  <2>1. \A e \in Deployments : SameProvisioning(e)
    BY <1>5, ProvisionerStays
  <2>2. \A e \in Deployments : SameLife(e)
    BY <1>3, <2>1, LifeKept
  <2>3. pc'[f] # "idle"
    BY <1>5, StepSetsDisjoint
  <2>4. ContractStep(d)
    BY <1>2, <2>2, <2>3 DEF ContractStep, LetsGo
  <2> QED
    BY <1>1, <1>2, <1>4, <2>2, <2>4, OneStepSimulates
<1>6. CASE pc'[f] = "idle" /\ target'[f] = None
  <2>1. \A e \in Deployments \ {d} : SameProvisioning(e)
    BY <1>6, ProvisioningKept, ConstantsAssumption DEF Frames
  <2>2. \A e \in Deployments \ {d} : SameLife(e)
    BY <1>3, <2>1, LifeKept
  <2>3. ~Provisioning(d)'
    <3> SUFFICES ASSUME NEW g \in Creators, target'[g] = d, pc'[g] \in ProvisionSteps
                 PROVE  FALSE
      BY DEF Provisioning
    <3>1. g # f /\ g \in Frames /\ f \in Frames
      BY <1>6, StepSetsDisjoint DEF Frames
    <3>2. target[g] = target[f] /\ pc[g] \in ProvisionSteps
      BY <3>1 DEF Alone
    <3> QED
      BY <3>1, <3>2 DEF Ownership, OneProvisioner
  <2>4. LifeOf(d)' = "failed"
    <3>1. d \in minted' \ listed'
      BY <1>2 DEF history
    <3> QED
      BY <2>3, <3>1 DEF LifeOf
  <2>5. pc'[f] \notin ProvisionSteps
    BY <1>6, StepSetsDisjoint
  <2>6. ContractStep(d)
    BY <1>2, <2>4, <2>5 DEF ContractStep, Becomes
  <2> QED
    BY <1>1, <1>2, <1>4, <2>2, <2>6, OneStepSimulates
<1> QED
  BY <1>5, <1>6

-----------------------------------------------------------------------------
(* The steps of a creation *)

\* Begin: the new id's frame is the only one that works on it.
LEMMA CreateDeploymentSimulates ==
  ASSUME TypeOK, Ownership, Provisioned, NEW f \in Creators, CreateDeployment(f)
  PROVE  Provisioned' /\ Simulated
<1>1. f \in Frames /\ FramesTypeOK
  BY DEF Frames, TypeOK
<1>2. PICK d \in Deployments \ minted : minted' = minted \cup {d} /\ Enter(f, "useradd", d)
  BY DEF CreateDeployment
<1>3. pc[f] = "idle" /\ target[f] = None /\ pc'[f] = "useradd" /\ target'[f] = d
  BY <1>1, <1>2 DEF CreateDeployment, Enter, Ownership, FramesOwn, FramesTypeOK
<1>4. Alone(f)
  BY <1>1, <1>2, MovesAlone
<1>5. UNCHANGED <<container, network, user, row, listed>>
  BY DEF CreateDeployment, host
<1>6. \A e \in Deployments : SameHost(e) /\ SameRow(e) /\ SameHeld(e)
  BY <1>5, HeldKept DEF SameHost, SameRow, HasRow
<1>7. Provisioned'
  <2>1. ProvisionedAt(f)'
    BY <1>3 DEF ProvisionedAt
  <2> QED
    BY <1>1, <1>4, <1>6, <2>1, ProvisionedKept
<1>8. \A e \in Deployments \ {d} : SameLife(e)
  <2> SUFFICES ASSUME NEW e \in Deployments \ {d}
               PROVE  SameLife(e)
    OBVIOUS
  <2>1. SameProvisioning(e)
    BY <1>1, <1>3, <1>4, ProvisioningKept, StepSetsDisjoint
  <2>2. SameIds(e)
    BY <1>2, <1>5 DEF SameIds
  <2> QED
    BY <1>6, <2>1, <2>2, LifeKept
<1>9. Becomes(d, "fresh", "provisioning")
  <2>1. d \notin minted /\ d \notin listed
    BY <1>2 DEF Ownership, RowsListed
  <2>2. d \in minted' \ listed'
    BY <1>2, <1>5, <2>1
  <2>3. Provisioning(d)'
    BY <1>3 DEF Provisioning, ProvisionSteps
  <2> QED
    BY <2>1, <2>2, <2>3 DEF Becomes, LifeOf
<1> QED
  BY <1>6, <1>7, <1>8, <1>9, OneStepSimulates DEF ContractStep

\* Acquire, Release and Fail: the calls before the row is inserted.
LEMMA ProvisioningSimulates ==
  ASSUME TypeOK, Ownership, Provisioned, NEW f \in Creators,
         \/ CreateUnprivilegedUser(f) \/ GetUserInfo(f) \/ CreateNetwork(f)
         \/ CreateContainer(f) \/ PartialCleanupNetwork(f) \/ PartialCleanupUser(f)
  PROVE  Provisioned' /\ Simulated
<1> DEFINE Ends(d) ==
      \/ /\ pc'[f] \in ProvisionSteps /\ target'[f] = d
         /\ \/ LetsGo(d)
            \/ \E a \in {"user", "network", "container"} \ HeldOf(d) :
                 HeldOf(d)' = HeldOf(d) \cup {a}
      \/ /\ pc'[f] = "idle" /\ target'[f] = None
         /\ HeldOf(d)' \in {HeldOf(d), HeldOf(d) \ {"user"}}
<1>1. f \in Frames /\ FramesTypeOK /\ HostTypeOK
  BY DEF Frames, TypeOK
<1>2. pc[f] \in ProvisionSteps
  BY DEF CreateUnprivilegedUser, GetUserInfo, CreateNetwork, CreateContainer,
         PartialCleanupNetwork, PartialCleanupUser, ProvisionSteps
<1>3. PICK d \in Deployments : d = target[f]
  BY <1>1, <1>2 DEF Ownership, FramesOwn, TypeOK
<1>4. ProvisionedAt(f)
  BY DEF Provisioned
<1>5. UNCHANGED row /\ UNCHANGED history
  BY DEF CreateUnprivilegedUser, GetUserInfo, CreateNetwork, CreateContainer,
         PartialCleanupNetwork, PartialCleanupUser
<1>6. Alone(f)
  BY <1>1, MovesAlone
  DEF CreateUnprivilegedUser, GetUserInfo, CreateNetwork, CreateContainer,
      PartialCleanupNetwork, PartialCleanupUser
<1>7. \A e \in Deployments : e # d => SameHost(e)
  BY <1>1, <1>3, CallsElsewhere
  DEF CreateUnprivilegedUser, GetUserInfo, CreateNetwork, CreateContainer,
      PartialCleanupNetwork, PartialCleanupUser
<1>8. CASE CreateUnprivilegedUser(f)
  <2>1. PICK res \in {"ok", "500"} :
          UserAdd(d, res) /\ IF res = "ok" THEN Goto(f, "id", FALSE) ELSE Return(f)
    BY <1>3, <1>8 DEF CreateUnprivilegedUser
  <2>2. CASE res = "ok"
    <3>1. pc'[f] = "id" /\ target'[f] = d
      BY <1>1, <1>3, <2>1, <2>2 DEF FramesTypeOK, Goto
    <3>2. user'[d] /\ container' = container /\ network' = network
      BY <1>1, <1>3, <2>1, <2>2 DEF HostTypeOK, UserAdd, Rejects
    <3>3. ProvisionedAt(f)'
      BY <3>1, <3>2 DEF ProvisionedAt
    <3>4. HeldOf(d)' = HeldOf(d) \cup {"user"}
      BY <3>2 DEF HeldOf
    <3>5. Ends(d)
      BY <3>1, <3>4 DEF LetsGo, SameHeld, ProvisionSteps
    <3> QED
      BY <1>2, <1>3, <1>5, <1>6, <1>7, <3>3, <3>5, ProvisioningStep
  <2>3. CASE res # "ok"
    <3>1. pc'[f] = "idle" /\ target'[f] = None
      BY <1>1, <2>1, <2>3 DEF FramesTypeOK, Return, Enter
    <3>2. SameHost(d)
      BY <2>1, <2>3 DEF UserAdd, Rejects, SameHost, host
    <3>3. ProvisionedAt(f)'
      BY <3>1 DEF ProvisionedAt
    <3>4. Ends(d)
      BY <3>1, <3>2, HeldKept DEF SameHeld
    <3> QED
      BY <1>2, <1>3, <1>5, <1>6, <1>7, <3>3, <3>4, ProvisioningStep
  <2> QED
    BY <2>2, <2>3
<1>9. CASE GetUserInfo(f)
  <2>1. pc'[f] \in {"createNetwork", "undoUser"} /\ target'[f] = d /\ pc[f] = "id"
    BY <1>1, <1>3, <1>9 DEF GetUserInfo, FramesTypeOK, Goto
  <2>2. SameHost(d) /\ user' = user
    BY <1>9 DEF GetUserInfo, SameHost, host
  <2>3. ProvisionedAt(f)'
    BY <1>3, <1>4, <2>1, <2>2 DEF ProvisionedAt
  <2>4. Ends(d)
    BY <2>1, <2>2, HeldKept DEF LetsGo, ProvisionSteps
  <2> QED
    BY <1>2, <1>3, <1>5, <1>6, <1>7, <2>3, <2>4, ProvisioningStep
<1>10. CASE CreateNetwork(f)
  <2>1. PICK res \in {"ok", "500"} :
          /\ CreateIsolatedNetwork(d, res)
          /\ Goto(f, IF res = "ok" THEN "createContainer" ELSE "undoUser", FALSE)
    BY <1>3, <1>10 DEF CreateNetwork
  <2>2. target'[f] = d /\ pc[f] = "createNetwork"
        /\ pc'[f] = IF res = "ok" THEN "createContainer" ELSE "undoUser"
    BY <1>1, <1>3, <1>10, <2>1 DEF CreateNetwork, FramesTypeOK, Goto
  <2>3. user' = user /\ container' = container /\ IF res = "ok" THEN network'[d] ELSE network' = network
    BY <1>1, <1>3, <2>1 DEF HostTypeOK, CreateIsolatedNetwork, Rejects, host
  <2>4. ProvisionedAt(f)'
    BY <1>3, <1>4, <2>2, <2>3 DEF ProvisionedAt
  <2>5. HeldOf(d)' \in {HeldOf(d), HeldOf(d) \cup {"network"}}
    BY <2>3 DEF HeldOf
  <2>6. Ends(d)
    BY <2>2, <2>5 DEF LetsGo, SameHeld, ProvisionSteps
  <2> QED
    BY <1>2, <1>3, <1>5, <1>6, <1>7, <2>4, <2>6, ProvisioningStep
<1>11. CASE CreateContainer(f)
  <2>1. PICK res \in {"ok", "500"} :
          /\ CreateSecureContainer(d, res)
          /\ Goto(f, IF res = "ok" THEN "insert" ELSE "undoNetwork", FALSE)
    BY <1>3, <1>11 DEF CreateContainer
  <2>2. target'[f] = d /\ pc[f] = "createContainer"
        /\ pc'[f] = IF res = "ok" THEN "insert" ELSE "undoNetwork"
    BY <1>1, <1>3, <1>11, <2>1 DEF CreateContainer, FramesTypeOK, Goto
  <2>3. /\ user' = user /\ network' = network
        /\ IF res = "ok" THEN container'[d] = "created" ELSE container' = container
    BY <1>1, <1>3, <2>1 DEF HostTypeOK, CreateSecureContainer, SetContainer, Rejects, host
  <2>4. ProvisionedAt(f)'
    BY <1>3, <1>4, <2>2, <2>3 DEF ProvisionedAt
  <2>5. HeldOf(d)' \in {HeldOf(d), HeldOf(d) \cup {"container"}}
    BY <2>3 DEF HeldOf
  <2>6. Ends(d)
    BY <2>2, <2>5 DEF LetsGo, SameHeld, ProvisionSteps
  <2> QED
    BY <1>2, <1>3, <1>5, <1>6, <1>7, <2>4, <2>6, ProvisioningStep
<1>12. CASE PartialCleanupNetwork(f)
  <2>1. PICK res \in {"ok", "warned", "500"} :
          /\ CleanupNetwork(d, res)
          /\ IF res = "500" THEN Return(f) ELSE Goto(f, "undoUser", res = "warned")
    BY <1>3, <1>12 DEF PartialCleanupNetwork
  <2>2. LetsGo(d) /\ (res = "500" => SameHeld(d))
    <3>1. res = "500" => SameHost(d)
      BY <2>1 DEF CleanupNetwork, Rejects, SameHost, host
    <3> QED
      BY <1>1, <2>1, <3>1, CallsLetGo, HeldKept
  <2>3. IF res = "500" THEN pc'[f] = "idle" /\ target'[f] = None
                       ELSE pc'[f] = "undoUser" /\ target'[f] = d
    BY <1>1, <1>3, <2>1 DEF FramesTypeOK, Return, Enter, Goto
  <2>4. ProvisionedAt(f)'
    BY <2>3 DEF ProvisionedAt
  <2>5. Ends(d)
    BY <2>2, <2>3 DEF SameHeld, ProvisionSteps
  <2> QED
    BY <1>2, <1>3, <1>5, <1>6, <1>7, <2>4, <2>5, ProvisioningStep
<1>13. CASE PartialCleanupUser(f)
  <2>1. PICK res \in {"ok", "500"} : DeleteUser(d, res)
    BY <1>3, <1>13 DEF PartialCleanupUser
  <2>2. pc'[f] = "idle" /\ target'[f] = None
    BY <1>1, <1>13 DEF PartialCleanupUser, FramesTypeOK, Return, Enter
  <2>3. /\ container' = container /\ network' = network
        /\ (user'[d] <=> user[d]) \/ ~user'[d]
    BY <1>1, <2>1 DEF HostTypeOK, DeleteUser, Rejects, host
  <2>4. HeldOf(d)' = HeldOf(d) \/ HeldOf(d)' = HeldOf(d) \ {"user"}
    BY <2>3 DEF HeldOf
  <2>5. ProvisionedAt(f)'
    BY <2>2 DEF ProvisionedAt
  <2>6. Ends(d)
    BY <2>2, <2>4
  <2> QED
    BY <1>2, <1>3, <1>5, <1>6, <1>7, <2>5, <2>6, ProvisioningStep
<1> QED
  BY <1>8, <1>9, <1>10, <1>11, <1>12, <1>13

\* Publish when the row is inserted, Fail when the insert fails.
LEMMA InsertSimulates ==
  ASSUME TypeOK, Ownership, Provisioned, NEW f \in Creators, InsertDeployment(f)
  PROVE  Provisioned' /\ Simulated
<1>1. f \in Frames /\ FramesTypeOK /\ pc[f] = "insert"
  BY DEF Frames, TypeOK, InsertDeployment
<1>2. PICK d \in Deployments : d = target[f]
  BY <1>1 DEF Ownership, FramesOwn, TypeOK, ProvisionSteps
<1>3. d \in minted \ listed /\ LifeOf(d) = "provisioning"
  BY <1>1, <1>2, ProvisioningLife DEF ProvisionSteps
<1>4. HeldOf(d) = {"user", "network", "container"}
  BY <1>1, <1>2 DEF Provisioned, ProvisionedAt, HeldOf
<1>5. Alone(f) /\ UNCHANGED host /\ UNCHANGED minted
  BY <1>1, MovesAlone DEF InsertDeployment
<1>6. \A e \in Deployments : SameHost(e) /\ SameHeld(e)
  BY <1>5, HeldKept DEF SameHost, host
<1>7. \/ pc'[f] = "idle" /\ target'[f] = None
      \/ pc'[f] = "start" /\ target'[f] = d
  BY <1>1, <1>2 DEF InsertDeployment, FramesTypeOK, Return, Enter, Goto
<1>8. Provisioned'
  <2>1. ProvisionedAt(f)'
    BY <1>7 DEF ProvisionedAt
  <2> QED
    BY <1>1, <1>5, <1>6, <2>1, ProvisionedKept
<1>9. ~Provisioning(d)'
  <2> SUFFICES ASSUME NEW g \in Creators, target'[g] = d, pc'[g] \in ProvisionSteps
               PROVE  FALSE
    BY DEF Provisioning
  <2>1. g # f /\ g \in Frames
    BY <1>7, StepSetsDisjoint DEF Frames, ProvisionSteps
  <2>2. target[g] = target[f] /\ pc[g] \in ProvisionSteps
    BY <1>2, <1>5, <2>1 DEF Alone
  <2> QED
    BY <1>1, <2>1, <2>2 DEF Ownership, OneProvisioner
<1>10. \/ listed' = listed \cup {d} /\ \E r \in Rows : row' = [row EXCEPT ![d] = r]
       \/ UNCHANGED <<row, listed>>
  <2>1. \A body \in Bodies : [status |-> "stopped", timers |-> body.timers, due |-> {}] \in Rows
    BY ConstantsAssumption DEF Rows
  <2> QED
    BY <1>2, <2>1 DEF InsertDeployment
<1>11. \A e \in Deployments \ {d} : SameLife(e)
  <2> SUFFICES ASSUME NEW e \in Deployments \ {d}
               PROVE  SameLife(e)
    OBVIOUS
  <2>1. SameProvisioning(e)
    BY <1>1, <1>2, <1>5, <1>7, ProvisioningKept, ConstantsAssumption
  <2>2. SameIds(e) /\ SameRow(e)
    BY <1>5, <1>10 DEF SameIds, SameRow, HasRow, TypeOK, TableTypeOK
  <2> QED
    BY <2>1, <2>2, LifeKept
<1>12. CASE listed' = listed \cup {d} /\ \E r \in Rows : row' = [row EXCEPT ![d] = r]
  <2>1. HasRow(d)'
    BY <1>12, ConstantsAssumption DEF HasRow, TypeOK, TableTypeOK
  <2>2. d \in minted' /\ d \in listed'
    BY <1>3, <1>5, <1>12
  <2>3. LifeOf(d)' = "listed"
    BY <2>1, <2>2 DEF LifeOf
  <2>4. ContractStep(d)
    BY <1>3, <1>4, <1>6, <2>3 DEF ContractStep, Becomes
  <2> QED
    BY <1>6, <1>8, <1>11, <2>4, OneStepSimulates
<1>13. CASE UNCHANGED <<row, listed>>
  <2>1. d \in minted' \ listed'
    BY <1>3, <1>5, <1>13
  <2>2. LifeOf(d)' = "failed"
    BY <1>9, <2>1 DEF LifeOf
  <2>3. ContractStep(d)
    BY <1>3, <1>6, <2>2 DEF ContractStep, Becomes, SameHeld
  <2> QED
    BY <1>6, <1>8, <1>11, <2>3, OneStepSimulates
<1> QED
  BY <1>10, <1>12, <1>13

-----------------------------------------------------------------------------
(* The other steps *)

\* Release, or nothing: the calls of cleanups, starts, stops and inspections.
LEMMA CallsSimulate ==
  ASSUME TypeOK, Ownership, Provisioned, NEW f \in Frames,
         \/ f \in Creators /\ StartCreated(f)
         \/ Inspect(f) \/ RestartInspected(f) \/ ConfirmReady(f) \/ PauseStop(f)
         \/ CleanupStop(f) \/ CleanupRemove(f)
         \/ CleanupDeploymentNetwork(f) \/ CleanupUser(f)
  PROVE  Provisioned' /\ Simulated
<1>1. FramesTypeOK /\ HostTypeOK
  BY DEF TypeOK
<1>2. pc[f] \in CleanupSteps \cup OtherSteps
  BY DEF StartCreated, Inspect, RestartInspected, ConfirmReady, PauseStop, CleanupStop,
         CleanupRemove, CleanupDeploymentNetwork, CleanupUser, CleanupSteps, OtherSteps
<1>3. PICK d \in listed : d = target[f]
  BY <1>2 DEF Ownership, FramesOwn
<1>4. d \in Deployments /\ pc[f] \notin ProvisionSteps
  BY <1>2, StepSetsDisjoint DEF TypeOK
<1>5. UNCHANGED history /\ \A e \in Deployments : SameRow(e)
  BY DEF StartCreated, Inspect, RestartInspected, ConfirmReady, PauseStop, CleanupStop,
         CleanupRemove, CleanupDeploymentNetwork, CleanupUser, SameRow, HasRow
<1>6. Alone(f) /\ pc'[f] \notin ProvisionSteps
  <2>1. \/ Return(f) \/ \E e : BeginDelete(f, e)
        \/ \E label \in Labels \ ProvisionSteps : \E logs : Goto(f, label, logs)
    BY DEF StartCreated, Inspect, RestartInspected, ConfirmReady, PauseStop, CleanupStop,
           CleanupRemove, CleanupDeploymentNetwork, CleanupUser, Labels, ProvisionSteps,
           CleanupSteps, OtherSteps
  <2>2. "idle" \in Labels \ ProvisionSteps
    BY StepSetsDisjoint
  <2> QED
    BY <1>1, <2>1, <2>2, ListedMove
<1>7. \E res, graceful :
        \/ DeleteUser(d, res) \/ CleanupNetwork(d, res)
        \/ StartContainer(d, res) \/ StopContainer(d, graceful, res)
        \/ RemoveContainer(d, res) \/ InspectContainer(d, res) \/ UNCHANGED host
  BY <1>3 DEF StartCreated, Inspect, RestartInspected, ConfirmReady, PauseStop, CleanupStop,
              CleanupRemove, CleanupDeploymentNetwork, CleanupUser
<1>8. LetsGo(d) /\ \A e \in Deployments : e # d => SameHost(e)
  BY <1>1, <1>4, <1>7, CallsLetGo, CallsElsewhere
<1> QED
  BY <1>3, <1>4, <1>5, <1>6, <1>8, ListedStep

\* The frame moves and the host stays, and no row comes or goes.
LEMMA FrameStepSimulates ==
  ASSUME TypeOK, Ownership, Provisioned, NEW f \in Frames, Alone(f),
         pc[f] \notin ProvisionSteps, pc'[f] \notin ProvisionSteps,
         UNCHANGED host, UNCHANGED history, \A e \in Deployments : SameRow(e)
  PROVE  Provisioned' /\ Simulated
<1>1. \A e \in Deployments : SameHost(e)
  BY DEF SameHost, host
<1> QED
  BY <1>1, ListedStep

\* A pass goes to its next deployment or ends.
LEMMA LoopMoves ==
  ASSUME FramesTypeOK, NEW p \in Frames, NEW todo, NEW fails, NEW table,
         DeleteLoop(p, todo, fails, table) \/ PauseLoop(p, todo, fails) \/ PauseThrows(p)
  PROVE  Alone(p) /\ pc'[p] \notin ProvisionSteps
<1>1. Return(p) \/ \E d : BeginDelete(p, d) \/ Enter(p, "pauseStop", d)
  BY DEF DeleteLoop, PauseLoop, PauseThrows
<1>2. {"idle", "pauseStop"} \subseteq Labels \ ProvisionSteps
  BY DEF Labels, OtherSteps, ProvisionSteps
<1> QED
  BY <1>1, <1>2, ListedMove

\* UPDATE makes and drops no row.
LEMMA SetStatusKeepsRows ==
  ASSUME TypeOK, NEW d, NEW s \in {"running", "stopped"}, SetStatus(d, s), NEW e \in Deployments
  PROVE  SameRow(e)
<1>1. CASE e = d /\ row[e] # None
  <2>1. row[e] \in Rows /\ row'[e] = [row[e] EXCEPT !.status = s]
    BY <1>1 DEF SetStatus, TypeOK, TableTypeOK
  <2>2. row'[e] \in Rows
    BY <2>1 DEF Rows
  <2> QED
    BY <1>1, <2>2, ConstantsAssumption DEF SameRow, HasRow
<1>2. CASE ~(e = d /\ row[e] # None)
  BY <1>2 DEF SetStatus, SameRow, HasRow, TypeOK, TableTypeOK
<1> QED
  BY <1>1, <1>2

LEMMA BeginningsSimulate ==
  ASSUME TypeOK, Ownership, Provisioned, NEW f \in Frames,
         \/ DeleteRequest(f) \/ EnsureContainerReady(f)
         \/ DeleteSchedule(f) \/ PauseSchedule(f)
         \/ MarkRunning(f) \/ PauseWrite(f)
  PROVE  Provisioned' /\ Simulated
<1>1. FramesTypeOK
  BY DEF TypeOK
<1>2. pc[f] \notin ProvisionSteps
  BY DEF DeleteRequest, EnsureContainerReady, DeleteSchedule, PauseSchedule,
         MarkRunning, PauseWrite, ProvisionSteps
<1>3. UNCHANGED host /\ UNCHANGED history
  BY DEF DeleteRequest, EnsureContainerReady, DeleteSchedule, PauseSchedule,
         MarkRunning, PauseWrite
<1>4. \A e \in Deployments : SameRow(e)
  <2>1. UNCHANGED row => \A e \in Deployments : SameRow(e)
    BY DEF SameRow, HasRow
  <2> QED
    BY <2>1, SetStatusKeepsRows
    DEF DeleteRequest, EnsureContainerReady, DeleteSchedule, PauseSchedule,
        MarkRunning, PauseWrite
<1>5. Alone(f) /\ pc'[f] \notin ProvisionSteps
  <2>1. {"idle", "inspect"} \subseteq Labels \ ProvisionSteps
    BY DEF Labels, OtherSteps, ProvisionSteps
  <2>2. CASE DeleteRequest(f) \/ EnsureContainerReady(f) \/ MarkRunning(f)
    <3>1. Return(f) \/ \E d : BeginDelete(f, d) \/ Enter(f, "inspect", d)
      BY <2>2 DEF DeleteRequest, EnsureContainerReady, MarkRunning
    <3> QED
      BY <1>1, <2>1, <3>1, ListedMove
  <2>3. CASE DeleteSchedule(f) \/ PauseSchedule(f) \/ PauseWrite(f)
    BY <1>1, <2>3, LoopMoves DEF DeleteSchedule, PauseSchedule, PauseWrite
  <2> QED
    BY <2>2, <2>3
<1> QED
  BY <1>2, <1>3, <1>4, <1>5, FrameStepSimulates

\* Delete, when there still is a row.
LEMMA DropRowSimulates ==
  ASSUME TypeOK, Ownership, Provisioned, NEW f \in Frames, DropRow(f)
  PROVE  Provisioned' /\ Simulated
<1>1. FramesTypeOK /\ pc[f] = "dropRow" /\ pc[f] \in CleanupSteps /\ pc[f] \notin ProvisionSteps
  BY DEF TypeOK, DropRow, CleanupSteps, ProvisionSteps
<1>2. PICK d \in listed : d = target[f]
  BY <1>1 DEF Ownership, FramesOwn
<1>3. d \in Deployments
  BY DEF TypeOK
<1>4. Alone(f) /\ pc'[f] \notin ProvisionSteps
  <2>1. "idle" \in Labels \ ProvisionSteps
    BY DEF Labels, ProvisionSteps
  <2>2. Return(f) \/ DeleteLoop(f, queue[f], deletionFails', row')
    BY DEF DropRow
  <2>3. CASE Return(f)
    BY <1>1, <2>1, <2>3, ListedMove
  <2>4. CASE DeleteLoop(f, queue[f], deletionFails', row')
    <3>1. Return(f) \/ \E e : BeginDelete(f, e)
      BY <2>4 DEF DeleteLoop
    <3> QED
      BY <1>1, <2>1, <3>1, ListedMove
  <2> QED
    BY <2>2, <2>3, <2>4
<1>5. UNCHANGED host /\ UNCHANGED history
  BY DEF DropRow
<1>6. row' = [row EXCEPT ![d] = None] \/ UNCHANGED row
  BY <1>2 DEF DropRow
<1>7. CASE UNCHANGED row
  <2>1. \A e \in Deployments : SameRow(e)
    BY <1>7 DEF SameRow, HasRow
  <2> QED
    BY <1>1, <1>4, <1>5, <2>1, FrameStepSimulates
<1>8. CASE row' = [row EXCEPT ![d] = None]
  <2>1. \A e \in Deployments : SameHost(e) /\ SameHeld(e)
    BY <1>5, HeldKept DEF SameHost, host
  <2>2. Provisioned'
    <3>1. ProvisionedAt(f)'
      BY <1>4 DEF ProvisionedAt, ProvisionSteps
    <3> QED
      BY <1>4, <2>1, <3>1, ProvisionedKept
  <2>3. \A e \in Deployments : SameProvisioning(e) /\ SameIds(e)
    <3>1. \A e \in Deployments : SameIds(e)
      BY <1>5 DEF SameIds, history
    <3> QED
      BY <1>1, <1>4, <3>1, ProvisioningKept
  <2>4. \A e \in Deployments \ {d} : SameLife(e)
    <3>1. \A e \in Deployments \ {d} : SameRow(e)
      BY <1>8 DEF SameRow, HasRow, TypeOK, TableTypeOK
    <3> QED
      BY <2>3, <3>1, LifeKept
  <2>5. LifeOf(d) = IF HasRow(d) THEN "listed" ELSE "deleted"
    BY ListedLife
  <2>6. LifeOf(d)' = "deleted"
    <3>1. ~HasRow(d)'
      BY <1>3, <1>8 DEF HasRow, TypeOK, TableTypeOK
    <3>2. d \in minted' /\ d \in listed'
      BY <1>5 DEF history, Ownership, RowsListed
    <3> QED
      BY <3>1, <3>2 DEF LifeOf
  <2>7. ContractStep(d)
    BY <1>3, <2>1, <2>5, <2>6 DEF ContractStep, Becomes, SameLife
  <2> QED
    BY <1>3, <2>1, <2>2, <2>4, <2>7, OneStepSimulates
<1> QED
  BY <1>6, <1>7, <1>8

\* Crash: what was being provisioned has failed.
LEMMA RestartSimulates ==
  ASSUME TypeOK, Ownership, Restart
  PROVE  Provisioned' /\ Simulated
<1>1. \A f \in Frames : pc'[f] = "idle"
  BY DEF Restart, FreshMemory
<1>2. UNCHANGED <<container, network, user, row, minted, listed>>
  BY DEF Restart, host, history
<1>3. Provisioned'
  BY <1>1 DEF Provisioned, ProvisionedAt, Frames
<1>4. \A e \in Deployments : SameHeld(e)
  BY <1>2, HeldKept DEF SameHost
<1>5. \A e \in Deployments :
        LifeOf(e)' = IF LifeOf(e) = "provisioning" THEN "failed" ELSE LifeOf(e)
  <2> SUFFICES ASSUME NEW e \in Deployments
               PROVE  LifeOf(e)' = IF LifeOf(e) = "provisioning" THEN "failed" ELSE LifeOf(e)
    OBVIOUS
  <2>1. ~Provisioning(e)'
    BY <1>1, StepSetsDisjoint DEF Provisioning, Frames
  <2>2. (HasRow(e)' <=> HasRow(e)) /\ minted' = minted /\ listed' = listed
    BY <1>2 DEF HasRow
  <2>3. LifeOf(e)' = CASE e \notin minted -> "fresh"
                       [] e \in minted \ listed -> "failed"
                       [] e \in listed -> IF HasRow(e) THEN "listed" ELSE "deleted"
    BY <2>1, <2>2 DEF LifeOf
  <2>4. listed \subseteq minted
    BY DEF Ownership, RowsListed
  <2> QED
    BY <2>3, <2>4 DEF LifeOf
<1> DEFINE L == [e \in Deployments |-> LifeOf(e)]
           H == [e \in Deployments |-> HeldOf(e)]
<1>6. H' = H /\ L' = [e \in Deployments |-> IF L[e] = "provisioning" THEN "failed" ELSE L[e]]
  BY <1>4, <1>5 DEF SameHeld
<1>7. Contract!Crash <=>
        H' = H /\ L' = [e \in Deployments |-> IF L[e] = "provisioning" THEN "failed" ELSE L[e]]
  BY DEF Contract!Crash, LifeOf, HeldOf
<1> HIDE DEF L, H
<1>8. Contract!Crash
  BY <1>6, <1>7
<1> QED
  BY <1>3, <1>8 DEF Simulated, Contract!Next

\* Signals, clock ticks, touched rows and containers that end by themselves.
LEMMA QuietSteps ==
  ASSUME TypeOK, Ownership, Provisioned,
         \/ \E s \in {"graceful", "forced"} : GracefulShutdown(s)
         \/ \E d \in Deployments : UpdateLastInteraction(d) \/ TimeoutElapses(d)
         \/ \E d \in Deployments :
              ContainerExits(d) /\ UNCHANGED <<row, frames, signal, schedules, history>>
         \/ UNCHANGED vars
  PROVE  Provisioned' /\ Simulated
<1>1. \A f \in Creators : pc'[f] = pc[f] /\ target'[f] = target[f]
  BY ConstantsAssumption
  DEF GracefulShutdown, UpdateLastInteraction, TimeoutElapses, frames, vars, Sweeps, Frames
<1>2. UNCHANGED <<network, user, minted, listed>>
  BY DEF GracefulShutdown, UpdateLastInteraction, TimeoutElapses, ContainerExits,
         SetContainer, host, history, vars
<1>3. \A e \in Deployments : container'[e] = "none" <=> container[e] = "none"
  BY DEF GracefulShutdown, UpdateLastInteraction, TimeoutElapses, ContainerExits,
         SetContainer, host, vars, TypeOK, HostTypeOK
<1>4. \A e \in Deployments : SameRow(e)
  <2>1. CASE UNCHANGED row
    BY <2>1 DEF SameRow, HasRow
  <2>2. ASSUME NEW d \in Deployments, UpdateLastInteraction(d) \/ TimeoutElapses(d)
        PROVE  \A e \in Deployments : SameRow(e)
    <3>1. row[d] \in Rows /\ \E due \in SUBSET Timers : row' = [row EXCEPT ![d].due = due]
      <4>1. row[d] \in Rows
        BY <2>2 DEF UpdateLastInteraction, TimeoutElapses, HasRow, TypeOK, TableTypeOK
      <4>2. CASE UpdateLastInteraction(d)
        BY <4>1, <4>2 DEF UpdateLastInteraction
      <4>3. CASE TimeoutElapses(d)
        <5>1. PICK t \in row[d].timers : row' = [row EXCEPT ![d].due = @ \cup {t}]
          BY <4>3 DEF TimeoutElapses
        <5>2. row[d].due \cup {t} \in SUBSET Timers
          BY <4>1 DEF Rows
        <5> QED
          BY <4>1, <5>1, <5>2
      <4> QED
        BY <2>2, <4>1, <4>2, <4>3
    <3>2. row'[d] \in Rows /\ row'[d] # None /\ row[d] # None
      BY <3>1, ConstantsAssumption DEF Rows, TypeOK, TableTypeOK
    <3>3. \A e \in Deployments \ {d} : row'[e] = row[e]
      BY <3>1 DEF TypeOK, TableTypeOK
    <3> QED
      BY <3>2, <3>3 DEF SameRow, HasRow
  <2> QED
    BY <2>1, <2>2 DEF GracefulShutdown, vars
<1>5. Provisioned'
  <2> SUFFICES ASSUME NEW f \in Creators
               PROVE  ProvisionedAt(f)'
    BY DEF Provisioned
  <2>1. pc[f] = "insert" => target[f] \in Deployments
    BY DEF Ownership, FramesOwn, Frames, ProvisionSteps, TypeOK
  <2> QED
    BY <1>1, <1>2, <1>3, <2>1 DEF Provisioned, ProvisionedAt
<1>6. \A e \in Deployments : SameLife(e)
  <2>1. \A e \in Deployments : SameProvisioning(e) /\ SameIds(e)
    BY <1>1, <1>2 DEF SameProvisioning, Provisioning, SameIds
  <2> QED
    BY <1>4, <2>1, LifeKept
<1>7. \A e \in Deployments : SameHeld(e)
  BY <1>2, <1>3 DEF SameHeld, HeldOf
<1> QED
  BY <1>5, <1>6, <1>7, StutterSimulates

-----------------------------------------------------------------------------
(* The refinement *)

LEMMA ContractStepLemma ==
  TypeOK /\ Ownership /\ Provisioned /\ [Next]_vars => Provisioned' /\ Simulated
<1> SUFFICES ASSUME TypeOK, Ownership, Provisioned, [Next]_vars
             PROVE  Provisioned' /\ Simulated
  OBVIOUS
<1> DEFINE Goal == Provisioned' /\ Simulated
<1>1. ASSUME NEW f \in Creators, CreateDeployment(f) \/ CreatorStep(f) PROVE Goal
  <2>1. f \in Frames
    BY DEF Frames
  <2> QED
    BY <1>1, <2>1, CreateDeploymentSimulates, ProvisioningSimulates, InsertSimulates,
       CallsSimulate, BeginningsSimulate DEF CreatorStep
<1>2. ASSUME NEW f \in Deleters \cup Connectors,
             DeleteRequest(f) \/ EnsureContainerReady(f) \/ ConnectorStep(f)
      PROVE  Goal
  <2>1. f \in Frames
    BY DEF Frames
  <2> QED
    BY <1>2, <2>1, CallsSimulate, BeginningsSimulate DEF ConnectorStep
<1>3. ASSUME NEW f \in DeletePasses \cup PausePasses,
             DeleteSchedule(f) \/ PauseSchedule(f) \/ PausePassStep(f)
      PROVE  Goal
  <2>1. f \in Frames
    BY DEF Frames
  <2> QED
    BY <1>3, <2>1, CallsSimulate, BeginningsSimulate DEF PausePassStep
<1>4. ASSUME NEW f \in Frames, CleanupStep(f) PROVE Goal
  BY <1>4, CallsSimulate, DropRowSimulates DEF CleanupStep
<1>5. CASE Exit \/ Crash
  BY <1>5, RestartSimulates DEF Exit, Crash
<1> QED
  BY <1>1, <1>2, <1>3, <1>4, <1>5, QuietSteps DEF Next

LEMMA InitContract == Init => Provisioned /\ Contract!Init
<1> SUFFICES ASSUME Init
             PROVE  Provisioned /\ Contract!Init
  OBVIOUS
<1>1. Provisioned
  BY DEF Init, FreshMemory, Provisioned, ProvisionedAt, Frames
<1>2. \A d \in Deployments : LifeOf(d) = "fresh" /\ HeldOf(d) = {}
  BY DEF Init, HostInit, LifeOf, HeldOf
<1>3. Contract!Init <=> /\ [d \in Deployments |-> LifeOf(d)] = [d \in Deployments |-> "fresh"]
                       /\ [d \in Deployments |-> HeldOf(d)] = [d \in Deployments |-> {}]
  BY DEF Contract!Init, LifeOf, HeldOf
<1> QED
  BY <1>1, <1>2, <1>3

\* The service implements the contract, whatever calls fail, requests overlap
\* and signals or crashes come: it publishes a deployment only when all its
\* artifacts exist, acquires none afterwards, and never touches what a failed
\* creation left.
THEOREM KeepsContract == Spec => ImplementsContract
<1>1. Init => Provisioned /\ Contract!Init
  BY InitContract
<1>2. TypeOK /\ Ownership /\ Provisioned /\ [Next]_vars
        => Provisioned' /\ [Contract!Next]_(Contract!vars)
  BY ContractStepLemma DEF Simulated
<1> QED
  BY <1>1, <1>2, OwnershipInvariant, PTL DEF Spec, ImplementsContract, Contract!Spec

=============================================================================
