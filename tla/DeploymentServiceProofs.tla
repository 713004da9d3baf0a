----------------------- MODULE DeploymentServiceProofs ------------------------
(***************************************************************************)
(* Theorems about DeploymentService, for any number of deployments and     *)
(* frames, and for any set of faults unless a theorem says otherwise.      *)
(***************************************************************************)
EXTENDS DeploymentService, TLAPS

-----------------------------------------------------------------------------
(* Typing *)

\* Whatever a call answers, the host's tables keep their types.
LEMMA HostTyping ==
  ASSUME HostTypeOK, NEW d, NEW res, NEW graceful,
         \/ UserAdd(d, res) \/ DeleteUser(d, res)
         \/ CreateIsolatedNetwork(d, res) \/ CleanupNetwork(d, res)
         \/ CreateSecureContainer(d, res) \/ StartContainer(d, res)
         \/ StopContainer(d, graceful, res) \/ RemoveContainer(d, res)
         \/ InspectContainer(d, res) \/ ContainerExits(d) \/ UNCHANGED host
  PROVE  HostTypeOK'
BY DEF HostTypeOK, ContainerStates, host, UserAdd, DeleteUser,
       CreateIsolatedNetwork, CleanupNetwork, CreateSecureContainer,
       StartContainer, StopContainer, RemoveContainer, InspectContainer,
       ContainerExits, Rejects, SetContainer

\* A frame moved to a label keeps the frames' types.
LEMMA EnterTyping ==
  ASSUME FramesTypeOK, NEW f, NEW label \in Labels, NEW d \in Deployments \cup {None},
         label # "idle" => d \in Deployments, Enter(f, label, d) \/ Return(f)
  PROVE  FramesTypeOK'
BY DEF FramesTypeOK, Enter, Return, Labels

LEMMA BeginDeleteTyping ==
  ASSUME FramesTypeOK, NEW f, NEW d \in Deployments, BeginDelete(f, d)
  PROVE  FramesTypeOK'
BY DEF FramesTypeOK, BeginDelete, Enter, Labels, CleanupSteps

\* The table holds rows, whatever status is written to it.
LEMMA RowTyping ==
  ASSUME TableTypeOK, NEW d, NEW s \in {"running", "stopped"}, SetStatus(d, s)
  PROVE  TableTypeOK'
BY DEF TableTypeOK, SetStatus, Rows

\* The loops of the cron jobs move their own frame, and leave the schedules typed.
LEMMA DeleteLoopTyping ==
  ASSUME FramesTypeOK, SchedulesTypeOK, NEW p, NEW todo \in SUBSET Deployments,
         NEW fails, NEW table,
         DeleteLoop(p, todo, fails, table), deletionFails' \subseteq Deployments,
         UNCHANGED <<pauseScheduleLocked, pauseFails>>
  PROVE  FramesTypeOK' /\ SchedulesTypeOK'
<1>1. (\E d \in Deployments : BeginDelete(p, d)) \/ Return(p)
  BY DEF DeleteLoop
<1>2. FramesTypeOK'
  BY <1>1, BeginDeleteTyping, EnterTyping DEF Labels
<1>3. SchedulesTypeOK'
  BY DEF DeleteLoop, SchedulesTypeOK
<1> QED
  BY <1>2, <1>3

LEMMA PauseLoopTyping ==
  ASSUME FramesTypeOK, SchedulesTypeOK, NEW p, NEW todo \in SUBSET Deployments,
         NEW fails,
         PauseLoop(p, todo, fails) \/ PauseThrows(p), pauseFails' \subseteq Deployments,
         UNCHANGED <<deleteScheduleLocked, deletionFails>>
  PROVE  FramesTypeOK' /\ SchedulesTypeOK'
<1>1. (\E d \in Deployments : Enter(p, "pauseStop", d)) \/ Return(p)
  BY DEF PauseLoop, PauseThrows
<1>2. FramesTypeOK'
  BY <1>1, EnterTyping DEF Labels, OtherSteps
<1>3. SchedulesTypeOK'
  BY DEF PauseLoop, PauseThrows, SchedulesTypeOK
<1> QED
  BY <1>2, <1>3

LEMMA TypeStep == TypeOK /\ [Next]_vars => TypeOK'
<1> SUFFICES ASSUME TypeOK, [Next]_vars PROVE TypeOK'
  OBVIOUS
<1> USE DEF TypeOK
<1>1. ASSUME NEW f \in Creators, CreateDeployment(f) PROVE TypeOK'
  <2>1. FramesTypeOK'
    BY <1>1 DEF CreateDeployment, FramesTypeOK, Frames, Enter, Goto, Return, Labels, ProvisionSteps
  <2>2. HostTypeOK'
    BY <1>1 DEF CreateDeployment, HostTypeOK, host
  <2> QED
    BY <1>1, <2>1, <2>2 DEF CreateDeployment, SchedulesTypeOK, schedules, TableTypeOK, history
<1>2. ASSUME NEW f \in Creators, CreateUnprivilegedUser(f) PROVE TypeOK'
  <2>1. FramesTypeOK'
    BY <1>2 DEF CreateUnprivilegedUser, FramesTypeOK, Frames, Enter, Goto, Return, Labels, ProvisionSteps
  <2>2. HostTypeOK'
    BY <1>2, HostTyping DEF CreateUnprivilegedUser
  <2> QED
    BY <1>2, <2>1, <2>2 DEF CreateUnprivilegedUser, SchedulesTypeOK, schedules, TableTypeOK, history
<1>3. ASSUME NEW f \in Creators, GetUserInfo(f) PROVE TypeOK'
  <2>1. FramesTypeOK'
    BY <1>3 DEF GetUserInfo, FramesTypeOK, Frames, Enter, Goto, Return, Labels, ProvisionSteps
  <2>2. HostTypeOK'
    BY <1>3 DEF GetUserInfo, HostTypeOK, host
  <2> QED
    BY <1>3, <2>1, <2>2 DEF GetUserInfo, SchedulesTypeOK, schedules, TableTypeOK, history
<1>4. ASSUME NEW f \in Creators, CreateNetwork(f) PROVE TypeOK'
  <2>1. FramesTypeOK'
    BY <1>4 DEF CreateNetwork, FramesTypeOK, Frames, Enter, Goto, Return, Labels, ProvisionSteps
  <2>2. HostTypeOK'
    BY <1>4, HostTyping DEF CreateNetwork
  <2> QED
    BY <1>4, <2>1, <2>2 DEF CreateNetwork, SchedulesTypeOK, schedules, TableTypeOK, history
<1>5. ASSUME NEW f \in Creators, CreateContainer(f) PROVE TypeOK'
  <2>1. FramesTypeOK'
    BY <1>5 DEF CreateContainer, FramesTypeOK, Frames, Enter, Goto, Return, Labels, ProvisionSteps
  <2>2. HostTypeOK'
    BY <1>5, HostTyping DEF CreateContainer
  <2> QED
    BY <1>5, <2>1, <2>2 DEF CreateContainer, SchedulesTypeOK, schedules, TableTypeOK, history
<1>6. ASSUME NEW f \in Creators, PartialCleanupNetwork(f) PROVE TypeOK'
  <2>1. FramesTypeOK'
    BY <1>6 DEF PartialCleanupNetwork, FramesTypeOK, Frames, Enter, Goto, Return, Labels, ProvisionSteps
  <2>2. HostTypeOK'
    BY <1>6, HostTyping DEF PartialCleanupNetwork
  <2> QED
    BY <1>6, <2>1, <2>2 DEF PartialCleanupNetwork, SchedulesTypeOK, schedules, TableTypeOK, history
<1>7. ASSUME NEW f \in Creators, PartialCleanupUser(f) PROVE TypeOK'
  <2>1. FramesTypeOK'
    BY <1>7 DEF PartialCleanupUser, FramesTypeOK, Frames, Enter, Goto, Return, Labels, ProvisionSteps
  <2>2. HostTypeOK'
    BY <1>7, HostTyping DEF PartialCleanupUser
  <2> QED
    BY <1>7, <2>1, <2>2 DEF PartialCleanupUser, SchedulesTypeOK, schedules, TableTypeOK, history
<1>8. ASSUME NEW f \in Creators, InsertDeployment(f) PROVE TypeOK'
  <2>1. FramesTypeOK'
    BY <1>8 DEF InsertDeployment, FramesTypeOK, Frames, Enter, Goto, Return, Labels, ProvisionSteps, OtherSteps
  <2>2. \A body \in Bodies :
          [status |-> "stopped", timers |-> body.timers, due |-> {}] \in Rows
    BY ConstantsAssumption DEF Rows
  <2>3. target[f] \in Deployments
    BY <1>8 DEF InsertDeployment, FramesTypeOK, Frames
  <2>4. TableTypeOK' /\ listed' \subseteq Deployments
    BY <1>8, <2>2, <2>3 DEF InsertDeployment, TableTypeOK
  <2>5. HostTypeOK' /\ SchedulesTypeOK'
    BY <1>8 DEF InsertDeployment, HostTypeOK, host, SchedulesTypeOK, schedules
  <2> QED
    BY <1>8, <2>1, <2>4, <2>5 DEF InsertDeployment
<1>9. ASSUME NEW f \in Creators, StartCreated(f) PROVE TypeOK'
  <2>1. FramesTypeOK'
    BY <1>9 DEF StartCreated, FramesTypeOK, Frames, Enter, Goto, Return, Labels, OtherSteps
  <2>2. HostTypeOK'
    BY <1>9, HostTyping DEF StartCreated
  <2> QED
    BY <1>9, <2>1, <2>2 DEF StartCreated, SchedulesTypeOK, schedules, TableTypeOK, history
<1>10. ASSUME NEW f \in Creators, MarkRunning(f) PROVE TypeOK'
  <2>1. FramesTypeOK'
    BY <1>10, EnterTyping DEF MarkRunning, Labels
  <2>2. TableTypeOK'
    BY <1>10, RowTyping DEF MarkRunning, TableTypeOK
  <2>3. HostTypeOK' /\ SchedulesTypeOK'
    BY <1>10 DEF MarkRunning, HostTypeOK, host, SchedulesTypeOK, schedules
  <2> QED
    BY <1>10, <2>1, <2>2, <2>3 DEF MarkRunning, history
<1>11. ASSUME NEW f \in Deleters, DeleteRequest(f) PROVE TypeOK'
  <2>1. FramesTypeOK'
    BY <1>11, BeginDeleteTyping DEF DeleteRequest
  <2> QED
    BY <1>11, <2>1 DEF DeleteRequest, HostTypeOK, host, SchedulesTypeOK, schedules, TableTypeOK, history
<1>12. ASSUME NEW f \in Connectors, EnsureContainerReady(f) PROVE TypeOK'
  <2>1. FramesTypeOK'
    BY <1>12 DEF EnsureContainerReady, FramesTypeOK, Frames, Enter, Goto, Return, Labels, OtherSteps
  <2>2. HostTypeOK'
    BY <1>12 DEF EnsureContainerReady, HostTypeOK, host
  <2> QED
    BY <1>12, <2>1, <2>2 DEF EnsureContainerReady, SchedulesTypeOK, schedules, TableTypeOK, history
<1>13. ASSUME NEW f \in Connectors, Inspect(f) PROVE TypeOK'
  <2>1. target[f] \in Deployments /\ f \in Frames
    BY <1>13 DEF Inspect, FramesTypeOK, Frames
  <2>2. FramesTypeOK'
    <3>1. BeginDelete(f, target[f]) \/ Return(f) \/ Goto(f, "confirm", FALSE) \/ Goto(f, "restart", FALSE)
      BY <1>13 DEF Inspect
    <3> QED
      BY <1>13, <2>1, <3>1, BeginDeleteTyping, EnterTyping DEF Inspect, Goto, FramesTypeOK, Labels, OtherSteps
  <2>3. HostTypeOK'
    BY <1>13, HostTyping DEF Inspect
  <2> QED
    BY <1>13, <2>2, <2>3 DEF Inspect, SchedulesTypeOK, schedules, TableTypeOK, history
<1>14. ASSUME NEW f \in Connectors, RestartInspected(f) PROVE TypeOK'
  <2>1. FramesTypeOK'
    BY <1>14 DEF RestartInspected, FramesTypeOK, Frames, Enter, Goto, Return, Labels, OtherSteps
  <2>2. HostTypeOK'
    BY <1>14, HostTyping DEF RestartInspected
  <2> QED
    BY <1>14, <2>1, <2>2 DEF RestartInspected, SchedulesTypeOK, schedules, TableTypeOK, history
<1>15. ASSUME NEW f \in Connectors, ConfirmReady(f) PROVE TypeOK'
  <2>1. FramesTypeOK'
    BY <1>15 DEF ConfirmReady, FramesTypeOK, Frames, Enter, Goto, Return, Labels, OtherSteps
  <2>2. HostTypeOK'
    BY <1>15 DEF ConfirmReady, HostTypeOK, host
  <2> QED
    BY <1>15, <2>1, <2>2 DEF ConfirmReady, SchedulesTypeOK, schedules, TableTypeOK, history
<1>16. ASSUME NEW f \in DeletePasses, DeleteSchedule(f) PROVE TypeOK'
  <2>1. FramesTypeOK' /\ SchedulesTypeOK'
    BY <1>16, DeleteLoopTyping DEF DeleteSchedule, DueForDeletion, SchedulesTypeOK
  <2> QED
    BY <1>16, <2>1 DEF DeleteSchedule, HostTypeOK, host, TableTypeOK, history
<1>17. ASSUME NEW f \in PausePasses, PauseSchedule(f) PROVE TypeOK'
  <2>1. FramesTypeOK' /\ SchedulesTypeOK'
    BY <1>17, PauseLoopTyping DEF PauseSchedule, DueForPause, PauseThrows, SchedulesTypeOK
  <2> QED
    BY <1>17, <2>1 DEF PauseSchedule, HostTypeOK, host, TableTypeOK, history
<1>18. ASSUME NEW f \in PausePasses, PauseStop(f) PROVE TypeOK'
  <2>1. FramesTypeOK'
    BY <1>18 DEF PauseStop, FramesTypeOK, Frames, Enter, Goto, Return, Labels, OtherSteps
  <2>2. HostTypeOK'
    BY <1>18, HostTyping DEF PauseStop
  <2> QED
    BY <1>18, <2>1, <2>2 DEF PauseStop, SchedulesTypeOK, schedules, TableTypeOK, history
<1>19. ASSUME NEW f \in PausePasses, PauseWrite(f) PROVE TypeOK'
  <2>1. target[f] \in Deployments /\ queue[f] \subseteq Deployments
    BY <1>19 DEF PauseWrite, FramesTypeOK, Frames, SchedulesTypeOK
  <2>2. pauseFails' \subseteq Deployments
    BY <1>19, <2>1 DEF PauseWrite, SchedulesTypeOK
  <2>3. FramesTypeOK' /\ SchedulesTypeOK'
    BY <1>19, <2>1, <2>2, PauseLoopTyping DEF PauseWrite
  <2>4. TableTypeOK'
    BY <1>19, RowTyping DEF PauseWrite, TableTypeOK
  <2> QED
    BY <1>19, <2>3, <2>4 DEF PauseWrite, HostTypeOK, host, history
<1>20. ASSUME NEW f \in Frames, CleanupStop(f) PROVE TypeOK'
  <2>1. FramesTypeOK'
    BY <1>20 DEF CleanupStop, FramesTypeOK, Frames, Enter, Goto, Return, Labels, CleanupSteps
  <2>2. HostTypeOK'
    BY <1>20, HostTyping DEF CleanupStop
  <2> QED
    BY <1>20, <2>1, <2>2 DEF CleanupStop, SchedulesTypeOK, schedules, TableTypeOK, history
<1>21. ASSUME NEW f \in Frames, CleanupRemove(f) PROVE TypeOK'
  <2>1. FramesTypeOK'
    BY <1>21 DEF CleanupRemove, FramesTypeOK, Frames, Enter, Goto, Return, Labels, CleanupSteps
  <2>2. HostTypeOK'
    BY <1>21, HostTyping DEF CleanupRemove
  <2> QED
    BY <1>21, <2>1, <2>2 DEF CleanupRemove, SchedulesTypeOK, schedules, TableTypeOK, history
<1>22. ASSUME NEW f \in Frames, CleanupDeploymentNetwork(f) PROVE TypeOK'
  <2>1. FramesTypeOK'
    BY <1>22 DEF CleanupDeploymentNetwork, FramesTypeOK, Frames, Enter, Goto, Return, Labels, CleanupSteps
  <2>2. HostTypeOK'
    BY <1>22, HostTyping DEF CleanupDeploymentNetwork
  <2> QED
    BY <1>22, <2>1, <2>2 DEF CleanupDeploymentNetwork, SchedulesTypeOK, schedules, TableTypeOK, history
<1>23. ASSUME NEW f \in Frames, CleanupUser(f) PROVE TypeOK'
  <2>1. FramesTypeOK'
    BY <1>23 DEF CleanupUser, FramesTypeOK, Frames, Enter, Goto, Return, Labels, CleanupSteps
  <2>2. HostTypeOK'
    BY <1>23, HostTyping DEF CleanupUser
  <2> QED
    BY <1>23, <2>1, <2>2 DEF CleanupUser, SchedulesTypeOK, schedules, TableTypeOK, history
<1>24. ASSUME NEW f \in Frames, DropRow(f) PROVE TypeOK'
  <2>1. target[f] \in Deployments /\ (f \in DeletePasses => queue[f] \subseteq Deployments)
    BY <1>24 DEF DropRow, FramesTypeOK, SchedulesTypeOK
  <2>2. deletionFails' \subseteq Deployments
    BY <1>24, <2>1 DEF DropRow, SchedulesTypeOK
  <2>3. CASE f \in DeletePasses
    <3>1. DeleteLoop(f, queue[f], deletionFails', row') /\ UNCHANGED <<pauseScheduleLocked, pauseFails>>
      BY <1>24, <2>3 DEF DropRow
    <3>2. FramesTypeOK' /\ SchedulesTypeOK'
      BY <2>1, <2>2, <2>3, <3>1, DeleteLoopTyping
    <3> QED
      BY <1>24, <3>2 DEF DropRow, TableTypeOK, HostTypeOK, host, history
  <2>4. CASE f \notin DeletePasses
    <3>1. FramesTypeOK'
      BY <1>24, <2>4, EnterTyping DEF DropRow, Labels
    <3> QED
      BY <1>24, <2>2, <2>4, <3>1 DEF DropRow, SchedulesTypeOK, TableTypeOK, HostTypeOK, host, history
  <2> QED
    BY <2>3, <2>4
<1>25. ASSUME NEW d \in Deployments, UpdateLastInteraction(d) \/ TimeoutElapses(d)
      PROVE  TypeOK'
  <2>1. row[d] \in Rows
    BY <1>25 DEF UpdateLastInteraction, TimeoutElapses, HasRow, TableTypeOK
  <2>2. TableTypeOK'
    BY <1>25, <2>1 DEF UpdateLastInteraction, TimeoutElapses, TableTypeOK, Rows
  <2>3. UNCHANGED <<host, frames, signal, schedules, history>>
    BY <1>25 DEF UpdateLastInteraction, TimeoutElapses
  <2> QED
    BY <2>2, <2>3 DEF HostTypeOK, host, FramesTypeOK, frames, SchedulesTypeOK, schedules, history
<1>26. ASSUME NEW d \in Deployments, ContainerExits(d),
             UNCHANGED <<row, frames, signal, schedules, history>>
      PROVE  TypeOK'
  <2>1. HostTypeOK'
    BY <1>26, HostTyping
  <2> QED
    BY <1>26, <2>1 DEF FramesTypeOK, frames, SchedulesTypeOK, schedules, TableTypeOK, history
<1>27. ASSUME NEW s \in {"graceful", "forced"}, GracefulShutdown(s) PROVE TypeOK'
  <2>1. FramesTypeOK'
    BY <1>27 DEF GracefulShutdown, FramesTypeOK, Sweeps, Labels, CleanupSteps
  <2> QED
    BY <1>27, <2>1 DEF GracefulShutdown, HostTypeOK, host, SchedulesTypeOK, schedules, TableTypeOK, history
<1>28. ASSUME Restart PROVE TypeOK'
  BY <1>28 DEF Restart, FreshMemory, HostTypeOK, host, FramesTypeOK, Labels,
     SchedulesTypeOK, TableTypeOK, history
<1>29. ASSUME UNCHANGED vars PROVE TypeOK'
  BY <1>29 DEF vars, HostTypeOK, host, FramesTypeOK, frames, SchedulesTypeOK, schedules,
     TableTypeOK, history
<1> QED
  BY <1>1, <1>2, <1>3, <1>4, <1>5, <1>6, <1>7, <1>8, <1>9, <1>10, <1>11, <1>12, <1>13, <1>14, <1>15, <1>16, <1>17, <1>18, <1>19, <1>20, <1>21, <1>22, <1>23, <1>24, <1>25, <1>26, <1>27, <1>28, <1>29
     DEF Next, CreatorStep, CleanupStep, ConnectorStep, PausePassStep, Exit, Crash

\* Every table, frame, lock and set keeps its type, whatever fails or crashes.
THEOREM TypeCorrect == Spec => []TypeOK
<1>1. Init => TypeOK
  BY DEF Init, TypeOK, HostInit, HostTypeOK, ContainerStates, FramesTypeOK,
         SchedulesTypeOK, TableTypeOK, FreshMemory, Labels
<1> QED
  BY <1>1, TypeStep, PTL DEF Spec

-----------------------------------------------------------------------------
(* Ownership *)

\* Who works on what: a deployment without a row so far is worked on by one
\* creator only, and everything else works on deployments that have been listed.
FramesOwn ==
  \A f \in Frames :
    /\ pc[f] = "idle" => target[f] = None
    /\ pc[f] \in ProvisionSteps => f \in Creators /\ target[f] \in minted \ listed
    /\ pc[f] \in CleanupSteps \cup OtherSteps => target[f] \in listed

OneProvisioner ==
  \A f, g \in Frames : pc[f] \in ProvisionSteps /\ target[g] = target[f] => g = f

RowsListed ==
  /\ \A d \in Deployments : HasRow(d) => d \in listed
  /\ \A p \in DeletePasses \cup PausePasses : queue[p] \subseteq listed
  /\ listed \subseteq minted

Ownership == FramesOwn /\ OneProvisioner /\ RowsListed

\* Where a frame may go without giving up or taking over a deployment.
Keeps(f, label, d) ==
  \/ label = "idle" /\ d = None
  \/ label \in ProvisionSteps /\ pc[f] \in ProvisionSteps /\ d = target[f]
  \/ label \in CleanupSteps \cup OtherSteps /\ d \in listed

Moves(f, label, d) ==
  /\ pc' = [pc EXCEPT ![f] = label]
  /\ target' = [target EXCEPT ![f] = d]

\* No row appears, and no deployment is queued that was never listed.
TableShrinks ==
  /\ \A d \in Deployments : HasRow(d)' => HasRow(d)
  /\ \A p \in DeletePasses \cup PausePasses : queue'[p] \subseteq listed

LEMMA StepSetsDisjoint ==
  /\ ProvisionSteps \cap (CleanupSteps \cup OtherSteps) = {}
  /\ "idle" \notin ProvisionSteps \cup CleanupSteps \cup OtherSteps
  /\ Labels = {"idle"} \cup ProvisionSteps \cup CleanupSteps \cup OtherSteps
BY DEF Labels, ProvisionSteps, CleanupSteps, OtherSteps

LEMMA OwnershipMove ==
  ASSUME TypeOK, Ownership, NEW f \in Frames, NEW label, NEW d,
         Keeps(f, label, d), Moves(f, label, d), TableShrinks, UNCHANGED history
  PROVE  Ownership'
<1> USE DEF Ownership, TypeOK, FramesTypeOK
<1>1. FramesOwn'
  BY StepSetsDisjoint DEF FramesOwn, Keeps, Moves, history
<1>2. OneProvisioner'
  <2> SUFFICES ASSUME NEW g \in Frames, NEW h \in Frames,
                      pc'[g] \in ProvisionSteps, target'[h] = target'[g]
               PROVE  h = g
    BY DEF OneProvisioner
  <2>1. pc[g] \in ProvisionSteps /\ target'[g] = target[g] /\ target[g] \in minted \ listed
    BY StepSetsDisjoint DEF FramesOwn, Keeps, Moves
  <2>2. CASE h = f
    BY <2>1, <2>2, StepSetsDisjoint, ConstantsAssumption DEF Keeps, Moves, OneProvisioner
  <2>3. CASE h # f
    BY <2>1, <2>3 DEF Moves, OneProvisioner
  <2> QED
    BY <2>2, <2>3
<1>3. RowsListed'
  BY DEF RowsListed, TableShrinks, history
<1> QED
  BY <1>1, <1>2, <1>3

\* Frames move by Goto, Enter and Return only.
LEMMA FrameMoves ==
  ASSUME FramesTypeOK, NEW f \in Frames, NEW label, NEW d, NEW logs
  PROVE  /\ Goto(f, label, logs) => Moves(f, label, target[f])
         /\ Enter(f, label, d) => Moves(f, label, d)
         /\ Return(f) => Moves(f, "idle", None)
BY DEF FramesTypeOK, Goto, Enter, Return, Moves

LEMMA UnchangedTableShrinks ==
  ASSUME Ownership, UNCHANGED <<row, queue>>
  PROVE  TableShrinks
BY DEF Ownership, RowsListed, TableShrinks, HasRow

LEMMA SetStatusShrinks ==
  ASSUME TypeOK, NEW d, NEW s, SetStatus(d, s)
  PROVE  \A e \in Deployments : HasRow(e)' => HasRow(e)
BY DEF TypeOK, TableTypeOK, SetStatus, HasRow

LEMMA OwnershipStep == TypeOK /\ Ownership /\ [Next]_vars => Ownership'
<1> SUFFICES ASSUME TypeOK, Ownership, [Next]_vars PROVE Ownership'
  OBVIOUS
<1>f. FramesTypeOK /\ FramesOwn /\ OneProvisioner /\ RowsListed
  BY DEF TypeOK, Ownership
<1>1. ASSUME NEW f \in Creators, CreateUnprivilegedUser(f) PROVE Ownership'
  <2>1. TableShrinks /\ UNCHANGED history /\ f \in Frames
    BY <1>1, UnchangedTableShrinks DEF CreateUnprivilegedUser, schedules, Frames
  <2>2. Moves(f, "id", target[f]) \/ Moves(f, "idle", None)
    BY <1>1, <1>f, <2>1, FrameMoves DEF CreateUnprivilegedUser
  <2> QED
    BY <1>1, <1>f, <2>1, <2>2, OwnershipMove DEF CreateUnprivilegedUser, Keeps, FramesOwn, ProvisionSteps
<1>2. ASSUME NEW f \in Creators, GetUserInfo(f) PROVE Ownership'
  <2>1. TableShrinks /\ UNCHANGED history /\ f \in Frames
    BY <1>2, UnchangedTableShrinks DEF GetUserInfo, schedules, Frames
  <2>2. Moves(f, "createNetwork", target[f]) \/ Moves(f, "undoUser", target[f])
    BY <1>2, <1>f, <2>1, FrameMoves DEF GetUserInfo
  <2> QED
    BY <1>2, <1>f, <2>1, <2>2, OwnershipMove DEF GetUserInfo, Keeps, FramesOwn, ProvisionSteps
<1>3. ASSUME NEW f \in Creators, CreateNetwork(f) PROVE Ownership'
  <2>1. TableShrinks /\ UNCHANGED history /\ f \in Frames
    BY <1>3, UnchangedTableShrinks DEF CreateNetwork, schedules, Frames
  <2>2. Moves(f, "createContainer", target[f]) \/ Moves(f, "undoUser", target[f])
    BY <1>3, <1>f, <2>1, FrameMoves DEF CreateNetwork
  <2> QED
    BY <1>3, <1>f, <2>1, <2>2, OwnershipMove DEF CreateNetwork, Keeps, FramesOwn, ProvisionSteps
<1>4. ASSUME NEW f \in Creators, CreateContainer(f) PROVE Ownership'
  <2>1. TableShrinks /\ UNCHANGED history /\ f \in Frames
    BY <1>4, UnchangedTableShrinks DEF CreateContainer, schedules, Frames
  <2>2. Moves(f, "insert", target[f]) \/ Moves(f, "undoNetwork", target[f])
    BY <1>4, <1>f, <2>1, FrameMoves DEF CreateContainer
  <2> QED
    BY <1>4, <1>f, <2>1, <2>2, OwnershipMove DEF CreateContainer, Keeps, FramesOwn, ProvisionSteps
<1>5. ASSUME NEW f \in Creators, PartialCleanupNetwork(f) PROVE Ownership'
  <2>1. TableShrinks /\ UNCHANGED history /\ f \in Frames
    BY <1>5, UnchangedTableShrinks DEF PartialCleanupNetwork, schedules, Frames
  <2>2. Moves(f, "undoUser", target[f]) \/ Moves(f, "idle", None)
    BY <1>5, <1>f, <2>1, FrameMoves DEF PartialCleanupNetwork
  <2> QED
    BY <1>5, <1>f, <2>1, <2>2, OwnershipMove DEF PartialCleanupNetwork, Keeps, FramesOwn, ProvisionSteps
<1>6. ASSUME NEW f \in Creators, PartialCleanupUser(f) PROVE Ownership'
  <2>1. TableShrinks /\ UNCHANGED history /\ f \in Frames
    BY <1>6, UnchangedTableShrinks DEF PartialCleanupUser, schedules, Frames
  <2>2. Moves(f, "idle", None)
    BY <1>6, <1>f, <2>1, FrameMoves DEF PartialCleanupUser
  <2> QED
    BY <1>6, <1>f, <2>1, <2>2, OwnershipMove DEF PartialCleanupUser, Keeps, FramesOwn, ProvisionSteps
<1>7. ASSUME NEW f \in Creators, StartCreated(f) PROVE Ownership'
  <2>1. TableShrinks /\ UNCHANGED history /\ f \in Frames
    BY <1>7, UnchangedTableShrinks DEF StartCreated, schedules, Frames
  <2>2. Moves(f, "markRunning", target[f]) \/ Moves(f, "idle", None)
    BY <1>7, <1>f, <2>1, FrameMoves DEF StartCreated
  <2> QED
    BY <1>7, <1>f, <2>1, <2>2, OwnershipMove DEF StartCreated, Keeps, FramesOwn, OtherSteps
<1>8. ASSUME NEW f \in Connectors, RestartInspected(f) PROVE Ownership'
  <2>1. TableShrinks /\ UNCHANGED history /\ f \in Frames
    BY <1>8, UnchangedTableShrinks DEF RestartInspected, schedules, Frames
  <2>2. Moves(f, "confirm", target[f]) \/ Moves(f, "idle", None)
    BY <1>8, <1>f, <2>1, FrameMoves DEF RestartInspected
  <2> QED
    BY <1>8, <1>f, <2>1, <2>2, OwnershipMove DEF RestartInspected, Keeps, FramesOwn, OtherSteps
<1>9. ASSUME NEW f \in Connectors, ConfirmReady(f) PROVE Ownership'
  <2>1. TableShrinks /\ UNCHANGED history /\ f \in Frames
    BY <1>9, UnchangedTableShrinks DEF ConfirmReady, schedules, Frames
  <2>2. Moves(f, "idle", None)
    BY <1>9, <1>f, <2>1, FrameMoves DEF ConfirmReady
  <2> QED
    BY <1>9, <1>f, <2>1, <2>2, OwnershipMove DEF ConfirmReady, Keeps, FramesOwn, OtherSteps
<1>10. ASSUME NEW f \in PausePasses, PauseStop(f) PROVE Ownership'
  <2>1. TableShrinks /\ UNCHANGED history /\ f \in Frames
    BY <1>10, UnchangedTableShrinks DEF PauseStop, schedules, Frames
  <2>2. Moves(f, "pauseWrite", target[f])
    BY <1>10, <1>f, <2>1, FrameMoves DEF PauseStop
  <2> QED
    BY <1>10, <1>f, <2>1, <2>2, OwnershipMove DEF PauseStop, Keeps, FramesOwn, OtherSteps
<1>11. ASSUME NEW f \in Frames, CleanupStop(f) PROVE Ownership'
  <2>1. TableShrinks /\ UNCHANGED history /\ f \in Frames
    BY <1>11, UnchangedTableShrinks DEF CleanupStop, schedules, Frames
  <2>2. Moves(f, "remove", target[f])
    BY <1>11, <1>f, <2>1, FrameMoves DEF CleanupStop
  <2> QED
    BY <1>11, <1>f, <2>1, <2>2, OwnershipMove DEF CleanupStop, Keeps, FramesOwn, CleanupSteps
<1>12. ASSUME NEW f \in Frames, CleanupRemove(f) PROVE Ownership'
  <2>1. TableShrinks /\ UNCHANGED history /\ f \in Frames
    BY <1>12, UnchangedTableShrinks DEF CleanupRemove, schedules, Frames
  <2>2. Moves(f, "removeNetwork", target[f])
    BY <1>12, <1>f, <2>1, FrameMoves DEF CleanupRemove
  <2> QED
    BY <1>12, <1>f, <2>1, <2>2, OwnershipMove DEF CleanupRemove, Keeps, FramesOwn, CleanupSteps
<1>13. ASSUME NEW f \in Frames, CleanupDeploymentNetwork(f) PROVE Ownership'
  <2>1. TableShrinks /\ UNCHANGED history /\ f \in Frames
    BY <1>13, UnchangedTableShrinks DEF CleanupDeploymentNetwork, schedules, Frames
  <2>2. Moves(f, "userdel", target[f])
    BY <1>13, <1>f, <2>1, FrameMoves DEF CleanupDeploymentNetwork
  <2> QED
    BY <1>13, <1>f, <2>1, <2>2, OwnershipMove DEF CleanupDeploymentNetwork, Keeps, FramesOwn, CleanupSteps
<1>14. ASSUME NEW f \in Frames, CleanupUser(f) PROVE Ownership'
  <2>1. TableShrinks /\ UNCHANGED history /\ f \in Frames
    BY <1>14, UnchangedTableShrinks DEF CleanupUser, schedules, Frames
  <2>2. Moves(f, "swept", target[f]) \/ Moves(f, "dropRow", target[f])
    BY <1>14, <1>f, <2>1, FrameMoves DEF CleanupUser
  <2> QED
    BY <1>14, <1>f, <2>1, <2>2, OwnershipMove DEF CleanupUser, Keeps, FramesOwn, CleanupSteps
<1>15. ASSUME NEW f \in Creators, MarkRunning(f) PROVE Ownership'
  <2>1. TableShrinks
    BY <1>15, <1>f, SetStatusShrinks DEF MarkRunning, TableShrinks, RowsListed, HasRow, schedules
  <2>2. Moves(f, "idle", None) /\ f \in Frames /\ UNCHANGED history
    BY <1>15, <1>f, FrameMoves DEF MarkRunning, Frames
  <2> QED
    BY <2>1, <2>2, OwnershipMove DEF Keeps
<1>16. ASSUME NEW f \in Deleters, DeleteRequest(f) PROVE Ownership'
  <2>1. TableShrinks /\ UNCHANGED history /\ f \in Frames
    BY <1>16, UnchangedTableShrinks DEF DeleteRequest, schedules, Frames
  <2>2. PICK d \in listed : Moves(f, "stop", d) \/ Moves(f, "dropRow", d)
    BY <1>16, <1>f, <2>1 DEF DeleteRequest, BeginDelete, Enter, Moves, RowsListed
  <2> QED
    BY <2>1, <2>2, OwnershipMove DEF Keeps, CleanupSteps
<1>17. ASSUME NEW f \in Connectors, EnsureContainerReady(f) PROVE Ownership'
  <2>1. TableShrinks /\ UNCHANGED history /\ f \in Frames
    BY <1>17, UnchangedTableShrinks DEF EnsureContainerReady, schedules, Frames
  <2>2. PICK d \in listed : Moves(f, "inspect", d)
    BY <1>17, <1>f, <2>1, FrameMoves DEF EnsureContainerReady, RowsListed
  <2> QED
    BY <2>1, <2>2, OwnershipMove DEF Keeps, OtherSteps
<1>18. ASSUME NEW f \in Connectors, Inspect(f) PROVE Ownership'
  <2>1. TableShrinks /\ UNCHANGED history /\ f \in Frames
    BY <1>18, UnchangedTableShrinks DEF Inspect, schedules, Frames
  <2>2. target[f] \in listed
    BY <1>18, <1>f, <2>1 DEF Inspect, FramesOwn, OtherSteps
  <2>3. BeginDelete(f, target[f]) \/ Return(f) \/ Goto(f, "confirm", FALSE) \/ Goto(f, "restart", FALSE)
    BY <1>18 DEF Inspect
  <2>4. \/ Moves(f, "stop", target[f]) \/ Moves(f, "dropRow", target[f])
        \/ Moves(f, "confirm", target[f]) \/ Moves(f, "restart", target[f])
        \/ Moves(f, "idle", None)
    BY <1>f, <2>1, <2>3, FrameMoves DEF BeginDelete, Enter, Moves
  <2> QED
    BY <2>1, <2>2, <2>4, OwnershipMove DEF Keeps, OtherSteps, CleanupSteps
<1>19. ASSUME NEW f \in DeletePasses, DeleteSchedule(f) PROVE Ownership'
  <2>1. UNCHANGED <<row, history>> /\ f \in Frames
    BY <1>19 DEF DeleteSchedule, Frames
  <2>2. TableShrinks
    BY <1>19, <1>f, <2>1 DEF DeleteSchedule, DeleteLoop, DueForDeletion, TableShrinks,
       RowsListed, HasRow, TypeOK, SchedulesTypeOK
  <2>3. (\E d \in listed : BeginDelete(f, d)) \/ Return(f)
    BY <1>19, <1>f DEF DeleteSchedule, DeleteLoop, DueForDeletion, RowsListed
  <2>4. (\E d \in listed : Moves(f, "stop", d) \/ Moves(f, "dropRow", d)) \/ Moves(f, "idle", None)
    BY <1>f, <2>1, <2>3, FrameMoves DEF BeginDelete, Enter, Moves
  <2> QED
    BY <2>1, <2>2, <2>4, OwnershipMove DEF Keeps, CleanupSteps
<1>20. ASSUME NEW f \in PausePasses, PauseSchedule(f) PROVE Ownership'
  <2>1. UNCHANGED <<row, history>> /\ f \in Frames
    BY <1>20 DEF PauseSchedule, Frames
  <2>2. TableShrinks
    BY <1>20, <1>f, <2>1 DEF PauseSchedule, PauseLoop, PauseThrows, DueForPause, TableShrinks,
       RowsListed, HasRow, TypeOK, SchedulesTypeOK
  <2>3. (\E d \in listed : Enter(f, "pauseStop", d)) \/ Return(f)
    BY <1>20, <1>f DEF PauseSchedule, PauseLoop, PauseThrows, DueForPause, RowsListed
  <2>4. (\E d \in listed : Moves(f, "pauseStop", d)) \/ Moves(f, "idle", None)
    BY <1>f, <2>1, <2>3, FrameMoves
  <2> QED
    BY <2>1, <2>2, <2>4, OwnershipMove DEF Keeps, OtherSteps
<1>21. ASSUME NEW f \in PausePasses, PauseWrite(f) PROVE Ownership'
  <2>1. UNCHANGED history /\ f \in Frames
    BY <1>21 DEF PauseWrite, Frames
  <2>2. \A d \in Deployments : HasRow(d)' => HasRow(d)
    BY <1>21, SetStatusShrinks DEF PauseWrite, HasRow
  <2>3. TableShrinks
    BY <1>21, <1>f, <2>2 DEF PauseWrite, PauseLoop, PauseThrows, TableShrinks,
       RowsListed, TypeOK, SchedulesTypeOK
  <2>4. (\E d \in listed : Enter(f, "pauseStop", d)) \/ Return(f)
    BY <1>21, <1>f DEF PauseWrite, PauseLoop, PauseThrows, RowsListed
  <2>5. (\E d \in listed : Moves(f, "pauseStop", d)) \/ Moves(f, "idle", None)
    BY <1>f, <2>1, <2>4, FrameMoves
  <2> QED
    BY <2>1, <2>3, <2>5, OwnershipMove DEF Keeps, OtherSteps
<1>22. ASSUME NEW f \in Frames, DropRow(f) PROVE Ownership'
  <2>1. UNCHANGED history
    BY <1>22 DEF DropRow
  <2>2. \A d \in Deployments : HasRow(d)' => HasRow(d)
    BY <1>22 DEF DropRow, HasRow, TypeOK, TableTypeOK
  <2>3. TableShrinks
    BY <1>22, <1>f, <2>2 DEF DropRow, DeleteLoop, TableShrinks, RowsListed, TypeOK, SchedulesTypeOK
  <2>4. (\E d \in listed : BeginDelete(f, d)) \/ Return(f)
    BY <1>22, <1>f DEF DropRow, DeleteLoop, RowsListed
  <2>5. (\E d \in listed : Moves(f, "stop", d) \/ Moves(f, "dropRow", d)) \/ Moves(f, "idle", None)
    BY <1>f, <2>4, FrameMoves DEF BeginDelete, Enter, Moves
  <2> QED
    BY <2>1, <2>3, <2>5, OwnershipMove DEF Keeps, CleanupSteps
<1>23. ASSUME NEW f \in Creators, CreateDeployment(f) PROVE Ownership'
  <2>1. PICK d \in Deployments \ minted : minted' = minted \cup {d} /\ Enter(f, "useradd", d)
    BY <1>23 DEF CreateDeployment
  <2>2. UNCHANGED <<row, queue, listed>> /\ f \in Frames /\ pc[f] = "idle"
    BY <1>23 DEF CreateDeployment, schedules, Frames
  <2>3. \A g \in Frames : target[g] # d
    BY <1>f, ConstantsAssumption, StepSetsDisjoint DEF FramesOwn, RowsListed, FramesTypeOK
  <2>4. FramesOwn'
    BY <1>f, <2>1, <2>2, StepSetsDisjoint
    DEF FramesOwn, FramesTypeOK, Enter, RowsListed, ProvisionSteps
  <2>5. OneProvisioner'
    BY <1>f, <2>1, <2>2, <2>3 DEF OneProvisioner, FramesTypeOK, Enter
  <2>6. RowsListed'
    BY <1>f, <2>1, <2>2 DEF RowsListed, HasRow
  <2> QED
    BY <2>4, <2>5, <2>6 DEF Ownership
<1>24. ASSUME NEW f \in Creators, InsertDeployment(f) PROVE Ownership'
  <2>1. f \in Frames /\ target[f] \in minted \ listed /\ UNCHANGED <<minted, queue>>
    BY <1>24, <1>f DEF InsertDeployment, FramesOwn, Frames, ProvisionSteps, schedules
  <2>2. CASE UNCHANGED <<row, listed>> /\ Return(f)
    <3>1. TableShrinks /\ UNCHANGED history
      BY <2>1, <2>2, UnchangedTableShrinks DEF history
    <3> QED
      BY <1>f, <2>1, <2>2, <3>1, FrameMoves, OwnershipMove DEF Keeps
  <2>3. CASE /\ listed' = listed \cup {target[f]}
             /\ \A d \in Deployments : HasRow(d)' => HasRow(d) \/ d = target[f]
             /\ Goto(f, "start", FALSE) \/ Return(f)
    <3>1. FramesOwn'
      BY <1>f, <2>1, <2>3, StepSetsDisjoint, <1>24
      DEF FramesOwn, FramesTypeOK, OneProvisioner, Goto, Return, Enter, InsertDeployment,
          ProvisionSteps, OtherSteps
    <3>2. OneProvisioner'
      BY <1>f, <2>1, <2>3, StepSetsDisjoint, ConstantsAssumption
      DEF FramesOwn, FramesTypeOK, OneProvisioner, Goto, Return, Enter, OtherSteps
    <3>3. RowsListed'
      BY <1>f, <2>1, <2>3 DEF RowsListed
    <3> QED
      BY <3>1, <3>2, <3>3 DEF Ownership
  <2> QED
    BY <1>24, <2>2, <2>3 DEF InsertDeployment, HasRow, TypeOK, TableTypeOK
<1>25. ASSUME NEW s \in {"graceful", "forced"}, GracefulShutdown(s) PROVE Ownership'
  <2>1. \A g \in Frames : \/ pc'[g] = pc[g] /\ target'[g] = target[g]
                          \/ pc'[g] = "stop" /\ target'[g] \in listed
    BY <1>25, <1>f DEF GracefulShutdown, Sweeps, RowsListed
  <2>2. UNCHANGED <<row, queue, minted, listed>>
    BY <1>25 DEF GracefulShutdown, schedules, history
  <2>3. FramesOwn'
    BY <1>f, <2>1, <2>2, StepSetsDisjoint DEF FramesOwn, CleanupSteps
  <2>4. OneProvisioner'
    BY <1>f, <2>1, <2>2, StepSetsDisjoint DEF FramesOwn, OneProvisioner, CleanupSteps
  <2> QED
    BY <1>f, <2>2, <2>3, <2>4 DEF Ownership, RowsListed, HasRow
<1>26. ASSUME Restart PROVE Ownership'
  <2>1. FramesOwn' /\ OneProvisioner'
    BY <1>26, StepSetsDisjoint DEF Restart, FreshMemory, FramesOwn, OneProvisioner
  <2>2. RowsListed'
    BY <1>26, <1>f DEF Restart, FreshMemory, RowsListed, HasRow, history
  <2> QED
    BY <2>1, <2>2 DEF Ownership
<1>27. ASSUME UNCHANGED <<pc, target, queue, minted, listed>>,
             \A d \in Deployments : HasRow(d)' => HasRow(d)
      PROVE  Ownership'
  BY <1>27, <1>f DEF Ownership, FramesOwn, OneProvisioner, RowsListed
<1>28. ASSUME NEW d \in Deployments, UpdateLastInteraction(d) \/ TimeoutElapses(d)
      PROVE  Ownership'
  <2>1. \A e \in Deployments : HasRow(e)' => HasRow(e)
    BY <1>28 DEF UpdateLastInteraction, TimeoutElapses, HasRow, TypeOK, TableTypeOK
  <2> QED
    BY <1>28, <1>27, <2>1 DEF UpdateLastInteraction, TimeoutElapses, frames, schedules, history
<1>29. ASSUME UNCHANGED <<row, frames, signal, schedules, history>> PROVE Ownership'
  BY <1>29, <1>27 DEF HasRow, frames, schedules, history
<1> QED
  BY <1>1, <1>2, <1>3, <1>4, <1>5, <1>6, <1>7, <1>8, <1>9, <1>10, <1>11, <1>12, <1>13, <1>14, <1>15, <1>16, <1>17, <1>18, <1>19, <1>20, <1>21, <1>22, <1>23, <1>24, <1>25, <1>26, <1>27, <1>28, <1>29
  DEF Next, CreatorStep, CleanupStep, ConnectorStep, PausePassStep, Exit, Crash, vars

LEMMA InitOwnership == Init => Ownership
BY ConstantsAssumption, StepSetsDisjoint
DEF Init, Ownership, FramesOwn, OneProvisioner, RowsListed, FreshMemory, HasRow

\* The two invariants together, as an invariant of the specification.
LEMMA OwnershipInvariant == Spec => [](TypeOK /\ Ownership)
<1>1. Init => Ownership
  BY InitOwnership
<1> QED
  BY <1>1, TypeCorrect, TypeStep, OwnershipStep, PTL DEF Spec

\* Rolling back a creation and cleaning up never work on the same deployment.
THEOREM ProvisioningIsExclusive == Spec => []CleanupNeverMeetsProvisioning
<1>1. TypeOK /\ Ownership => CleanupNeverMeetsProvisioning
  BY DEF Ownership, OneProvisioner, CleanupNeverMeetsProvisioning, Frames
<1> QED
  BY <1>1, OwnershipInvariant, PTL

-----------------------------------------------------------------------------
(* Rows never return *)

\* Only an insert makes a row appear, and only for an id that never had one.
LEMMA RowStep ==
  ASSUME TypeOK, Ownership, [Next]_vars, NEW d \in listed, ~HasRow(d)
  PROVE  ~HasRow(d)'
<1>1. d \in Deployments /\ row[d] = None
  BY DEF TypeOK, HasRow
<1>2. CASE UNCHANGED row
  BY <1>1, <1>2 DEF HasRow
<1>3. ASSUME NEW f \in Creators, InsertDeployment(f) PROVE ~HasRow(d)'
  <2>1. target[f] # d
    BY <1>3 DEF InsertDeployment, Ownership, FramesOwn, Frames, ProvisionSteps
  <2> QED
    BY <1>1, <1>3, <2>1 DEF InsertDeployment, HasRow, TypeOK, TableTypeOK
<1>4. ASSUME NEW e, NEW s, SetStatus(e, s) PROVE ~HasRow(d)'
  BY <1>1, <1>4 DEF SetStatus, HasRow, TypeOK, TableTypeOK
<1>5. ASSUME NEW f \in Frames, DropRow(f) PROVE ~HasRow(d)'
  BY <1>1, <1>5 DEF DropRow, HasRow, TypeOK, TableTypeOK
<1>6. ASSUME NEW e \in Deployments, UpdateLastInteraction(e) \/ TimeoutElapses(e)
      PROVE  ~HasRow(d)'
  BY <1>1, <1>6 DEF UpdateLastInteraction, TimeoutElapses, HasRow, TypeOK, TableTypeOK
<1>7. ASSUME NEW f \in Creators, CreateDeployment(f) \/ CreatorStep(f) PROVE ~HasRow(d)'
  BY <1>2, <1>3, <1>4, <1>7
  DEF CreatorStep, CreateDeployment, CreateUnprivilegedUser, GetUserInfo, CreateNetwork,
      CreateContainer, PartialCleanupNetwork, PartialCleanupUser, StartCreated, MarkRunning
<1>8. ASSUME NEW f \in Frames, CleanupStep(f) PROVE ~HasRow(d)'
  BY <1>2, <1>5, <1>8
  DEF CleanupStep, CleanupStop, CleanupRemove, CleanupDeploymentNetwork, CleanupUser
<1>9. ASSUME NEW f, \/ DeleteRequest(f) \/ EnsureContainerReady(f) \/ ConnectorStep(f)
                    \/ DeleteSchedule(f) \/ PauseSchedule(f) \/ PausePassStep(f)
      PROVE  ~HasRow(d)'
  BY <1>2, <1>4, <1>9
  DEF DeleteRequest, EnsureContainerReady, ConnectorStep, Inspect, RestartInspected,
      ConfirmReady, DeleteSchedule, PauseSchedule, PausePassStep, PauseStop, PauseWrite
<1> QED
  BY <1>2, <1>6, <1>7, <1>8, <1>9
  DEF Next, GracefulShutdown, Exit, Crash, Restart, vars

\* A deleted deployment stays deleted.
THEOREM DeletedStaysDeleted == Spec => RowsNeverReturn
<1>1. TypeOK /\ Ownership /\ [Next]_vars => [\A d \in listed : ~HasRow(d) => ~HasRow(d)']_vars
  BY RowStep
<1> QED
  BY <1>1, OwnershipInvariant, PTL DEF Spec, RowsNeverReturn

-----------------------------------------------------------------------------
(* The host *)

\* What of d is missing on the host stays missing.
NeverReborn(d) ==
  /\ container[d] = "none" => container'[d] = "none"
  /\ ~network[d] => ~network'[d]
  /\ ~user[d] => ~user'[d]

\* Only the three creating calls make an artifact, each one of its own deployment.
LEMMA CallsNeverRevive ==
  ASSUME HostTypeOK, NEW d \in Deployments, NEW e, NEW res, NEW graceful,
         \/ e # d /\ UserAdd(e, res)
         \/ e # d /\ CreateIsolatedNetwork(e, res)
         \/ e # d /\ CreateSecureContainer(e, res)
         \/ DeleteUser(e, res) \/ CleanupNetwork(e, res)
         \/ StartContainer(e, res) \/ StopContainer(e, graceful, res)
         \/ RemoveContainer(e, res) \/ InspectContainer(e, res)
         \/ ContainerExits(e) \/ UNCHANGED host
  PROVE  NeverReborn(d)
BY DEF HostTypeOK, NeverReborn, UserAdd, DeleteUser, CreateIsolatedNetwork,
       CleanupNetwork, CreateSecureContainer, StartContainer, Startable,
       StopContainer, RemoveContainer, InspectContainer, ContainerExits,
       Rejects, SetContainer, host

\* Nothing of a listed deployment comes back, since only creators create and they
\* work on unlisted deployments.
LEMMA ListedNeverReborn ==
  ASSUME TypeOK, Ownership, [Next]_vars, NEW d \in listed
  PROVE  NeverReborn(d)
<1>1. d \in Deployments /\ HostTypeOK
  BY DEF TypeOK
<1>2. CASE UNCHANGED host
  BY <1>1, <1>2, CallsNeverRevive
<1>3. ASSUME NEW f \in Creators, CreateUnprivilegedUser(f) \/ CreateNetwork(f) \/ CreateContainer(f)
      PROVE  NeverReborn(d)
  <2>1. target[f] # d
    BY <1>3 DEF CreateUnprivilegedUser, CreateNetwork, CreateContainer, Ownership, FramesOwn,
                Frames, ProvisionSteps
  <2> QED
    BY <1>1, <1>3, <2>1, CallsNeverRevive DEF CreateUnprivilegedUser, CreateNetwork, CreateContainer
<1>4. ASSUME NEW f \in Creators, CreateDeployment(f) \/ CreatorStep(f) PROVE NeverReborn(d)
  BY <1>1, <1>2, <1>3, <1>4, CallsNeverRevive
  DEF CreateDeployment, CreatorStep, GetUserInfo, PartialCleanupNetwork, PartialCleanupUser,
      InsertDeployment, StartCreated, MarkRunning
<1>5. ASSUME NEW f \in Frames, CleanupStep(f) PROVE NeverReborn(d)
  BY <1>1, <1>2, <1>5, CallsNeverRevive
  DEF CleanupStep, CleanupStop, CleanupRemove, CleanupDeploymentNetwork, CleanupUser, DropRow
<1>6. ASSUME NEW f, \/ DeleteRequest(f) \/ EnsureContainerReady(f) \/ ConnectorStep(f)
                    \/ DeleteSchedule(f) \/ PauseSchedule(f) \/ PausePassStep(f)
      PROVE  NeverReborn(d)
  BY <1>1, <1>2, <1>6, CallsNeverRevive
  DEF DeleteRequest, EnsureContainerReady, ConnectorStep, Inspect, RestartInspected,
      ConfirmReady, DeleteSchedule, PauseSchedule, PausePassStep, PauseStop, PauseWrite
<1> QED
  BY <1>1, <1>2, <1>4, <1>5, <1>6, CallsNeverRevive
  DEF Next, UpdateLastInteraction, TimeoutElapses, GracefulShutdown, Exit, Crash, Restart, vars

\* A container runs only when it did before, or when its deployment is started.
LEMMA CallsNeverRun ==
  ASSUME HostTypeOK, NEW d \in Deployments, container[d] \in {"none", "created"},
         NEW e, NEW res,
         \/ UserAdd(e, res) \/ DeleteUser(e, res)
         \/ CreateIsolatedNetwork(e, res) \/ CleanupNetwork(e, res)
         \/ CreateSecureContainer(e, res) \/ RemoveContainer(e, res)
         \/ InspectContainer(e, res) \/ ContainerExits(e) \/ UNCHANGED host
         \/ e # d /\ StartContainer(e, res)
  PROVE  container'[d] \in {"none", "created"}
BY DEF HostTypeOK, UserAdd, DeleteUser, CreateIsolatedNetwork, CleanupNetwork,
       CreateSecureContainer, StartContainer, RemoveContainer,
       InspectContainer, ContainerExits, Rejects, SetContainer, host

LEMMA UnlistedStep ==
  ASSUME TypeOK, Ownership, UnlistedNeverRan, [Next]_vars
  PROVE  UnlistedNeverRan'
<1> SUFFICES ASSUME NEW d \in Deployments \ listed, d \notin listed'
             PROVE  container'[d] \in {"none", "created"}
  <2>1. listed \subseteq listed'
    BY DEF Next, CreateDeployment, CreatorStep, CleanupStep, ConnectorStep, PausePassStep,
       CreateUnprivilegedUser, GetUserInfo, CreateNetwork, CreateContainer,
       PartialCleanupNetwork, PartialCleanupUser, InsertDeployment, StartCreated, MarkRunning,
       CleanupStop, CleanupRemove, CleanupDeploymentNetwork, CleanupUser, DropRow,
       DeleteRequest, EnsureContainerReady, Inspect, RestartInspected, ConfirmReady,
       DeleteSchedule, PauseSchedule, PauseStop, PauseWrite, UpdateLastInteraction,
       TimeoutElapses, GracefulShutdown, Exit, Crash, Restart, vars, history
  <2> QED
    BY <2>1 DEF UnlistedNeverRan
<1>1. HostTypeOK /\ container[d] \in {"none", "created"} /\ FramesOwn
  BY DEF TypeOK, UnlistedNeverRan, Ownership
<1>2. CASE UNCHANGED host
  BY <1>1, <1>2, CallsNeverRun
<1>3. ASSUME NEW f \in Frames, StartCreated(f) \/ RestartInspected(f)
      PROVE  container'[d] \in {"none", "created"}
  <2>1. target[f] # d
    BY <1>1, <1>3 DEF StartCreated, RestartInspected, FramesOwn, OtherSteps
  <2> QED
    BY <1>1, <1>3, <2>1, CallsNeverRun DEF StartCreated, RestartInspected
<1>4. ASSUME NEW f \in Creators, CreateDeployment(f) \/ CreatorStep(f)
      PROVE  container'[d] \in {"none", "created"}
  BY <1>1, <1>2, <1>3, <1>4, CallsNeverRun
  DEF CreateDeployment, CreatorStep, CreateUnprivilegedUser, CreateNetwork, CreateContainer,
      GetUserInfo, PartialCleanupNetwork, PartialCleanupUser, InsertDeployment, MarkRunning,
      Frames
<1>5. ASSUME NEW f, CleanupStop(f) \/ PauseStop(f) PROVE container'[d] \in {"none", "created"}
  <2>1. PICK graceful, res : StopContainer(target[f], graceful, res)
    BY <1>5 DEF CleanupStop, PauseStop
  <2> QED
    BY <1>1, <2>1 DEF HostTypeOK, StopContainer, SetContainer, Rejects, host
<1>6. ASSUME NEW f \in Frames, CleanupStep(f) PROVE container'[d] \in {"none", "created"}
  BY <1>1, <1>2, <1>6, <1>5, CallsNeverRun
  DEF CleanupStep, CleanupRemove, CleanupDeploymentNetwork, CleanupUser, DropRow
<1>7. ASSUME NEW f \in Frames,
             \/ DeleteRequest(f) \/ EnsureContainerReady(f) \/ ConnectorStep(f)
             \/ DeleteSchedule(f) \/ PauseSchedule(f) \/ PausePassStep(f)
      PROVE  container'[d] \in {"none", "created"}
  BY <1>1, <1>2, <1>3, <1>7, <1>5, CallsNeverRun
  DEF DeleteRequest, EnsureContainerReady, ConnectorStep, Inspect, ConfirmReady,
      DeleteSchedule, PauseSchedule, PausePassStep, PauseWrite
<1> QED
  BY <1>1, <1>2, <1>4, <1>6, <1>7, CallsNeverRun
  DEF Next, UpdateLastInteraction, TimeoutElapses, GracefulShutdown, Exit, Crash, Restart,
      vars, Frames

\* Nothing runs that was never recorded.
THEOREM NothingRunsUnrecorded == Spec => []UnlistedNeverRan
<1>1. Init => UnlistedNeverRan
  BY DEF Init, HostInit, UnlistedNeverRan
<1>2. TypeOK /\ Ownership /\ UnlistedNeverRan /\ [Next]_vars => UnlistedNeverRan'
  BY UnlistedStep
<1> QED
  BY <1>1, <1>2, OwnershipInvariant, PTL DEF Spec

-----------------------------------------------------------------------------
(* Silent deletions *)

\* SilentDeletionIsComplete, of one frame.
SilentAt(f) ==
  ~warned[f] =>
    /\ pc[f] \in {"removeNetwork", "userdel", "dropRow", "swept"} =>
         container[target[f]] = "none"
    /\ pc[f] \in {"userdel", "dropRow", "swept"} => ~network[target[f]]
    /\ pc[f] \in {"dropRow", "swept"} => ~user[target[f]]

\* A frame that does not move stays complete, whatever the others do.
LEMMA SilentKept ==
  ASSUME TypeOK, Ownership, [Next]_vars, NEW f \in Frames, SilentAt(f),
         pc'[f] = pc[f], target'[f] = target[f], warned'[f] = warned[f]
  PROVE  SilentAt(f)'
<1>1. CASE pc[f] \in {"removeNetwork", "userdel", "dropRow", "swept"}
  <2>1. target[f] \in listed
    BY <1>1 DEF Ownership, FramesOwn, CleanupSteps
  <2> QED
    BY <1>1, <2>1, ListedNeverReborn DEF NeverReborn, SilentAt
<1>2. CASE pc[f] \notin {"removeNetwork", "userdel", "dropRow", "swept"}
  BY <1>2 DEF SilentAt
<1> QED
  BY <1>1, <1>2

\* A step moves one frame at most, unless it shuts down or restarts the process.
Alone(f) ==
  \A g \in Frames \ {f} : pc'[g] = pc[g] /\ target'[g] = target[g] /\ warned'[g] = warned[g]

LEMMA MovesAlone ==
  ASSUME FramesTypeOK, NEW f, NEW label, NEW d, NEW logs,
         Enter(f, label, d) \/ Goto(f, label, logs) \/ Return(f) \/ BeginDelete(f, d)
  PROVE  Alone(f)
BY DEF FramesTypeOK, Enter, Goto, Return, BeginDelete, Alone

\* Where a moved frame is complete because it has nothing to show yet.
Early(f) ==
  \/ pc[f] \notin {"removeNetwork", "userdel", "dropRow", "swept"}
  \/ warned[f]

LEMMA EarlyMoves ==
  ASSUME FramesTypeOK, NEW f \in Frames,
         NEW label \in Labels \ {"removeNetwork", "userdel", "dropRow", "swept"},
         NEW d, NEW logs,
         Enter(f, label, d) \/ Goto(f, label, logs) \/ Return(f) \/ BeginDelete(f, d)
  PROVE  Early(f)'
BY DEF FramesTypeOK, Enter, Goto, Return, BeginDelete, Early

LEMMA SilentStep ==
  ASSUME "removeSocket" \notin Faults, TypeOK, Ownership,
         \A f \in Frames : SilentAt(f), [Next]_vars
  PROVE  \A f \in Frames : SilentAt(f)'
<1>t. FramesTypeOK /\ HostTypeOK
  BY DEF TypeOK
<1>1. ASSUME NEW f \in Frames, Alone(f), SilentAt(f)' \/ Early(f)'
      PROVE  \A g \in Frames : SilentAt(g)'
  <2>1. SilentAt(f)'
    BY <1>1 DEF SilentAt, Early
  <2> QED
    BY <1>1, <2>1, SilentKept DEF Alone
<1>2. ASSUME NEW f \in Frames, CleanupStop(f) PROVE \A g \in Frames : SilentAt(g)'
  BY <1>t, <1>1, <1>2, MovesAlone DEF CleanupStop, Goto, Early, FramesTypeOK
<1>3. ASSUME NEW f \in Frames, CleanupRemove(f) PROVE \A g \in Frames : SilentAt(g)'
  <2>1. target[f] \in Deployments
    BY <1>t, <1>3 DEF CleanupRemove, FramesTypeOK
  <2>2. Alone(f)
    BY <1>t, <1>3, MovesAlone DEF CleanupRemove
  <2>3. PICK res \in {"ok", "409", "500"} :
          /\ RemoveContainer(target[f], res)
          /\ Goto(f, "removeNetwork", res # "ok" /\ ~CanIgnoreError(res))
    BY <1>3 DEF CleanupRemove
  <2>4. res = "ok" => container'[target[f]] = "none"
    BY <1>t, <2>1, <2>3 DEF RemoveContainer, SetContainer, Rejects, Fails, HostTypeOK
  <2>5. SilentAt(f)'
    BY <1>t, <2>3, <2>4 DEF Goto, CanIgnoreError, SilentAt, FramesTypeOK
  <2> QED
    BY <1>1, <2>2, <2>5
<1>4. ASSUME NEW f \in Frames, CleanupDeploymentNetwork(f) PROVE \A g \in Frames : SilentAt(g)'
  <2>1. target[f] \in listed /\ pc[f] = "removeNetwork"
    BY <1>4 DEF CleanupDeploymentNetwork, Ownership, FramesOwn, CleanupSteps
  <2>2. Alone(f)
    BY <1>t, <1>4, MovesAlone DEF CleanupDeploymentNetwork
  <2>3. PICK res \in {"ok", "warned", "500"} :
          CleanupNetwork(target[f], res) /\ Goto(f, "userdel", res # "ok")
    BY <1>4 DEF CleanupDeploymentNetwork
  <2>4. res = "ok" => ~network'[target[f]]
    BY <1>t, <2>1, <2>3 DEF CleanupNetwork, Rejects, HostTypeOK, TypeOK
  <2>5. NeverReborn(target[f])
    BY <2>1, ListedNeverReborn
  <2>6. SilentAt(f)'
    BY <1>t, <2>1, <2>3, <2>4, <2>5 DEF Goto, SilentAt, NeverReborn, FramesTypeOK
  <2> QED
    BY <1>1, <2>2, <2>6
<1>5. ASSUME NEW f \in Frames, CleanupUser(f) PROVE \A g \in Frames : SilentAt(g)'
  <2>1. target[f] \in listed /\ pc[f] = "userdel"
    BY <1>5 DEF CleanupUser, Ownership, FramesOwn, CleanupSteps
  <2>2. Alone(f)
    BY <1>t, <1>5, MovesAlone DEF CleanupUser
  <2>3. PICK res \in {"ok", "500"} :
          /\ DeleteUser(target[f], res)
          /\ Goto(f, IF f \in Sweeps THEN "swept" ELSE "dropRow", res # "ok")
    BY <1>5 DEF CleanupUser
  <2>4. res = "ok" => ~user'[target[f]]
    BY <1>t, <2>1, <2>3 DEF DeleteUser, Rejects, HostTypeOK, TypeOK
  <2>5. NeverReborn(target[f])
    BY <2>1, ListedNeverReborn
  <2>6. SilentAt(f)'
    BY <1>t, <2>1, <2>3, <2>4, <2>5 DEF Goto, SilentAt, NeverReborn, FramesTypeOK
  <2> QED
    BY <1>1, <2>2, <2>6
<1>6. ASSUME NEW f \in Frames, DropRow(f) PROVE \A g \in Frames : SilentAt(g)'
  <2>1. Return(f) \/ \E d : BeginDelete(f, d)
    BY <1>6 DEF DropRow, DeleteLoop
  <2> QED
    BY <1>t, <1>1, <2>1, MovesAlone, EarlyMoves DEF Labels
<1>7. ASSUME NEW f \in Creators, CreateDeployment(f) \/ CreatorStep(f)
      PROVE  \A g \in Frames : SilentAt(g)'
  <2>1. \/ Return(f)
        \/ \E label \in ProvisionSteps \cup OtherSteps : \E d, logs :
             Enter(f, label, d) \/ Goto(f, label, logs)
    BY <1>7
    DEF CreateDeployment, CreatorStep, CreateUnprivilegedUser, CreateNetwork,
        CreateContainer, GetUserInfo, PartialCleanupNetwork, PartialCleanupUser,
        InsertDeployment, StartCreated, MarkRunning, ProvisionSteps, OtherSteps
  <2>2. f \in Frames
    BY DEF Frames
  <2>3. CASE Return(f)
    BY <1>t, <1>1, <2>2, <2>3, MovesAlone, EarlyMoves DEF Labels
  <2>4. CASE \E label \in ProvisionSteps \cup OtherSteps : \E d, logs :
               Enter(f, label, d) \/ Goto(f, label, logs)
    <3>1. PICK label, d, logs :
            /\ label \in ProvisionSteps \cup OtherSteps
            /\ Enter(f, label, d) \/ Goto(f, label, logs)
      BY <2>4
    <3>2. label \in Labels \ {"removeNetwork", "userdel", "dropRow", "swept"}
      BY <3>1 DEF Labels, ProvisionSteps, OtherSteps
    <3>3. Alone(f)
      BY <1>t, <3>1, MovesAlone
    <3>4. Early(f)'
      BY <1>t, <2>2, <3>1, <3>2, EarlyMoves
    <3> QED
      BY <1>1, <2>2, <3>3, <3>4
  <2> QED
    BY <2>1, <2>3, <2>4
<1>8. ASSUME NEW f \in Deleters \cup Connectors \cup DeletePasses \cup PausePasses,
             \/ DeleteRequest(f) \/ EnsureContainerReady(f) \/ ConnectorStep(f)
             \/ DeleteSchedule(f) \/ PauseSchedule(f) \/ PausePassStep(f)
      PROVE  \A g \in Frames : SilentAt(g)'
  <2>1. \/ Return(f)
        \/ \E d : BeginDelete(f, d)
        \/ \E label \in OtherSteps : \E d, logs : Enter(f, label, d) \/ Goto(f, label, logs)
    BY <1>8
    DEF DeleteRequest, EnsureContainerReady, ConnectorStep, Inspect, RestartInspected,
        ConfirmReady, DeleteSchedule, DeleteLoop, PauseSchedule, PausePassStep, PauseLoop,
        PauseThrows, PauseStop, PauseWrite, OtherSteps
  <2>2. f \in Frames
    BY DEF Frames
  <2>3. CASE Return(f) \/ \E d : BeginDelete(f, d)
    BY <1>t, <1>1, <2>2, <2>3, MovesAlone, EarlyMoves DEF Labels
  <2>4. CASE \E label \in OtherSteps : \E d, logs :
               Enter(f, label, d) \/ Goto(f, label, logs)
    <3>1. PICK label, d, logs :
            /\ label \in OtherSteps
            /\ Enter(f, label, d) \/ Goto(f, label, logs)
      BY <2>4
    <3>2. label \in Labels \ {"removeNetwork", "userdel", "dropRow", "swept"}
      BY <3>1 DEF Labels, OtherSteps
    <3>3. Alone(f)
      BY <1>t, <3>1, MovesAlone
    <3>4. Early(f)'
      BY <1>t, <2>2, <3>1, <3>2, EarlyMoves
    <3> QED
      BY <1>1, <2>2, <3>3, <3>4
  <2> QED
    BY <2>1, <2>3, <2>4
<1>9. ASSUME UNCHANGED frames PROVE \A g \in Frames : SilentAt(g)'
  BY <1>9, SilentKept DEF frames
<1>10. ASSUME NEW s \in {"graceful", "forced"}, GracefulShutdown(s)
       PROVE  \A g \in Frames : SilentAt(g)'
  <2>1. ASSUME NEW g \in Frames PROVE SilentAt(g)'
    <3>1. \/ pc'[g] = pc[g] /\ target'[g] = target[g] /\ warned'[g] = warned[g]
          \/ pc'[g] = "stop"
      BY <1>10 DEF GracefulShutdown
    <3> QED
      BY <3>1, SilentKept DEF SilentAt
  <2> QED
    BY <2>1
<1>11. ASSUME Restart PROVE \A g \in Frames : SilentAt(g)'
  BY <1>11 DEF Restart, FreshMemory, SilentAt
<1> QED
  BY <1>2, <1>3, <1>4, <1>5, <1>6, <1>7, <1>8, <1>9, <1>10, <1>11
  DEF Next, CleanupStep, UpdateLastInteraction, TimeoutElapses, Exit, Crash, vars

\* A deletion that logged nothing has removed everything, as long as the daemon's
\* socket does not fail: that error is hidden by removeContainer.
THEOREM SilentDeletionsAreComplete ==
  ASSUME "removeSocket" \notin Faults
  PROVE  Spec => []SilentDeletionIsComplete
<1>1. Init => \A f \in Frames : SilentAt(f)
  BY DEF Init, FreshMemory, SilentAt
<1>2. TypeOK /\ Ownership /\ (\A f \in Frames : SilentAt(f)) /\ [Next]_vars
        => (\A f \in Frames : SilentAt(f))'
  BY SilentStep
<1>3. (\A f \in Frames : SilentAt(f)) => SilentDeletionIsComplete
  BY DEF SilentAt, SilentDeletionIsComplete
<1> QED
  BY <1>1, <1>2, <1>3, OwnershipInvariant, PTL DEF Spec

-----------------------------------------------------------------------------
(* The locks of the cron jobs *)

\* A pass that is under way holds its lock, and nobody else is.
Locks ==
  /\ \A p \in DeletePasses : pc[p] # "idle" => deleteScheduleLocked
  /\ \A p \in PausePasses : pc[p] # "idle" => pauseScheduleLocked
  /\ OnePassAtATime

Passes == DeletePasses \cup PausePasses

\* What every step but those of the passes' loops keeps.
LEMMA LocksKept ==
  ASSUME Locks,
         UNCHANGED <<deleteScheduleLocked, pauseScheduleLocked>>,
         \A p \in Passes : pc[p] = "idle" => pc'[p] = "idle"
  PROVE  Locks'
BY DEF Locks, OnePassAtATime, Passes

LEMMA MoversKeepLocks ==
  ASSUME FramesTypeOK, Locks, NEW f, Alone(f),
         UNCHANGED <<deleteScheduleLocked, pauseScheduleLocked>>,
         f \in Passes => pc[f] # "idle" \/ pc'[f] = "idle"
  PROVE  Locks'
<1>1. ASSUME NEW p \in Passes, pc[p] = "idle" PROVE pc'[p] = "idle"
  <2>1. p \in Frames
    BY DEF Passes, Frames
  <2> QED
    BY <1>1, <2>1 DEF Alone
<1> QED
  BY <1>1, LocksKept

\* A loop leaves its pass under way with the lock, or over without it.
LEMMA DeleteLoopLocks ==
  ASSUME TypeOK, Locks, NEW p \in DeletePasses, NEW todo, NEW fails, NEW table,
         DeleteLoop(p, todo, fails, table), UNCHANGED pauseScheduleLocked,
         \A q \in DeletePasses \ {p} : pc[q] = "idle"
  PROVE  Locks'
<1>0. FramesTypeOK /\ p \in Frames
  BY DEF TypeOK, Frames
<1>1. Return(p) \/ \E d : BeginDelete(p, d)
  BY DEF DeleteLoop
<1>2. Alone(p)
  BY <1>0, <1>1, MovesAlone
<1>3. pc'[p] # "idle" => deleteScheduleLocked'
  <2>1. CASE Return(p)
    BY <1>0, <2>1 DEF Return, Enter, FramesTypeOK
  <2>2. CASE ~Return(p)
    BY <2>2 DEF DeleteLoop
  <2> QED
    BY <2>1, <2>2
<1>4. \A q \in DeletePasses \ {p} : pc'[q] = "idle"
  BY <1>2 DEF Alone, Frames
<1>5. \A q \in PausePasses : pc'[q] = pc[q]
  BY <1>2, ConstantsAssumption DEF Alone, Frames
<1> QED
  BY <1>3, <1>4, <1>5 DEF Locks, OnePassAtATime

LEMMA PauseLoopLocks ==
  ASSUME TypeOK, Locks, NEW p \in PausePasses, NEW todo, NEW fails,
         PauseLoop(p, todo, fails) \/ PauseThrows(p), UNCHANGED deleteScheduleLocked,
         \A q \in PausePasses \ {p} : pc[q] = "idle"
  PROVE  Locks'
<1>0. FramesTypeOK /\ p \in Frames
  BY DEF TypeOK, Frames
<1>1. Return(p) \/ \E d : Enter(p, "pauseStop", d)
  BY DEF PauseLoop, PauseThrows
<1>2. Alone(p)
  BY <1>0, <1>1 DEF Return, Enter, Alone, FramesTypeOK
<1>3. pc'[p] # "idle" => pauseScheduleLocked'
  <2>1. CASE Return(p)
    BY <1>0, <2>1 DEF Return, Enter, FramesTypeOK
  <2>2. CASE ~Return(p)
    BY <2>2 DEF PauseLoop, PauseThrows
  <2> QED
    BY <2>1, <2>2
<1>4. \A q \in PausePasses \ {p} : pc'[q] = "idle"
  BY <1>2 DEF Alone, Frames
<1>5. \A q \in DeletePasses : pc'[q] = pc[q]
  BY <1>2, ConstantsAssumption DEF Alone, Frames
<1> QED
  BY <1>3, <1>4, <1>5 DEF Locks, OnePassAtATime

LEMMA LocksStep ==
  ASSUME TypeOK, Locks, [Next]_vars
  PROVE  Locks'
<1>t. FramesTypeOK
  BY DEF TypeOK
<1>1. ASSUME NEW f \in Creators, CreateDeployment(f) \/ CreatorStep(f)
      PROVE  Locks'
  <2>1. UNCHANGED schedules
    BY <1>1
    DEF CreateDeployment, CreatorStep, CreateUnprivilegedUser, CreateNetwork,
        CreateContainer, GetUserInfo, PartialCleanupNetwork, PartialCleanupUser,
        InsertDeployment, StartCreated, MarkRunning
  <2>2. Return(f) \/ \E label, d, logs : Enter(f, label, d) \/ Goto(f, label, logs)
    BY <1>1
    DEF CreateDeployment, CreatorStep, CreateUnprivilegedUser, CreateNetwork,
        CreateContainer, GetUserInfo, PartialCleanupNetwork, PartialCleanupUser,
        InsertDeployment, StartCreated, MarkRunning
  <2>3. Alone(f)
    BY <1>t, <2>2, MovesAlone
  <2>4. f \notin Passes
    BY ConstantsAssumption DEF Passes
  <2> QED
    BY <1>t, <2>1, <2>3, <2>4, MoversKeepLocks DEF schedules
<1>2. ASSUME NEW f \in Deleters \cup Connectors,
             DeleteRequest(f) \/ EnsureContainerReady(f) \/ ConnectorStep(f)
      PROVE  Locks'
  <2>1. UNCHANGED schedules
    BY <1>2 DEF DeleteRequest, EnsureContainerReady, ConnectorStep, Inspect,
                RestartInspected, ConfirmReady
  <2>2. \/ Return(f)
        \/ \E d : BeginDelete(f, d)
        \/ \E label, d, logs : Enter(f, label, d) \/ Goto(f, label, logs)
    BY <1>2 DEF DeleteRequest, EnsureContainerReady, ConnectorStep, Inspect,
                RestartInspected, ConfirmReady
  <2>3. Alone(f)
    BY <1>t, <2>2, MovesAlone
  <2>4. f \notin Passes
    BY ConstantsAssumption DEF Passes
  <2> QED
    BY <1>t, <2>1, <2>3, <2>4, MoversKeepLocks DEF schedules
<1>3. ASSUME NEW f \in Frames,
             \/ CleanupStop(f) \/ CleanupRemove(f)
             \/ CleanupDeploymentNetwork(f) \/ CleanupUser(f) \/ PauseStop(f)
      PROVE  Locks'
  <2>1. UNCHANGED schedules /\ pc[f] # "idle"
    BY <1>3 DEF CleanupStop, CleanupRemove, CleanupDeploymentNetwork, CleanupUser, PauseStop
  <2>2. \E label, logs : Goto(f, label, logs)
    BY <1>3 DEF CleanupStop, CleanupRemove, CleanupDeploymentNetwork, CleanupUser, PauseStop
  <2>3. Alone(f)
    BY <1>t, <2>2, MovesAlone
  <2> QED
    BY <1>t, <2>1, <2>3, MoversKeepLocks DEF schedules
<1>4. ASSUME NEW f \in Frames, DropRow(f) PROVE Locks'
  <2>1. pc[f] = "dropRow" /\ UNCHANGED pauseScheduleLocked
    BY <1>4 DEF DropRow
  <2>2. CASE f \in DeletePasses
    <3>1. DeleteLoop(f, queue[f], deletionFails', row')
      BY <1>4, <2>2 DEF DropRow
    <3>2. \A q \in DeletePasses \ {f} : pc[q] = "idle"
      BY <2>1, <2>2 DEF Locks, OnePassAtATime
    <3> QED
      BY <2>1, <2>2, <3>1, <3>2, DeleteLoopLocks
  <2>3. CASE f \notin DeletePasses
    <3>1. Return(f) /\ UNCHANGED deleteScheduleLocked
      BY <1>4, <2>3 DEF DropRow
    <3>2. Alone(f)
      BY <1>t, <3>1, MovesAlone
    <3> QED
      BY <1>t, <2>1, <3>1, <3>2, MoversKeepLocks
  <2> QED
    BY <2>2, <2>3
<1>5. ASSUME NEW p \in DeletePasses, DeleteSchedule(p) PROVE Locks'
  <2>1. ~deleteScheduleLocked /\ UNCHANGED pauseScheduleLocked
    BY <1>5 DEF DeleteSchedule
  <2>2. \A q \in DeletePasses : pc[q] = "idle"
    BY <2>1 DEF Locks
  <2>3. DeleteLoop(p, DueForDeletion, deletionFails, row)
    BY <1>5 DEF DeleteSchedule
  <2> QED
    BY <2>1, <2>2, <2>3, DeleteLoopLocks
<1>6. ASSUME NEW p \in PausePasses, PauseSchedule(p) PROVE Locks'
  <2>1. ~pauseScheduleLocked /\ UNCHANGED deleteScheduleLocked
    BY <1>6 DEF PauseSchedule
  <2>2. \A q \in PausePasses : pc[q] = "idle"
    BY <2>1 DEF Locks
  <2>3. PauseLoop(p, DueForPause, pauseFails) \/ PauseThrows(p)
    BY <1>6 DEF PauseSchedule
  <2> QED
    BY <2>1, <2>2, <2>3, PauseLoopLocks
<1>7. ASSUME NEW p \in PausePasses, PauseWrite(p) PROVE Locks'
  <2>1. pc[p] = "pauseWrite" /\ UNCHANGED deleteScheduleLocked
    BY <1>7 DEF PauseWrite
  <2>2. \A q \in PausePasses \ {p} : pc[q] = "idle"
    BY <2>1 DEF Locks, OnePassAtATime
  <2>3. PauseLoop(p, queue[p], pauseFails') \/ PauseThrows(p)
    BY <1>7 DEF PauseWrite
  <2> QED
    BY <2>1, <2>2, <2>3, PauseLoopLocks
<1>8. ASSUME UNCHANGED <<frames, schedules>> PROVE Locks'
  BY <1>8, LocksKept DEF frames, schedules
<1>9. ASSUME NEW s \in {"graceful", "forced"}, GracefulShutdown(s) PROVE Locks'
  <2>1. UNCHANGED schedules
    BY <1>9 DEF GracefulShutdown
  <2>2. \A p \in Passes : pc'[p] = pc[p]
    BY <1>9, ConstantsAssumption DEF GracefulShutdown, Passes, Sweeps, Frames
  <2> QED
    BY <2>1, <2>2, LocksKept DEF schedules
<1>10. ASSUME Restart PROVE Locks'
  <2>1. \A p \in Passes : pc'[p] = "idle"
    BY <1>10 DEF Restart, FreshMemory, Passes, Frames
  <2> QED
    BY <2>1 DEF Locks, OnePassAtATime, Passes
<1> QED
  BY <1>1, <1>2, <1>3, <1>4, <1>5, <1>6, <1>7, <1>8, <1>9, <1>10
  DEF Next, CleanupStep, PausePassStep, UpdateLastInteraction, TimeoutElapses, Exit, Crash,
      vars, Frames

\* No two passes of a cron job overlap: the lock survives every fault.
THEOREM PassesNeverOverlap == Spec => []OnePassAtATime
<1>1. Init => Locks
  BY DEF Init, FreshMemory, Locks, OnePassAtATime, Frames
<1>2. TypeOK /\ Locks /\ [Next]_vars => Locks'
  BY LocksStep
<1>3. Locks => OnePassAtATime
  BY DEF Locks
<1> QED
  BY <1>1, <1>2, <1>3, TypeCorrect, PTL DEF Spec

=============================================================================
