--------------------------- MODULE DeploymentService ---------------------------
(***************************************************************************)
(* The life of deployments: DeploymentService with the HTTP handlers and   *)
(* cron jobs that call it, BaseMcpServerService.ensureContainerReady, the  *)
(* Deployment table, and the process they run in.                          *)
(*                                                                         *)
(* Node runs one callback at a time and better-sqlite3 is synchronous, so  *)
(* an async function runs without interruption from one awaited Docker or  *)
(* child-process call to the next.  A `frame' is one running invocation:   *)
(* pc[f] names the call it is waiting on, target[f] the deployment it      *)
(* works on, warned[f] whether it has logged an error since it began.  The *)
(* row writes that follow an answer (insert, markRunning, dropRow,         *)
(* pauseWrite) have labels of their own, so that a crash can come before   *)
(* them; this allows a little more interleaving than the event loop does.  *)
(***************************************************************************)
EXTENDS DockerHost

CONSTANTS
  Creators,      \* frames of POST   /api/deployment
  Deleters,      \* frames of DELETE /api/deployment/:id
  Connectors,    \* frames of MCP requests, as far as ensureContainerReady goes
  DeletePasses,  \* frames of the deleteSchedule cron job
  PausePasses,   \* frames of the pauseSchedule cron job
  Bodies,        \* request bodies: [autoStart: BOOLEAN, timers: SUBSET Timers]
  None           \* no deployment, and no row

Timers == {"pause", "delete"}

\* pause_at / delete_at: `timers' are the configured ones, `due' those that lie
\* in the past.
Rows == [status : {"running", "stopped"}, timers : SUBSET Timers, due : SUBSET Timers]

\* A shutdown cleans every deployment at once; its cleanup of d is frame d.
Sweeps == Deployments
Frames ==
  Creators \cup Deleters \cup Connectors \cup DeletePasses \cup PausePasses
    \cup Sweeps

ASSUME ConstantsAssumption ==
  /\ None \notin Deployments \cup Rows
  /\ Bodies \subseteq [autoStart : BOOLEAN, timers : SUBSET Timers]
  /\ Deployments \cap (Creators \cup Deleters \cup Connectors
                         \cup DeletePasses \cup PausePasses) = {}
  /\ Creators \cap (Deleters \cup Connectors \cup DeletePasses \cup PausePasses) = {}
  /\ Deleters \cap (Connectors \cup DeletePasses \cup PausePasses) = {}
  /\ Connectors \cap (DeletePasses \cup PausePasses) = {}
  /\ DeletePasses \cap PausePasses = {}

VARIABLES
  row,                   \* the Deployment table: None, or a row
  pc, target, warned,    \* the frames
  signal,                \* isShuttingDown, and which kind of signal set it
  deleteScheduleLocked, deletionFails,
  pauseScheduleLocked, pauseFails,
  queue,                 \* what a pass has still to visit of the rows it read
  minted,                \* history: the ids generated so far
  listed                 \* history: the ids that have had a row

frames == <<pc, target, warned>>
schedules ==
  <<deleteScheduleLocked, deletionFails, pauseScheduleLocked, pauseFails, queue>>
history == <<minted, listed>>
vars == <<host, row, frames, signal, schedules, history>>

ProvisionSteps ==
  {"useradd", "id", "createNetwork", "createContainer", "insert",
   "undoNetwork", "undoUser"}
CleanupSteps == {"stop", "remove", "removeNetwork", "userdel", "dropRow", "swept"}
OtherSteps ==
  {"start", "markRunning", "inspect", "restart", "confirm", "pauseStop", "pauseWrite"}
Labels == {"idle"} \cup ProvisionSteps \cup CleanupSteps \cup OtherSteps

FramesTypeOK ==
  /\ pc \in [Frames -> Labels]
  /\ target \in [Frames -> Deployments \cup {None}]
  /\ warned \in [Frames -> BOOLEAN]
  /\ \A f \in Frames : pc[f] # "idle" => target[f] \in Deployments

SchedulesTypeOK ==
  /\ deleteScheduleLocked \in BOOLEAN
  /\ deletionFails \subseteq Deployments
  /\ pauseScheduleLocked \in BOOLEAN
  /\ pauseFails \subseteq Deployments
  /\ queue \in [DeletePasses \cup PausePasses -> SUBSET Deployments]

TableTypeOK == row \in [Deployments -> Rows \cup {None}]

TypeOK ==
  /\ HostTypeOK
  /\ FramesTypeOK
  /\ SchedulesTypeOK
  /\ TableTypeOK
  /\ signal \in {"none", "graceful", "forced"}
  /\ minted \subseteq Deployments
  /\ listed \subseteq Deployments

\* What a fresh process holds in memory.
FreshMemory ==
  [pc |-> [f \in Frames |-> "idle"],
   target |-> [f \in Frames |-> None],
   warned |-> [f \in Frames |-> FALSE],
   queue |-> [p \in DeletePasses \cup PausePasses |-> {}]]

Init ==
  /\ HostInit
  /\ row = [d \in Deployments |-> None]
  /\ pc = FreshMemory.pc
  /\ target = FreshMemory.target
  /\ warned = FreshMemory.warned
  /\ signal = "none"
  /\ deleteScheduleLocked = FALSE
  /\ deletionFails = {}
  /\ pauseScheduleLocked = FALSE
  /\ pauseFails = {}
  /\ queue = FreshMemory.queue
  /\ minted = {}
  /\ listed = {}

-----------------------------------------------------------------------------
(* Frames and rows *)

HasRow(d) == row[d] # None

Enter(f, label, d) ==
  /\ pc' = [pc EXCEPT ![f] = label]
  /\ target' = [target EXCEPT ![f] = d]
  /\ warned' = [warned EXCEPT ![f] = FALSE]

Goto(f, label, logsError) ==
  /\ pc' = [pc EXCEPT ![f] = label]
  /\ warned' = [warned EXCEPT ![f] = @ \/ logsError]
  /\ UNCHANGED target

\* The invocation is over: its request is answered, its pass has ended.
Return(f) == Enter(f, "idle", None)

\* Mistakes the runs must notice: writing Docker's status, an upsert.
SetDockerStatus(d, s) ==
  row' = [row EXCEPT ![d] = IF @ = None THEN None ELSE [@ EXCEPT !.status = container[d]]]
UpsertStatus(d, s) ==
  row' = [row EXCEPT ![d] = [status |-> s, timers |-> {}, due |-> {}]]

\* UPDATE ... SET status WHERE id = d: no effect when the row is gone.
SetStatus(d, s) ==
  row' = [row EXCEPT ![d] = IF @ = None THEN None ELSE [@ EXCEPT !.status = s]]

-----------------------------------------------------------------------------
(* createDeployment *)

\* A mistake the runs must notice: an id is taken again when it has no row.
CreateDeploymentReusingIds(f) ==
  /\ pc[f] = "idle"
  /\ \E d \in {e \in Deployments : ~HasRow(e)} :
       /\ minted' = minted \cup {d}
       /\ Enter(f, "useradd", d)
  /\ UNCHANGED <<host, row, signal, schedules, listed>>

\* pullImageIfNeeded comes first and leaves no state of ours; then the id is
\* generated and useradd is spawned.
CreateDeployment(f) ==
  /\ pc[f] = "idle"
  /\ \E d \in Deployments \ minted :
       /\ minted' = minted \cup {d}
       /\ Enter(f, "useradd", d)
  /\ UNCHANGED <<host, row, signal, schedules, listed>>

CreateUnprivilegedUser(f) ==
  /\ pc[f] = "useradd"
  /\ \E res \in {"ok", "500"} :
       /\ UserAdd(target[f], res)
       /\ IF res = "ok" THEN Goto(f, "id", FALSE) ELSE Return(f)
  /\ UNCHANGED <<row, signal, schedules, history>>

GetUserInfo(f) ==
  /\ pc[f] = "id"
  /\ \/ Goto(f, "createNetwork", FALSE)
     \/ Fails("id") /\ Goto(f, "undoUser", FALSE)
  /\ UNCHANGED <<host, row, signal, schedules, history>>

CreateNetwork(f) ==
  /\ pc[f] = "createNetwork"
  /\ \E res \in {"ok", "500"} :
       /\ CreateIsolatedNetwork(target[f], res)
       /\ Goto(f, IF res = "ok" THEN "createContainer" ELSE "undoUser", FALSE)
  /\ UNCHANGED <<row, signal, schedules, history>>

\* A mistake the runs must notice: the rollback is told to keep the network.
CreateContainerKeepingNetwork(f) ==
  /\ pc[f] = "createContainer"
  /\ \E res \in {"ok", "500"} :
       /\ CreateSecureContainer(target[f], res)
       /\ Goto(f, IF res = "ok" THEN "insert" ELSE "undoUser", FALSE)
  /\ UNCHANGED <<row, signal, schedules, history>>

CreateContainer(f) ==
  /\ pc[f] = "createContainer"
  /\ \E res \in {"ok", "500"} :
       /\ CreateSecureContainer(target[f], res)
       /\ Goto(f, IF res = "ok" THEN "insert" ELSE "undoNetwork", FALSE)
  /\ UNCHANGED <<row, signal, schedules, history>>

\* partialCleanup: when the network list fails it throws before the user's turn.
PartialCleanupNetwork(f) ==
  /\ pc[f] = "undoNetwork"
  /\ \E res \in {"ok", "warned", "500"} :
       /\ CleanupNetwork(target[f], res)
       /\ IF res = "500" THEN Return(f) ELSE Goto(f, "undoUser", res = "warned")
  /\ UNCHANGED <<row, signal, schedules, history>>

PartialCleanupUser(f) ==
  /\ pc[f] = "undoUser"
  /\ \E res \in {"ok", "500"} : DeleteUser(target[f], res)
  /\ Return(f)
  /\ UNCHANGED <<row, signal, schedules, history>>

\* A failing insert is not caught: the request fails and nothing is undone.
InsertDeployment(f) ==
  /\ pc[f] = "insert"
  /\ \/ \E body \in Bodies :
          /\ row' = [row EXCEPT ![target[f]] =
                       [status |-> "stopped", timers |-> body.timers, due |-> {}]]
          /\ listed' = listed \cup {target[f]}
          /\ IF body.autoStart THEN Goto(f, "start", FALSE) ELSE Return(f)
     \/ Fails("insert") /\ UNCHANGED <<row, listed>> /\ Return(f)
  /\ UNCHANGED <<host, signal, schedules, minted>>

StartCreated(f) ==
  /\ pc[f] = "start"
  /\ \E res \in {"ok", "304", "404", "500"} :
       /\ StartContainer(target[f], res)
       /\ IF res = "ok" THEN Goto(f, "markRunning", FALSE) ELSE Return(f)
  /\ UNCHANGED <<row, signal, schedules, history>>

MarkRunning(f) ==
  /\ pc[f] = "markRunning"
  /\ SetStatus(target[f], "running") \/ (Fails("update") /\ UNCHANGED row)
  /\ Return(f)
  /\ UNCHANGED <<host, signal, schedules, history>>

-----------------------------------------------------------------------------
(* cleanupDeployment, deleteDeployment *)

\* A mistake the runs must notice: conflicts are ignored too.
CanIgnoreConflict(res) == res \in {"304", "404", "409"}

CanIgnoreError(res) == res \in {"304", "404"}

\* deleteDeployment up to its first Docker call.  A row that cannot be read
\* skips the cleanup but not the DELETE.
BeginDelete(f, d) ==
  \/ Enter(f, "stop", d)
  \/ /\ Fails("query")
     /\ pc' = [pc EXCEPT ![f] = "dropRow"]
     /\ target' = [target EXCEPT ![f] = d]
     /\ warned' = [warned EXCEPT ![f] = TRUE]

DeleteRequest(f) ==
  /\ pc[f] = "idle"
  /\ \E d \in Deployments : HasRow(d) /\ BeginDelete(f, d)
  /\ UNCHANGED <<host, row, signal, schedules, history>>

CleanupStop(f) ==
  /\ pc[f] = "stop"
  /\ \E res \in {"ok", "304", "404", "409", "500"} :
       /\ StopContainer(target[f], ~(f \in Sweeps /\ signal = "forced"), res)
       /\ Goto(f, "remove", res # "ok" /\ ~CanIgnoreError(res))
  /\ UNCHANGED <<row, signal, schedules, history>>

CleanupRemove(f) ==
  /\ pc[f] = "remove"
  /\ \E res \in {"ok", "409", "500"} :
       /\ RemoveContainer(target[f], res)
       /\ Goto(f, "removeNetwork", res # "ok" /\ ~CanIgnoreError(res))
  /\ UNCHANGED <<row, signal, schedules, history>>

CleanupDeploymentNetwork(f) ==
  /\ pc[f] = "removeNetwork"
  /\ \E res \in {"ok", "warned", "500"} :
       /\ CleanupNetwork(target[f], res)
       /\ Goto(f, "userdel", res # "ok")
  /\ UNCHANGED <<row, signal, schedules, history>>

CleanupUser(f) ==
  /\ pc[f] = "userdel"
  /\ \E res \in {"ok", "500"} :
       /\ DeleteUser(target[f], res)
       /\ Goto(f, IF f \in Sweeps THEN "swept" ELSE "dropRow", res # "ok")
  /\ UNCHANGED <<row, signal, schedules, history>>

\* deleteSchedule's loop over `todo', from its head to the next Docker call.  It
\* skips the deployments that failed before, and deleteDeployment has nothing to
\* do for one whose row is gone from `table'.
DeleteLoop(p, todo, fails, table) ==
  LET work == {d \in todo \ fails : table[d] # None}
  IN \/ /\ \E d \in work :
             /\ BeginDelete(p, d)
             /\ queue' = [queue EXCEPT ![p] = todo \ {d}]
        /\ deleteScheduleLocked' = TRUE
     \/ /\ work = {}
        /\ Return(p)
        /\ queue' = [queue EXCEPT ![p] = {}]
        /\ deleteScheduleLocked' = FALSE

\* A failing DELETE reaches the cron job's catch, or fails the request.
DropRow(f) ==
  /\ pc[f] = "dropRow"
  /\ \/ /\ row' = [row EXCEPT ![target[f]] = None]
        /\ UNCHANGED deletionFails
     \/ /\ Fails("delete")
        /\ deletionFails' = IF f \in DeletePasses THEN deletionFails \cup {target[f]}
                                                  ELSE deletionFails
        /\ UNCHANGED row
  /\ IF f \in DeletePasses
       THEN DeleteLoop(f, queue[f], deletionFails', row')
       ELSE Return(f) /\ UNCHANGED <<deleteScheduleLocked, queue>>
  /\ UNCHANGED <<host, signal, pauseScheduleLocked, pauseFails, history>>

-----------------------------------------------------------------------------
(* ensureContainerReady *)

EnsureContainerReady(f) ==
  /\ pc[f] = "idle"
  /\ \E d \in Deployments : HasRow(d) /\ Enter(f, "inspect", d)
  /\ UNCHANGED <<host, row, signal, schedules, history>>

\* Any inspect error is taken for a container that no longer exists.
Inspect(f) ==
  /\ pc[f] = "inspect"
  /\ \E res \in {"created", "running", "exited", "404", "500"} :
       /\ InspectContainer(target[f], res)
       /\ CASE res \in {"404", "500"} ->
                IF HasRow(target[f]) THEN BeginDelete(f, target[f]) ELSE Return(f)
            [] res = "running" -> Goto(f, "confirm", FALSE)
            [] OTHER -> Goto(f, "restart", FALSE)
  /\ UNCHANGED <<row, signal, schedules, history>>

\* The container is started but the row's status is left as it is.
RestartInspected(f) ==
  /\ pc[f] = "restart"
  /\ \E res \in {"ok", "304", "404", "500"} :
       /\ StartContainer(target[f], res)
       /\ IF res = "ok" THEN Goto(f, "confirm", FALSE) ELSE Return(f)
  /\ UNCHANGED <<row, signal, schedules, history>>

\* The inspections that follow (new status, address) only decide the answer.
ConfirmReady(f) ==
  /\ pc[f] = "confirm"
  /\ Return(f)
  /\ UNCHANGED <<host, row, signal, schedules, history>>

-----------------------------------------------------------------------------
(* updateLastInteraction, and the clock *)

UpdateLastInteraction(d) ==
  /\ HasRow(d)
  /\ row' = [row EXCEPT ![d].due = {}]
  /\ UNCHANGED <<host, frames, signal, schedules, history>>

\* The clock passes pause_at or delete_at.
TimeoutElapses(d) ==
  /\ HasRow(d)
  /\ \E t \in row[d].timers \ row[d].due : row' = [row EXCEPT ![d].due = @ \cup {t}]
  /\ UNCHANGED <<host, frames, signal, schedules, history>>

-----------------------------------------------------------------------------
(* deleteSchedule, pauseSchedule *)

\* A mistake the runs must notice: only stopped deployments are deleted.
DueAndStopped ==
  {d \in Deployments :
     HasRow(d) /\ row[d].status = "stopped" /\ "delete" \in row[d].due}

\* A query that fails is caught and reads nothing.
DueForDeletion == {d \in Deployments : HasRow(d) /\ "delete" \in row[d].due}

DueForPause ==
  {d \in Deployments :
     HasRow(d) /\ row[d].status = "running" /\ "pause" \in row[d].due}

DeleteSchedule(p) ==
  /\ pc[p] = "idle"
  /\ ~deleteScheduleLocked
  /\ DeleteLoop(p, DueForDeletion, deletionFails, row)
  /\ UNCHANGED <<host, row, signal, deletionFails, pauseScheduleLocked,
                 pauseFails, history>>

\* A mistake the runs must notice: the lock is released before the loop is over.
PauseLoopUnlocked(p, todo, fails) ==
  LET work == todo \ fails
  IN /\ \/ \E d \in work :
             /\ Enter(p, "pauseStop", d)
             /\ queue' = [queue EXCEPT ![p] = todo \ {d}]
        \/ work = {} /\ Return(p) /\ queue' = [queue EXCEPT ![p] = {}]
     /\ pauseScheduleLocked' = FALSE

PauseLoop(p, todo, fails) ==
  LET work == todo \ fails
  IN \/ /\ \E d \in work :
             /\ Enter(p, "pauseStop", d)
             /\ queue' = [queue EXCEPT ![p] = todo \ {d}]
        /\ pauseScheduleLocked' = TRUE
     \/ /\ work = {}
        /\ Return(p)
        /\ queue' = [queue EXCEPT ![p] = {}]
        /\ pauseScheduleLocked' = FALSE

\* Nothing catches an error of the query or the update: the pass ends with the
\* lock still held.
PauseThrows(p) ==
  /\ Return(p)
  /\ queue' = [queue EXCEPT ![p] = {}]
  /\ pauseScheduleLocked' = TRUE

PauseSchedule(p) ==
  /\ pc[p] = "idle"
  /\ ~pauseScheduleLocked
  /\ \/ PauseLoop(p, DueForPause, pauseFails)
     \/ Fails("query") /\ PauseThrows(p)
  /\ UNCHANGED <<host, row, signal, deleteScheduleLocked, deletionFails,
                 pauseFails, history>>

\* Here every stop error counts, the 304 of a stopped container included.
PauseStop(p) ==
  /\ pc[p] = "pauseStop"
  /\ \E res \in {"ok", "304", "404", "500"} :
       /\ StopContainer(target[p], TRUE, res)
       /\ Goto(p, "pauseWrite", res # "ok")
  /\ UNCHANGED <<row, signal, schedules, history>>

PauseWrite(p) ==
  /\ pc[p] = "pauseWrite"
  /\ pauseFails' = IF warned[p] THEN pauseFails \cup {target[p]} ELSE pauseFails
  /\ \/ SetStatus(target[p], "stopped") /\ PauseLoop(p, queue[p], pauseFails')
     \/ Fails("update") /\ UNCHANGED row /\ PauseThrows(p)
  /\ UNCHANGED <<host, signal, deleteScheduleLocked, deletionFails, history>>

-----------------------------------------------------------------------------
(* The process: gracefulShutdown, exit, crash *)

\* The HTTP server and the cron jobs go on while the sweeps run.
GracefulShutdown(s) ==
  /\ Fails("signal")
  /\ signal = "none"
  /\ signal' = s
  /\ pc' = [f \in Frames |-> IF f \in Sweeps /\ HasRow(f) THEN "stop" ELSE pc[f]]
  /\ target' = [f \in Frames |-> IF f \in Sweeps /\ HasRow(f) THEN f ELSE target[f]]
  /\ UNCHANGED <<host, row, warned, schedules, history>>

\* The process is gone and `--restart=always' has started a new one: every frame
\* and every in-memory lock and set is lost, the host and the table stay.
Restart ==
  /\ pc' = FreshMemory.pc
  /\ target' = FreshMemory.target
  /\ warned' = FreshMemory.warned
  /\ queue' = FreshMemory.queue
  /\ signal' = "none"
  /\ deleteScheduleLocked' = FALSE
  /\ deletionFails' = {}
  /\ pauseScheduleLocked' = FALSE
  /\ pauseFails' = {}
  /\ UNCHANGED <<host, row, history>>

\* A mistake the runs must notice: one failed cleanup rejects the Promise.all.
ExitWhenClean ==
  /\ signal # "none"
  /\ \A d \in Sweeps : pc[d] = "idle" \/ (pc[d] = "swept" /\ ~warned[d])
  /\ Restart

\* process.exit once every cleanup is over.
Exit ==
  /\ signal # "none"
  /\ \A d \in Sweeps : pc[d] \in {"idle", "swept"}
  /\ Restart

Crash == Fails("crash") /\ Restart

-----------------------------------------------------------------------------
(* Specification *)

CreatorStep(f) ==
  \/ CreateUnprivilegedUser(f) \/ GetUserInfo(f) \/ CreateNetwork(f)
  \/ CreateContainer(f) \/ PartialCleanupNetwork(f) \/ PartialCleanupUser(f)
  \/ InsertDeployment(f) \/ StartCreated(f) \/ MarkRunning(f)

CleanupStep(f) ==
  \/ CleanupStop(f) \/ CleanupRemove(f) \/ CleanupDeploymentNetwork(f)
  \/ CleanupUser(f) \/ DropRow(f)

ConnectorStep(f) == Inspect(f) \/ RestartInspected(f) \/ ConfirmReady(f)

PausePassStep(p) == PauseStop(p) \/ PauseWrite(p)

Next ==
  \/ \E f \in Creators : CreateDeployment(f) \/ CreatorStep(f)
  \/ \E f \in Deleters : DeleteRequest(f)
  \/ \E f \in Connectors : EnsureContainerReady(f) \/ ConnectorStep(f)
  \/ \E p \in DeletePasses : DeleteSchedule(p)
  \/ \E p \in PausePasses : PauseSchedule(p) \/ PausePassStep(p)
  \/ \E f \in Frames : CleanupStep(f)
  \/ \E d \in Deployments : UpdateLastInteraction(d) \/ TimeoutElapses(d)
  \/ \E d \in Deployments : ContainerExits(d) /\ UNCHANGED <<row, frames, signal, schedules, history>>
  \/ \E s \in {"graceful", "forced"} : GracefulShutdown(s)
  \/ Exit
  \/ Crash

Spec == Init /\ [][Next]_vars

\* Docker answers every call, the event loop runs every callback, and each cron
\* job ticks every second.  Requests, timeouts, signals, crashes and a
\* container's own exit need not happen.
Fairness ==
  /\ \A f \in Creators : WF_vars(CreatorStep(f))
  /\ \A f \in Connectors : WF_vars(ConnectorStep(f))
  /\ \A p \in DeletePasses : WF_vars(DeleteSchedule(p))
  /\ \A p \in PausePasses : WF_vars(PauseSchedule(p)) /\ WF_vars(PausePassStep(p))
  /\ \A f \in Frames : WF_vars(CleanupStep(f))
  /\ WF_vars(Exit)

FairSpec == Spec /\ Fairness

-----------------------------------------------------------------------------
(* Properties *)

Provisioning(d) == \E f \in Creators : target[f] = d /\ pc[f] \in ProvisionSteps

\* A cleanup that has logged no error has done its work: past the removal of
\* the container there is no container, past the network's no network, past
\* userdel no user, even though another handler may have deleted or started
\* the same deployment meanwhile (cleanupDeployment's canIgnoreError, and the
\* network removal that only warns).  Not claimed of a daemon whose socket
\* fails, since removeContainer hides that error.
SilentDeletionIsComplete ==
  \A f \in Frames :
    ~warned[f] =>
      /\ pc[f] \in {"removeNetwork", "userdel", "dropRow", "swept"} =>
           container[target[f]] = "none"
      /\ pc[f] \in {"userdel", "dropRow", "swept"} => ~network[target[f]]
      /\ pc[f] \in {"dropRow", "swept"} => ~user[target[f]]

\* Nothing runs that was never recorded: the container of a deployment that has
\* had no row has never been started (createDeployment inserts, then starts).
UnlistedNeverRan ==
  \A d \in Deployments \ listed : container[d] \in {"none", "created"}

\* Rolling back and cleaning up never work on the same deployment: while a
\* creator provisions d no other frame has d as its target.
CleanupNeverMeetsProvisioning ==
  \A f \in Creators, g \in Frames :
    (pc[f] \in ProvisionSteps /\ g # f) => target[g] # target[f]

\* A deleted deployment stays deleted: no late write of a handler or cron job
\* that was under way (status after a start or a stop, the touched timeouts)
\* brings the row back.
RowsNeverReturn ==
  [][\A d \in listed : ~HasRow(d) => ~HasRow(d)']_vars

\* The lock of each cron job holds whatever throws, crashes or overlaps: no two
\* passes of the same job are under way.
OnePassAtATime ==
  \A kind \in {DeletePasses, PausePasses} : \A p, q \in kind :
    pc[p] # "idle" /\ pc[q] # "idle" => p = q

Contract ==
  INSTANCE DeploymentContract WITH
    life <- [d \in Deployments |->
               CASE d \notin minted -> "fresh"
                 [] d \in minted \ listed ->
                      IF Provisioning(d) THEN "provisioning" ELSE "failed"
                 [] d \in listed -> IF HasRow(d) THEN "listed" ELSE "deleted"],
    held <- [d \in Deployments |->
               {a \in {"user", "network", "container"} :
                  CASE a = "user" -> user[d]
                    [] a = "network" -> network[d]
                    [] a = "container" -> container[d] # "none"}]

\* The service keeps the contract: it publishes a deployment only when all its
\* artifacts exist, acquires none afterwards, and never touches what a failed
\* creation left.
ImplementsContract == Contract!Spec

\* A deployment whose delete_at has passed does not stay: it is deleted, or
\* used again, or the process is told to shut down (deleteSchedule's loop).
DueDeploymentsDeleted ==
  \A d \in Deployments :
    LET expired == HasRow(d) /\ "delete" \in row[d].due
    IN expired ~> (~expired \/ signal # "none")

\* A creation that fails before its row is inserted is undone completely,
\* unless the undoing calls fail too or the process goes (partialCleanup).
FailedCreateIsUndone ==
  \A d \in Deployments :
    (\E f \in Creators : target[f] = d /\ pc[f] \in {"undoNetwork", "undoUser"})
      ~> (Gone(d) \/ signal # "none")

\* A shutdown ends, whatever Docker answers to the cleanups it starts.
ShutdownCompletes == (signal # "none") ~> (signal = "none")

-----------------------------------------------------------------------------
(* What the documentation says, and the code does not keep *)

\* "Complete cleanup of all deployment artifacts (containers, networks, users,
\* logs) upon deletion" (README.md): once a deployment's row is gone and no
\* handler is at work on it, nothing of it is left on the machine.
DeletedMeansGone ==
  \A d \in listed :
    (~HasRow(d) /\ \A f \in Frames : target[f] # d) => Gone(d)

\* "will automatically pause the container after this many seconds of
\* inactivity" (db/schema/deployment.ts): a running container whose pause_at has
\* passed does not go on running unused.
IdleDeploymentsPaused ==
  \A d \in Deployments :
    (HasRow(d) /\ "pause" \in row[d].due /\ container[d] = "running")
      ~> (~HasRow(d) \/ "pause" \notin row[d].due \/ container[d] # "running")

=============================================================================
