-------------------------------- MODULE Activity --------------------------------
(***************************************************************************)
(* What keeps a deployment from being paused or deleted, against the       *)
(* clock: updateLastInteraction, the SSE sessions and the job that marks   *)
(* their deployments, and the two passes that select the rows whose time   *)
(* has come.  A behaviour is the life of one process, over a table that    *)
(* earlier ones have left behind; rows are created in DeploymentService.   *)
(*                                                                         *)
(* The clock counts ticks.  Each cron job fires once a second, PerSecond   *)
(* ticks, and its callback runs at most Lateness ticks after that.         *)
(***************************************************************************)
EXTENDS Naturals

CONSTANTS
  Deployments,
  PauseAfter, DeleteAfter,  \* their timers in ticks, 0 for none
  Streams,                  \* SSE sessions
  PerSecond, Lateness,
  Faults,                   \* what may fail: "delete", "stop", "query", "update"
  MaxTime,                  \* bound on the clock
  None

Jobs == {"mark", "delete", "pause"}
Passes == {"delete", "pause"}
Times == Nat \cup {None}
Rows == [status : {"running", "stopped"}, pause_at : Times, delete_at : Times]

ASSUME ConstantsAssumption ==
  /\ PauseAfter \in [Deployments -> Nat]
  /\ DeleteAfter \in [Deployments -> Nat]
  /\ PerSecond \in Nat \ {0} /\ Lateness \in 0 .. PerSecond - 1
  /\ None \notin Nat \cup Deployments \cup Rows

VARIABLES
  now,
  row,       \* the Deployment table: None, or a row
  stream,    \* session_to_deployment_id: the deployment of each open session
  nextRun,   \* when each job fires next
  locked,    \* the jobs whose lock is set
  queue,     \* what each pass has still to visit of the rows it read
  fails,     \* deletionFails, pauseFails
  marked,    \* history: sessions a job has seen since they opened
  missed     \* history: passes that did not get to all due rows when they last
             \* ran, or have not run yet

vars == <<now, row, stream, nextRun, locked, queue, fails, marked, missed>>

TypeOK ==
  /\ now \in Nat
  /\ row \in [Deployments -> Rows \cup {None}]
  /\ stream \in [Streams -> Deployments \cup {None}]
  /\ nextRun \in [Jobs -> Nat]
  /\ locked \subseteq Jobs
  /\ queue \in [Passes -> SUBSET Deployments]
  /\ fails \in [Passes -> SUBSET Deployments]
  /\ \A s \in marked : s \in Streams /\ stream[s] \in Deployments
  /\ missed \subseteq Passes

\* A timer that is set, t ticks long, is somewhere between its start and its end.
Left(t) == IF t = 0 THEN {None} ELSE 0 .. t

RowsOf(d) ==
  [status : {"running", "stopped"},
   pause_at : Left(PauseAfter[d]), delete_at : Left(DeleteAfter[d])]

Init ==
  /\ now = 0
  /\ row \in {f \in [Deployments -> UNION {RowsOf(d) : d \in Deployments}] :
                \A d \in Deployments : f[d] \in RowsOf(d)}
  /\ stream = [s \in Streams |-> None]
  /\ nextRun = [j \in Jobs |-> PerSecond]
  /\ locked = {}
  /\ queue = [p \in Passes |-> {}]
  /\ fails = [p \in Passes |-> {}]
  /\ marked = {}
  /\ missed = Passes

Fails(call) == call \in Faults
HasRow(d) == row[d] # None

-----------------------------------------------------------------------------
(* Use *)

\* From now on; a timer of 0 is none.
Expiry(t) == IF t = 0 THEN None ELSE now + t

\* A mistake the runs must notice: the time of the deletion stays.
TouchedPauseOnly(ds) ==
  [d \in Deployments |->
     IF d \in ds /\ HasRow(d)
     THEN [row[d] EXCEPT !.pause_at = Expiry(PauseAfter[d])]
     ELSE row[d]]

\* updateLastInteraction, of each of ds.
Touched(ds) ==
  [d \in Deployments |->
     IF d \in ds /\ HasRow(d)
     THEN [row[d] EXCEPT !.pause_at = Expiry(PauseAfter[d]),
                         !.delete_at = Expiry(DeleteAfter[d])]
     ELSE row[d]]

\* handleSSE: the session is in the tables.  The row is not touched.
Open(s) ==
  /\ stream[s] = None
  /\ \E d \in Deployments : HasRow(d) /\ stream' = [stream EXCEPT ![s] = d]
  /\ UNCHANGED <<now, row, nextRun, locked, queue, fails, marked, missed>>

CloseStream(s) ==
  /\ stream[s] # None
  /\ stream' = [stream EXCEPT ![s] = None]
  /\ marked' = marked \ {s}
  /\ UNCHANGED <<now, row, nextRun, locked, queue, fails, missed>>

\* A message of a client, over SSE or streamable HTTP, or the streamable GET.
Interact(d) ==
  /\ HasRow(d)
  /\ row' = Touched({d})
  /\ UNCHANGED <<now, stream, nextRun, locked, queue, fails, marked, missed>>

\* DELETE /api/deployment/:id, the end of it.  The sessions stay.
DeleteRequest(d) ==
  /\ HasRow(d)
  /\ row' = [row EXCEPT ![d] = None]
  /\ UNCHANGED <<now, stream, nextRun, locked, queue, fails, marked, missed>>

-----------------------------------------------------------------------------
(* The jobs *)

Fires(j) ==
  /\ nextRun[j] <= now
  /\ nextRun' = [nextRun EXCEPT ![j] = @ + PerSecond]

\* markSessionsAsActive.  An update that throws leaves the lock set.
MarkSessionsAsActive ==
  LET active == {stream[s] : s \in {x \in Streams : stream[x] # None}}
  IN /\ Fires("mark")
     /\ \/ "mark" \in locked /\ UNCHANGED <<row, marked, locked>>
        \/ /\ "mark" \notin locked
           /\ row' = Touched(active)
           /\ marked' = {s \in Streams : stream[s] # None}
           /\ UNCHANGED locked
        \/ /\ "mark" \notin locked /\ Fails("update")
           /\ \E done \in SUBSET active : done # active /\ row' = Touched(done)
           /\ locked' = locked \cup {"mark"}
           /\ UNCHANGED marked
     /\ UNCHANGED <<now, stream, queue, fails, missed>>

\* A mistake the runs must notice: lt instead of lte.
DueBefore(p) ==
  {d \in Deployments :
     HasRow(d) /\ LET at == IF p = "delete" THEN row[d].delete_at ELSE row[d].pause_at
                  IN at # None /\ at < now /\ (p = "pause" => row[d].status = "running")}

\* When pass p has something to do for d, if ever.
DueAt(p, d) ==
  IF ~HasRow(d) THEN None
  ELSE IF p = "delete" THEN row[d].delete_at
  ELSE IF row[d].status = "running" THEN row[d].pause_at
  ELSE None

Due(p) == {d \in Deployments : DueAt(p, d) # None /\ DueAt(p, d) <= now}

\* The callbacks of deleteSchedule and pauseSchedule, up to their first row.  A
\* query that fails reads no rows, or leaves pauseSchedule's lock set.
Select(p) ==
  /\ Fires(p)
  /\ \/ p \in locked /\ missed' = missed \cup {p} /\ UNCHANGED <<locked, queue>>
     \/ /\ p \notin locked
        /\ queue' = [queue EXCEPT ![p] = Due(p) \ fails[p]]
        /\ locked' = IF queue'[p] = {} THEN locked ELSE locked \cup {p}
        /\ missed' = missed \ {p}
     \/ /\ p \notin locked /\ Fails("query")
        /\ locked' = IF p = "pause" THEN locked \cup {p} ELSE locked
        /\ missed' = missed \cup {p}
        /\ UNCHANGED queue
  /\ UNCHANGED <<now, row, stream, fails, marked>>

\* The pass goes on to its next row, or ends.
Advance(p, d) ==
  /\ queue' = [queue EXCEPT ![p] = @ \ {d}]
  /\ locked' = IF queue'[p] = {} THEN locked \ {p} ELSE locked

\* deleteDeployment of a row that was read has ended: however the row has been
\* used since, it is gone, or the deletion has failed.
DeleteSelected(d) ==
  /\ d \in queue["delete"]
  /\ Advance("delete", d)
  /\ \/ row' = [row EXCEPT ![d] = None] /\ UNCHANGED fails
     \/ /\ Fails("delete")
        /\ fails' = [fails EXCEPT !["delete"] = @ \cup {d}]
        /\ UNCHANGED row
  /\ UNCHANGED <<now, stream, nextRun, marked, missed>>

\* A mistake the runs must notice: Docker's name for it.
Paused(d) == IF HasRow(d) THEN [row EXCEPT ![d].status = "paused"] ELSE row

Stopped(d) == IF HasRow(d) THEN [row EXCEPT ![d].status = "stopped"] ELSE row

\* stopContainer has answered, perhaps with an error; the status is written all
\* the same.  If that throws, the pass ends and its lock stays.
PauseSelected(d) ==
  /\ d \in queue["pause"]
  /\ \/ UNCHANGED fails
     \/ Fails("stop") /\ fails' = [fails EXCEPT !["pause"] = @ \cup {d}]
  /\ \/ /\ Advance("pause", d)
        /\ row' = Stopped(d)
        /\ UNCHANGED missed
     \/ /\ Fails("update")
        /\ queue' = [queue EXCEPT !["pause"] = {}]
        /\ missed' = missed \cup {"pause"}
        /\ UNCHANGED <<row, locked>>
  /\ UNCHANGED <<now, stream, nextRun, marked>>

\* No job is more than Lateness ticks late.
Tick ==
  /\ now < MaxTime
  /\ \A j \in Jobs : now < nextRun[j] + Lateness
  /\ now' = now + 1
  /\ UNCHANGED <<row, stream, nextRun, locked, queue, fails, marked, missed>>

Next ==
  \/ \E s \in Streams : Open(s) \/ CloseStream(s)
  \/ \E d \in Deployments :
       Interact(d) \/ DeleteRequest(d) \/ DeleteSelected(d) \/ PauseSelected(d)
  \/ \E p \in Passes : Select(p)
  \/ MarkSessionsAsActive
  \/ Tick

Spec == Init /\ [][Next]_vars

-----------------------------------------------------------------------------
(* Properties *)

\* Longer than the job may take to come back.
Outlasts(t) == t > PerSecond + Lateness

\* A deployment with an SSE session that the job has marked is not due for
\* either pass, in whatever order the three jobs run within a second, if its
\* timer is longer than the time between two marks and no update has failed.
\* (The API's least pauseAfterSeconds is 30, but a deleteAfterSeconds that comes
\* without it is not validated, and may be 1.)
MarkedNeverDue ==
  \A s \in marked : "mark" \notin locked =>
    /\ Outlasts(PauseAfter[stream[s]]) => stream[s] \notin Due("pause")
    /\ Outlasts(DeleteAfter[stream[s]]) => stream[s] \notin Due("delete")

\* Within a second, and the lateness, of its time a row has been selected by its
\* pass or has failed it before, unless the pass has found its lock set or its
\* query or update has failed: the passes skip nothing by themselves.
OverdueAreSelected ==
  \A p \in Passes : \A d \in Deployments :
    DueAt(p, d) # None /\ now >= DueAt(p, d) + PerSecond + Lateness
      => p \in missed \/ d \in queue[p] \cup fails[p]

-----------------------------------------------------------------------------
(* What the documentation says, and the code does not keep *)

\* "Seconds of inactivity before the deployment is deleted."
\* (deployment.controller.types.ts): deleteSchedule deletes no deployment that
\* has an open SSE session.
UsedNotDeleted ==
  [][\A d \in Deployments :
       (d \in queue["delete"] \ queue'["delete"] /\ HasRow(d) /\ ~HasRow(d)')
         => \A s \in Streams : stream[s] # d]_vars

=============================================================================
