----------------------------- MODULE ActivityProofs -----------------------------
(***************************************************************************)
(* What Activity promises for every set of deployments and sessions, every *)
(* timer and every lateness of the jobs.  The invariant behind it ties the *)
(* times in the rows to the time each job fires next.                      *)
(***************************************************************************)
EXTENDS Activity, TLAPS

USE ConstantsAssumption DEF Jobs, Passes

\* No job is early, and none is more than Lateness late.
OnTime ==
  \A j \in Jobs : nextRun[j] <= now + PerSecond /\ now <= nextRun[j] + Lateness

\* A time is at least t after the job's last run, if it is one.
Since(at, t, j) == at # None => nextRun[j] + t <= at + PerSecond

MarkedSince ==
  \A s \in marked : "mark" \notin locked /\ HasRow(stream[s]) =>
    /\ Since(row[stream[s]].pause_at, PauseAfter[stream[s]], "mark")
    /\ Since(row[stream[s]].delete_at, DeleteAfter[stream[s]], "mark")

\* What was due when its pass last ran has been selected.
SelectedWhenDue ==
  \A p \in Passes : \A d \in Deployments :
    DueAt(p, d) # None /\ DueAt(p, d) + PerSecond <= nextRun[p]
      => p \in missed \/ d \in queue[p] \cup fails[p]

IInv == TypeOK /\ OnTime /\ MarkedSince /\ SelectedWhenDue

-----------------------------------------------------------------------------
(* Rows *)

\* A row is a record of three fields.
LEMMA RowFields ==
  ASSUME NEW r \in Rows
  PROVE  /\ r.status \in {"running", "stopped"}
         /\ r.pause_at \in Times /\ r.delete_at \in Times
         /\ r # None
  BY DEF Rows

\* An expiry is a time, later than now if there is one.
LEMMA ExpiryIsTime ==
  ASSUME TypeOK, NEW t \in Nat
  PROVE  /\ Expiry(t) \in Times
         /\ Expiry(t) # None => t > 0 /\ Expiry(t) = now + t
  BY DEF TypeOK, Expiry, Times

\* updateLastInteraction gives a row its new times and leaves the others alone.
LEMMA TouchedRows ==
  ASSUME TypeOK, NEW ds \in SUBSET Deployments
  PROVE  /\ Touched(ds) \in [Deployments -> Rows \cup {None}]
         /\ \A d \in Deployments :
              /\ (Touched(ds)[d] = None) = (row[d] = None)
              /\ d \notin ds => Touched(ds)[d] = row[d]
              /\ row[d] # None => Touched(ds)[d].status = row[d].status
              /\ d \in ds /\ row[d] # None =>
                   /\ Touched(ds)[d].pause_at = Expiry(PauseAfter[d])
                   /\ Touched(ds)[d].delete_at = Expiry(DeleteAfter[d])
<1> DEFINE new(d) == [row[d] EXCEPT !.pause_at = Expiry(PauseAfter[d]),
                                    !.delete_at = Expiry(DeleteAfter[d])]
<1>1. ASSUME NEW d \in Deployments, row[d] # None
      PROVE  /\ new(d) \in Rows
             /\ new(d).status = row[d].status
             /\ new(d).pause_at = Expiry(PauseAfter[d])
             /\ new(d).delete_at = Expiry(DeleteAfter[d])
  <2>1. row[d] \in Rows
    BY <1>1 DEF TypeOK
  <2>2. Expiry(PauseAfter[d]) \in Times /\ Expiry(DeleteAfter[d]) \in Times
    BY ExpiryIsTime
  <2> QED BY <2>1, <2>2 DEF Rows
<1> HIDE DEF new
<1>2. Touched(ds) = [d \in Deployments |-> IF d \in ds /\ row[d] # None THEN new(d) ELSE row[d]]
  BY DEF Touched, HasRow, new
<1>3. \A d \in Deployments : row[d] \in Rows \cup {None}
  BY DEF TypeOK
<1>4. \A d \in Deployments : new(d) # None \/ row[d] = None
  BY <1>1, RowFields
<1> QED BY <1>1, <1>2, <1>3, <1>4

\* DueAt is a time.
LEMMA DueAtIsTime ==
  ASSUME TypeOK, NEW p \in Passes, NEW d \in Deployments
  PROVE  DueAt(p, d) \in Times
<1>1. row[d] = None \/ row[d] \in Rows
  BY DEF TypeOK
<1> QED BY <1>1, RowFields DEF DueAt, HasRow, Times

\* The job touches rows, and marks a session only when it touches the row of
\* every one.
LEMMA MarkTouches ==
  ASSUME TypeOK, MarkSessionsAsActive
  PROVE  /\ \E ds \in SUBSET Deployments : row' = row \/ row' = Touched(ds)
         /\ \/ "mark" \in locked' /\ marked' = marked
            \/ /\ marked' = {s \in Streams : stream[s] # None}
               /\ \E ds \in SUBSET Deployments :
                    /\ row' = Touched(ds)
                    /\ \A s \in marked' : stream[s] \in ds
<1> DEFINE active == {stream[s] : s \in {x \in Streams : stream[x] # None}}
<1>1. active \in SUBSET Deployments
  BY DEF TypeOK
<1>2. \A s \in Streams : stream[s] # None => stream[s] \in active
  OBVIOUS
<1>3. \/ "mark" \in locked /\ UNCHANGED <<row, marked, locked>>
      \/ row' = Touched(active) /\ marked' = {s \in Streams : stream[s] # None}
      \/ /\ \E done \in SUBSET active : row' = Touched(done)
         /\ locked' = locked \cup {"mark"} /\ marked' = marked
  BY DEF MarkSessionsAsActive
<1> HIDE DEF active
<1>4. CASE "mark" \in locked /\ UNCHANGED <<row, marked, locked>>
  BY <1>4
<1>5. CASE row' = Touched(active) /\ marked' = {s \in Streams : stream[s] # None}
  BY <1>1, <1>2, <1>5
<1>6. CASE /\ \E done \in SUBSET active : row' = Touched(done)
           /\ locked' = locked \cup {"mark"} /\ marked' = marked
  BY <1>1, <1>6
<1> QED BY <1>3, <1>4, <1>5, <1>6

-----------------------------------------------------------------------------
(* Types *)

LEMMA InitTypes == Init => TypeOK
<1> SUFFICES ASSUME Init PROVE TypeOK
  OBVIOUS
<1>1. \A d \in Deployments : RowsOf(d) \subseteq Rows
  <2> TAKE d \in Deployments
  <2>1. Left(PauseAfter[d]) \subseteq Times /\ Left(DeleteAfter[d]) \subseteq Times
    BY DEF Left, Times
  <2> QED BY <2>1 DEF RowsOf, Rows
<1>2. row \in [Deployments -> Rows \cup {None}]
  BY <1>1 DEF Init
<1> QED BY <1>2 DEF Init, TypeOK

LEMMA NextTypes == TypeOK /\ [Next]_vars => TypeOK'
<1> SUFFICES ASSUME TypeOK, [Next]_vars PROVE TypeOK'
  OBVIOUS
<1>1. ASSUME NEW s \in Streams, Open(s) PROVE TypeOK'
  BY <1>1 DEF Open, TypeOK
<1>2. ASSUME NEW s \in Streams, CloseStream(s) PROVE TypeOK'
  BY <1>2 DEF CloseStream, TypeOK
<1>3. ASSUME NEW d \in Deployments, Interact(d) PROVE TypeOK'
  <2>1. row' \in [Deployments -> Rows \cup {None}]
    BY <1>3, TouchedRows DEF Interact
  <2> QED BY <1>3, <2>1 DEF Interact, TypeOK
<1>4. ASSUME NEW d \in Deployments, DeleteRequest(d) PROVE TypeOK'
  BY <1>4 DEF DeleteRequest, TypeOK
<1>5. ASSUME NEW d \in Deployments, DeleteSelected(d) PROVE TypeOK'
  BY <1>5 DEF DeleteSelected, Advance, TypeOK
<1>6. ASSUME NEW d \in Deployments, PauseSelected(d) PROVE TypeOK'
  <2>1. Stopped(d) \in [Deployments -> Rows \cup {None}]
    BY DEF Stopped, HasRow, TypeOK, Rows
  <2>2. row' \in [Deployments -> Rows \cup {None}]
    BY <1>6, <2>1 DEF PauseSelected, TypeOK
  <2>3. queue' \in [Passes -> SUBSET Deployments]
    BY <1>6 DEF PauseSelected, Advance, TypeOK
  <2>4. fails' \in [Passes -> SUBSET Deployments]
    BY <1>6 DEF PauseSelected, TypeOK
  <2>5. locked' \subseteq Jobs /\ missed' \subseteq Passes
    BY <1>6 DEF PauseSelected, Advance, TypeOK
  <2> QED BY <1>6, <2>2, <2>3, <2>4, <2>5 DEF PauseSelected, TypeOK
<1>7. ASSUME NEW p \in Passes, Select(p) PROVE TypeOK'
  <2>1. nextRun' \in [Jobs -> Nat]
    BY <1>7 DEF Select, Fires, TypeOK
  <2>2. queue' \in [Passes -> SUBSET Deployments]
    BY <1>7 DEF Select, Due, TypeOK
  <2>3. locked' \subseteq Jobs /\ missed' \subseteq Passes
    BY <1>7 DEF Select, TypeOK
  <2> QED BY <1>7, <2>1, <2>2, <2>3 DEF Select, TypeOK
<1>8. ASSUME MarkSessionsAsActive PROVE TypeOK'
  <2>1. PICK ds \in SUBSET Deployments : row' = row \/ row' = Touched(ds)
    BY <1>8, MarkTouches
  <2>2. row' \in [Deployments -> Rows \cup {None}]
    BY <2>1, TouchedRows DEF TypeOK
  <2>3. \A s \in marked' : s \in Streams /\ stream'[s] \in Deployments
    BY <1>8, MarkTouches DEF MarkSessionsAsActive, TypeOK
  <2>4. nextRun' \in [Jobs -> Nat]
    BY <1>8 DEF MarkSessionsAsActive, Fires, TypeOK
  <2>5. locked' \subseteq Jobs
    BY <1>8 DEF MarkSessionsAsActive, TypeOK
  <2> QED BY <1>8, <2>2, <2>3, <2>4, <2>5 DEF MarkSessionsAsActive, TypeOK
<1>9. ASSUME Tick PROVE TypeOK'
  BY <1>9 DEF Tick, TypeOK
<1>10. ASSUME UNCHANGED vars PROVE TypeOK'
  BY <1>10 DEF vars, TypeOK
<1> QED BY <1>1, <1>2, <1>3, <1>4, <1>5, <1>6, <1>7, <1>8, <1>9, <1>10 DEF Next

\* Every variable keeps its type; no pass writes a row that is not there.
THEOREM TypeCorrect == Spec => []TypeOK
<1> QED BY InitTypes, NextTypes, PTL DEF Spec

-----------------------------------------------------------------------------
(* The jobs fire once a second *)

LEMMA InitOnTime == Init => OnTime
  BY DEF Init, OnTime

LEMMA NextOnTime == TypeOK /\ OnTime /\ [Next]_vars => OnTime'
<1> SUFFICES ASSUME TypeOK, OnTime, [Next]_vars PROVE OnTime'
  OBVIOUS
<1>1. ASSUME NEW j \in Jobs, Fires(j), now' = now PROVE OnTime'
  BY <1>1 DEF Fires, OnTime, TypeOK
<1>2. ASSUME nextRun' = nextRun, now' = now PROVE OnTime'
  BY <1>2 DEF OnTime
<1>3. ASSUME NEW p \in Passes, Select(p) PROVE OnTime'
  BY <1>1, <1>3 DEF Select
<1>4. ASSUME MarkSessionsAsActive PROVE OnTime'
  BY <1>1, <1>4 DEF MarkSessionsAsActive
<1>5. ASSUME Tick PROVE OnTime'
  BY <1>5 DEF Tick, OnTime, TypeOK
<1>6. ASSUME NEW d \in Deployments, DeleteSelected(d) \/ PauseSelected(d) PROVE OnTime'
  BY <1>2, <1>6 DEF DeleteSelected, PauseSelected, Advance
<1> QED BY <1>2, <1>3, <1>4, <1>5, <1>6
        DEF Next, vars, Open, CloseStream, Interact, DeleteRequest

-----------------------------------------------------------------------------
(* The sessions that are marked *)

\* What has just been pushed back is far enough from the job's last run.
LEMMA PushedBack ==
  ASSUME TypeOK, OnTime', TypeOK', now' = now, NEW t \in Nat, NEW j \in Jobs
  PROVE  Since(Expiry(t), t, j)'
  BY ExpiryIsTime DEF OnTime, TypeOK, Since, Expiry

LEMMA InitMarked == Init => MarkedSince
  BY DEF Init, MarkedSince

\* updateLastInteraction keeps what is known of the marked sessions.
LEMMA TouchKeepsMarked ==
  ASSUME TypeOK, TypeOK', OnTime', MarkedSince, NEW ds \in SUBSET Deployments,
         row' = Touched(ds), UNCHANGED <<now, nextRun, stream>>,
         marked' \subseteq marked, "mark" \in locked => "mark" \in locked'
  PROVE  MarkedSince'
<1> SUFFICES ASSUME NEW s \in marked', "mark" \notin locked', HasRow(stream[s])'
             PROVE  /\ Since(row[stream[s]].pause_at, PauseAfter[stream[s]], "mark")'
                    /\ Since(row[stream[s]].delete_at, DeleteAfter[stream[s]], "mark")'
  BY DEF MarkedSince
<1> DEFINE d == stream[s]
<1>1. d \in Deployments /\ stream'[s] = d /\ s \in marked
  BY DEF TypeOK
<1>2. row[d] # None
  BY <1>1, TouchedRows DEF HasRow
<1>3. CASE d \in ds
  <2>1. row'[d].pause_at = Expiry(PauseAfter[d]) /\ row'[d].delete_at = Expiry(DeleteAfter[d])
    BY <1>1, <1>2, <1>3, TouchedRows
  <2>2. Since(Expiry(PauseAfter[d]), PauseAfter[d], "mark")'
    BY <1>1, PushedBack
  <2>3. Since(Expiry(DeleteAfter[d]), DeleteAfter[d], "mark")'
    BY <1>1, PushedBack
  <2> QED BY <1>1, <2>1, <2>2, <2>3 DEF Since, Expiry
<1>4. CASE d \notin ds
  <2>1. row'[d] = row[d]
    BY <1>1, <1>4, TouchedRows
  <2> QED BY <1>1, <1>2, <2>1 DEF MarkedSince, HasRow, Since
<1> QED BY <1>3, <1>4

\* So does a step that writes no times, leaves the job alone and marks nothing.
LEMMA QuietKeepsMarked ==
  ASSUME TypeOK, TypeOK', MarkedSince, marked' \subseteq marked,
         \A s \in marked' : stream'[s] = stream[s],
         nextRun'["mark"] = nextRun["mark"],
         "mark" \in locked => "mark" \in locked',
         \A d \in Deployments : row'[d] # None =>
           /\ row[d] # None
           /\ row'[d].pause_at = row[d].pause_at /\ row'[d].delete_at = row[d].delete_at
  PROVE  MarkedSince'
<1> SUFFICES ASSUME NEW s \in marked', "mark" \notin locked', HasRow(stream[s])'
             PROVE  /\ Since(row[stream[s]].pause_at, PauseAfter[stream[s]], "mark")'
                    /\ Since(row[stream[s]].delete_at, DeleteAfter[stream[s]], "mark")'
  BY DEF MarkedSince
<1>1. stream[s] \in Deployments /\ stream'[s] = stream[s] /\ s \in marked
  BY DEF TypeOK
<1>2. HasRow(stream[s])
  BY <1>1 DEF HasRow
<1> QED BY <1>1, <1>2 DEF MarkedSince, HasRow, Since

LEMMA NextMarked ==
  ASSUME TypeOK, TypeOK', OnTime', MarkedSince, [Next]_vars
  PROVE  MarkedSince'
<1>1. ASSUME NEW s \in Streams, Open(s) PROVE MarkedSince'
  <2>1. s \notin marked
    BY <1>1 DEF Open, TypeOK
  <2>2. \A x \in marked : stream'[x] = stream[x]
    BY <1>1, <2>1 DEF Open, TypeOK
  <2> QED BY <1>1, <2>2, QuietKeepsMarked DEF Open
<1>2. ASSUME NEW s \in Streams, CloseStream(s) PROVE MarkedSince'
  <2>1. \A x \in marked' : stream'[x] = stream[x]
    BY <1>2 DEF CloseStream, TypeOK
  <2> QED BY <1>2, <2>1, QuietKeepsMarked DEF CloseStream
<1>3. ASSUME NEW d \in Deployments, Interact(d) PROVE MarkedSince'
  BY <1>3, TouchKeepsMarked DEF Interact
<1>4. ASSUME NEW d \in Deployments, DeleteRequest(d) \/ DeleteSelected(d) PROVE MarkedSince'
  <2>1. \A e \in Deployments : row'[e] # None => row'[e] = row[e]
    BY <1>4 DEF DeleteRequest, DeleteSelected, TypeOK
  <2>2. "mark" \in locked => "mark" \in locked'
    BY <1>4 DEF DeleteRequest, DeleteSelected, Advance
  <2>3. UNCHANGED <<stream, nextRun, marked>>
    BY <1>4 DEF DeleteRequest, DeleteSelected
  <2> QED BY <2>1, <2>2, <2>3, QuietKeepsMarked
<1>5. ASSUME NEW d \in Deployments, PauseSelected(d) PROVE MarkedSince'
  <2>1. row' = row \/ row' = Stopped(d)
    BY <1>5 DEF PauseSelected
  <2>2. \A e \in Deployments : row'[e] # None =>
          /\ row[e] # None
          /\ row'[e].pause_at = row[e].pause_at /\ row'[e].delete_at = row[e].delete_at
    <3> SUFFICES ASSUME NEW e \in Deployments, row'[e] # None
                 PROVE  /\ row[e] # None
                        /\ row'[e].pause_at = row[e].pause_at
                        /\ row'[e].delete_at = row[e].delete_at
      OBVIOUS
    <3>1. row[e] = None \/ row[e] \in Rows
      BY DEF TypeOK
    <3> QED BY <2>1, <3>1 DEF Stopped, HasRow, Rows, TypeOK
  <2>3. "mark" \in locked => "mark" \in locked'
    BY <1>5 DEF PauseSelected, Advance
  <2>4. UNCHANGED <<stream, nextRun, marked>>
    BY <1>5 DEF PauseSelected
  <2> QED BY <2>2, <2>3, <2>4, QuietKeepsMarked
<1>6. ASSUME NEW p \in Passes, Select(p) PROVE MarkedSince'
  <2>1. nextRun'["mark"] = nextRun["mark"] /\ ("mark" \in locked => "mark" \in locked')
    BY <1>6 DEF Select, Fires, TypeOK
  <2> QED BY <1>6, <2>1, QuietKeepsMarked DEF Select
<1>7. ASSUME MarkSessionsAsActive PROVE MarkedSince'
  <2>1. CASE "mark" \in locked'
    BY <2>1 DEF MarkedSince
  <2>2. CASE "mark" \notin locked'
    <3>1. PICK ds \in SUBSET Deployments :
            row' = Touched(ds) /\ \A s \in marked' : stream[s] \in ds
      BY <1>7, <2>2, MarkTouches
    <3>2. SUFFICES ASSUME NEW s \in marked', HasRow(stream[s])'
                   PROVE  /\ Since(row[stream[s]].pause_at, PauseAfter[stream[s]], "mark")'
                          /\ Since(row[stream[s]].delete_at, DeleteAfter[stream[s]], "mark")'
      BY DEF MarkedSince
    <3> DEFINE d == stream[s]
    <3>3. d \in ds /\ d \in Deployments /\ stream' = stream /\ now' = now
      BY <1>7, <3>1 DEF MarkSessionsAsActive
    <3>4. row'[d].pause_at = Expiry(PauseAfter[d]) /\ row'[d].delete_at = Expiry(DeleteAfter[d])
      BY <3>1, <3>2, <3>3, TouchedRows DEF HasRow
    <3>5. /\ Since(Expiry(PauseAfter[d]), PauseAfter[d], "mark")'
          /\ Since(Expiry(DeleteAfter[d]), DeleteAfter[d], "mark")'
      BY <3>3, PushedBack
    <3> QED BY <3>3, <3>4, <3>5 DEF Since, Expiry
  <2> QED BY <2>1, <2>2
<1>8. ASSUME Tick \/ UNCHANGED vars PROVE MarkedSince'
  BY <1>8, QuietKeepsMarked DEF Tick, vars
<1> QED BY <1>1, <1>2, <1>3, <1>4, <1>5, <1>6, <1>7, <1>8 DEF Next

-----------------------------------------------------------------------------
(* The rows that are due *)

LEMMA InitSelected == Init => SelectedWhenDue
  BY DEF Init, SelectedWhenDue

\* A step on the rows that makes none due sooner, drops none from a queue that
\* it has not dealt with, and is not a job, skips nothing.
LEMMA RowsKeepSelected ==
  ASSUME SelectedWhenDue, nextRun' = nextRun, missed \subseteq missed',
         \A p \in Passes : \A d \in Deployments :
           DueAt(p, d)' # None /\ DueAt(p, d)' + PerSecond <= nextRun[p] =>
             \/ p \in missed'
             \/ /\ DueAt(p, d)' = DueAt(p, d)
                /\ d \in queue[p] \cup fails[p] => d \in queue'[p] \cup fails'[p]
  PROVE  SelectedWhenDue'
  BY DEF SelectedWhenDue

LEMMA TouchKeepsSelected ==
  ASSUME TypeOK, TypeOK', OnTime, NEW ds \in SUBSET Deployments,
         row' = Touched(ds), now' = now,
         NEW p \in Passes, NEW d \in Deployments, DueAt(p, d)' # None
  PROVE  \/ DueAt(p, d)' = DueAt(p, d)
         \/ DueAt(p, d)' + PerSecond > nextRun[p]
<1>1. row[d] # None /\ row'[d] # None /\ row'[d].status = row[d].status
  BY TouchedRows DEF DueAt, HasRow
<1>2. CASE d \notin ds
  <2>1. row'[d] = row[d]
    BY <1>2, TouchedRows
  <2> QED BY <2>1 DEF DueAt, HasRow
<1>3. CASE d \in ds
  <2>1. PICK t \in Nat : DueAt(p, d)' = Expiry(t)
    <3>1. row'[d].pause_at = Expiry(PauseAfter[d]) /\ row'[d].delete_at = Expiry(DeleteAfter[d])
      BY <1>1, <1>3, TouchedRows
    <3> QED BY <1>1, <3>1 DEF DueAt, HasRow
  <2>2. Expiry(t) = now + t /\ t > 0
    BY <2>1, ExpiryIsTime
  <2>3. nextRun[p] <= now + PerSecond /\ nextRun[p] \in Nat /\ now \in Nat
    BY DEF OnTime, TypeOK
  <2> QED BY <2>1, <2>2, <2>3
<1> QED BY <1>2, <1>3

LEMMA NextSelected ==
  ASSUME TypeOK, TypeOK', OnTime, SelectedWhenDue, [Next]_vars
  PROVE  SelectedWhenDue'
<1>1. ASSUME NEW ds \in SUBSET Deployments, row' = row \/ row' = Touched(ds),
             UNCHANGED <<now, queue, fails, missed>>,
             \A p \in Passes : nextRun'[p] = nextRun[p]
      PROVE  SelectedWhenDue'
  <2> SUFFICES ASSUME NEW p \in Passes, NEW d \in Deployments, DueAt(p, d)' # None,
                      DueAt(p, d)' + PerSecond <= nextRun'[p]
               PROVE  (p \in missed \/ d \in queue[p] \cup fails[p])'
    BY DEF SelectedWhenDue
  <2>1. CASE row' = row
    BY <1>1, <2>1 DEF SelectedWhenDue, DueAt, HasRow
  <2>2. CASE row' = Touched(ds)
    <3>1. \/ DueAt(p, d)' = DueAt(p, d)
          \/ DueAt(p, d)' + PerSecond > nextRun[p]
      BY <1>1, <2>2, TouchKeepsSelected
    <3>2. DueAt(p, d)' \in Nat /\ nextRun[p] \in Nat
      <4>1. row'[d] = None \/ row'[d] \in Rows
        BY DEF TypeOK
      <4>2. DueAt(p, d)' \in Times
        BY <4>1, RowFields DEF DueAt, HasRow, Times
      <4> QED BY <4>2 DEF Times, TypeOK
    <3>3. DueAt(p, d)' = DueAt(p, d)
      BY <1>1, <3>1, <3>2
    <3> QED BY <1>1, <3>3 DEF SelectedWhenDue
  <2> QED BY <1>1, <2>1, <2>2
<1>2. ASSUME NEW s \in Streams, Open(s) \/ CloseStream(s) PROVE SelectedWhenDue'
  BY <1>1, <1>2 DEF Open, CloseStream
<1>3. ASSUME NEW d \in Deployments, Interact(d) PROVE SelectedWhenDue'
  BY <1>1, <1>3 DEF Interact
<1>4. ASSUME NEW d \in Deployments, DeleteRequest(d) PROVE SelectedWhenDue'
  <2>1. \A e \in Deployments : row'[e] = None \/ row'[e] = row[e]
    BY <1>4 DEF DeleteRequest, TypeOK
  <2> QED BY <1>4, <2>1, RowsKeepSelected DEF DeleteRequest, DueAt, HasRow
<1>5. ASSUME NEW d \in Deployments, DeleteSelected(d) PROVE SelectedWhenDue'
  <2>1. \A e \in Deployments : row'[e] = None \/ row'[e] = row[e]
    BY <1>5 DEF DeleteSelected, TypeOK
  <2>2. \A p \in Passes : \A e \in Deployments :
          (p = "delete" /\ e = d) \/ (e \in queue[p] => e \in queue'[p])
    BY <1>5 DEF DeleteSelected, Advance, TypeOK
  <2>3. \A p \in Passes : fails[p] \subseteq fails'[p]
    BY <1>5 DEF DeleteSelected, TypeOK
  <2>4. row'[d] = None \/ d \in fails'["delete"]
    BY <1>5 DEF DeleteSelected, TypeOK
  <2>5. nextRun' = nextRun /\ missed' = missed
    BY <1>5 DEF DeleteSelected
  <2> QED BY <2>1, <2>2, <2>3, <2>4, <2>5, RowsKeepSelected DEF DueAt, HasRow
<1>6. ASSUME NEW d \in Deployments, PauseSelected(d) PROVE SelectedWhenDue'
  <2>1. \A p \in Passes : fails[p] \subseteq fails'[p]
    BY <1>6 DEF PauseSelected, TypeOK
  <2>2. nextRun' = nextRun /\ missed \subseteq missed'
    BY <1>6 DEF PauseSelected
  <2>3. CASE Advance("pause", d) /\ row' = Stopped(d)
    <3>1. \A p \in Passes : \A e \in Deployments :
            (p = "pause" /\ e = d) \/ (e \in queue[p] => e \in queue'[p])
      BY <2>3 DEF Advance, TypeOK
    <3>2. \A e \in Deployments : e # d => row'[e] = row[e]
      BY <2>3 DEF Stopped, TypeOK
    <3>3. DueAt("pause", d)' = None /\ DueAt("delete", d)' = DueAt("delete", d)
      <4>1. row[d] = None \/ row[d] \in Rows
        BY DEF TypeOK
      <4> QED BY <2>3, <4>1 DEF Stopped, DueAt, HasRow, Rows, TypeOK
    <3>4. \A p \in Passes : \A e \in Deployments :
            DueAt(p, e)' = DueAt(p, e) \/ DueAt(p, e)' = None
      BY <3>2, <3>3 DEF DueAt, HasRow
    <3> QED BY <2>1, <2>2, <3>1, <3>3, <3>4, RowsKeepSelected
  <2>4. CASE /\ queue' = [queue EXCEPT !["pause"] = {}]
             /\ missed' = missed \cup {"pause"} /\ row' = row
    <3>1. \A p \in Passes : p \in missed' \/ queue'[p] = queue[p]
      BY <2>4 DEF TypeOK
    <3>2. \A p \in Passes : \A e \in Deployments : DueAt(p, e)' = DueAt(p, e)
      BY <2>4 DEF DueAt, HasRow
    <3> QED BY <2>1, <2>2, <3>1, <3>2, RowsKeepSelected
  <2> QED BY <1>6, <2>3, <2>4 DEF PauseSelected
<1>7. ASSUME NEW p \in Passes, Select(p) PROVE SelectedWhenDue'
  <2> SUFFICES ASSUME NEW q \in Passes, NEW d \in Deployments, DueAt(q, d)' # None,
                      DueAt(q, d)' + PerSecond <= nextRun'[q]
               PROVE  (q \in missed \/ d \in queue[q] \cup fails[q])'
    BY DEF SelectedWhenDue
  <2>1. DueAt(q, d)' = DueAt(q, d) /\ fails' = fails
    BY <1>7 DEF Select, DueAt, HasRow
  <2>2. CASE q = p
    <3>1. p \in missed' \/ queue'[p] = Due(p) \ fails[p]
      BY <1>7 DEF Select, TypeOK
    <3>2. nextRun'[p] = nextRun[p] + PerSecond /\ nextRun[p] <= now
      BY <1>7 DEF Select, Fires, TypeOK
    <3>3. DueAt(p, d) \in Nat /\ nextRun[p] \in Nat /\ now \in Nat
      BY <2>1, <2>2, DueAtIsTime DEF Times, TypeOK
    <3>4. DueAt(p, d) <= now
      BY <2>1, <2>2, <3>2, <3>3
    <3> QED BY <2>1, <2>2, <3>1, <3>4 DEF Due
  <2>3. CASE q # p
    <3>1. nextRun'[q] = nextRun[q] /\ queue'[q] = queue[q] /\ (q \in missed => q \in missed')
      BY <1>7, <2>3 DEF Select, Fires, TypeOK
    <3> QED BY <2>1, <3>1 DEF SelectedWhenDue
  <2> QED BY <2>2, <2>3
<1>8. ASSUME MarkSessionsAsActive PROVE SelectedWhenDue'
  <2>1. \A p \in Passes : nextRun'[p] = nextRun[p]
    BY <1>8 DEF MarkSessionsAsActive, Fires, TypeOK
  <2>2. UNCHANGED <<now, queue, fails, missed>>
    BY <1>8 DEF MarkSessionsAsActive
  <2> QED BY <1>1, <1>8, <2>1, <2>2, MarkTouches
<1>9. ASSUME Tick \/ UNCHANGED vars PROVE SelectedWhenDue'
  BY <1>9 DEF Tick, vars, SelectedWhenDue, DueAt, HasRow
<1> QED BY <1>2, <1>3, <1>4, <1>5, <1>6, <1>7, <1>8, <1>9 DEF Next

-----------------------------------------------------------------------------
(* What follows *)

LEMMA Invariant == Spec => []IInv
<1>1. Init => IInv
  BY InitTypes, InitOnTime, InitMarked, InitSelected DEF IInv
<1>2. IInv /\ [Next]_vars => IInv'
  BY NextTypes, NextOnTime, NextMarked, NextSelected DEF IInv
<1> QED BY <1>1, <1>2, PTL DEF Spec

\* Whatever the timers, the delay of the jobs and the number of sessions, a
\* deployment whose SSE session is marked comes before neither pass, if its
\* timer is longer than a second and the delay.
THEOREM OpenSessionsKeepAlive == Spec => []MarkedNeverDue
<1>1. IInv => MarkedNeverDue
  <2> SUFFICES ASSUME IInv, NEW s \in marked, "mark" \notin locked
               PROVE  /\ Outlasts(PauseAfter[stream[s]]) => stream[s] \notin Due("pause")
                      /\ Outlasts(DeleteAfter[stream[s]]) => stream[s] \notin Due("delete")
    BY DEF MarkedNeverDue
  <2> DEFINE d == stream[s]
  <2>1. d \in Deployments /\ (row[d] = None \/ row[d] \in Rows)
    BY DEF IInv, TypeOK
  <2>2. now <= nextRun["mark"] + Lateness /\ now \in Nat /\ nextRun["mark"] \in Nat
    BY DEF IInv, TypeOK, OnTime
  <2>3. ASSUME NEW at \in Times, NEW t \in Nat, Since(at, t, "mark"), Outlasts(t)
        PROVE  ~(at # None /\ at <= now)
    BY <2>2, <2>3 DEF Since, Outlasts, Times
  <2>4. HasRow(d) => /\ Since(row[d].pause_at, PauseAfter[d], "mark")
                     /\ Since(row[d].delete_at, DeleteAfter[d], "mark")
    BY DEF IInv, MarkedSince
  <2>5. Outlasts(PauseAfter[d]) => d \notin Due("pause")
    BY <2>1, <2>3, <2>4, RowFields DEF Due, DueAt, HasRow
  <2>6. Outlasts(DeleteAfter[d]) => d \notin Due("delete")
    BY <2>1, <2>3, <2>4, RowFields DEF Due, DueAt, HasRow
  <2> QED BY <2>5, <2>6
<1> QED BY <1>1, Invariant, PTL

\* The passes reach every row within a second and the delay of its time, unless
\* they have failed it, been kept out by their lock or failed themselves.
THEOREM NothingOverdueIsSkipped == Spec => []OverdueAreSelected
<1>1. IInv => OverdueAreSelected
  <2> SUFFICES ASSUME IInv, NEW p \in Passes, NEW d \in Deployments, DueAt(p, d) # None,
                      now >= DueAt(p, d) + PerSecond + Lateness
               PROVE  p \in missed \/ d \in queue[p] \cup fails[p]
    BY DEF OverdueAreSelected
  <2>1. DueAt(p, d) \in Nat
    BY DueAtIsTime DEF IInv, Times
  <2>2. now <= nextRun[p] + Lateness /\ now \in Nat /\ nextRun[p] \in Nat
    BY DEF IInv, TypeOK, OnTime
  <2>3. DueAt(p, d) + PerSecond <= nextRun[p]
    BY <2>1, <2>2
  <2> QED BY <2>3 DEF IInv, SelectedWhenDue
<1> QED BY <1>1, Invariant, PTL

=============================================================================
