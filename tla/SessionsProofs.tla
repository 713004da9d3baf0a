----------------------------- MODULE SessionsProofs -----------------------------
(***************************************************************************)
(* Theorems about Sessions, for any deployments, sessions, requests and    *)
(* faults.                                                                 *)
(***************************************************************************)
EXTENDS Sessions, TLAPS

-----------------------------------------------------------------------------
(* Types *)

LEMMA InitTyped == Init => TypeOK
  BY DEF Init, TypeOK, Sessions

\* What the stage and the kind of a request say of its session.
LEMMA Located ==
  ASSUME TypeOK, NEW r \in Requests, request[r] # Idle
  PROVE  /\ request[r] \in Active
         /\ request[r].at \in {"ready", "start", "open"}
         /\ request[r].kind \in Kinds
         /\ request[r].deployment \in Deployments
         /\ request[r].gone \in BOOLEAN
         /\ request[r].kind \in {"post", "get", "delete"} =>
              request[r].session \in StreamSessions /\ request[r].at # "start"
         /\ request[r].at # "ready" =>
              IF request[r].kind = "sse" THEN request[r].session \in SseSessions
                                         ELSE request[r].session \in StreamSessions
  BY DEF TypeOK, Active, Fields, Kinds

\* The same of the request after a move.
LEMMA MoveTyped ==
  ASSUME TypeOK, NEW r \in Requests, NEW s, NEW at, NEW gone \in BOOLEAN,
         request[r] # Idle, Move(r, at, s, gone),
         \/ at = request[r].at /\ s = request[r].session
         \/ at \in {"start", "open"} /\ request[r].kind = "sse" /\ s \in SseSessions
         \/ at \in {"start", "open"} /\ request[r].kind = "initialize" /\ s \in StreamSessions
         \/ at = "open" /\ request[r].kind \in {"post", "get"} /\ s \in StreamSessions
  PROVE  request' \in [Requests -> {Idle} \cup Active]
<1>1. [at |-> at, kind |-> request[r].kind, deployment |-> request[r].deployment,
       session |-> s, gone |-> gone] \in Active
  BY DEF TypeOK, Active, Fields
<1> QED
  BY <1>1 DEF TypeOK, Move

LEMMA OverTyped ==
  ASSUME TypeOK, NEW r \in Requests, Over(r)
  PROVE  request' \in [Requests -> {Idle} \cup Active]
  BY DEF TypeOK, Over

LEMMA NextTyped == TypeOK /\ [Next]_vars => TypeOK'
<1> SUFFICES ASSUME TypeOK, [Next]_vars PROVE TypeOK'
  OBVIOUS
<1> USE ConstantsAssumption
<1>1. ASSUME Rejected PROVE TypeOK'
  BY <1>1 DEF TypeOK, Rejected
<1>2. ASSUME NEW r \in Requests, Arrive(r) PROVE TypeOK'
  <2>1. PICK kind \in Kinds, d \in Deployments, s \in (told \cap StreamSessions) \cup {None} :
          /\ kind \in {"sse", "initialize"} <=> s = None
          /\ request' = [request EXCEPT ![r] =
               [at |-> "ready", kind |-> kind, deployment |-> d, session |-> s, gone |-> FALSE]]
    BY <1>2 DEF Arrive
  <2>2. [at |-> "ready", kind |-> kind, deployment |-> d, session |-> s, gone |-> FALSE] \in Active
    BY <2>1 DEF Active, Fields, Kinds
  <2> QED
    BY <1>2, <2>1, <2>2 DEF TypeOK, Arrive
<1>3. ASSUME NEW r \in Requests, NotReady(r) PROVE TypeOK'
  BY <1>3, OverTyped DEF TypeOK, NotReady
<1>4. ASSUME NEW r \in Requests, HandleSse(r) PROVE TypeOK'
  <2>1. PICK s \in SseSessions :
          /\ client' = [client EXCEPT ![s] = "new"]
          /\ listing' = List(s, request[r].deployment)
          /\ Move(r, "start", s, request[r].gone)
    BY <1>4 DEF HandleSse
  <2>2. request[r] # Idle /\ request[r].kind = "sse"
    BY <1>4 DEF HandleSse, At, Idle
  <2>3. request' \in [Requests -> {Idle} \cup Active]
    BY <2>1, <2>2, MoveTyped, Located
  <2> QED
    BY <1>4, <2>1, <2>2, <2>3, Located DEF TypeOK, HandleSse, List, Sessions
<1>5. ASSUME NEW r \in Requests, StartSse(r) PROVE TypeOK'
  <2>1. request[r] # Idle /\ request[r].session \in SseSessions
    BY <1>5, Located DEF StartSse, At, Idle
  <2>2. request' \in [Requests -> {Idle} \cup Active]
    BY <1>5, <2>1, MoveTyped, OverTyped DEF StartSse, Stay, At
  <2> QED
    BY <1>5, <2>1, <2>2 DEF TypeOK, StartSse, Unlist, Sessions
<1>6. ASSUME NEW s \in SseSessions, HandleMessages(s) PROVE TypeOK'
  BY <1>1, <1>6 DEF TypeOK, HandleMessages, Touch
<1>7. ASSUME NEW r \in Requests, HandleInitialize(r) PROVE TypeOK'
  <2>1. PICK s \in StreamSessions :
          /\ client' = [client EXCEPT ![s] = "new"]
          /\ Move(r, "start", s, request[r].gone)
    BY <1>7 DEF HandleInitialize
  <2>2. request[r] # Idle /\ request[r].kind = "initialize"
    BY <1>7 DEF HandleInitialize, At, Idle
  <2>3. request' \in [Requests -> {Idle} \cup Active]
    BY <2>1, <2>2, MoveTyped, Located
  <2> QED
    BY <1>7, <2>1, <2>3 DEF TypeOK, HandleInitialize, Sessions
<1>8. ASSUME NEW r \in Requests, StartInitialize(r) PROVE TypeOK'
  <2>1. /\ request[r] # Idle /\ request[r].session \in StreamSessions
        /\ request[r].deployment \in Deployments
    BY <1>8, Located DEF StartInitialize, At, Idle
  <2>2. request' \in [Requests -> {Idle} \cup Active]
    BY <1>8, <2>1, MoveTyped, OverTyped DEF StartInitialize, Stay, At
  <2> QED
    BY <1>8, <2>1, <2>2 DEF TypeOK, StartInitialize, List, Touch, Sessions
<1>9. ASSUME NEW r \in Requests, HandlePost(r) PROVE TypeOK'
  <2>1. /\ request[r] # Idle /\ request[r].session \in StreamSessions
        /\ request[r].deployment \in Deployments
    BY <1>9, Located DEF HandlePost, At, Idle
  <2>2. CASE Rejected
    BY <1>1, <2>2
  <2>3. CASE ~Rejected
    <3>1. request' \in [Requests -> {Idle} \cup Active]
      BY <1>9, <2>1, <2>3, MoveTyped, OverTyped DEF HandlePost, Stay, At
    <3> QED
      BY <1>9, <2>1, <2>3, <3>1
      DEF TypeOK, HandlePost, List, Touch, Disconnected, Sessions
  <2> QED
    BY <2>2, <2>3
<1>10. ASSUME NEW r \in Requests, RefusePost(r) PROVE TypeOK'
  BY <1>10, OverTyped DEF TypeOK, RefusePost
<1>11. ASSUME NEW r \in Requests, HandleGet(r) PROVE TypeOK'
  <2>1. request[r] # Idle /\ request[r].session \in StreamSessions
    BY <1>11, Located DEF HandleGet, At, Idle
  <2>2. request' \in [Requests -> {Idle} \cup Active]
    BY <1>11, <2>1, MoveTyped, OverTyped DEF HandleGet, Stay, At
  <2> QED
    BY <1>11, <2>1, <2>2 DEF TypeOK, HandleGet, Touch, Disconnected
<1>12. ASSUME NEW r \in Requests, HandleDelete(r) PROVE TypeOK'
  <2>1. request[r] # Idle /\ request[r].session \in StreamSessions
    BY <1>12, Located DEF HandleDelete, At, Idle
  <2> QED
    BY <1>12, <2>1, OverTyped DEF TypeOK, HandleDelete, Close, Unlist, Touch, Disconnected
<1>13. ASSUME NEW r \in Requests, Answer(r) PROVE TypeOK'
  BY <1>13, OverTyped DEF TypeOK, Answer, Disconnected
<1>14. ASSUME NEW r \in Requests, Leave(r) PROVE TypeOK'
  <2>1. request[r] # Idle
    BY <1>14 DEF Leave, Idle
  <2>2. request' \in [Requests -> {Idle} \cup Active]
    BY <1>14, <2>1, MoveTyped, OverTyped DEF Leave
  <2> QED
    BY <1>14, <2>2 DEF TypeOK, Leave, Unlist
<1>15. ASSUME NEW d \in Deployments, ContainerStops(d) \/ TimePasses(d) PROVE TypeOK'
  BY <1>15 DEF TypeOK, ContainerStops, TimePasses
<1>16. ASSUME MarkSse \/ MarkStreamable PROVE TypeOK'
  BY <1>16 DEF TypeOK, MarkSse, MarkStreamable, MarkSessionsAsActive, Touch
<1>17. ASSUME UNCHANGED vars PROVE TypeOK'
  BY <1>17 DEF TypeOK, vars
<1> QED
  BY <1>2, <1>3, <1>4, <1>5, <1>6, <1>7, <1>8, <1>9, <1>10, <1>11, <1>12, <1>13, <1>14,
     <1>15, <1>16, <1>17 DEF Next, HandlerStep

\* Every reachable state is well typed; in particular a handler that is past its
\* waits works on a session of its own service.
THEOREM TypeCorrect == Spec => []TypeOK
  BY InitTyped, NextTyped, PTL DEF Spec

-----------------------------------------------------------------------------
(* Sessions, their requests and their client transports *)

Starting(r) == request[r].at = "start"
Streaming(r) == At(r, "open", "sse")

\* What a request knows of its session.
Attached ==
  \A r \in Requests :
    /\ Starting(r) => client[request[r].session] = "new"
    /\ At(r, "start", "sse") /\ ~request[r].gone => Listed(request[r].session)
    /\ Streaming(r) => request[r].session \in told /\ Listed(request[r].session)
    /\ request[r].kind \in {"post", "get", "delete"} => request[r].session \in told

\* A session is set up by one request, and an SSE session streams to one.
Alone ==
  \A r, q \in Requests :
    (/\ Starting(r) \/ Streaming(r)
     /\ Starting(q) \/ Streaming(q)
     /\ request[r].session = request[q].session) => r = q

\* What the tables say of a client transport.
Lives ==
  \A s \in Sessions :
    /\ s \in told => client[s] \in {"started", "ended", "closed"}
    /\ client[s] \in {"none", "closed"} => ~Listed(s)

\* An announced SSE session without a stream is over.
Released ==
  \A s \in told \cap SseSessions :
    Listed(s) \/ client[s] # "closed" =>
      \E r \in Requests : Streaming(r) /\ request[r].session = s

Inv == TypeOK /\ Attached /\ Alone /\ Lives /\ Released /\ ConnectedAreListed

LEMMA InitInv == Init => Inv
<1> SUFFICES ASSUME Init PROVE Inv
  OBVIOUS
<1> QED
  BY InitTyped DEF Init, Inv, Attached, Alone, Lives, Released, ConnectedAreListed,
     Starting, Streaming, At, Listed, Idle

LEMMA NextInv == Inv /\ [Next]_vars => Inv'
<1> SUFFICES ASSUME Inv, [Next]_vars PROVE Inv'
  OBVIOUS
<1> USE ConstantsAssumption
<1>t. TypeOK /\ TypeOK'
  BY NextTyped DEF Inv
<1> USE <1>t DEF Inv, Starting, Streaming, At, Listed
<1>1. ASSUME Rejected PROVE Inv'
  BY <1>1
  DEF Rejected, Attached, Alone, Lives, Released, ConnectedAreListed, Idle, TypeOK
<1>2. ASSUME NEW r \in Requests, Arrive(r) PROVE Inv'
  BY <1>2 DEF Arrive, Attached, Alone, Lives, Released, ConnectedAreListed, Idle, TypeOK
<1>3. ASSUME NEW r \in Requests, NotReady(r) \/ RefusePost(r) PROVE Inv'
  BY <1>3
  DEF NotReady, RefusePost, Over, Attached, Alone, Lives, Released, ConnectedAreListed,
      Idle, TypeOK
<1>4. ASSUME NEW r \in Requests, HandleSse(r) PROVE Inv'
  <2>1. PICK s \in SseSessions :
          /\ client[s] = "none"
          /\ client' = [client EXCEPT ![s] = "new"]
          /\ listing' = List(s, request[r].deployment)
          /\ Move(r, "start", s, request[r].gone)
    BY <1>4 DEF HandleSse
  <2>2. /\ request[r] # Idle /\ request[r].kind = "sse"
        /\ request[r].deployment \in Deployments
    BY <1>4, Located DEF HandleSse, Idle
  <2>3. s \in Sessions /\ s \notin told /\ s \notin StreamSessions /\ ~Listed(s)
    BY <2>1 DEF Lives, Sessions
  <2>4. /\ \A x \in Sessions : x # s => listing'[x] = listing[x] /\ client'[x] = client[x]
        /\ listing'[s] # None /\ client'[s] = "new"
        /\ UNCHANGED <<told, connected>>
    BY <1>4, <2>1, <2>2, <2>3 DEF HandleSse, List, TypeOK
  <2>5. /\ \A q \in Requests : q # r => request'[q] = request[q]
        /\ request'[r].at = "start" /\ request'[r].kind = "sse" /\ request'[r].session = s
    BY <2>1, <2>2 DEF Move, TypeOK
  <2>6. \A q \in Requests : Starting(q) \/ Streaming(q) =>
          q # r /\ request[q].session # s /\ request[q].session \in Sessions
    BY <1>4, <2>1, <2>3, Located DEF HandleSse, Attached, Idle, Sessions
  <2>7. Attached' /\ Alone'
    BY <2>3, <2>4, <2>5, <2>6 DEF Attached, Alone
  <2>8. Lives' /\ ConnectedAreListed'
    BY <2>3, <2>4 DEF Lives, ConnectedAreListed, TypeOK, Sessions
  <2>9. Released'
    BY <1>4, <2>3, <2>4, <2>5, <2>6 DEF Released, Sessions
  <2> QED
    BY <2>7, <2>8, <2>9
<1>5. ASSUME NEW r \in Requests, StartSse(r) PROVE Inv'
  <2> DEFINE s == request[r].session
  <2>1. /\ request[r] # Idle /\ s \in SseSessions /\ s \notin StreamSessions
        /\ client[s] = "new" /\ s \notin told
    BY <1>5, Located DEF StartSse, Idle, Attached, Lives, Sessions
  <2>2a. \A q \in Requests : q # r /\ (Starting(q) \/ Streaming(q)) =>
          request[q].session \in Sessions \ {s}
    BY <1>5, <2>1, Located DEF StartSse, Alone, Idle, Sessions
  <2>2b. /\ \A x \in Sessions \ {s} : listing'[x] = listing[x] /\ client'[x] = client[x]
        /\ UNCHANGED connected
    BY <1>5 DEF StartSse, Unlist, TypeOK
  <2>2. CASE Over(r) /\ UNCHANGED told
    <3>1. \A q \in Requests : request'[q] = IF q = r THEN Idle ELSE request[q]
      BY <2>2 DEF Over, TypeOK
    <3>2. Attached' /\ Alone'
      BY <2>2, <2>2a, <2>2b, <3>1 DEF Attached, Alone, Idle
    <3>3. Lives' /\ ConnectedAreListed'
      BY <1>5, <2>1, <2>2
      DEF StartSse, Unlist, Lives, ConnectedAreListed, TypeOK, Sessions
    <3>4. Released'
      <4>1. \A x \in told \cap SseSessions :
              x # s /\ listing'[x] = listing[x] /\ client'[x] = client[x]
        BY <1>5, <2>1 DEF StartSse, Unlist, TypeOK, Sessions
      <4>2. \A q \in Requests : Streaming(q) => q # r /\ request'[q] = request[q]
        BY <1>5, <3>1 DEF StartSse
      <4> SUFFICES ASSUME NEW x \in told \cap SseSessions, (Listed(x) \/ client[x] # "closed")'
                   PROVE  \E q \in Requests : Streaming(q)' /\ request'[q].session = x
        BY <2>2 DEF Released
      <4>3. PICK q \in Requests : Streaming(q) /\ request[q].session = x
        BY <4>1 DEF Released
      <4> QED
        BY <4>2, <4>3
    <3> QED
      BY <3>2, <3>3, <3>4
  <2>3. CASE ~(Over(r) /\ UNCHANGED told)
    <3>1. /\ client' = [client EXCEPT ![s] = "started"]
          /\ UNCHANGED <<listing, connected>>
          /\ Move(r, "open", s, FALSE)
          /\ told' = told \cup {s}
      BY <1>5, <2>3 DEF StartSse, Stay
    <3>2. \A q \in Requests : q # r => request'[q] = request[q]
      BY <3>1 DEF Move, TypeOK
    <3>3. Streaming(r)' /\ request'[r].session = s
      BY <1>5, <3>1 DEF StartSse, Move, TypeOK
    <3>4. Listed(s)
      <4>1. ~request[r].gone
        BY <1>5, <2>3 DEF StartSse, Stay
      <4> QED
        BY <1>5, <4>1 DEF StartSse, Attached
    <3>5. Attached' /\ Alone'
      BY <1>5, <2>2a, <2>2b, <3>1, <3>2, <3>3, <3>4 DEF StartSse, Attached, Alone
    <3>6. Lives' /\ ConnectedAreListed'
      BY <2>1, <3>1, <3>4 DEF Lives, ConnectedAreListed, TypeOK, Sessions
    <3>7. Released'
      BY <2>1, <3>1, <3>2, <3>3 DEF Released, TypeOK, Sessions
    <3> QED
      BY <3>5, <3>6, <3>7
  <2> QED
    BY <2>2, <2>3
<1>6. ASSUME NEW s \in SseSessions, HandleMessages(s) PROVE Inv'
  BY <1>1, <1>6
  DEF HandleMessages, Attached, Alone, Lives, Released, ConnectedAreListed, TypeOK
<1>7. ASSUME NEW r \in Requests, HandleInitialize(r) PROVE Inv'
  BY <1>7
  DEF HandleInitialize, Move, Attached, Alone, Lives, Released, ConnectedAreListed,
      Idle, TypeOK, Sessions
<1>8. ASSUME NEW r \in Requests, StartInitialize(r) PROVE Inv'
  BY <1>8, Located
  DEF StartInitialize, Move, Stay, Over, List, Attached, Alone, Lives, Released,
      ConnectedAreListed, Idle, TypeOK, Sessions
<1>9. ASSUME NEW r \in Requests, HandlePost(r), ~Rejected PROVE Inv'
  BY <1>9, Located
  DEF HandlePost, Move, Stay, Over, List, Disconnected, Attached, Alone, Lives,
      Released, ConnectedAreListed, Idle, TypeOK, Sessions
<1>11. ASSUME NEW r \in Requests, HandleGet(r) PROVE Inv'
  BY <1>11, Located
  DEF HandleGet, Move, Stay, Over, Disconnected, Attached, Alone, Lives, Released,
      ConnectedAreListed, Idle, TypeOK, Sessions
<1>12. ASSUME NEW r \in Requests, HandleDelete(r) PROVE Inv'
  BY <1>12, Located
  DEF HandleDelete, Close, Unlist, Over, Disconnected, Attached, Alone, Lives, Released,
      ConnectedAreListed, Idle, TypeOK, Sessions
<1>13. ASSUME NEW r \in Requests, Answer(r) PROVE Inv'
  BY <1>13, Located
  DEF Answer, Over, Disconnected, Attached, Alone, Lives, Released, ConnectedAreListed,
      Idle, TypeOK, Sessions
<1>14. ASSUME NEW r \in Requests, Leave(r) PROVE Inv'
  BY <1>14, Located
  DEF Leave, Move, Over, Unlist, Attached, Alone, Lives, Released, ConnectedAreListed,
      Idle, TypeOK, Sessions
<1>15. ASSUME NEW d \in Deployments, ContainerStops(d) \/ TimePasses(d) PROVE Inv'
  <2>1. CASE TimePasses(d)
    BY <2>1 DEF TimePasses, Attached, Alone, Lives, Released, ConnectedAreListed
  <2>2. CASE ContainerStops(d)
    <3>1. \A s \in Sessions :
            /\ client[s] # "started" => client'[s] = client[s]
            /\ client[s] = "started" => client'[s] \in {"started", "ended"}
      BY <2>2 DEF ContainerStops, TypeOK
    <3>2. \A r \in Requests : Starting(r) => request[r].session \in Sessions
      BY Located DEF Idle, Sessions
    <3>3. UNCHANGED <<request, listing, connected, told>>
      BY <2>2 DEF ContainerStops
    <3>4. Attached'
      BY <3>1, <3>2, <3>3 DEF Attached
    <3>5. Lives'
      BY <3>1, <3>3 DEF Lives
    <3>6. Released'
      BY <3>1, <3>3 DEF Released, TypeOK
    <3> QED
      BY <3>3, <3>4, <3>5, <3>6 DEF Alone, ConnectedAreListed
  <2> QED
    BY <1>15, <2>1, <2>2
<1>16. ASSUME MarkSse \/ MarkStreamable PROVE Inv'
  BY <1>16
  DEF MarkSse, MarkStreamable, MarkSessionsAsActive, Attached, Alone, Lives, Released,
      ConnectedAreListed
<1>17. ASSUME UNCHANGED vars PROVE Inv'
  BY <1>17 DEF vars, Attached, Alone, Lives, Released, ConnectedAreListed
<1> QED
  BY <1>1, <1>2, <1>3, <1>4, <1>5, <1>6, <1>7, <1>8, <1>9, <1>11, <1>12, <1>13, <1>14,
     <1>15, <1>16, <1>17 DEF Next, HandlerStep

\* Announced SSE sessions and their streams begin and end together.
THEOREM SseSessionsFollow == Spec => []SseSessionsFollowStream
<1>1. Inv => SseSessionsFollowStream
  BY DEF Inv, TypeOK, Attached, Released, SseSessionsFollowStream, Streaming, Starting
<1> QED
  BY <1>1, InitInv, NextInv, PTL DEF Spec

\* Every message of a session goes to a client transport that was started and not
\* closed.
THEOREM NamedAreAttached == Spec => []NamedSessionsAttached
<1>1. Inv => NamedSessionsAttached
  BY DEF Inv, TypeOK, Lives, NamedSessionsAttached
<1> QED
  BY <1>1, InitInv, NextInv, PTL DEF Spec

\* connected_sessions holds sessions of the tables only.
THEOREM ConnectedListed == Spec => []ConnectedAreListed
<1>1. Inv => ConnectedAreListed
  BY DEF Inv
<1> QED
  BY <1>1, InitInv, NextInv, PTL DEF Spec

-----------------------------------------------------------------------------
(* Closed sessions *)

OverForGood(s) ==
  client[s] = "closed" => client'[s] = "closed" /\ listing'[s] = None

LEMMA ClosedStep ==
  ASSUME Inv, [Next]_vars, NEW s \in Sessions
  PROVE  OverForGood(s)
<1> USE ConstantsAssumption DEF Inv, Listed, At
<1>1. ASSUME Rejected PROVE OverForGood(s)
  BY <1>1 DEF Rejected, OverForGood
<1>2. ASSUME UNCHANGED <<client, listing>> PROVE OverForGood(s)
  BY <1>2 DEF OverForGood, Lives
<1>3. ASSUME NEW r \in Requests, HandleSse(r) \/ HandleInitialize(r) PROVE OverForGood(s)
  BY <1>3 DEF HandleSse, HandleInitialize, List, OverForGood, Lives, TypeOK
<1>4. ASSUME NEW r \in Requests, StartSse(r) \/ StartInitialize(r) PROVE OverForGood(s)
  <2>1. client[request[r].session] = "new" /\ request[r].session \in Sessions
    BY <1>4, Located DEF StartSse, StartInitialize, Attached, Starting, Idle, Sessions
  <2> QED
    BY <1>4, <2>1
    DEF StartSse, StartInitialize, List, Unlist, OverForGood, Lives, TypeOK
<1>5. ASSUME NEW r \in Requests, HandlePost(r), ~Rejected PROVE OverForGood(s)
  BY <1>2, <1>5 DEF HandlePost
<1>6. ASSUME NEW r \in Requests, HandleDelete(r) \/ Leave(r) PROVE OverForGood(s)
  BY <1>6 DEF HandleDelete, Close, Leave, Unlist, OverForGood, Lives, TypeOK
<1>7. ASSUME NEW d \in Deployments, ContainerStops(d) PROVE OverForGood(s)
  BY <1>7 DEF ContainerStops, OverForGood, Lives, TypeOK
<1>8. ASSUME NEW x \in SseSessions, HandleMessages(x), ~Rejected PROVE OverForGood(s)
  BY <1>2, <1>8 DEF HandleMessages
<1>9. ASSUME NEW r \in Requests,
             Arrive(r) \/ NotReady(r) \/ RefusePost(r) \/ HandleGet(r) \/ Answer(r)
      PROVE  OverForGood(s)
  BY <1>2, <1>9 DEF Arrive, NotReady, RefusePost, HandleGet, Answer
<1>10. ASSUME MarkSse \/ MarkStreamable \/ (\E d \in Deployments : TimePasses(d))
       PROVE  OverForGood(s)
  BY <1>2, <1>10 DEF MarkSse, MarkStreamable, MarkSessionsAsActive, TimePasses
<1>11. ASSUME UNCHANGED vars PROVE OverForGood(s)
  BY <1>2, <1>11 DEF vars
<1> QED
  BY <1>1, <1>3, <1>4, <1>5, <1>6, <1>7, <1>8, <1>9, <1>10, <1>11 DEF Next, HandlerStep

\* A closed session is closed for good, its client transport too.
THEOREM ClosedForGood == Spec => ClosedStaysClosed
<1>1. Inv /\ [Next]_vars =>
        [\A s \in Sessions :
           client[s] = "closed" => client'[s] = "closed" /\ listing'[s] = None]_vars
  BY ClosedStep DEF OverForGood
<1> QED
  BY <1>1, InitInv, NextInv, PTL DEF Spec, ClosedStaysClosed

=============================================================================
