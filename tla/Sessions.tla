-------------------------------- MODULE Sessions --------------------------------
(***************************************************************************)
(* SSEMcpServerService and StreamableHttpMcpServerService: which sessions  *)
(* are in their tables, which MCP client transports are open behind them,  *)
(* and what their cron jobs keep awake.  The deployments are stdio ones.   *)
(* A request is one HTTP request of an external client; its handler waits  *)
(* for ensureContainerReady, then perhaps for the client transport to      *)
(* start, and the external client may leave during either wait.            *)
(***************************************************************************)
EXTENDS Naturals

CONSTANTS
  Deployments,
  SseSessions,       \* transports that handleSSE creates, by session id
  StreamSessions,    \* transports that handlePostRequest creates, likewise
  Requests,          \* HTTP requests open at the same time
  Faults,            \* what may fail: "ready", "start", "refuse", "update"
  None

Sessions == SseSessions \cup StreamSessions
Kinds == {"sse", "initialize", "post", "get", "delete"}

ASSUME ConstantsAssumption ==
  /\ SseSessions \cap StreamSessions = {}
  /\ None \notin Deployments \cup Sessions

VARIABLES
  request,     \* [Requests -> how far the handler is, and for whom]
  listing,     \* transports and session_to_deployment_id, of both services:
               \* the deployment of a session in the tables
  connected,   \* connected_sessions
  client,      \* the MCP client transport of each session
  standalone,  \* sessions whose GET stream the SDK holds open
  told,        \* sessions whose id an external client has received
  quiet,       \* deployments whose timers run: nobody has pushed them back
  locked       \* sessionActivityUpdateLocked, of both services

vars == <<request, listing, connected, client, standalone, told, quiet, locked>>

Idle == [at |-> "idle", kind |-> "none", deployment |-> None, session |-> None,
         gone |-> FALSE]

\* The fields of a request that is not idle; only those of the services' waits.
Fields(at, kind, sessions) ==
  [at : at, kind : kind, deployment : Deployments, session : sessions, gone : BOOLEAN]

Active ==
  Fields({"ready"}, {"sse", "initialize"}, {None})
    \cup Fields({"start", "open"}, {"sse"}, SseSessions)
    \cup Fields({"start", "open"}, {"initialize"}, StreamSessions)
    \cup Fields({"ready", "open"}, {"post", "get", "delete"}, StreamSessions)

TypeOK ==
  /\ request \in [Requests -> {Idle} \cup Active]
  /\ listing \in [Sessions -> Deployments \cup {None}]
  /\ connected \subseteq StreamSessions
  /\ client \in [Sessions -> {"none", "new", "started", "ended", "closed"}]
  /\ standalone \subseteq StreamSessions
  /\ told \subseteq Sessions
  /\ quiet \subseteq Deployments
  /\ locked \in [{"sse", "streamable"} -> BOOLEAN]

Init ==
  /\ request = [r \in Requests |-> Idle]
  /\ listing = [s \in Sessions |-> None]
  /\ connected = {}
  /\ client = [s \in Sessions |-> "none"]
  /\ standalone = {}
  /\ told = {}
  /\ quiet = {}
  /\ locked = [service \in {"sse", "streamable"} |-> FALSE]

-----------------------------------------------------------------------------
(* Tables, requests, responses *)

Fails(call) == call \in Faults

At(r, at, kind) == request[r].at = at /\ request[r].kind = kind

\* A mistake the runs must notice: a session is looked up among all there ever were.
EverListed(s) == client[s] # "none"

\* transports[sessionId]
Listed(s) == listing[s] # None

\* A mistake the runs must notice: key and value swapped.
ListSwapped(s, d) == [listing EXCEPT ![s] = s]

List(s, d) == [listing EXCEPT ![s] = d]

\* A mistake the runs must notice: nothing is removed when a session closes.
Kept(s) == listing

\* The close handlers of the services.
Unlist(s) == [listing EXCEPT ![s] = None]

\* A mistake the runs must notice: connected_sessions is forgotten.
CloseForgetting(s) ==
  /\ listing' = Unlist(s)
  /\ client' = [client EXCEPT ![s] = "closed"]
  /\ connected' = connected \cup {s}

\* The streamable proxy's close(): the client transport ends and the service's
\* handler runs.
Close(s) ==
  /\ listing' = Unlist(s)
  /\ client' = [client EXCEPT ![s] = "closed"]
  /\ connected' = connected \ {s}

\* updateLastInteraction
Touch(ds) == quiet' = quiet \ ds

\* The handler is over, its response with it.
Over(r) == request' = [request EXCEPT ![r] = Idle]

\* The handler goes on for session s, up to its next wait.
Move(r, at, s, gone) ==
  request' = [request EXCEPT ![r] =
    [at |-> at, kind |-> request[r].kind, deployment |-> request[r].deployment,
     session |-> s, gone |-> gone]]

\* The handler leaves the response open, unless its client has left unnoticed.
Stay(r, s) == IF request[r].gone THEN Over(r) ELSE Move(r, "open", s, FALSE)

\* The services' close listener: it runs when the response ends, answered or
\* not, but not for a client that left before the listener was there.
Disconnected(r, s, sessions) ==
  connected' = IF request[r].gone THEN sessions ELSE sessions \ {s}

-----------------------------------------------------------------------------
(* The process *)

\* An unhandled rejection ends the process, unless SENTRY_DSN installs a handler;
\* the container that replaces it starts with empty tables.
Rejected ==
  /\ request' = [r \in Requests |-> Idle]
  /\ listing' = [s \in Sessions |-> None]
  /\ connected' = {}
  /\ client' = [s \in Sessions |-> IF client[s] = "none" THEN "none" ELSE "closed"]
  /\ standalone' = {}
  /\ locked' = [service \in {"sse", "streamable"} |-> FALSE]
  /\ UNCHANGED <<told, quiet>>

\* An external client's request: session ids are known only to whom they were told.
Arrive(r) ==
  /\ request[r] = Idle
  /\ \E kind \in Kinds, d \in Deployments, s \in (told \cap StreamSessions) \cup {None} :
       /\ kind \in {"sse", "initialize"} <=> s = None
       /\ request' = [request EXCEPT ![r] =
            [at |-> "ready", kind |-> kind, deployment |-> d, session |-> s, gone |-> FALSE]]
  /\ UNCHANGED <<listing, connected, client, standalone, told, quiet, locked>>

\* ensureContainerReady throws: the error is sent, and no listener is there yet.
NotReady(r) ==
  /\ Fails("ready")
  /\ request[r].at = "ready"
  /\ Over(r)
  /\ UNCHANGED <<listing, connected, client, standalone, told, quiet, locked>>

-----------------------------------------------------------------------------
(* SSEMcpServerService *)

\* handleSSE up to transport.start().
HandleSse(r) ==
  /\ At(r, "ready", "sse")
  /\ \E s \in SseSessions :
       /\ client[s] = "none"
       /\ client' = [client EXCEPT ![s] = "new"]
       /\ listing' = List(s, request[r].deployment)
       /\ Move(r, "start", s, request[r].gone)
  /\ UNCHANGED <<connected, standalone, told, quiet, locked>>

\* client.start(), then SSEServerTransport.start(), which sends the endpoint.
\* An error goes to Nest, which ends the response.
StartSse(r) ==
  LET s == request[r].session
  IN /\ At(r, "start", "sse")
     /\ \/ /\ client' = [client EXCEPT ![s] = "started"]
           /\ Stay(r, s)
           /\ told' = IF request[r].gone THEN told ELSE told \cup {s}
           /\ UNCHANGED listing
        \/ /\ Fails("start")
           /\ Over(r)
           /\ listing' = IF request[r].gone THEN listing ELSE Unlist(s)
           /\ UNCHANGED <<client, told>>
     /\ UNCHANGED <<connected, standalone, quiet, locked>>

\* handleMessages: the row is looked up without an await, so it is never missed.
\* A rejected send is not caught.
HandleMessages(s) ==
  /\ s \in told \cap SseSessions
  /\ Listed(s)
  /\ \/ /\ client[s] = "started"
        /\ Touch({listing[s]})
        /\ UNCHANGED <<request, listing, connected, client, standalone, told, locked>>
     \/ client[s] # "started" /\ Rejected

-----------------------------------------------------------------------------
(* StreamableHttpMcpServerService *)

\* handlePostRequest of an initialize request up to transport.start().
HandleInitialize(r) ==
  /\ At(r, "ready", "initialize")
  /\ \E s \in StreamSessions :
       /\ client[s] = "none"
       /\ client' = [client EXCEPT ![s] = "new"]
       /\ Move(r, "start", s, request[r].gone)
  /\ UNCHANGED <<listing, connected, standalone, told, quiet, locked>>

\* The rest of it: the close listener, handleRequest with onsessioninitialized,
\* and the message on its way to the server.  The SDK may refuse the request
\* (an Accept header it does not like) and then the transport gets no id.
StartInitialize(r) ==
  LET s == request[r].session
      d == request[r].deployment
  IN /\ At(r, "start", "initialize")
     /\ \/ /\ client' = [client EXCEPT ![s] = "started"]
           /\ listing' = List(s, d)
           /\ connected' = connected \cup {s}
           /\ told' = IF request[r].gone THEN told ELSE told \cup {s}
           /\ Touch({d})
           /\ Stay(r, s)
        \/ /\ Fails("refuse")
           /\ client' = [client EXCEPT ![s] = "started"]
           /\ Over(r)
           /\ UNCHANGED <<listing, connected, told, quiet>>
        \/ /\ Fails("start")
           /\ Over(r)
           /\ UNCHANGED <<client, listing, connected, told, quiet>>
     /\ UNCHANGED <<standalone, locked>>

\* handlePostRequest of a session in the table: forwarded and answered later, or
\* accepted at once (a notification), or refused by the SDK.  The last lines of
\* the handler enter the session again if it is gone: only one found elsewhere than
\* in the table could be, since nothing else runs between the lookup and those lines.
HandlePost(r) ==
  LET s == request[r].session
  IN /\ At(r, "ready", "post")
     /\ Listed(s)
     /\ \/ /\ Touch({listing[s]})
           /\ \/ Stay(r, s) /\ UNCHANGED connected
              \/ Over(r) /\ Disconnected(r, s, connected)
           /\ listing' = IF listing[s] = None THEN List(s, request[r].deployment) ELSE listing
           /\ UNCHANGED <<client, standalone, told, locked>>
        \/ /\ Fails("refuse")
           /\ Over(r)
           /\ Disconnected(r, s, connected)
           /\ UNCHANGED <<listing, client, standalone, told, quiet, locked>>
        \/ client[s] # "started" /\ Rejected

\* A POST of a session that is not in the table.
RefusePost(r) ==
  /\ At(r, "ready", "post")
  /\ ~Listed(request[r].session)
  /\ Over(r)
  /\ UNCHANGED <<listing, connected, client, standalone, told, quiet, locked>>

\* handleTransportRequest of a GET: the stream stays open, unless the SDK has one
\* already (409) or refuses it.
HandleGet(r) ==
  LET s == request[r].session
  IN /\ At(r, "ready", "get")
     /\ Touch({request[r].deployment})
     /\ \/ /\ ~Listed(s)
           /\ Over(r)
           /\ UNCHANGED <<connected, standalone>>
        \/ /\ Listed(s)
           /\ s \notin standalone
           /\ Stay(r, s)
           /\ connected' = connected \cup {s}
           /\ standalone' = standalone \cup {s}
        \/ /\ Listed(s)
           /\ s \in standalone \/ Fails("refuse")
           /\ Over(r)
           /\ Disconnected(r, s, connected \cup {s})
           /\ UNCHANGED standalone
     /\ UNCHANGED <<listing, client, told, locked>>

\* handleTransportRequest of a DELETE: connected for a moment, then closed, unless
\* the SDK refuses it (a protocol version it does not know), which is over like a
\* refused GET.  The open responses of the session are left as they are.
HandleDelete(r) ==
  LET s == request[r].session
  IN /\ At(r, "ready", "delete")
     /\ Touch({request[r].deployment})
     /\ Over(r)
     /\ \/ ~Listed(s) /\ UNCHANGED <<listing, client, connected>>
        \/ Listed(s) /\ Close(s)
        \/ /\ Listed(s)
           /\ Fails("refuse")
           /\ Disconnected(r, s, connected \cup {s})
           /\ UNCHANGED <<listing, client>>
     /\ UNCHANGED <<standalone, told, locked>>

\* The server answers a POST, which ends its response.  Closing the session ends
\* only the way to the server: an answer to what was asked before still comes.
Answer(r) ==
  LET s == request[r].session
  IN /\ request[r].at = "open"
     /\ request[r].kind \in {"initialize", "post"}
     /\ client[s] \in {"started", "closed"}
     /\ Over(r)
     /\ Disconnected(r, s, connected)
     /\ UNCHANGED <<listing, client, standalone, told, quiet, locked>>

-----------------------------------------------------------------------------
(* External clients and containers *)

\* The external client closes its connection.  What notices depends on the
\* listeners that are there: none before ensureContainerReady has answered, the
\* service's own while an SSE client transport starts, in the end all of them.
Leave(r) ==
  LET s == request[r].session
  IN /\ request[r].at # "idle"
     /\ ~request[r].gone
     /\ IF request[r].at = "open"
        THEN Over(r)
        ELSE Move(r, request[r].at, s, TRUE)
     /\ listing' = IF request[r].at # "ready" /\ request[r].kind = "sse"
                   THEN Unlist(s) ELSE listing
     /\ client' = IF At(r, "open", "sse") THEN [client EXCEPT ![s] = "closed"] ELSE client
     /\ connected' = IF request[r].at = "open" THEN connected \ {s} ELSE connected
     /\ standalone' = IF At(r, "open", "get") THEN standalone \ {s} ELSE standalone
     /\ UNCHANGED <<told, quiet, locked>>

\* The container stops, and with it the attached streams; nobody listens.
ContainerStops(d) ==
  /\ client' = [s \in Sessions |->
                  IF listing[s] = d /\ client[s] = "started" THEN "ended" ELSE client[s]]
  /\ UNCHANGED <<request, listing, connected, standalone, told, quiet, locked>>

TimePasses(d) ==
  /\ quiet' = quiet \cup {d}
  /\ UNCHANGED <<request, listing, connected, client, standalone, told, locked>>

-----------------------------------------------------------------------------
(* The cron jobs *)

\* A mistake the runs must notice: SSE sessions counted the streamable way.
SseConnected == {listing[s] : s \in SseSessions \cap connected}

SseActive == {listing[s] : s \in {x \in SseSessions : Listed(x)}}

StreamableActive == {listing[s] : s \in connected}

\* One pass.  An update that throws leaves the rest, and the lock, as they are.
MarkSessionsAsActive(service, active) ==
  /\ ~locked[service]
  /\ \/ Touch(active) /\ UNCHANGED locked
     \/ /\ Fails("update")
        /\ \E done \in SUBSET active : done # active /\ Touch(done)
        /\ locked' = [locked EXCEPT ![service] = TRUE]
  /\ UNCHANGED <<request, listing, connected, client, standalone, told>>

MarkSse == MarkSessionsAsActive("sse", SseActive)
MarkStreamable == MarkSessionsAsActive("streamable", StreamableActive)

-----------------------------------------------------------------------------
(* Specification *)

HandlerStep(r) ==
  \/ HandleSse(r) \/ StartSse(r)
  \/ HandleInitialize(r) \/ StartInitialize(r)
  \/ HandlePost(r) \/ RefusePost(r) \/ HandleGet(r) \/ HandleDelete(r)

Next ==
  \/ \E r \in Requests :
       Arrive(r) \/ NotReady(r) \/ HandlerStep(r) \/ Answer(r) \/ Leave(r)
  \/ \E s \in SseSessions : HandleMessages(s)
  \/ \E d \in Deployments : ContainerStops(d) \/ TimePasses(d)
  \/ MarkSse
  \/ MarkStreamable

Spec == Init /\ [][Next]_vars

\* The scheduler runs both jobs every second.  What external clients, containers
\* and Docker do is never promised.
FairSpec == Spec /\ WF_vars(MarkSse) /\ WF_vars(MarkStreamable)

-----------------------------------------------------------------------------
(* Properties *)

OpenSse(d) ==
  \E r \in Requests : At(r, "open", "sse") /\ request[r].deployment = d

\* An SSE session that was announced to its client lives exactly as long as the
\* response: while it is open the session is in the tables, so that its messages
\* find it; afterwards it is in no table and its client transport is closed.
SseSessionsFollowStream ==
  \A s \in told \cap SseSessions :
    IF \E r \in Requests : At(r, "open", "sse") /\ request[r].session = s
    THEN Listed(s)
    ELSE ~Listed(s) /\ client[s] = "closed"

\* A message never reaches a client transport that has not been started, or
\* that the service itself has closed (`Transport not started', a rejection
\* nobody handles): every session a client can name is attached.
NamedSessionsAttached ==
  \A s \in told : Listed(s) => client[s] \in {"started", "ended"}

\* markSessionsAsActive of the streamable service looks up only sessions that
\* are in the table, although connected_sessions is changed by listeners of
\* responses that outlive their session.
ConnectedAreListed == \A s \in connected : Listed(s)

\* A session that was closed is not entered again, whatever its other requests do:
\* a POST that waits for the container meanwhile (handlePostRequest looks its session
\* up afterwards), a response that is answered later.
ClosedStaysClosed ==
  [][\A s \in Sessions :
       client[s] = "closed" => client'[s] = "closed" /\ listing'[s] = None]_vars

\* A deployment with an open SSE stream is not left to its timers: the job
\* pushes them back, unless a failed update has locked the job.
SseStreamsKeepAwake ==
  \A d \in Deployments :
    (d \in quiet /\ OpenSse(d)) ~> (d \notin quiet \/ ~OpenSse(d) \/ locked["sse"])

-----------------------------------------------------------------------------
(* What the comments say, and the code does not keep *)

\* "mark the deployments with active sessions as active"
\* (streamable-http-mcp-server.service.ts): a session of the table whose GET
\* stream is open is among those the job marks.
OpenStreamsAreConnected ==
  \A r \in Requests :
    At(r, "open", "get") /\ Listed(request[r].session) => request[r].session \in connected

=============================================================================
