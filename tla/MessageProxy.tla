------------------------------ MODULE MessageProxy ------------------------------
(***************************************************************************)
(* SseServerTransportProxy and StreamableHttpServerTransportServerProxy    *)
(* between the external clients of several sessions and the one MCP server *)
(* of their deployment, a stdio one.  Every session attaches to the same   *)
(* container: what any of them sends arrives on the server's only stdin,   *)
(* and each of them hears everything the server writes.                    *)
(*                                                                         *)
(* A call is one message of an external client; the server may answer      *)
(* whatever reaches it with an id.  The daemon cuts what the server writes *)
(* into frames.  A frame stands here for the set of calls whose answer it  *)
(* carries in full: the empty set is a part of an answer too long for one  *)
(* frame, a line on stderr, or a message of the server's own, none of      *)
(* which the proxies forward.                                              *)
(***************************************************************************)
EXTENDS Naturals, Sequences

CONSTANTS
  SseSessions, StreamSessions,  \* as in Sessions
  Calls,                        \* the messages of external clients
  Ids,                          \* JSON-RPC ids: numbers and strings
  NoId,                         \* the id of a notification, undefined
  Texts, Text,                  \* an id as a template string prints it
  FramesInFlight,               \* bound on what is on its way to one session
  None

Sessions == SseSessions \cup StreamSessions
AnyId == Ids \cup {NoId}

ProxyIds == Sessions \X Texts
CallRecords == [session : Sessions, id : AnyId, proxyId : ProxyIds]

ASSUME ConstantsAssumption ==
  /\ SseSessions \cap StreamSessions = {}
  /\ Text \in [AnyId -> Texts]
  /\ NoId \notin Ids
  /\ None \notin Calls \cup AnyId \cup CallRecords

VARIABLES
  phase,          \* each session: "new", "open", "closed"
  call,           \* each call: None, or the session, the id and the proxy id
  originalIdMap,  \* of each session; None where it has no entry
  asked,          \* calls the server has received and not answered
  pipe,           \* frames on their way to each session's StdioDockerClient
  torn,           \* a part of the first of them has arrived with the last chunk
  responses,      \* ids whose POST response the SDK holds open
  got             \* history: for each call the answers that went out, with the
                  \* session they went to and the id they carried

vars == <<phase, call, originalIdMap, asked, pipe, torn, responses, got>>

TypeOK ==
  /\ phase \in [Sessions -> {"new", "open", "closed"}]
  /\ call \in [Calls -> CallRecords \cup {None}]
  /\ originalIdMap \in [Sessions -> [ProxyIds -> AnyId \cup {None}]]
  /\ asked \subseteq Calls
  /\ pipe \in [Sessions -> Seq(SUBSET Calls)]
  /\ torn \in [Sessions -> BOOLEAN]
  /\ responses \in [Sessions -> SUBSET Ids]
  /\ got \in [Calls -> Seq(Sessions \X AnyId)]

Init ==
  /\ phase = [s \in Sessions |-> "new"]
  /\ call = [c \in Calls |-> None]
  /\ originalIdMap = [s \in Sessions |-> [p \in ProxyIds |-> None]]
  /\ asked = {}
  /\ pipe = [s \in Sessions |-> <<>>]
  /\ torn = [s \in Sessions |-> FALSE]
  /\ responses = [s \in Sessions |-> {}]
  /\ got = [c \in Calls |-> <<>>]

Made(c) == call[c] # None

-----------------------------------------------------------------------------
(* From the external client to the server *)

\* A mistake the runs must notice: all sessions have one prefix.
ProxyIdUnprefixed(s, id) == <<CHOOSE x \in Sessions : TRUE, Text[id]>>

\* A mistake the runs must notice: the ids of a session print alike.
ProxyIdPrefixOnly(s, id) == <<s, CHOOSE t \in Texts : TRUE>>

\* proxyIdPrefix + originalId: a string, whatever the id was.
ProxyId(s, id) == <<s, Text[id]>>

\* start(): the client transport is attached, and hears what comes from now on.
Start(s) ==
  /\ phase[s] = "new"
  /\ phase' = [phase EXCEPT ![s] = "open"]
  /\ UNCHANGED <<call, originalIdMap, asked, pipe, torn, responses, got>>

\* An external client does not use an id twice in a session (JSON-RPC); 1 and
\* "1" are two ids.
Fresh(s, id) == \A c \in Calls : Made(c) => call[c].session # s \/ call[c].id # id

\* A mistake the runs must notice: a notification's response waits as well.
AwaitedAlways(s, id) == IF s \in StreamSessions THEN {id} ELSE {}

\* The SDK keeps the response of a POST open for the answer, if there is an id
\* to answer; all answers of an SSE session go out on its one stream.
Awaited(s, id) == IF s \in StreamSessions THEN {id} \ {NoId} ELSE {}

\* The proxy's onmessage.
Forward(s, c) ==
  /\ phase[s] = "open"
  /\ ~Made(c)
  /\ \E id \in AnyId :
       /\ id # NoId => Fresh(s, id)
       /\ call' = [call EXCEPT ![c] = [session |-> s, id |-> id, proxyId |-> ProxyId(s, id)]]
       /\ originalIdMap' = [originalIdMap EXCEPT ![s][ProxyId(s, id)] = id]
       /\ responses' = [responses EXCEPT ![s] = @ \cup Awaited(s, id)]
  /\ asked' = asked \cup {c}
  /\ UNCHANGED <<phase, pipe, torn, got>>

-----------------------------------------------------------------------------
(* From the server to the external client *)

\* What still listens: the proxies end their client transport when they close,
\* but its stream goes on, and so do the responses of a deleted session.
Listening(s) == phase[s] = "open" \/ (phase[s] = "closed" /\ s \in StreamSessions)

\* Every attached client is sent the same frames.
Broadcast(frames) ==
  /\ \A s \in Sessions : Listening(s) => Len(pipe[s]) + Len(frames) <= FramesInFlight
  /\ pipe' = [s \in Sessions |-> IF Listening(s) THEN pipe[s] \o frames ELSE pipe[s]]
  /\ UNCHANGED <<phase, call, originalIdMap, torn, responses, got>>

\* One write of the server: nothing to us, or the answers to one or two calls.
ServerWrites ==
  \E c, e \in asked \cup {None} :
    LET answered == {c, e} \ {None}
    IN Broadcast(<<answered>>) /\ asked' = asked \ answered

\* An answer too long for one frame.
ServerWritesLong ==
  \E c \in asked : Broadcast(<<{}, {}>>) /\ asked' = asked \ {c}

\* originalIdMap[message.id]
Restored(s, c) == originalIdMap[s][call[c].proxyId]

\* client.onmessage for the answers that a chunk holds: the calls whose answer
\* goes out.  On SSE that is every one the map knows.  The SDK's streamable
\* transport sends the first answer with the id of an open response and rejects
\* the others; it has only the GET stream, if there is one, for a message
\* without an id.
Deliveries(s, answers) ==
  LET known == {c \in answers : Restored(s, c) # None}
      sent(c) == Restored(s, c) \in responses[s] \cup {NoId}
  IN IF s \in SseSessions THEN {known}
     ELSE {out \in SUBSET {c \in known : sent(c)} :
             \A c \in known : Restored(s, c) \in responses[s] =>
               \E d \in out : \A e \in out :
                 (Restored(s, e) = Restored(s, c)) <=> (e = d)}

\* The answers of the calls in `out' go out on s.
Send(s, out) ==
  /\ got' = [c \in Calls |-> IF c \in out THEN Append(got[c], <<s, Restored(s, c)>>)
                                          ELSE got[c]]
  /\ responses' = [responses EXCEPT ![s] = @ \ {Restored(s, c) : c \in out}]

\* The answers in the first n frames.
Answers(s, n) == UNION {pipe[s][i] : i \in 1 .. n}

\* A mistake the runs must notice: a chunk that ends within a frame is kept, and
\* read again from its beginning when the next one is there.
ReceiveAgain(s, n, tear) ==
  /\ \E out \in Deliveries(s, Answers(s, n)) : Send(s, out)
  /\ pipe' = IF tear THEN pipe ELSE [pipe EXCEPT ![s] = SubSeq(@, n + 1, Len(@))]
  /\ UNCHANGED <<phase, call, originalIdMap, asked, torn>>

\* A mistake the runs must notice: an entry of the map goes with the answer it served.
ReceiveForgetting(s, n, tear) ==
  /\ \E out \in Deliveries(s, IF torn[s] THEN {} ELSE Answers(s, n)) :
       /\ Send(s, out)
       /\ originalIdMap' = [originalIdMap EXCEPT ![s] =
            [p \in ProxyIds |-> IF \E c \in out : call[c].proxyId = p THEN None ELSE @[p]]]
  /\ pipe' = [pipe EXCEPT ![s] = SubSeq(@, n + 1, Len(@))]
  /\ torn' = [torn EXCEPT ![s] = tear]
  /\ UNCHANGED <<phase, call, asked>>

\* A mistake the runs must notice: a frame that the chunk ends within is set aside
\* until those behind it have been read.
ReceiveSetAside(s, n, tear) ==
  /\ \E out \in Deliveries(s, Answers(s, n)) : Send(s, out)
  /\ pipe' = [pipe EXCEPT ![s] =
       LET rest == SubSeq(@, n + 1, Len(@))
       IN IF tear THEN Append(Tail(rest), Head(rest)) ELSE rest]
  /\ UNCHANGED <<phase, call, originalIdMap, asked, torn>>

\* processDockerStream: a chunk that completes n frames, and ends within the
\* next one if tear.  Nothing is carried over from one chunk to the next: what
\* a chunk ends within is dropped, and one that begins within a frame takes
\* text for a header, reads a size larger than itself, and is dropped whole.
Receive(s, n, tear) ==
  /\ \E out \in Deliveries(s, IF torn[s] THEN {} ELSE Answers(s, n)) : Send(s, out)
  /\ pipe' = [pipe EXCEPT ![s] = SubSeq(@, n + 1, Len(@))]
  /\ torn' = [torn EXCEPT ![s] = tear]
  /\ UNCHANGED <<phase, call, originalIdMap, asked>>

Chunk(s) ==
  \E n \in 0 .. Len(pipe[s]), tear \in BOOLEAN :
    /\ n = 0 => tear /\ ~torn[s]
    /\ tear => n < Len(pipe[s])
    /\ Receive(s, n, tear)

-----------------------------------------------------------------------------
(* Closing *)

\* The response of an SSE session closes: the SDK sends nothing any more.
CloseSse(s) ==
  /\ s \in SseSessions
  /\ phase[s] = "open"
  /\ phase' = [phase EXCEPT ![s] = "closed"]
  /\ pipe' = [pipe EXCEPT ![s] = <<>>]
  /\ torn' = [torn EXCEPT ![s] = FALSE]
  /\ UNCHANGED <<call, originalIdMap, asked, responses, got>>

\* DELETE: close() of the proxy does not call the SDK's, which would end the
\* responses.
CloseStreamable(s) ==
  /\ s \in StreamSessions
  /\ phase[s] = "open"
  /\ phase' = [phase EXCEPT ![s] = "closed"]
  /\ UNCHANGED <<call, originalIdMap, asked, pipe, torn, responses, got>>

\* An external client gives up waiting for an answer.
HangUp(s) ==
  /\ \E id \in responses[s] : responses' = [responses EXCEPT ![s] = @ \ {id}]
  /\ UNCHANGED <<phase, call, originalIdMap, asked, pipe, torn, got>>

Next ==
  \/ \E s \in Sessions :
       \/ Start(s) \/ Chunk(s) \/ CloseSse(s) \/ CloseStreamable(s) \/ HangUp(s)
       \/ \E c \in Calls : Forward(s, c)
  \/ ServerWrites
  \/ ServerWritesLong

Spec == Init /\ [][Next]_vars

-----------------------------------------------------------------------------
(* Properties *)

\* Although all sessions of a deployment share the server's stdin and hear all
\* of its answers, an answer goes out only on the session that asked.
AnswersReachTheirCaller ==
  \A c \in Calls : \A i \in 1 .. Len(got[c]) : got[c][i][1] = call[c].session

\* A call is answered at most once, on one session, however the daemon's frames
\* and the chunks fall and whichever responses close meanwhile.
AnsweredAtMostOnce == \A c \in Calls : Len(got[c]) <= 1

\* The id an answer carries prints like the id of its call.  "this helps prevent
\* number / string confusion" (sse-server-transport-proxy.ts) is no more than
\* this: of 1 and "1", both under way in a session, the map keeps the later one.
IdsKeepTheirText ==
  \A c \in Calls : \A i \in 1 .. Len(got[c]) : Text[got[c][i][2]] = Text[call[c].id]

\* Call c is answered in a frame on its way to s.
InPipe(s, c) == \E i \in 1 .. Len(pipe[s]) : c \in pipe[s][i]

\* The call waits in the server, or its answer is on its way to s or has gone out.
Pending(s, c) == c \in asked \/ InPipe(s, c) \/ got[c] # <<>>

\* Another message of the session had an id that prints like the id of c.
SharesProxyId(c) == \E d \in Calls \ {c} : Made(d) /\ call[d].proxyId = call[c].proxyId

\* While a session is heard, the proxies lose the answer to one of its calls only
\* where a cut takes it: the answer is too long for a frame, or its chunk begins
\* within a frame.  On a streamable session there are two more ways: nobody waits
\* for that id any more, or it is confused with another that prints alike.
LostOnlyByCuts ==
  [][\A c \in Calls : \A s \in Sessions :
       (Made(c) /\ call[c].session = s /\ Listening(s)' /\ Pending(s, c) /\ ~Pending(s, c)') =>
         \/ c \in asked /\ ServerWritesLong
         \/ c \notin asked /\ torn[s]
         \/ s \in StreamSessions /\ (call[c].id \notin responses[s] \/ SharesProxyId(c))]_vars

\* Calls whose answer is on its way to their session.
Underway == {c \in Calls : Made(c) /\ InPipe(call[c].session, c)}

Earlier(s, c, d) ==
  \E j \in 1 .. Len(pipe[s]) : \E i \in 1 .. j - 1 : c \in pipe[s][i] /\ d \in pipe[s][j]

\* Pairs of them, of one session, the first in an earlier frame than the second.
Ordered ==
  {p \in Underway \X Underway :
     /\ call[p[1]].session = call[p[2]].session
     /\ Earlier(call[p[1]].session, p[1], p[2])}

Callers == [c \in Calls |-> IF Made(c) THEN call[c].session ELSE None]

SentOn == [c \in Calls |-> [i \in 1 .. Len(got[c]) |-> got[c][i][1]]]

Contract == INSTANCE AnswerContract WITH
  caller <- Callers, underway <- Underway, before <- Ordered, answers <- SentOn

\* One server shared by all sessions, its output heard by all, is to each of them a
\* server of its own behind a channel that only loses: no answer overtakes an
\* earlier one, however the sessions' writes, frames and chunks are interleaved.
ImplementsAnswerContract == Contract!Spec

-----------------------------------------------------------------------------
(* What the comments say, and the code does not keep *)

\* "when the Underlying MCP Server sends a message, forward it out to the
\* External Client" (both proxies): the answer to a call of an open SSE session
\* has gone out or is on its way.
AnswersForwarded ==
  \A c \in Calls : \A s \in SseSessions :
    (Made(c) /\ c \notin asked /\ call[c].session = s /\ phase[s] = "open") =>
      got[c] # <<>> \/ InPipe(s, c)

=============================================================================
