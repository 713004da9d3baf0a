SPECIFICATION FairSpec
CONSTANTS
  Deployments = {d1}
  SseSessions = {e1}
  StreamSessions = {h1}
  Requests = {r1, r2, r3}
  Faults = {"ready", "start", "refuse", "update"}
  None = None
CHECK_DEADLOCK FALSE
INVARIANTS
  TypeOK
  SseSessionsFollowStream
  NamedSessionsAttached
  ConnectedAreListed
PROPERTIES
  ClosedStaysClosed
  SseStreamsKeepAwake
