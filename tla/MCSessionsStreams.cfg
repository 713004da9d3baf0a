SPECIFICATION Spec
CONSTANTS
  Deployments = {d1}
  SseSessions = {e1}
  StreamSessions = {h1}
  Requests = {r1, r2}
  Faults = {}
  None = None
CHECK_DEADLOCK FALSE
INVARIANT
  OpenStreamsAreConnected
