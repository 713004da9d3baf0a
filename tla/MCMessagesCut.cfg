SPECIFICATION Spec
CONSTANTS
  SseSessions = {e1}
  StreamSessions = {}
  Calls = {a, b}
  one = one
  oneString = oneString
  Ids = {one, oneString}
  NoId = NoId
  Texts = {"1", "undefined"}
  Text <- TextOf
  \* No answer is longer than a frame: what is lost is lost by a cut.
  FramesInFlight = 1
  None = None
CHECK_DEADLOCK FALSE
INVARIANTS
  AnswersForwarded
