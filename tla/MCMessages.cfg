SPECIFICATION Spec
CONSTANTS
  SseSessions = {e1}
  StreamSessions = {h1}
  Calls = {a, b, c}
  one = one
  oneString = oneString
  Ids = {one, oneString}
  NoId = NoId
  Texts = {"1", "undefined"}
  Text <- TextOf
  FramesInFlight = 2
  None = None
SYMMETRY CallSymmetry
CHECK_DEADLOCK FALSE
INVARIANTS
  TypeOK
  AnswersReachTheirCaller
  AnsweredAtMostOnce
  IdsKeepTheirText
  ChunksGiveWholeFrames
PROPERTIES
  LostOnlyByCuts
  ImplementsAnswerContract
