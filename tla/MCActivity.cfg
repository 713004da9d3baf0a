SPECIFICATION Spec
CONSTANTS
  d1 = d1
  d2 = d2
  Deployments = {d1, d2}
  PauseAfter <- PauseAfterOf
  DeleteAfter <- DeleteAfterOf
  Streams = {e1}
  PerSecond = 2
  Lateness = 1
  Faults = {"delete", "stop", "query", "update"}
  MaxTime = 6
  None = None
CHECK_DEADLOCK FALSE
INVARIANTS
  TypeOK
  MarkedNeverDue
  OverdueAreSelected
