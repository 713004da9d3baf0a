SPECIFICATION Spec
CONSTANTS
  Deployments = {d1}
  Creators = {c1}
  Deleters = {x1}
  Connectors = {k1}
  DeletePasses = {p1, p2}
  PausePasses = {q1, q2}
  Bodies <- AllTimers
  None = None
  Faults = {"useradd", "id", "createNetwork", "createContainer", "insert", "update",
            "delete", "query", "start", "attach", "stop", "remove", "listNetworks",
            "removeNetwork", "userdel", "inspect", "crash"}
SYMMETRY PassSymmetry
CHECK_DEADLOCK FALSE
INVARIANTS
  TypeOK
  SilentDeletionIsComplete
  UnlistedNeverRan
  OnePassAtATime
PROPERTIES
  RowsNeverReturn
