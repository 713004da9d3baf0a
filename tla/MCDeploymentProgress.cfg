SPECIFICATION FairSpec
CONSTANTS
  Deployments = {d1, d2}
  Creators = {c1}
  Deleters = {}
  Connectors = {k1}
  DeletePasses = {p1}
  PausePasses = {}
  Bodies <- StartedThenDeleted
  None = None
  Faults = {"id", "createNetwork", "createContainer", "start",
            "remove", "removeSocket"}
CHECK_DEADLOCK FALSE
PROPERTIES
  DueDeploymentsDeleted
  FailedCreateIsUndone
