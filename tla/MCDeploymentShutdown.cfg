SPECIFICATION FairSpec
CONSTANTS
  Deployments = {d1, d2}
  Creators = {c1, c2}
  Deleters = {}
  Connectors = {}
  DeletePasses = {}
  PausePasses = {}
  Bodies <- StartedThenDeleted
  None = None
  Faults = {"createNetwork", "createContainer", "insert", "remove", "listNetworks",
            "crash", "signal"}
CHECK_DEADLOCK FALSE
INVARIANTS
  CleanupNeverMeetsProvisioning
PROPERTIES
  ImplementsContract
  ShutdownCompletes
