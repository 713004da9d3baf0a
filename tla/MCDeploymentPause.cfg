SPECIFICATION FairSpec
CONSTANTS
  Deployments = {d1}
  Creators = {c1}
  Deleters = {}
  Connectors = {k1}
  DeletePasses = {}
  PausePasses = {q1}
  Bodies <- CreatedThenPaused
  None = None
  Faults = {}
CHECK_DEADLOCK FALSE
PROPERTIES
  IdleDeploymentsPaused
