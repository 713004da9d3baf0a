SPECIFICATION Spec
CONSTANTS
  Deployments = {d1}
  Creators = {c1}
  Deleters = {x1}
  Connectors = {k1}
  DeletePasses = {}
  PausePasses = {}
  Bodies <- CreatedThenDeleted
  None = None
  Faults = {}
CHECK_DEADLOCK FALSE
INVARIANTS
  DeletedMeansGone
