SPECIFICATION Spec
CONSTANTS
  Jobs = {j1, j2}
  Apps = {a1, a2, a3}
  Handlers = {h1, h2}
  Workers = {}
  NoJob = NoJob
  NoApp = NoApp
  DailyCap = 0
  MaxTaskRetries = 0
  MaxApplicationRetries = 0
  Operations = {"create", "telegram"}
  Environment = {"delete", "crash", "flag"}
  RequeueBound = 1
  QueueBound = 1
SYMMETRY Symmetry
CHECK_DEADLOCK FALSE
INVARIANTS
  RowsPerJobBounded
  ApprovalsBounded
