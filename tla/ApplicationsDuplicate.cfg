SPECIFICATION Spec
CONSTANTS
  Jobs = {j1}
  Apps = {a1, a2}
  Handlers = {h1, h2}
  Workers = {}
  NoJob = NoJob
  NoApp = NoApp
  DailyCap = 1
  MaxTaskRetries = 0
  MaxApplicationRetries = 0
  Operations = {"create"}
  Environment = {}
  RequeueBound = 1
  QueueBound = 1
CHECK_DEADLOCK FALSE
INVARIANTS
  OneApplicationPerJob
