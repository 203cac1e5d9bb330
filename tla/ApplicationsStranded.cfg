SPECIFICATION FairSpec
CONSTANTS
  Jobs = {j1}
  Apps = {a1}
  Handlers = {h1}
  Workers = {w1}
  NoJob = NoJob
  NoApp = NoApp
  DailyCap = 1
  MaxTaskRetries = 0
  MaxApplicationRetries = 3
  Operations = {"create", "sweep"}
  Environment = {}
  RequeueBound = 2
  QueueBound = 1
CHECK_DEADLOCK FALSE
PROPERTIES
  EveryQueuedDriven
