SPECIFICATION FairSpec
CONSTANTS
  Jobs = {j1, j2}
  Apps = {a1, a2}
  Handlers = {h1}
  Workers = {w1, w2}
  NoJob = NoJob
  NoApp = NoApp
  DailyCap = 1
  MaxTaskRetries = 1
  MaxApplicationRetries = 0
  Operations = {"create", "retry"}
  Environment = {"transient", "profile", "delete"}
  RequeueBound = 2
  QueueBound = 1
CHECK_DEADLOCK FALSE
PROPERTIES
  LifecycleSpec
  EveryQueuedDriven
