SPECIFICATION Spec
CONSTANTS
  Jobs = {j1}
  Apps = {a1}
  Handlers = {h1, h2}
  Workers = {w1, w2}
  NoJob = NoJob
  NoApp = NoApp
  DailyCap = 1
  MaxTaskRetries = 0
  MaxApplicationRetries = 1
  Operations = {"create", "retry", "sweep", "telegram"}
  Environment = {"crash","exhausted","redeliver","pause","delete"}
  RequeueBound = 2
  QueueBound = 2
SYMMETRY Symmetry
CHECK_DEADLOCK FALSE
INVARIANTS
  TypeOK
  BlockedStaysForReview
  OutcomeHasEvidence
  OrphansExplained
  RetryCountNeverOverstates
PROPERTIES
  OnlyUsersExceedTheCap
