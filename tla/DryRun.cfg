SPECIFICATION Spec
CONSTANTS
  Attempts = 2
  OpenAttempts = 8
  Urls <- MCUrls
INVARIANTS
  NeverSubmits
  OutcomeExplained
  NothingLeftRunning
