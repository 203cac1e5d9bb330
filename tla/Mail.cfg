CONSTANTS
  Syncs = {s1, s2}
  MailBound = 2
  PageSize = 1
  TokenBound = 2
  AiLimit = 1
  FaultBound = 1
SPECIFICATION Spec
SYMMETRY Symmetry
CHECK_DEADLOCK FALSE
INVARIANTS
  TypeOK
  MissedExplained
  CounterExpires
  UnsettledExplained
