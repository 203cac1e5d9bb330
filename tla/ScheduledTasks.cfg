SPECIFICATION FairSpec
CONSTANTS
  Cycles = {c1, c2, c3}
  NoCycle = NoCycle
  LinkCount = 2
  Locked = {1}
  Failures = {"crash", "redis", "database", "task"}
CHECK_DEADLOCK FALSE
INVARIANTS
  TypeOK
  OverlapNeedsExpiry
  HeldExplained
  ChainHalts
  RunningRowsExplained
PROPERTIES
  LockFreed
