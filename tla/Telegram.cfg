CONSTANTS
  Deliveries = {d1, d2}
  Requests = {r1}
  UpdateBound = 2
  Default = "on"
  Kinds = {"enable", "disable", "words", "search", "slash", "apply", "skip"}
  ReviewBound = 2
  FaultBound = 1
SPECIFICATION Spec
CHECK_DEADLOCK FALSE
INVARIANTS
  TypeOK
  FlagFollowsNewest
PROPERTIES
  AssistantReadsOnly
  EveryUpdateAnswered
