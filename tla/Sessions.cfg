CONSTANTS
  t1 = t1
  t2 = t2
  c1 = c1
  c2 = c2
  c3 = c3
  Tabs = {t1, t2}
  UserTabs = {t1}
  PairBound = 3
  Calls = {c1, c2, c3}
  TabOf <- MCTabOf
  Exchanges = {x1, x2}
  NoExchange = NoExchange
  FaultBound = 1
SPECIFICATION Spec
SYMMETRY Symmetry
CHECK_DEADLOCK FALSE
INVARIANTS
  TypeOK
  OneExchangePerPage
  LogoutSticks
  LogoutEndsTheSession
