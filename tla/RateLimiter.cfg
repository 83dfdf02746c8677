CONSTANTS
  Handlers = {h1, h2}
  Origins <- TwoClients
  Rate = 1
  Cost = 1
  Burst = 2
  IdleLimit = 3
  CleanupPeriod = 1
  MaxStall = 2
  MaxTime = 7
  MaxLimiters = 4
SPECIFICATION Spec
SYMMETRY HandlerSymmetry
INVARIANTS TypeOK KeyLimited IdleClientsForgotten LimitersNotShared
CHECK_DEADLOCK FALSE
