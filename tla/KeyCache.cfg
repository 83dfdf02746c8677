CONSTANTS
  Algorithms = {"ES256"}
  Kids <- TwoKids
  Requests = {r1, r2}
  Refresh = 1
  FetchTimeout = 1
  MaxTime = 2
SPECIFICATION CacheSpec
INVARIANTS NoFalseRefusal BoundedStaleness
PROPERTY RequestsAnswered
