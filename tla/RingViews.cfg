CONSTANTS
  Enabled = {"RS256", "ES256"}
  Callers = {c1}
  Viewers = {v1}
  Grace = 2
  Interval = 2
  PruneTimes = {3}
  MaxLag = 1
  MaxTime = 5
  MaxGen = 2
SPECIFICATION ViewsSpec
INVARIANTS TypeOK RetainedForGrace ExpiredKeysLeave KeysConsistent NamedKidFound
PROPERTY KeyLifeSpec
