CONSTANTS
  Enabled = {"ES256"}
  Callers = {c1}
  Grace = 1
  Interval = 0
  PruneTimes = {0, 1, 2, 3}
  MaxLag = 1
  MaxTime = 3
  MaxGen = 3
SPECIFICATION Spec
INVARIANTS PrunedByRotation
