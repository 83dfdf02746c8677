CONSTANTS
  Enabled = {"ES256"}
  Callers = {c1}
  Grace = 2
  Interval = 2
  PruneTimes = {0, 1, 2, 3, 4, 5}
  MaxLag = 1
  MaxTime = 5
  MaxGen = 2
  Minters = {m1}
  RequestAlgs = {"ES256"}
  Lifetimes = {1, 2}
  MaxTTL = 2
SPECIFICATION IssuerSpec
INVARIANTS TokenKeyPublished
