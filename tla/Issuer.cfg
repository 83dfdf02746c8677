CONSTANTS
  Enabled = {"ES256"}
  Callers = {c1}
  Grace = 2
  Interval = 2
  PruneTimes = {0, 1, 2, 3, 4}
  MaxLag = 1
  MaxTime = 4
  MaxGen = 2
  Minters = {m1}
  RequestAlgs = {"ES256", "", "HS256"}
  Lifetimes <- LifetimesAroundCap
  MaxTTL = 1
SPECIFICATION IssuerSpec
INVARIANTS IssuerTypeOK TokenKeyPublished SignerNotStale
