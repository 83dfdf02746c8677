CONSTANTS
  Closers = {c1, c2}
  Requests = {r1, r2}
SPECIFICATION ServeSpec
INVARIANTS TypeOK ClosedMeansStopped OneCloserRuns DrainedUnlessTimedOut
PROPERTIES CloseReturns ServeStops
