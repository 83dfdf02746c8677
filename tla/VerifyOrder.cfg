CONSTANTS
  W = 7
  UnixToInternal = 10
  Second = 4
  NowUnix = 5
  DefaultTTL = 4
  MaxTTLs = {0}
  Numbers = {}
  Numerals = {}
  Durations = {}
  Dates = {}
  RegisteredAlgs <- MCRegisteredAlgs
  SourceAlgs <- MCSourceAlgs
  OtherAlgs <- MCOtherAlgs
  Issuers = {"ours"}
  Audiences = {}
  Times <- MCTimes
  Clocks <- MCClocks
  Leeways = {0}
  AllowedSets = {{}}
  KnownAlgs <- MCKnownAlgs
  EnabledSets <- MCEnabledSets
  Ours = "ours"
SPECIFICATION EndpointsSpec
INVARIANTS DocumentedReason
CHECK_DEADLOCK FALSE
