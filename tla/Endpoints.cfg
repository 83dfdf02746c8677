CONSTANTS
  W = 7
  UnixToInternal = 10
  Second = 4
  NowUnix = 5
  DefaultTTL = 4
  MaxTTLs <- MCMaxTTLs
  Numbers <- MCNumbers
  Numerals <- MCNumerals
  Durations <- MCDurations
  Dates <- MCDates
  RegisteredAlgs <- MCRegisteredAlgs
  SourceAlgs <- MCSourceAlgs
  OtherAlgs <- MCOtherAlgs
  Issuers = {"ours"}
  Audiences = {"a"}
  Times <- MCTimes
  Clocks <- MCClocks
  Leeways <- MCLeeways
  AllowedSets <- MCAllowedSets
  KnownAlgs <- MCKnownAlgs
  EnabledSets <- MCEnabledSets
  Ours = "ours"
SPECIFICATION EndpointsSpec
INVARIANTS CapRespectedInRange OnlyLongRefused ExpiresInNearest ExpAsAsked
  FirstFailure ClaimsLabelled LeewayWidens NarrowingRejects
  PrecheckSuffices AnswerFits MintedIntrospectsActive ValidAnswerEarned IntrospectAgrees
CHECK_DEADLOCK FALSE
