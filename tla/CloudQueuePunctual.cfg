SPECIFICATION FairSpec
CONSTANTS
  Jobs = {1}
  Workers = {w1, w2}
  Tokens = {t1, t2}
  NoToken = NoToken
  Requests <- Presets
  RetryLimit = 1
  RecoveryLimit = 1
  HeartbeatsMayStall = FALSE
INVARIANT SoleProcessor
INVARIANT OwnAttemptOpen
INVARIANT OutcomeMatchesQuality
