SPECIFICATION Spec
CONSTANTS
  Jobs = {1}
  Workers = {w1, w2}
  Tokens = {t1, t2}
  NoToken = NoToken
  Requests <- SourceOnly
  RetryLimit = 1
  RecoveryLimit = 1
  HeartbeatsMayStall = TRUE
SYMMETRY Symmetry
CONSTRAINT AlwaysLimited
INVARIANT TypeOK
INVARIANT PinnedPastResolution
INVARIANT RetryBudget
PROPERTY LeaseProtects
PROPERTY FollowsLifecycle
