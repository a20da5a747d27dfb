SPECIFICATION FairSpec
CONSTANTS
  Jobs = {1}
  Workers = {w1}
  Tokens = {t1, t2}
  NoToken = NoToken
  Requests <- SourceOnly
  RetryLimit = 1
  RecoveryLimit = 1
  HeartbeatsMayStall = TRUE
PROPERTY AbandonedJobsLeave
