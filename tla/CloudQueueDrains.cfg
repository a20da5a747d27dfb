SPECIFICATION LeanSpec
CONSTANTS
  Jobs = {1, 2}
  Workers = {w1}
  Tokens = {t1, t2}
  NoToken = NoToken
  Requests <- SourceOnly
  RetryLimit = 1
  RecoveryLimit = 1
  HeartbeatsMayStall = FALSE
PROPERTY QueueDrains
PROPERTY RestartsRecover
