SPECIFICATION SchedulerSpec
CONSTANTS
  pool = pool
  conn = conn
  Exchanges <- MCExchanges
  OwnerReports <- MCConn
  MaxRetries = 3
  CooldownTicks = 2
  MaxAttempts = 2
PROPERTY
  FailedAttemptIsRetried
