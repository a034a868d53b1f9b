SPECIFICATION MCSpec
CONSTANTS
  Members = {1, 2}
  TTL = 2
  ElectionTimeout = 1
  RetryInterval = 1
  Interval = 1
  MaxLog = 2
PROPERTIES GrantHolds RenewalHolds RevokedOnceExpired RenewReturns
CHECK_DEADLOCK FALSE
