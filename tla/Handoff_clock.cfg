SPECIFICATION Spec
CONSTANTS
  None = None
  Ttl = 6
  Renotify = 2
  MaxTime = 20
  MaxRestarts = 1
INVARIANT TypeOK
 
PROPERTY ActsOnlyAfterSilence
PROPERTY NotificationsKeepTheirDistance
CHECK_DEADLOCK FALSE
