\* Two schedules of one connection contend for its lock.
CONSTANTS
  s1 = s1
  s2 = s2
  c1 = c1
  c2 = c2
  Schedules = {s1, s2}
  Connections = {c1}
  ConnectionOf <- SharedConnection
  CronChoices <- EveryMinute
  Minute = 1
  Lookback = 2
  BackoffBase = 1
  BackoffCap = 2
  FailureCap = 2
  MaxTime = 3
SPECIFICATION Spec
INVARIANTS TypeOK LockIsExact NoFailureIsLost
PROPERTIES ImplementsLease
