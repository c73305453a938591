\* One schedule over several minutes, with events inside a minute.
CONSTANTS
  s1 = s1
  s2 = s2
  c1 = c1
  c2 = c2
  Schedules = {s1}
  Connections = {c1}
  ConnectionOf <- OneSchedule
  CronChoices <- TwoCadences
  Minute = 2
  Lookback = 4
  BackoffBase = 1
  BackoffCap = 3
  FailureCap = 3
  MaxTime = 6
SPECIFICATION FairSpec
INVARIANTS PauseMatchesFailures
PROPERTIES NoOccurrenceRunsTwice PassEnds
