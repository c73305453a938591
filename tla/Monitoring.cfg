\* Two monitors, one of them of an interface, and two jobs at a time.
CONSTANTS
  m1 = m1
  m2 = m2
  j1 = j1
  j2 = j2
  Monitors = {m1, m2}
  Order <- InOrder
  Existing = {m1}
  Interfaces = {m2}
  Jobs = {j1, j2}
  Every = 1
  RepeatEvery = 1
  DedupeWindow = 1
  SettingsChoices <- OnAndOff
  MaxTime = 2
  MaxEdits = 1
SYMMETRY AnyJob
SPECIFICATION Spec
INVARIANTS EveryOutageIsTold
PROPERTIES StatusFollowsMonitors OneAlertPerOutage
