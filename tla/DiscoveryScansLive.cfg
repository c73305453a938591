\* One scan at a time, one place in the queue, and a third schedule that a user
\* may create: more schedules than places.
CONSTANTS
  a1 = a1
  a2 = a2
  a3 = a3
  b1 = b1
  b2 = b2
  s1 = s1
  s2 = s2
  s3 = s3
  NoRow = NoRow
  Networks = {a1, a2, a3}
  LabOf <- TwoLabs
  Schedules = {s1, s2, s3}
  Stored = {s1, s2}
  MaxActive = 1
  MaxActivePerLab = 1
  MaxQueued = 1
  MaxActs = 1
SPECIFICATION LiveSpec
PROPERTIES NobodyWaitsForEver
CHECK_DEADLOCK FALSE
