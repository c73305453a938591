\* Three networks in a lab that scans one at a time, two in another, room for
\* two jobs in the queue, up to three schedules, three acts of users or of the host.
CONSTANTS
  a1 = a1
  a2 = a2
  a3 = a3
  b1 = b1
  b2 = b2
  s1 = s1
  s2 = s2
  s3 = s3
  NoRow = NoRow
  Networks = {a1, a2, a3, b1, b2}
  LabOf <- TwoLabs
  Schedules = {s1, s2, s3}
  Stored = {s1, s2}
  MaxActive = 2
  MaxActivePerLab = 1
  MaxQueued = 2
  MaxActs = 3
SPECIFICATION Spec
SYMMETRY Alike
INVARIANTS TypeOK LimitsHold OneScanPerNetwork SchedulesAreAttachedOnce FairWithinLab
CHECK_DEADLOCK FALSE
