\* Settings change, the clock is set back, a snapshot is damaged or stuck, the
\* volume is unmounted, and the process dies, among the removals too.
CONSTANTS
  Intervals = {1, 2}
  Retentions = {1, 2}
  Existing = {1}
  MaxTime = 4
  MaxSetbacks = 1
  MaxFaults = 1
  MaxName = 5
SPECIFICATION LiveSpec
INVARIANTS AtMostOneBackup
PROPERTIES PrunedBehindRetained NewSnapshotIsKept ScheduleKeepsInterval BackupEnds
