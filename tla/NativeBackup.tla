----------------------------- MODULE NativeBackup -----------------------------
(***************************************************************************)
(* Native SQLite snapshots: the directory, the scheduler and the admin     *)
(* routes (server/lib/native-backup.ts, server/routes/admin.ts).           *)
(*                                                                         *)
(* createNativeBackup awaits once, in db.backup; from there to the end it  *)
(* is one synchronous stretch, but one that touches the file system        *)
(* several times, so that a crash can leave it half done.  A snapshot is   *)
(* named after the time it was begun; names sort like times.  Time is a    *)
(* natural number and 0 is a null timestamp.                               *)
(***************************************************************************)
EXTENDS Integers, FiniteSets

CONSTANTS
  Intervals,    \* intervalHours an administrator can choose
  Retentions,   \* retentionCount an administrator can choose
  Existing,     \* snapshots the directory may hold at the start: times
  MaxTime,      \* bound on the clock
  MaxSetbacks,  \* bound: times the clock is set back
  MaxFaults,    \* bound: faults of the directory and its files
  MaxName       \* bound on names: a name is bumped past an existing one

ASSUME SettingsAssumption ==
  /\ Intervals \subseteq Nat \ {0} /\ Intervals # {}
  /\ Retentions \subseteq Nat \ {0} /\ Retentions # {}
ASSUME TimeAssumption ==
  /\ MaxTime \in Nat \ {0} /\ MaxName \in Nat /\ Existing \subseteq {1}
  /\ MaxSetbacks \in Nat /\ MaxFaults \in Nat

VARIABLES
  now,          \* the wall clock
  files,        \* the snapshots in the directory
  jobs,         \* backups awaiting db.backup
  running,      \* schedulerState.running
  lastSuccess,  \* schedulerState.lastSuccessAt
  baseline,     \* schedulerState.scheduleBaselineAt
  initialized,  \* schedulerState.scheduleBaselineInitialized
  settings,     \* appSettings: nativeBackupSettings
  rootReady,    \* the configured directory is there and writable
  setbacks,     \* history: times the clock was set back
  faults        \* bound: faults so far

vars == <<now, files, jobs, running, lastSuccess, baseline, initialized,
          settings, rootReady, setbacks, faults>>

schedulerState == <<running, lastSuccess, baseline, initialized>>
environment == <<now, settings, rootReady, setbacks, faults>>

\* A file has its name, which is a time, its mtime, whether it is valid, and
\* whether it is stuck (rmSync of it fails).  A job has the name its snapshot
\* will get and the time it began.
NewSnapshot(name) ==
  [name |-> name, mtime |-> now, valid |-> TRUE, stuck |-> FALSE]

Greatest(a, b) == IF a >= b THEN a ELSE b

(***************************************************************************)
(* listNativeBackups sorts by name, the newest first.                      *)
(***************************************************************************)
Newer(fs, f) == {g \in fs : g.name > f.name}

\* Mutant: the list is cut one entry too early.
ExpiredTooSoon(fs) == {f \in fs : Cardinality(Newer(fs, f)) >= settings.retentionCount - 1}

\* Mutant: the list is cut before the oldest, not after the newest.
ExpiredNewest(fs) ==
  {f \in fs : Cardinality({g \in fs : g.name < f.name}) >= settings.retentionCount}

\* .slice(retentionCount)
Expired(fs) == {f \in fs : Cardinality(Newer(fs, f)) >= settings.retentionCount}

\* newestValidNativeBackup: a set of at most one.
NewestValid(fs) == {f \in fs : f.valid /\ \A g \in Newer(fs, f) : ~ g.valid}

\* Mutant: a damaged snapshot ends the search.
LatestTimeOrNone(fs) ==
  LET newest == {f \in fs : f.valid /\ Newer(fs, f) = {}} IN
  IF newest = {} THEN 0 ELSE (CHOOSE f \in newest : TRUE).mtime

LatestTime(fs) ==
  IF NewestValid(fs) = {} THEN 0 ELSE (CHOOSE f \in NewestValid(fs) : TRUE).mtime

(***************************************************************************)
(* initializeNativeBackupScheduleBaseline, at boot and on every tick until *)
(* it succeeds.                                                            *)
(***************************************************************************)
Initialize ==
  IF initialized \/ ~ rootReady
  THEN [initialized |-> initialized, baseline |-> baseline, success |-> lastSuccess]
  ELSE [initialized |-> TRUE, baseline |-> LatestTime(files),
        success |-> IF lastSuccess # 0 THEN lastSuccess ELSE LatestTime(files)]

Init ==
  /\ now = 1
  /\ files \in SUBSET {NewSnapshot(t) : t \in Existing}
  /\ settings \in [enabled : {FALSE}, interval : Intervals, retentionCount : Retentions]
  /\ rootReady = TRUE
  /\ jobs = {}
  /\ running = FALSE
  /\ lastSuccess = LatestTime(files)
  /\ baseline = LatestTime(files)
  /\ initialized = TRUE
  /\ setbacks = 0 /\ faults = 0

(***************************************************************************)
(* createNativeBackup up to the await: the name is the time, bumped past   *)
(* the names in use.                                                       *)
(***************************************************************************)
FreeName(n) == n \notin {f.name : f \in files}

\* Mutant: the name is the time, in use or not.
NameNow == now

NextName == CHOOSE n \in now .. MaxName :
              FreeName(n) /\ \A m \in now .. n - 1 : ~ FreeName(m)

\* Mutant: the flag is not looked at.
BeginTwice ==
  /\ rootReady
  /\ \E n \in now .. MaxName : FreeName(n)
  /\ running' = TRUE
  /\ jobs' = jobs \cup {[name |-> NextName, began |-> now]}

Begin ==
  /\ ~ running
  /\ rootReady
  /\ \E n \in now .. MaxName : FreeName(n)
  /\ running' = TRUE
  /\ jobs' = jobs \cup {[name |-> NextName, began |-> now]}

\* runNativeBackupScheduleTick.
IntervalPassed(success, base) ==
  LET last == Greatest(success, base) IN
  last = 0 \/ now - last >= settings.interval

Tick ==
  /\ ~ running
  /\ LET state == Initialize IN
     /\ initialized' = state.initialized
     /\ baseline' = state.baseline
     /\ lastSuccess' = state.success
     /\ IF /\ settings.enabled /\ state.initialized
           /\ IntervalPassed(state.success, state.baseline)
           /\ rootReady
        THEN Begin
        ELSE UNCHANGED <<running, jobs>>
  /\ UNCHANGED <<files, environment>>

\* POST /native-backups
CreateNow ==
  /\ Begin
  /\ UNCHANGED <<files, lastSuccess, baseline, initialized, environment>>

(***************************************************************************)
(* createNativeBackup after the await.                                     *)
(***************************************************************************)
\* Mutant: only a success clears the flag.
FinishBusy(j, succeeds) ==
  /\ j \in jobs
  /\ jobs' = jobs \ {j}
  /\ running' = ~ succeeds
  /\ initialized' = (initialized \/ succeeds)
  /\ UNCHANGED environment

Finish(j, succeeds) ==
  /\ j \in jobs
  /\ jobs' = jobs \ {j}
  /\ running' = FALSE
  /\ initialized' = (initialized \/ succeeds)
  /\ UNCHANGED environment

Renamed(j) == files \cup {NewSnapshot(j.name)}

\* db.backup and the VACUUM take longer than the unit of time, a millisecond.
Written(j) == now # j.began /\ rootReady

BackupSucceeds(j) ==
  /\ Finish(j, TRUE)
  /\ Written(j)
  /\ \A f \in Expired(Renamed(j)) : ~ f.stuck
  /\ files' = Renamed(j) \ Expired(Renamed(j))
  /\ lastSuccess' = now
  /\ baseline' = now

\* db.backup, the scrubbing, the validation or the rename throws.
BackupFails(j) ==
  /\ Finish(j, FALSE)
  /\ UNCHANGED <<files, lastSuccess, baseline>>

\* The snapshot is in place, but an old one cannot be removed; the older ones
\* behind it are not tried.  The catch sees a failed backup.
PruneFails(j) ==
  /\ Finish(j, FALSE)
  /\ Written(j)
  /\ \E f \in Expired(Renamed(j)) :
       /\ f.stuck
       /\ \A g \in Newer(Expired(Renamed(j)), f) : ~ g.stuck
       /\ files' = Renamed(j) \ Newer(Expired(Renamed(j)), f)
  /\ UNCHANGED <<lastSuccess, baseline>>

(***************************************************************************)
(* Restarts.  A crash may fall into the await, or among the removals,      *)
(* which go from the newest expired snapshot to the oldest.                *)
(***************************************************************************)
\* What a crash in the course of createNativeBackup leaves in the directory.
LeftBehind ==
  {files} \cup UNION {
    LET all == Renamed(j) IN
    {all \ {g \in Expired(all) : g.name >= n} : n \in 1 .. MaxName + 1} :
    j \in {j \in jobs : Written(j)}}

Restart ==
  /\ files' \in LeftBehind
  /\ running' = FALSE /\ jobs' = {}
  /\ initialized' = rootReady
  /\ baseline' = IF rootReady THEN LatestTime(files') ELSE 0
  /\ lastSuccess' = baseline'
  /\ UNCHANGED environment

(***************************************************************************)
(* Administrators and the world.                                           *)
(***************************************************************************)
SaveSettings(enabled, interval, retentionCount) ==
  /\ enabled => rootReady
  /\ settings' = [enabled |-> enabled, interval |-> interval,
                  retentionCount |-> retentionCount]
  /\ UNCHANGED <<now, rootReady, files, jobs, schedulerState, setbacks, faults>>

DeleteSnapshot(f) ==
  /\ rootReady /\ ~ f.stuck
  /\ files' = files \ {f}
  /\ UNCHANGED <<jobs, schedulerState, environment>>

Fault ==
  /\ faults < MaxFaults
  /\ faults' = faults + 1

\* A snapshot is damaged on disk, or can no longer be removed.
Damage(f) ==
  /\ Fault
  /\ files' = (files \ {f}) \cup {[f EXCEPT !.valid = FALSE]}
  /\ UNCHANGED <<now, settings, rootReady, jobs, schedulerState, setbacks>>

Stick(f) ==
  /\ Fault
  /\ files' = (files \ {f}) \cup {[f EXCEPT !.stuck = TRUE]}
  /\ UNCHANGED <<now, settings, rootReady, jobs, schedulerState, setbacks>>

\* The volume is unmounted, and mounted again.
Unmount ==
  /\ Fault
  /\ rootReady' = FALSE
  /\ UNCHANGED <<now, settings, files, jobs, schedulerState, setbacks>>

Mount ==
  /\ rootReady' = TRUE
  /\ UNCHANGED <<now, settings, files, jobs, schedulerState, setbacks, faults>>

TimePasses ==
  /\ now < MaxTime
  /\ now' = now + 1
  /\ UNCHANGED <<settings, rootReady, files, jobs, schedulerState, setbacks, faults>>

ClockIsSetBack ==
  /\ now > 1 /\ setbacks < MaxSetbacks
  /\ now' = now - 1
  /\ setbacks' = setbacks + 1
  /\ UNCHANGED <<settings, rootReady, files, jobs, schedulerState, faults>>

Completes == \E j \in jobs : BackupSucceeds(j) \/ BackupFails(j) \/ PruneFails(j)

Next ==
  \/ Tick \/ CreateNow \/ Completes \/ Restart
  \/ Unmount \/ Mount \/ TimePasses \/ ClockIsSetBack
  \/ \E enabled \in BOOLEAN, interval \in Intervals, retentionCount \in Retentions :
       SaveSettings(enabled, interval, retentionCount)
  \/ \E f \in files : DeleteSnapshot(f) \/ Damage(f) \/ Stick(f)

Spec == Init /\ [][Next]_vars

Fairness == WF_vars(Completes)

LiveSpec == Spec /\ Fairness

-----------------------------------------------------------------------------
\* The schedule and any number of create-now requests run one backup at a
\* time, and the flag that says so is never left behind by one that ended.
AtMostOneBackup ==
  /\ Cardinality(jobs) <= 1
  /\ running <=> jobs # {}

\* A snapshot is only removed by retention, in a backup that completes, fails
\* at it or dies of it, while retentionCount snapshots with later names stay.
PrunedBehindRetained ==
  [][Completes \/ Restart =>
       \A f \in files \ files' :
         Cardinality(Newer(files', f)) >= settings.retentionCount]_vars

\* Names sort like times, and every expired snapshot can be removed.
Orderly == setbacks = 0 /\ \A f \in files : ~ f.stuck

\* A backup that reports success has written its snapshot under a name that no
\* file in the directory bore, even if the clock was set back; and unless it
\* was, the snapshot is still there when success is reported, whatever the
\* retention was changed to meanwhile (native-backup.ts:
\* `listNativeBackups().find(...)!`).
NewSnapshotIsKept ==
  [][\A j \in jobs : BackupSucceeds(j) =>
       /\ \A f \in files : f.name # j.name
       /\ setbacks = 0 => \E f \in files' : f.name = j.name]_vars

\* A scheduled backup begins while a valid snapshot is younger than the interval.
TooSoon ==
  /\ Tick /\ ~ running /\ running'
  /\ \E f \in files : f.valid /\ now - f.mtime < settings.interval

\* While the clock only goes forward and no file is stuck, no scheduled backup
\* begins while a valid snapshot is younger than the interval, whether it was
\* made by the schedule or on request, before or after a restart or a loss of
\* the volume, and whatever damaged its neighbours since.
ScheduleKeepsInterval == [][Orderly => ~ TooSoon]_vars

\* A backup that began ends, and the next one may begin.
BackupEnds == running ~> ~ running
=============================================================================
