-------------------------- MODULE NativeBackupProofs --------------------------
(***************************************************************************)
(* What holds of NativeBackup for any settings, directory and clock.       *)
(***************************************************************************)
EXTENDS NativeBackup, FiniteSetTheorems, WellFoundedInduction, TLAPS

\* AtMostOneBackup without counting.
OneJob ==
  /\ \A a, b \in jobs : a = b
  /\ running \in BOOLEAN
  /\ running <=> jobs # {}

LEMMA OneJobCounts == ASSUME OneJob PROVE AtMostOneBackup
<1>1. CASE jobs = {}
  BY <1>1, FS_EmptySet DEF OneJob, AtMostOneBackup
<1>2. CASE jobs # {}
  <2>1. PICK job : jobs = {job}
    BY <1>2 DEF OneJob
  <2>. QED
    BY <1>2, <2>1, FS_Singleton DEF OneJob, AtMostOneBackup
<1>. QED
  BY <1>1, <1>2

LEMMA FirstJob == ASSUME OneJob, Begin PROVE OneJob'
  BY DEF OneJob, Begin

LEMMA LastJob ==
  ASSUME OneJob, NEW j \in jobs, NEW succeeds \in BOOLEAN, Finish(j, succeeds)
  PROVE  OneJob'
  BY DEF OneJob, Finish

\* The schedule and the create-now requests, any number of them, have one
\* backup under way at most, and `running` says exactly whether there is one.
THEOREM OneBackupAtATime == Spec => []AtMostOneBackup
<1>1. Init => OneJob
  BY DEF Init, OneJob
<1>2. OneJob /\ [Next]_vars => OneJob'
  <2>. SUFFICES ASSUME OneJob, [Next]_vars PROVE OneJob'
    OBVIOUS
  <2>1. CASE UNCHANGED <<jobs, running>>
    BY <2>1 DEF OneJob
  <2>2. CASE Tick
    BY <2>1, <2>2, FirstJob DEF Tick
  <2>3. CASE CreateNow
    BY <2>3, FirstJob DEF CreateNow
  <2>4. CASE Completes
    BY <2>4, LastJob DEF Completes, BackupSucceeds, BackupFails, PruneFails
  <2>5. CASE Restart
    BY <2>5 DEF Restart, OneJob
  <2>. QED
    BY <2>1, <2>2, <2>3, <2>4, <2>5
    DEF Next, vars, schedulerState, Unmount, Mount, TimePasses, ClockIsSetBack,
        SaveSettings, DeleteSnapshot, Damage, Stick
<1>3. OneJob => AtMostOneBackup
  BY OneJobCounts
<1>. QED
  BY <1>1, <1>2, <1>3, PTL DEF Spec

-----------------------------------------------------------------------------
(***************************************************************************)
(* The directory.  Names of snapshots are bounded, so that among the       *)
(* expired ones there is one with the latest name.                         *)
(***************************************************************************)
Names == 1 .. MaxName + 1
File == [name : Names, mtime : Nat, valid : BOOLEAN, stuck : BOOLEAN]
Job == [name : Names, began : Nat]

Types ==
  /\ now \in Nat \ {0}
  /\ files \subseteq File /\ IsFiniteSet(files)
  /\ jobs \subseteq Job
  /\ settings.retentionCount \in Nat \ {0} /\ settings.interval \in Nat
  /\ setbacks \in Nat

\* A job has a name that no file bears, as long as it is under way.
NamesAreFree == \A j \in jobs, f \in files : f.name # j.name

\* As long as the clock only goes forward no file is from the future, and a
\* job will be: its name is at most one past the time it began.
ClockOrdersNames ==
  setbacks = 0 =>
    /\ \A f \in files : f.name <= now
    /\ \A j \in jobs : /\ j.began <= now /\ j.name <= j.began + 1
                       /\ \A f \in files : f.name < j.name

DirInv == OneJob /\ Types /\ NamesAreFree /\ ClockOrdersNames

LEMMA LeastNumber ==
  ASSUME NEW T \in SUBSET Nat, T # {}
  PROVE  \E x \in T : \A y \in T : x <= y
<1>. DEFINE Below == {p \in Nat \X Nat : p[1] < p[2]}
<1>1. IsWellFoundedOn(Below, Nat)
  BY NatLessThanWellFounded DEF OpToRel
<1>. HIDE DEF Below
<1>2. PICK x \in T : \A y \in T : ~ (<<y, x>> \in Below)
  BY <1>1, WFMin
<1>3. \A y \in T : ~ (y < x)
  BY <1>2 DEF Below
<1>. QED
  BY <1>3

\* Among some files there is one that no other has a later name than.
LEMMA LatestFile ==
  ASSUME NEW fs \in SUBSET File, NEW f \in fs, MaxName \in Nat
  PROVE  \E g \in fs : g.name >= f.name /\ \A h \in fs : h.name <= g.name
<1>. DEFINE Distances == {d \in Nat : \E g \in fs : d = MaxName + 1 - g.name}
<1>1. \A g \in fs : g.name \in Nat /\ MaxName + 1 - g.name \in Distances
  BY DEF File, Names
<1>2. PICK d \in Distances : \A e \in Distances : d <= e
  BY <1>1, LeastNumber
<1>3. PICK g \in fs : d = MaxName + 1 - g.name
  BY <1>2
<1>4. \A h \in fs : h.name <= g.name
  BY <1>1, <1>2, <1>3
<1>. QED
  BY <1>1, <1>3, <1>4

\* The snapshot that a job renames into the directory.
LEMMA RenamedFiles ==
  ASSUME Types, NEW j \in jobs
  PROVE  /\ NewSnapshot(j.name) \in File /\ NewSnapshot(j.name).name = j.name
         /\ Renamed(j) \subseteq File /\ IsFiniteSet(Renamed(j))
<1>1. NewSnapshot(j.name) \in File /\ NewSnapshot(j.name).name = j.name
  BY DEF Types, Job, File, NewSnapshot
<1>. QED
  BY <1>1, FS_AddElement DEF Types, Renamed

\* What retention may remove has retentionCount snapshots with later names
\* that it may not: those later than the latest of the expired.
LEMMA RetainedAreNewer ==
  ASSUME Types, NEW all \in SUBSET File, IsFiniteSet(all),
         NEW left \in SUBSET all, all \ Expired(all) \subseteq left,
         NEW f \in all \ left
  PROVE  Cardinality(Newer(left, f)) >= settings.retentionCount
<1>1. MaxName \in Nat
  BY TimeAssumption
<1>2. f \in Expired(all)
  OBVIOUS
<1>3. Expired(all) \in SUBSET File
  BY DEF Expired
<1>4. PICK g \in Expired(all) : /\ g.name >= f.name
                               /\ \A h \in Expired(all) : h.name <= g.name
  BY <1>1, <1>2, <1>3, LatestFile
<1>5. \A h \in File : h.name \in Nat
  BY <1>1 DEF File, Names
<1>6. Newer(all, g) \subseteq Newer(left, f)
  BY <1>2, <1>3, <1>4, <1>5 DEF Newer
<1>7. IsFiniteSet(left) /\ IsFiniteSet(Newer(all, g)) /\ IsFiniteSet(Newer(left, f))
  <2>1. IsFiniteSet(left)
    BY FS_Subset
  <2>2. Newer(all, g) \in SUBSET all /\ Newer(left, f) \in SUBSET left
    BY DEF Newer
  <2>. QED
    BY <2>1, <2>2, FS_Subset
<1>8. Cardinality(Newer(all, g)) >= settings.retentionCount
  BY DEF Expired
<1>9. Cardinality(Newer(all, g)) <= Cardinality(Newer(left, f))
  BY <1>6, <1>7, FS_Subset
<1>10. /\ Cardinality(Newer(all, g)) \in Nat /\ Cardinality(Newer(left, f)) \in Nat
       /\ settings.retentionCount \in Nat
  BY <1>7, FS_CardinalityType DEF Types
<1>. QED
  BY <1>8, <1>9, <1>10

\* What is in the directory when a backup has ended or died: all or nothing of
\* the new snapshot, without some of the expired ones.
LEMMA EndsWithin ==
  ASSUME Types, Completes \/ Restart
  PROVE  \/ files' = files
         \/ \E j \in jobs : /\ Written(j)
                            /\ files' \subseteq Renamed(j)
                            /\ Renamed(j) \ Expired(Renamed(j)) \subseteq files'
<1>1. ASSUME NEW j \in jobs, BackupSucceeds(j) \/ BackupFails(j) \/ PruneFails(j)
      PROVE  \/ files' = files
             \/ /\ Written(j)
                /\ files' \subseteq Renamed(j)
                /\ Renamed(j) \ Expired(Renamed(j)) \subseteq files'
  BY <1>1 DEF BackupSucceeds, BackupFails, PruneFails, Newer
<1>2. CASE Restart
  BY <1>2 DEF Restart, LeftBehind
<1>. QED
  BY <1>1, <1>2 DEF Completes

\* The name of a new job is free, and while the clock only goes forward it is
\* the time or, when that is taken, one more.
LEMMA NextNameIsFree ==
  ASSUME DirInv, Begin
  PROVE  /\ NextName \in now .. MaxName /\ FreeName(NextName)
         /\ setbacks = 0 => /\ NextName <= now + 1
                            /\ \A f \in files : f.name < NextName
<1>. DEFINE free == {n \in now .. MaxName : FreeName(n)}
<1>1. now \in Nat /\ MaxName \in Nat /\ \A f \in files : f.name \in Nat
  BY TimeAssumption DEF DirInv, Types, File, Names
<1>2. free # {} /\ free \in SUBSET Nat
  BY <1>1 DEF Begin
<1>3. PICK n \in free : \A m \in free : n <= m
  BY <1>2, LeastNumber
<1>4. \E k \in now .. MaxName : FreeName(k) /\ \A m \in now .. k - 1 : ~ FreeName(m)
  BY <1>1, <1>3
<1>5. /\ NextName \in now .. MaxName /\ FreeName(NextName)
      /\ \A m \in now .. NextName - 1 : ~ FreeName(m)
  BY <1>4 DEF NextName
<1>6. ASSUME setbacks = 0
      PROVE  NextName <= now + 1 /\ \A f \in files : f.name < NextName
  <2>1. \A f \in files : f.name <= now
    BY <1>6 DEF DirInv, ClockOrdersNames
  <2>2. FreeName(now + 1)
    BY <1>1, <2>1 DEF FreeName
  <2>3. NextName <= now + 1
    BY <1>1, <1>5, <2>2
  <2>4. \A f \in files : f.name # NextName
    BY <1>5 DEF FreeName
  <2>. QED
    BY <1>1, <1>5, <2>1, <2>3, <2>4
<1>. QED
  BY <1>5, <1>6

\* A step that begins no backup and puts no new name into the directory.
LEMMA DirKept ==
  ASSUME DirInv, OneJob', Types', jobs' \subseteq jobs,
         \A f \in files' : \E g \in files : g.name = f.name,
         (now <= now' /\ setbacks' = setbacks) \/ setbacks' # 0
  PROVE  DirInv'
<1>1. NamesAreFree'
  BY DEF DirInv, NamesAreFree
<1>2. /\ now \in Nat /\ now' \in Nat
      /\ \A f \in files : f.name \in Nat
      /\ \A j \in jobs : j.began \in Nat
      /\ \A f \in files' : f.name \in Nat
  BY TimeAssumption DEF DirInv, Types, File, Job, Names
<1>3. ClockOrdersNames'
  BY <1>2 DEF DirInv, ClockOrdersNames
<1>. QED
  BY <1>1, <1>3 DEF DirInv

\* A backup that begins.
LEMMA DirBegins ==
  ASSUME DirInv, Begin, UNCHANGED <<now, files, setbacks, settings>>
  PROVE  DirInv'
<1>. DEFINE j == [name |-> NextName, began |-> now]
<1>1. /\ NextName \in now .. MaxName /\ FreeName(NextName)
      /\ setbacks = 0 => /\ NextName <= now + 1
                         /\ \A f \in files : f.name < NextName
  BY NextNameIsFree
<1>2. jobs' = {j}
  BY DEF Begin, DirInv, OneJob
<1>3. j \in Job /\ j.name = NextName /\ j.began = now /\ now \in Nat
  BY <1>1, TimeAssumption DEF Job, Names, DirInv, Types
<1>. HIDE DEF j
<1>4. OneJob'
  BY FirstJob DEF DirInv
<1>5. Types'
  BY <1>2, <1>3 DEF DirInv, Types
<1>6. NamesAreFree'
  BY <1>1, <1>2, <1>3 DEF NamesAreFree, FreeName
<1>7. ClockOrdersNames'
  BY <1>1, <1>2, <1>3 DEF DirInv, ClockOrdersNames
<1>. QED
  BY <1>4, <1>5, <1>6, <1>7 DEF DirInv

\* A backup that ends, or dies with the process.
LEMMA DirEnds ==
  ASSUME DirInv, OneJob', Completes \/ Restart
  PROVE  DirInv'
<1>1. /\ UNCHANGED <<now, setbacks, settings>> /\ jobs' = {}
  BY DEF Completes, BackupSucceeds, BackupFails, PruneFails, Finish, Restart,
         environment, DirInv, OneJob
<1>2. CASE files' = files
  BY <1>1, <1>2, DirKept DEF DirInv, Types
<1>3. ASSUME NEW j \in jobs, Written(j), files' \subseteq Renamed(j) PROVE DirInv'
  <2>1. /\ NewSnapshot(j.name).name = j.name
        /\ Renamed(j) \subseteq File /\ IsFiniteSet(Renamed(j))
    BY RenamedFiles DEF DirInv
  <2>2. Types'
    BY <1>1, <1>3, <2>1, FS_Subset DEF DirInv, Types
  <2>3. now \in Nat /\ j.began \in Nat /\ j.name \in Nat
    BY TimeAssumption DEF DirInv, Types, Job, Names
  <2>4. ASSUME setbacks = 0 PROVE j.name <= now
    BY <1>3, <2>3, <2>4 DEF DirInv, ClockOrdersNames, Written
  <2>5. ClockOrdersNames'
    BY <1>1, <1>3, <2>1, <2>4 DEF DirInv, ClockOrdersNames, Renamed
  <2>. QED
    BY <1>1, <2>2, <2>5 DEF DirInv, NamesAreFree
<1>. QED
  BY <1>2, <1>3, EndsWithin DEF DirInv

\* The directory and the names of the jobs are in order in every state.
LEMMA DirectoryIsInOrder == Spec => []DirInv
<1>1. Init => DirInv
  <2>. SUFFICES ASSUME Init PROVE DirInv
    OBVIOUS
  <2>0. MaxName \in Nat
    BY TimeAssumption
  <2>1. \A f \in files : f = NewSnapshot(1)
    BY TimeAssumption DEF Init
  <2>2. NewSnapshot(1) \in File /\ NewSnapshot(1).name = 1 /\ now = 1
    BY <2>0 DEF NewSnapshot, File, Names, Init
  <2>3. files \in SUBSET {NewSnapshot(1)}
    BY <2>1
  <2>4. IsFiniteSet(files)
    BY <2>3, FS_Singleton, FS_Subset
  <2>5. settings.retentionCount \in Nat \ {0} /\ settings.interval \in Nat
    BY SettingsAssumption DEF Init
  <2>6. Types
    <3>1. now \in Nat \ {0} /\ jobs = {} /\ setbacks \in Nat
      BY <2>2 DEF Init
    <3>. QED
      BY <2>1, <2>2, <2>4, <2>5, <3>1 DEF Types
  <2>7. OneJob
    BY DEF Init, OneJob
  <2>8. jobs = {} /\ \A f \in files : f.name <= now
    BY <2>1, <2>2 DEF Init
  <2>. QED
    BY <2>6, <2>7, <2>8 DEF DirInv, NamesAreFree, ClockOrdersNames
<1>2. DirInv /\ [Next]_vars => DirInv'
  <2>. SUFFICES ASSUME DirInv, [Next]_vars PROVE DirInv'
    OBVIOUS
  <2>0. now \in Nat \ {0} /\ setbacks \in Nat
    BY DEF DirInv, Types
  <2>1. CASE UNCHANGED <<now, files, jobs, running, settings, setbacks>>
    BY <2>1 DEF DirInv, OneJob, Types, NamesAreFree, ClockOrdersNames
  <2>2. CASE Tick
    BY <2>1, <2>2, DirBegins DEF Tick, environment
  <2>3. CASE CreateNow
    BY <2>3, DirBegins DEF CreateNow, environment
  <2>4. CASE Completes
    <3>1. OneJob'
      BY <2>4, LastJob DEF Completes, BackupSucceeds, BackupFails, PruneFails, DirInv
    <3>. QED
      BY <2>4, <3>1, DirEnds
  <2>5. CASE Restart
    <3>1. OneJob'
      BY <2>5 DEF Restart, OneJob
    <3>. QED
      BY <2>5, <3>1, DirEnds
  <2>6. CASE Unmount \/ Mount
    BY <2>1, <2>6 DEF Unmount, Mount, schedulerState
  <2>7. CASE TimePasses \/ ClockIsSetBack
    <3>1. /\ UNCHANGED <<files, jobs, running, settings>> /\ now' \in Nat \ {0}
          /\ setbacks' \in Nat
          /\ (now <= now' /\ setbacks' = setbacks) \/ setbacks' # 0
      BY <2>0, <2>7 DEF TimePasses, ClockIsSetBack, schedulerState
    <3>2. OneJob' /\ Types'
      BY <3>1 DEF DirInv, OneJob, Types
    <3>. QED
      BY <3>1, <3>2, DirKept
  <2>8. ASSUME NEW enabled \in BOOLEAN, NEW interval \in Intervals,
               NEW retentionCount \in Retentions,
               SaveSettings(enabled, interval, retentionCount)
        PROVE  DirInv'
    <3>1. /\ settings'.retentionCount = retentionCount /\ retentionCount \in Nat \ {0}
          /\ settings'.interval = interval /\ interval \in Nat
      BY <2>8, SettingsAssumption DEF SaveSettings
    <3>2. OneJob' /\ Types'
      <4>1. UNCHANGED <<now, files, jobs, running, setbacks>>
        BY <2>8 DEF SaveSettings, schedulerState
      <4>. QED
        BY <3>1, <4>1 DEF DirInv, OneJob, Types
    <3>. QED
      BY <2>0, <2>8, <3>2, DirKept DEF SaveSettings
  <2>9. ASSUME NEW f \in files, DeleteSnapshot(f) \/ Damage(f) \/ Stick(f)
        PROVE  DirInv'
    <3>1. UNCHANGED <<now, jobs, running, settings, setbacks>>
      BY <2>9 DEF DeleteSnapshot, Damage, Stick, schedulerState, environment
    <3>2. \A g \in File : /\ [g EXCEPT !.valid = FALSE] \in File
                          /\ [g EXCEPT !.valid = FALSE].name = g.name
                          /\ [g EXCEPT !.stuck = TRUE] \in File
                          /\ [g EXCEPT !.stuck = TRUE].name = g.name
      BY DEF File
    <3>3. \/ files' = files \ {f}
          \/ \E g \in File : g.name = f.name /\ files' = (files \ {f}) \cup {g}
      BY <2>9, <3>2 DEF DeleteSnapshot, Damage, Stick, DirInv, Types
    <3>4. files' \subseteq File /\ IsFiniteSet(files')
      <4>1. files \subseteq File /\ IsFiniteSet(files)
        BY DEF DirInv, Types
      <4>2. files \ {f} \subseteq File /\ IsFiniteSet(files \ {f})
        BY <4>1, FS_RemoveElement
      <4>3. \A g \in File : IsFiniteSet((files \ {f}) \cup {g})
        BY <4>2, FS_AddElement
      <4>. QED
        BY <3>3, <4>2, <4>3
    <3>5. OneJob' /\ Types'
      BY <3>1, <3>4 DEF DirInv, OneJob, Types
    <3>6. \A h \in files' : \E g \in files : g.name = h.name
      BY <3>3
    <3>. QED
      BY <2>0, <3>1, <3>5, <3>6, DirKept
  <2>10. CASE UNCHANGED vars
    BY <2>1, <2>10 DEF vars
  <2>. QED
    BY <2>2, <2>3, <2>4, <2>5, <2>6, <2>7, <2>8, <2>9, <2>10 DEF Next
<1>. QED
  BY <1>1, <1>2, PTL DEF Spec

-----------------------------------------------------------------------------
\* Retention removes only behind the retained: whether the backup completes,
\* fails in the middle of the removals or dies there, whatever is damaged,
\* stuck or was set back.
THEOREM RetentionKeepsTheNewest == Spec => PrunedBehindRetained
<1>. DEFINE Behind == Completes \/ Restart =>
              \A f \in files \ files' :
                Cardinality(Newer(files', f)) >= settings.retentionCount
<1>1. DirInv /\ [Next]_vars => [Behind]_vars
  <2>. SUFFICES ASSUME DirInv, Completes \/ Restart, NEW f \in files \ files'
                PROVE  Cardinality(Newer(files', f)) >= settings.retentionCount
    OBVIOUS
  <2>1. PICK j \in jobs : /\ files' \subseteq Renamed(j)
                          /\ Renamed(j) \ Expired(Renamed(j)) \subseteq files'
    BY EndsWithin DEF DirInv
  <2>2. Renamed(j) \subseteq File /\ IsFiniteSet(Renamed(j)) /\ f \in Renamed(j)
    BY RenamedFiles DEF DirInv, Renamed
  <2>. QED
    BY <2>1, <2>2, RetainedAreNewer DEF DirInv
<1>2. PrunedBehindRetained <=> [][Behind]_vars
  BY DEF PrunedBehindRetained
<1>. QED
  BY <1>1, <1>2, DirectoryIsInOrder, PTL DEF Spec

\* The snapshot of a backup that reports success takes no other's name and,
\* unless the clock was set back, is there: its name is the latest, so
\* retention cannot have removed it.
THEOREM SuccessMeansASnapshot == Spec => NewSnapshotIsKept
<1>. DEFINE Kept == \A j \in jobs : BackupSucceeds(j) =>
              /\ \A f \in files : f.name # j.name
              /\ setbacks = 0 => \E f \in files' : f.name = j.name
<1>1. DirInv => Kept
  <2>. SUFFICES ASSUME DirInv, NEW j \in jobs, BackupSucceeds(j)
                PROVE  /\ \A f \in files : f.name # j.name
                       /\ setbacks = 0 => \E f \in files' : f.name = j.name
    OBVIOUS
  <2>. DEFINE new == NewSnapshot(j.name)
  <2>1. \A f \in files : f.name # j.name
    BY DEF DirInv, NamesAreFree
  <2>2. ASSUME setbacks = 0 PROVE \E f \in files' : f.name = j.name
    <3>1. new.name = j.name /\ new \in Renamed(j)
      BY RenamedFiles DEF DirInv, Renamed
    <3>2. \A f \in files : f.name < j.name
      BY <2>2 DEF DirInv, ClockOrdersNames
    <3>3. j.name \in Nat /\ \A f \in files : f.name \in Nat
      BY TimeAssumption DEF DirInv, Types, Job, File, Names
    <3>4. Newer(Renamed(j), new) = {}
      BY <3>1, <3>2, <3>3 DEF Newer, Renamed
    <3>5. new \notin Expired(Renamed(j))
      BY <3>4, FS_EmptySet DEF Expired, DirInv, Types
    <3>. QED
      BY <3>1, <3>5 DEF BackupSucceeds
  <2>. QED
    BY <2>1, <2>2
<1>2. NewSnapshotIsKept <=> [][Kept]_vars
  BY DEF NewSnapshotIsKept
<1>. QED
  BY <1>1, <1>2, DirectoryIsInOrder, PTL DEF Spec

-----------------------------------------------------------------------------
(***************************************************************************)
(* The schedule.  What the scheduler remembers is the time of its last     *)
(* success and the baseline it read from the directory; together they must *)
(* be no older than any valid snapshot.                                    *)
(***************************************************************************)
Times ==
  /\ lastSuccess \in Nat /\ baseline \in Nat
  /\ \A f \in files : f.mtime \in Nat \ {0}

\* Files with later names were written later.
Ordered(fs) == \A f, g \in fs : f.name <= g.name => f.mtime <= g.mtime

NamesOrderTimes == setbacks = 0 => /\ Ordered(files)
                                   /\ \A f \in files : f.mtime <= now

\* What was written after the last success, because an old snapshot could not
\* be removed, is known again once the process has been restarted.
KnowsTheLatest ==
  Orderly /\ initialized =>
    \A f \in files : f.valid => f.mtime <= lastSuccess \/ f.mtime <= baseline

ScheduleInv == Times /\ NamesOrderTimes /\ KnowsTheLatest

\* The baseline read from the directory is the time of its latest snapshot.
LEMMA LatestIsLatest ==
  ASSUME NEW fs \in SUBSET File
  PROVE  /\ LatestTime(fs) \in Nat
         /\ Ordered(fs) => \A f \in fs : f.valid => f.mtime <= LatestTime(fs)
<1>0. \A f \in fs : f.mtime \in Nat /\ f.name \in Nat
  BY TimeAssumption DEF File, Names
<1>1. NewestValid(fs) \subseteq fs
  BY DEF NewestValid
<1>2. CASE NewestValid(fs) = {}
  <2>1. ASSUME NEW f \in fs, f.valid PROVE FALSE
    <3>. DEFINE vs == {g \in fs : g.valid}
    <3>1. PICK g \in vs : \A h \in vs : h.name <= g.name
      BY <2>1, LatestFile, TimeAssumption
    <3>2. g \in NewestValid(fs)
      BY <1>0, <3>1 DEF NewestValid, Newer
    <3>. QED
      BY <1>2, <3>2
  <2>. QED
    BY <1>2, <2>1 DEF LatestTime
<1>3. CASE NewestValid(fs) # {}
  <2>1. PICK g \in NewestValid(fs) : LatestTime(fs) = g.mtime
    BY <1>3 DEF LatestTime
  <2>2. \A f \in fs : f.valid => f.name <= g.name
    BY <1>0, <1>1, <2>1 DEF NewestValid, Newer
  <2>. QED
    BY <1>0, <1>1, <2>1, <2>2 DEF Ordered
<1>. QED
  BY <1>2, <1>3

\* A new snapshot is the latest by name and by time.
LEMMA NewIsLatest ==
  ASSUME DirInv, ScheduleInv, NEW j \in jobs, Written(j)
  PROVE  /\ \A f \in Renamed(j) : f.mtime \in Nat \ {0}
         /\ setbacks = 0 => /\ Ordered(Renamed(j))
                            /\ \A f \in Renamed(j) : f.mtime <= now
<1>. DEFINE new == NewSnapshot(j.name)
<1>1. /\ new.name = j.name /\ new.mtime = now /\ Renamed(j) = files \cup {new}
      /\ now \in Nat \ {0} /\ j.name \in Nat
      /\ \A f \in files : f.name \in Nat /\ f.mtime \in Nat \ {0}
  BY TimeAssumption
  DEF NewSnapshot, Renamed, DirInv, ScheduleInv, Times, Types, Job, File, Names
<1>. HIDE DEF new
<1>2. ASSUME setbacks = 0
      PROVE  Ordered(Renamed(j)) /\ \A f \in Renamed(j) : f.mtime <= now
  <2>1. /\ Ordered(files)
        /\ \A f \in files : f.mtime <= now /\ f.name < j.name
    BY <1>2 DEF DirInv, ClockOrdersNames, ScheduleInv, NamesOrderTimes
  <2>. QED
    BY <1>1, <2>1 DEF Ordered
<1>. QED
  BY <1>1, <1>2

\* The times in the directory after a backup or a restart.
LEMMA TimesAfter ==
  ASSUME DirInv, ScheduleInv, Completes \/ Restart
  PROVE  /\ \A f \in files' : f.mtime \in Nat \ {0}
         /\ setbacks = 0 => /\ Ordered(files')
                            /\ \A f \in files' : f.mtime <= now
<1>1. CASE files' = files
  BY <1>1 DEF ScheduleInv, Times, NamesOrderTimes
<1>2. ASSUME NEW j \in jobs, Written(j), files' \subseteq Renamed(j)
      PROVE  /\ \A f \in files' : f.mtime \in Nat \ {0}
             /\ setbacks = 0 => /\ Ordered(files')
                                /\ \A f \in files' : f.mtime <= now
  BY <1>2, NewIsLatest DEF Ordered
<1>. QED
  BY <1>1, <1>2, EndsWithin DEF DirInv

\* A step that neither writes a snapshot nor touches what the scheduler
\* remembers; files may be damaged, get stuck or, unless stuck, go away.
LEMMA ScheduleKept ==
  ASSUME DirInv, DirInv', ScheduleInv, UNCHANGED <<lastSuccess, baseline, initialized>>,
         (now <= now' /\ setbacks' = setbacks) \/ setbacks' # 0,
         \A f \in files' : \E g \in files :
           /\ g.name = f.name /\ g.mtime = f.mtime
           /\ f.valid => g.valid,
         (\A f \in files' : ~ f.stuck) => \A g \in files : ~ g.stuck
  PROVE  ScheduleInv'
<1>1. /\ now \in Nat /\ now' \in Nat /\ \A f \in files : f.mtime \in Nat
      /\ lastSuccess \in Nat /\ baseline \in Nat
  BY DEF DirInv, Types, File, ScheduleInv, Times
<1>2. Times'
  BY DEF ScheduleInv, Times
<1>3. NamesOrderTimes'
  BY <1>1 DEF ScheduleInv, NamesOrderTimes, Ordered
<1>4. KnowsTheLatest'
  BY <1>1 DEF ScheduleInv, KnowsTheLatest, Orderly
<1>. QED
  BY <1>2, <1>3, <1>4 DEF ScheduleInv

\* What a tick remembers before it decides.
LEMMA InitializeKnows ==
  ASSUME DirInv, ScheduleInv
  PROVE  LET state == Initialize IN
         /\ state.success \in Nat /\ state.baseline \in Nat
         /\ Orderly /\ state.initialized =>
              \A f \in files : f.valid => f.mtime <= state.success \/ f.mtime <= state.baseline
<1>1. /\ LatestTime(files) \in Nat
      /\ Ordered(files) => \A f \in files : f.valid => f.mtime <= LatestTime(files)
  BY LatestIsLatest DEF DirInv, Types
<1>2. CASE initialized \/ ~ rootReady
  BY <1>2 DEF Initialize, ScheduleInv, Times, KnowsTheLatest
<1>3. CASE ~ (initialized \/ ~ rootReady)
  <2>1. /\ Initialize.initialized = TRUE /\ Initialize.baseline = LatestTime(files)
        /\ Initialize.success \in {lastSuccess, LatestTime(files)}
    BY <1>3 DEF Initialize
  <2>2. Orderly => Ordered(files)
    BY DEF Orderly, ScheduleInv, NamesOrderTimes
  <2>. QED
    BY <1>1, <2>1, <2>2 DEF ScheduleInv, Times
<1>. QED
  BY <1>2, <1>3

\* A backup that ends: a success is remembered, a failure wrote nothing, and
\* one that could not remove a file leaves that file there.
LEMMA ScheduleCompletes ==
  ASSUME DirInv, DirInv', ScheduleInv, Completes
  PROVE  ScheduleInv'
<1>1. UNCHANGED <<now, setbacks>> /\ now \in Nat
  BY DEF Completes, BackupSucceeds, BackupFails, PruneFails, Finish, environment,
         DirInv, Types
<1>2. NamesOrderTimes' /\ \A f \in files' : f.mtime \in Nat \ {0}
  BY <1>1, TimesAfter DEF NamesOrderTimes
<1>3. Times'
  BY <1>1, <1>2
  DEF Completes, BackupSucceeds, BackupFails, PruneFails, Finish, ScheduleInv, Times
<1>4. PICK j \in jobs : BackupSucceeds(j) \/ BackupFails(j) \/ PruneFails(j)
  BY DEF Completes
<1>5. CASE BackupSucceeds(j)
  <2>1. lastSuccess' = now
    BY <1>5 DEF BackupSucceeds
  <2>2. Orderly' => \A f \in files' : f.mtime <= now
    BY <1>1, <1>2 DEF Orderly, NamesOrderTimes
  <2>. QED
    BY <1>2, <1>3, <2>1, <2>2 DEF ScheduleInv, KnowsTheLatest
<1>6. CASE BackupFails(j)
  <2>1. UNCHANGED <<files, lastSuccess, baseline, setbacks>>
    BY <1>6 DEF BackupFails, Finish, environment
  <2>2. initialized' => initialized
    BY <1>6, Zenon DEF BackupFails, Finish
  <2>. QED
    BY <1>2, <1>3, <2>1, <2>2 DEF ScheduleInv, KnowsTheLatest, Orderly
<1>7. CASE PruneFails(j)
  <2>1. PICK f \in Expired(Renamed(j)) :
          f.stuck /\ files' = Renamed(j) \ Newer(Expired(Renamed(j)), f)
    BY <1>7 DEF PruneFails
  <2>2. f \in Renamed(j) /\ f.name \in Nat
    BY <2>1, RenamedFiles, TimeAssumption DEF Expired, DirInv, File, Names
  <2>3. f \in files'
    BY <2>1, <2>2 DEF Newer
  <2>4. ~ Orderly'
    BY <2>1, <2>3 DEF Orderly
  <2>. QED
    BY <1>2, <1>3, <2>4 DEF ScheduleInv, KnowsTheLatest
<1>. QED
  BY <1>4, <1>5, <1>6, <1>7

\* A restart reads the baseline from the directory, or will when it is there.
LEMMA ScheduleRestarts ==
  ASSUME DirInv, DirInv', ScheduleInv, Restart
  PROVE  ScheduleInv'
<1>1. UNCHANGED <<now, setbacks>> /\ now \in Nat
  BY DEF Restart, environment, DirInv, Types
<1>2. NamesOrderTimes' /\ \A f \in files' : f.mtime \in Nat \ {0}
  BY <1>1, TimesAfter DEF NamesOrderTimes
<1>3. /\ LatestTime(files') \in Nat
      /\ Ordered(files') => \A f \in files' : f.valid => f.mtime <= LatestTime(files')
  BY LatestIsLatest DEF DirInv, Types
<1>4. /\ lastSuccess' = baseline' /\ initialized' = rootReady
      /\ baseline' = IF rootReady THEN LatestTime(files') ELSE 0
  BY DEF Restart
<1>5. Times'
  BY <1>2, <1>3, <1>4 DEF Times
<1>6. KnowsTheLatest'
  BY <1>2, <1>3, <1>4 DEF KnowsTheLatest, Orderly, NamesOrderTimes
<1>. QED
  BY <1>2, <1>5, <1>6 DEF ScheduleInv

\* What the scheduler remembers is in order in every state.
LEMMA ScheduleIsInOrder == Spec => []ScheduleInv
<1>1. Init => ScheduleInv
  <2>. SUFFICES ASSUME Init PROVE ScheduleInv
    OBVIOUS
  <2>1. \A f \in files : f = NewSnapshot(1)
    BY TimeAssumption DEF Init
  <2>2. NewSnapshot(1).mtime = 1 /\ NewSnapshot(1) \in File /\ now = 1
    BY TimeAssumption DEF NewSnapshot, File, Names, Init
  <2>3. \A f \in files : f.mtime = 1 /\ f \in File
    BY <2>1, <2>2
  <2>4. Ordered(files)
    BY <2>3 DEF Ordered
  <2>5. /\ LatestTime(files) \in Nat
        /\ \A f \in files : f.valid => f.mtime <= LatestTime(files)
    BY <2>3, <2>4, LatestIsLatest
  <2>. QED
    BY <2>2, <2>3, <2>4, <2>5
    DEF Init, ScheduleInv, Times, NamesOrderTimes, KnowsTheLatest
<1>2. DirInv /\ DirInv' /\ ScheduleInv /\ [Next]_vars => ScheduleInv'
  <2>. SUFFICES ASSUME DirInv, DirInv', ScheduleInv, [Next]_vars PROVE ScheduleInv'
    OBVIOUS
  <2>0. now \in Nat \ {0} /\ setbacks \in Nat
    BY DEF DirInv, Types
  <2>1. CASE UNCHANGED <<now, files, setbacks, lastSuccess, baseline, initialized>>
    BY <2>1 DEF ScheduleInv, Times, NamesOrderTimes, KnowsTheLatest, Orderly
  <2>2. CASE Tick
    <3>1. /\ UNCHANGED <<now, files, setbacks>>
          /\ initialized' = Initialize.initialized
          /\ baseline' = Initialize.baseline
          /\ lastSuccess' = Initialize.success
      BY <2>2 DEF Tick, environment
    <3>2. Times' /\ NamesOrderTimes'
      BY <3>1, InitializeKnows DEF ScheduleInv, Times, NamesOrderTimes
    <3>3. KnowsTheLatest'
      BY <3>1, InitializeKnows DEF KnowsTheLatest, Orderly
    <3>. QED
      BY <3>2, <3>3 DEF ScheduleInv
  <2>3. CASE CreateNow
    BY <2>1, <2>3 DEF CreateNow, environment
  <2>4. CASE Completes
    BY <2>4, ScheduleCompletes
  <2>5. CASE Restart
    BY <2>5, ScheduleRestarts
  <2>6. CASE Unmount \/ Mount
    BY <2>1, <2>6 DEF Unmount, Mount, schedulerState
  <2>7. CASE TimePasses \/ ClockIsSetBack
    <3>1. /\ UNCHANGED <<files, lastSuccess, baseline, initialized>>
          /\ (now <= now' /\ setbacks' = setbacks) \/ setbacks' # 0
      BY <2>0, <2>7 DEF TimePasses, ClockIsSetBack, schedulerState
    <3>. QED
      BY <3>1, ScheduleKept
  <2>8. ASSUME NEW enabled \in BOOLEAN, NEW interval \in Intervals,
               NEW retentionCount \in Retentions,
               SaveSettings(enabled, interval, retentionCount)
        PROVE  ScheduleInv'
    BY <2>1, <2>8 DEF SaveSettings, schedulerState
  <2>9. ASSUME NEW f \in files, DeleteSnapshot(f) \/ Damage(f) \/ Stick(f)
        PROVE  ScheduleInv'
    <3>1. UNCHANGED <<now, setbacks, lastSuccess, baseline, initialized>>
      BY <2>9 DEF DeleteSnapshot, Damage, Stick, schedulerState, environment
    <3>2. f \in File
      BY DEF DirInv, Types
    <3>3. CASE DeleteSnapshot(f)
      BY <2>0, <3>1, <3>3, ScheduleKept DEF DeleteSnapshot
    <3>4. CASE Damage(f)
      <4>. DEFINE g == [f EXCEPT !.valid = FALSE]
      <4>1. g.name = f.name /\ g.mtime = f.mtime /\ ~ g.valid /\ (g.stuck <=> f.stuck)
        BY <3>2 DEF File
      <4>2. files' = (files \ {f}) \cup {g}
        BY <3>4 DEF Damage
      <4>. HIDE DEF g
      <4>. QED
        BY <2>0, <3>1, <4>1, <4>2, ScheduleKept
    <3>5. CASE Stick(f)
      <4>. DEFINE g == [f EXCEPT !.stuck = TRUE]
      <4>1. g.name = f.name /\ g.mtime = f.mtime /\ (g.valid <=> f.valid) /\ g.stuck
        BY <3>2 DEF File
      <4>2. files' = (files \ {f}) \cup {g}
        BY <3>5 DEF Stick
      <4>. HIDE DEF g
      <4>. QED
        BY <2>0, <3>1, <4>1, <4>2, ScheduleKept
    <3>. QED
      BY <2>9, <3>3, <3>4, <3>5
  <2>10. CASE UNCHANGED vars
    BY <2>1, <2>10 DEF vars
  <2>. QED
    BY <2>2, <2>3, <2>4, <2>5, <2>6, <2>7, <2>8, <2>9, <2>10 DEF Next
<1>. QED
  BY <1>1, <1>2, DirectoryIsInOrder, PTL DEF Spec

\* A tick finds the interval passed only when no valid snapshot is younger:
\* what the scheduler remembers, over restarts, lost volumes, requests and
\* damage, is at least as late as every one of them.
THEOREM ScheduleWaits == Spec => ScheduleKeepsInterval
<1>1. DirInv /\ ScheduleInv /\ [Next]_vars => [Orderly => ~ TooSoon]_vars
  <2>. SUFFICES ASSUME DirInv, ScheduleInv, Orderly, TooSoon,
                       settings.interval \in Nat
                PROVE  FALSE
    BY DEF DirInv, Types
  <2>1. PICK f \in files : f.valid /\ now - f.mtime < settings.interval
    BY DEF TooSoon
  <2>2. /\ Initialize.initialized
        /\ IntervalPassed(Initialize.success, Initialize.baseline)
    BY DEF TooSoon, Tick
  <2>3. f.mtime <= Initialize.success \/ f.mtime <= Initialize.baseline
    BY <2>1, <2>2, InitializeKnows
  <2>4. /\ f.mtime \in Nat \ {0} /\ now \in Nat
        /\ Initialize.success \in Nat /\ Initialize.baseline \in Nat
    BY InitializeKnows DEF ScheduleInv, Times, DirInv, Types
  <2>. HIDE DEF Initialize
  <2>. QED
    BY <2>1, <2>2, <2>3, <2>4 DEF IntervalPassed, Greatest
<1>. QED
  BY <1>1, DirectoryIsInOrder, ScheduleIsInOrder, PTL DEF Spec, ScheduleKeepsInterval
=============================================================================
