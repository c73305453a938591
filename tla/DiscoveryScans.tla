---------------------------- MODULE DiscoveryScans ----------------------------
(***************************************************************************)
(* The queue of discovery scans and its schedules                          *)
(* (server/routes/discovery.ts).                                           *)
(*                                                                         *)
(* A network is a canonical CIDR of a lab.  `jobs` is discoveryScanJobs in *)
(* insertion order without the finished jobs, which are only kept to be    *)
(* read: nothing in the queue looks at them.  A schedule knows when it last *)
(* ran only as far as the poll asks: whether its interval has passed, and  *)
(* which schedule ran before which.                                        *)
(*                                                                         *)
(* A poll looks at all schedules without giving up the thread.  The model  *)
(* takes them one at a time; nothing else happens before `polling` is      *)
(* empty again.                                                            *)
(***************************************************************************)
EXTENDS Integers, Sequences, FiniteSets, SequencesExt

CONSTANTS
  Networks,        \* the CIDRs that are scanned
  LabOf,           \* the lab of each of them
  Schedules,       \* ids of discoveryScanSchedules
  Stored,          \* schedules in the database at the start
  NoRow,           \* there is no such schedule
  MaxActive,       \* DISCOVERY_SCAN_MAX_ACTIVE
  MaxActivePerLab, \* DISCOVERY_SCAN_MAX_ACTIVE_PER_LAB
  MaxQueued,       \* DISCOVERY_SCAN_MAX_QUEUED
  MaxActs          \* bound: requests of users, and restarts

ASSUME LimitsAssumption ==
  /\ MaxActive \in Nat \ {0} /\ MaxActivePerLab \in Nat \ {0} /\ MaxQueued \in Nat \ {0}
  /\ MaxActs \in Nat
ASSUME SchedulesAssumption == IsFiniteSet(Schedules) /\ Stored \subseteq Schedules

VARIABLES
  rows,      \* discoveryScanSchedules
  recorded,  \* the schedules with a lastRunAt, in the order of their lastRunAt
  jobs,      \* discoveryScanJobs that are queued or running
  running,   \* runningScheduleIds
  polling,   \* schedules the poll under way has still to look at
  acts       \* bound: requests and restarts so far

vars == <<rows, recorded, jobs, running, polling, acts>>

\* lastRun: no lastRunAt, less than intervalMs ago, or more.
Row == [net : Networks, enabled : BOOLEAN, lastRun : {"never", "recent", "passed"}]

Job == [net : Networks, status : {"queued", "running"}, scheduleIds : SUBSET Schedules]

ASSUME RowAssumption == NoRow \notin Row

NewRow(n, enabled) == [net |-> n, enabled |-> enabled, lastRun |-> "never"]

NewJob(n, who) == [net |-> n, status |-> "queued", scheduleIds |-> who]

Init ==
  /\ rows \in [Schedules -> {NoRow} \cup {NewRow(n, TRUE) : n \in Networks}]
  /\ \A s \in Schedules : rows[s] # NoRow <=> s \in Stored
  /\ recorded = <<>>
  /\ jobs = <<>>
  /\ running = {}
  /\ polling = <<>>
  /\ acts = 0

-----------------------------------------------------------------------------
(***************************************************************************)
(* The queue.                                                              *)
(***************************************************************************)
Queued(js) == {i \in DOMAIN js : js[i].status = "queued"}
Scanning(js) == {i \in DOMAIN js : js[i].status = "running"}

\* Mutant: the limit of the lab is not looked at.
RoomAnywhere(js, active, n) == Cardinality(active) < MaxActive

\* With the jobs of `active` running, another one of network n may run.
Room(js, active, n) ==
  /\ Cardinality(active) < MaxActive
  /\ Cardinality({i \in active : LabOf[js[i].net] = LabOf[n]}) < MaxActivePerLab

\* Mutant: the newest job that has room is started.
LastComeFirstServed(js, S) ==
  /\ S \subseteq Queued(js)
  /\ \A i \in Queued(js) :
       i \in S <=> Room(js, Scanning(js) \cup {k \in S : k > i}, js[i].net)

\* dispatchDiscoveryScanJobs starts the first queued job that has room until
\* there is none: it starts the jobs that have room next to the older ones.
FirstComeFirstServed(js, S) ==
  /\ S \subseteq Queued(js)
  /\ \A i \in Queued(js) :
       i \in S <=> Room(js, Scanning(js) \cup {k \in S : k < i}, js[i].net)

Started(js, S) ==
  [i \in DOMAIN js |-> IF i \in S THEN [js[i] EXCEPT !.status = "running"] ELSE js[i]]

\* The one outcome of a dispatch, as a set.
Dispatched(js) ==
  {Started(js, S) : S \in {T \in SUBSET Queued(js) : FirstComeFirstServed(js, T)}}

\* Mutant: only a scan that runs is joined.
RunningOf(js, n) == {i \in Scanning(js) : js[i].net = n}

\* findActiveDiscoveryScanJob
ActiveOf(js, n) == {i \in DOMAIN js : js[i].net = n}

Full(js, n) ==
  /\ Cardinality(Queued(js)) >= MaxQueued
  /\ ~ Room(js, Scanning(js), n)

(***************************************************************************)
(* startDiscoveryScanJob, for a schedule (who = {s}) or for none: join the *)
(* active scan of the network, or refuse, or queue a new one.              *)
(***************************************************************************)
Join(js, n, who) ==
  \E i \in ActiveOf(js, n) :
    /\ \A k \in ActiveOf(js, n) : i <= k
    /\ jobs' = [js EXCEPT ![i].scheduleIds = @ \cup who]
    /\ running' = running \cup who

Refuse(js, n) ==
  /\ ActiveOf(js, n) = {}
  /\ Full(js, n)
  /\ jobs' = js
  /\ UNCHANGED running

Enqueue(js, n, who) ==
  /\ ActiveOf(js, n) = {}
  /\ ~ Full(js, n)
  /\ jobs' \in Dispatched(Append(js, NewJob(n, who)))
  /\ running' = running \cup who

StartJob(n, who) ==
  \E js \in Dispatched(jobs) :
    Join(js, n, who) \/ Refuse(js, n) \/ Enqueue(js, n, who)

-----------------------------------------------------------------------------
(***************************************************************************)
(* The poll of the schedules: SELECT the enabled ones, those that never    *)
(* ran first, then the one whose last run is the oldest.                   *)
(***************************************************************************)
Enabled == {s \in Schedules : rows[s] # NoRow /\ rows[s].enabled}

Ran == {s \in Schedules : rows[s] # NoRow /\ rows[s].lastRun # "never"}

RanBefore(s, t) ==
  \E i, k \in DOMAIN recorded : i < k /\ recorded[i] = s /\ recorded[k] = t

\* The schedules of S in the order of their last runs.
ByLastRun(S) ==
  {q \in SetToSeqs(S) : \A i, k \in DOMAIN q : i < k => RanBefore(q[i], q[k])}

Due(s) == s \in Enabled /\ rows[s].lastRun # "recent"

\* Mutant: SELECT without ORDER BY.
InAnyOrder == SetToSeqs(Enabled)

\* The order among those that never ran is that of their CIDRs: any.
OldestFirst ==
  {parts[1] \o parts[2] :
     parts \in SetToSeqs(Enabled \ Ran) \X ByLastRun(Enabled \cap Ran)}

Poll ==
  /\ polling = <<>>
  /\ Enabled # {}
  /\ polling' \in OldestFirst
  /\ UNCHANGED <<rows, recorded, jobs, running, acts>>

\* runDueDiscoveryScanSchedules for one schedule, up to the await.
PollOne ==
  /\ polling # <<>>
  /\ polling' = Tail(polling)
  /\ LET s == Head(polling) IN
     IF s \in running \/ ~ Due(s)
     THEN UNCHANGED <<jobs, running>>
     ELSE StartJob(rows[s].net, {s})
  /\ UNCHANGED <<rows, recorded, acts>>

(***************************************************************************)
(* The scan of job i has ended, well or not: executeDiscoveryScanJob after *)
(* its await.  Either way its schedules get a new lastRunAt.               *)
(***************************************************************************)
\* Mutant: the job keeps its place, finished.
MarkedFinished(js, i) == [js EXCEPT ![i].status = "completed"]

Without(js, i) ==
  [k \in 1 .. Len(js) - 1 |-> IF k < i THEN js[k] ELSE js[k + 1]]

RecordRun(who) ==
  /\ rows' = [s \in Schedules |->
                IF s \in who /\ rows[s] # NoRow
                THEN [rows[s] EXCEPT !.lastRun = "recent"] ELSE rows[s]]
  /\ \E earlier \in ByLastRun(Ran \ who), latest \in SetToSeqs({s \in who : rows[s] # NoRow}) :
       recorded' = earlier \o latest

Finish(i) ==
  /\ jobs[i].status = "running"
  /\ RecordRun(jobs[i].scheduleIds)
  /\ running' = running \ jobs[i].scheduleIds
  /\ jobs' \in Dispatched(Without(jobs, i))
  /\ UNCHANGED <<polling, acts>>

ScanEnds(n) ==
  /\ polling = <<>>
  /\ \E i \in ActiveOf(jobs, n) : Finish(i)

-----------------------------------------------------------------------------
(***************************************************************************)
(* Requests of users.                                                      *)
(***************************************************************************)
Request == polling = <<>> /\ acts < MaxActs /\ acts' = acts + 1

\* POST /scan
ScanNow(n) ==
  /\ Request
  /\ StartJob(n, {})
  /\ UNCHANGED <<rows, recorded, polling>>

\* Mutant: the route does not look whether the schedule is running.
StartAgain(s) ==
  /\ Request
  /\ rows[s] # NoRow
  /\ StartJob(rows[s].net, {s})
  /\ UNCHANGED <<rows, recorded, polling>>

\* POST /schedules/:id/run; a schedule that is running is answered with its job.
RunNow(s) ==
  /\ Request
  /\ rows[s] # NoRow
  /\ s \notin running
  /\ StartJob(rows[s].net, {s})
  /\ UNCHANGED <<rows, recorded, polling>>

\* POST /schedules; the id is new.
CreateSchedule(s, n, enabled) ==
  /\ Request
  /\ rows[s] = NoRow
  /\ \A i \in DOMAIN jobs : s \notin jobs[i].scheduleIds
  /\ rows' = [rows EXCEPT ![s] = NewRow(n, enabled)]
  /\ UNCHANGED <<recorded, jobs, running, polling>>

\* PATCH /schedules/:id; another intervalMs may have passed, or not yet.
UpdateSchedule(s, row) ==
  /\ Request
  /\ rows[s] # NoRow
  /\ LabOf[row.net] = LabOf[rows[s].net]
  /\ row.lastRun = "never" <=> rows[s].lastRun = "never"
  /\ rows' = [rows EXCEPT ![s] = row]
  /\ UNCHANGED <<recorded, jobs, running, polling>>

\* DELETE /schedules/:id: a scan it asked for goes on.
DeleteSchedule(s) ==
  /\ Request
  /\ rows[s] # NoRow
  /\ rows' = [rows EXCEPT ![s] = NoRow]
  /\ recorded' \in ByLastRun(Ran \ {s})
  /\ UNCHANGED <<jobs, running, polling>>

\* A new process: the queue was in memory.
Restart ==
  /\ Request
  /\ jobs' = <<>>
  /\ running' = {}
  /\ UNCHANGED <<rows, recorded, polling>>

IntervalPasses(s) ==
  /\ polling = <<>>
  /\ rows[s] # NoRow
  /\ rows[s].lastRun = "recent"
  /\ rows' = [rows EXCEPT ![s].lastRun = "passed"]
  /\ UNCHANGED <<recorded, jobs, running, polling, acts>>

Users ==
  \/ \E n \in Networks : ScanNow(n)
  \/ \E s \in Schedules, n \in Networks, b \in BOOLEAN : CreateSchedule(s, n, b)
  \/ \E s \in Schedules, row \in Row : UpdateSchedule(s, row)
  \/ \E s \in Schedules : RunNow(s) \/ DeleteSchedule(s)

Next ==
  \/ Poll
  \/ PollOne
  \/ \E n \in Networks : ScanEnds(n)
  \/ Users
  \/ Restart
  \/ \E s \in Schedules : IntervalPasses(s)

Spec == Init /\ [][Next]_vars

(***************************************************************************)
(* The timer ticks and every scan ends: each probe and each tool it runs   *)
(* has a timeout.  Fairness towards a scan is strong only because the      *)
(* steps of a poll disable its end in the model, as they do not in the     *)
(* code.                                                                   *)
(***************************************************************************)
Fairness ==
  /\ WF_vars(Poll)
  /\ WF_vars(PollOne)
  /\ \A n \in Networks : SF_vars(ScanEnds(n))

LiveSpec == Spec /\ Fairness

-----------------------------------------------------------------------------
\* The schedules with a lastRunAt have their place in the order of the next
\* poll, each one, and a poll asks none twice.
TypeOK ==
  /\ rows \in [Schedules -> Row \cup {NoRow}]
  /\ recorded \in SetToSeqs(Ran)
  /\ jobs \in Seq(Job)
  /\ running \subseteq Schedules
  /\ polling \in Seq(Schedules)
  /\ \A i, k \in DOMAIN polling : polling[i] = polling[k] => i = k
  /\ acts \in 0 .. MaxActs

\* Scans run within the global limit and the limit of their lab, and no more
\* jobs wait than the queue holds, although a job is queued past a full queue
\* when it can start at once.
LimitsHold ==
  /\ Cardinality(Scanning(jobs)) <= MaxActive
  /\ \A n \in Networks :
       Cardinality({i \in Scanning(jobs) : LabOf[jobs[i].net] = LabOf[n]}) <= MaxActivePerLab
  /\ Cardinality(Queued(jobs)) <= MaxQueued

\* A network is not scanned, nor queued, twice at a time, whoever asks.
OneScanPerNetwork ==
  \A i, k \in DOMAIN jobs : jobs[i].net = jobs[k].net => i = k

\* runningScheduleIds says exactly which schedules an active job will report
\* to, and each waits for one job: also when its CIDR is changed meanwhile.
SchedulesAreAttachedOnce ==
  /\ running = UNION {jobs[i].scheduleIds : i \in DOMAIN jobs}
  /\ \A i, k \in DOMAIN jobs : i # k => jobs[i].scheduleIds \cap jobs[k].scheduleIds = {}

\* A job does not wait while it has room.
NoIdleSlot == \A i \in Queued(jobs) : ~ Room(jobs, Scanning(jobs), jobs[i].net)

\* The scans of a lab start in the order they were asked for.
FairWithinLab ==
  \A i \in Queued(jobs), k \in Scanning(jobs) :
    LabOf[jobs[i].net] = LabOf[jobs[k].net] => k < i

\* Every scan asked for ends, unless the process does, and every schedule that
\* is due gets its turn, even when the queue is too small for all of them: what
\* was refused is asked for again, ahead of the others.
NobodyWaitsForEver ==
  /\ \A n \in Networks : ActiveOf(jobs, n) # {} ~> ActiveOf(jobs, n) = {}
  /\ \A s \in Schedules : Due(s) ~> ~ Due(s)
=============================================================================
