------------------------- MODULE IntegrationAutoSync -------------------------
(***************************************************************************)
(* The scheduled synchronisation of controller integrations                *)
(* (server/lib/integrations/auto-sync.ts, schedules.ts and the schedule    *)
(* and connection routes of server/routes/integrations.ts).                *)
(*                                                                         *)
(* The server is one Node.js process over a synchronous SQLite database:   *)
(* handlers interleave only where they await.  A run awaits exactly once,  *)
(* in client.fetchInventory; everything before and after that await is one *)
(* atomic step here.  inFlight holds the runs that are in that await.      *)
(*                                                                         *)
(* Time is a natural number; a minute lasts Minute units, so that things   *)
(* can happen within a minute.  0 stands for the code's null timestamps.   *)
(***************************************************************************)
EXTENDS Integers, FiniteSets

CONSTANTS
  Schedules,     \* ids of sync schedules (createId never returns one twice)
  Connections,   \* ids of integration connections
  ConnectionOf,  \* the connectionId column; no statement ever updates it
  CronChoices,   \* what the cron column can say: the set of instants, all of
                 \* them minute marks, that cronMatches accepts
  Minute,        \* units of time in a minute (60 000 ms)
  Lookback,      \* the furthest the due window reaches back (5 minutes)
  BackoffBase,   \* BACKOFF_BASE_MS
  BackoffCap,    \* BACKOFF_CAP_MS
  FailureCap,    \* bound: failureCount saturates here; Backoff is at its cap
  MaxTime        \* bound on the clock

ASSUME ConnectionOfAssumption == ConnectionOf \in [Schedules -> Connections]
ASSUME CronAssumption == \A cron \in CronChoices : cron \subseteq Nat
ASSUME TimeAssumption ==
  /\ Minute \in Nat \ {0} /\ Lookback \in Nat \ {0}
  /\ BackoffBase \in Nat \ {0} /\ BackoffCap \in Nat \ {0}
  /\ FailureCap \in Nat \ {0} /\ MaxTime \in Nat \ {0}
\* Arithmetic the provers do not know: they have no theory of ^.
ASSUME PowerAssumption == \A n \in 1 .. FailureCap : 2 ^ (n - 1) \in Nat

VARIABLES
  now,             \* the wall clock
  schedule,        \* table integrationSyncSchedules
  connection,      \* table integrationConnections
  lock,            \* activeIntegrationSyncConnections
  inFlight,        \* runs awaiting client.fetchInventory
  autoSyncRunning, \* the loop's re-entrancy flag
  tickAt,          \* `now` captured by the running pass; at boot, boot time
  previousTick,    \* module variable previousTick
  due,             \* the rest of the due list of the running pass
  doneAt           \* history: tickAt of the last pass whose run of a
                   \* schedule was recorded (0: none)

vars == <<now, schedule, connection, lock, inFlight, autoSyncRunning, tickAt,
          previousTick, due, doneAt>>

loopVars == <<autoSyncRunning, tickAt, previousTick, due>>

Runners == {"scheduler", "request"}

ScheduleRow ==
  [state : {"unborn", "live", "deleted"}, enabled : BOOLEAN,
   cron : CronChoices, failureCount : 0 .. FailureCap,
   pausedUntil : Nat, lastRunAt : Nat]

ConnectionRow ==
  [live : BOOLEAN, enabled : BOOLEAN,
   secret : {"stored", "missing", "unreadable"}]

Run == [by : Runners, schedule : Schedules, failureCount : 0 .. FailureCap]

\* Mutant: the INSERT leaves the failure count out.
NewRowUncounted(state, enabled, cron) ==
  [state |-> state, enabled |-> enabled, cron |-> cron,
   failureCount |-> -1, pausedUntil |-> 0, lastRunAt |-> 0]

NewRow(state, enabled, cron) ==
  [state |-> state, enabled |-> enabled, cron |-> cron,
   failureCount |-> 0, pausedUntil |-> 0, lastRunAt |-> 0]

Init ==
  /\ now = 1
  /\ \E existing \in SUBSET Schedules, cron \in [Schedules -> CronChoices] :
       schedule = [s \in Schedules |->
         NewRow(IF s \in existing THEN "live" ELSE "unborn", TRUE, cron[s])]
  /\ connection = [c \in Connections |->
       [live |-> TRUE, enabled |-> TRUE, secret |-> "stored"]]
  /\ lock = {}
  /\ inFlight = {}
  /\ autoSyncRunning = FALSE
  /\ tickAt = now
  /\ previousTick = 0
  /\ due = {}
  /\ doneAt = [s \in Schedules |-> 0]

(***************************************************************************)
(* Failure backoff: 5m, 10m, 20m, ... capped at 6h.                        *)
(***************************************************************************)
Least(a, b) == IF a <= b THEN a ELSE b
Greatest(a, b) == IF a >= b THEN a ELSE b

Backoff(n) == Least(BackoffBase * 2 ^ (n - 1), BackoffCap)

Live(s) == schedule[s].state = "live"

(***************************************************************************)
(* recordIntegrationSyncScheduleResult: an UPDATE by id, which touches     *)
(* nothing when the row is gone.                                           *)
(***************************************************************************)
WithResult(row, failures, pausedUntil) ==
  [row EXCEPT !.lastRunAt = now, !.failureCount = failures,
              !.pausedUntil = pausedUntil]

RecordOk(s) ==
  schedule' = IF Live(s)
              THEN [schedule EXCEPT ![s] = WithResult(@, 0, 0)]
              ELSE schedule

\* `failures` is the failureCount the run read when it began.
RecordError(s, failures) ==
  LET n == Least(failures + 1, FailureCap) IN
  schedule' = IF Live(s)
              THEN [schedule EXCEPT ![s] = WithResult(@, n, now + Backoff(n))]
              ELSE schedule

(***************************************************************************)
(* findDueIntegrationSyncSchedules: a schedule is due when some minute     *)
(* mark of the window matches its cron and is later than its last run.     *)
(***************************************************************************)
WindowStart ==
  IF previousTick # 0 THEN Greatest(previousTick, now - Lookback)
                      ELSE now - Minute

MinuteMarks == {t \in 1 .. MaxTime : t % Minute = 0}

\* Mutant: every tick scans the whole look-back and remembers nothing.
DueMinutesForgetful(s) ==
  {t \in MinuteMarks : now - Lookback < t /\ t <= now /\ t \in schedule[s].cron}

DueMinutes(s) ==
  {t \in MinuteMarks : /\ WindowStart < t /\ t <= now
                       /\ t \in schedule[s].cron
                       /\ schedule[s].lastRunAt < t}

IsDue(s) ==
  /\ Live(s)
  /\ schedule[s].enabled
  /\ connection[ConnectionOf[s]].enabled
  /\ schedule[s].pausedUntil <= now
  /\ DueMinutes(s) # {}

(***************************************************************************)
(* The loop.  setInterval fires no sooner than a minute after the firing   *)
(* that started the last pass (or after boot), and any amount later.       *)
(***************************************************************************)
TimerFires ==
  /\ ~autoSyncRunning
  /\ now >= tickAt + Minute
  /\ autoSyncRunning' = TRUE
  /\ tickAt' = now
  /\ due' = {s \in Schedules : IsDue(s)}
  /\ UNCHANGED <<now, schedule, connection, lock, inFlight, previousTick, doneAt>>

SchedulerInFlight == \E r \in inFlight : r.by = "scheduler"

\* Mutant: the flag is not cleared at the end.
EndPassKeepsFlag ==
  /\ autoSyncRunning' = TRUE
  /\ previousTick' = tickAt
  /\ due' = {}
  /\ UNCHANGED tickAt

\* The .finally of the interval callback.
EndPass ==
  /\ autoSyncRunning' = FALSE
  /\ previousTick' = tickAt
  /\ due' = {}
  /\ UNCHANGED tickAt

PassCompletes ==
  /\ autoSyncRunning /\ due = {} /\ ~SchedulerInFlight
  /\ EndPass
  /\ UNCHANGED <<now, schedule, connection, lock, inFlight, doneAt>>

(***************************************************************************)
(* The rest of the pass takes the next due schedule.  The due list is not  *)
(* checked again: not for a pause, nor for what was disabled since.        *)
(***************************************************************************)
SchedulerTurn(s) == autoSyncRunning /\ ~SchedulerInFlight /\ s \in due

\* Mutant: the lock is taken without looking.
StartRunRegardless(s, by) ==
  /\ connection[ConnectionOf[s]].secret = "stored"
  /\ lock' = lock \cup {ConnectionOf[s]}
  /\ inFlight' = inFlight \cup
       {[by |-> by, schedule |-> s, failureCount |-> schedule[s].failureCount]}

StartRun(s, by) ==
  /\ ConnectionOf[s] \notin lock
  /\ connection[ConnectionOf[s]].secret = "stored"
  /\ lock' = lock \cup {ConnectionOf[s]}
  /\ inFlight' = inFlight \cup
       {[by |-> by, schedule |-> s, failureCount |-> schedule[s].failureCount]}

\* Mutant: the secret is looked at before the lock is.
FailUnlocked(s) ==
  /\ connection[ConnectionOf[s]].secret = "missing"
  /\ RecordError(s, schedule[s].failureCount)

\* No stored secret: thrown inside the try, so recorded before any await.
FailWithoutSecret(s) ==
  /\ ConnectionOf[s] \notin lock
  /\ connection[ConnectionOf[s]].secret = "missing"
  /\ RecordError(s, schedule[s].failureCount)

ScheduledRunStarts(s) ==
  /\ SchedulerTurn(s) /\ Live(s)
  /\ StartRun(s, "scheduler")
  /\ due' = due \ {s}
  /\ UNCHANGED <<now, schedule, connection, autoSyncRunning, tickAt,
                 previousTick, doneAt>>

ScheduledRunLacksSecret(s) ==
  /\ SchedulerTurn(s) /\ Live(s)
  /\ FailWithoutSecret(s)
  /\ due' = due \ {s}
  /\ doneAt' = [doneAt EXCEPT ![s] = tickAt]
  /\ UNCHANGED <<now, connection, lock, inFlight, autoSyncRunning, tickAt,
                 previousTick>>

\* IntegrationSyncBusyError: reported as drift, nothing recorded.
ScheduledRunFindsBusy(s) ==
  /\ SchedulerTurn(s) /\ Live(s)
  /\ ConnectionOf[s] \in lock
  /\ due' = due \ {s}
  /\ UNCHANGED <<now, schedule, connection, lock, inFlight, autoSyncRunning,
                 tickAt, previousTick, doneAt>>

\* Any other error is rethrown and ends the pass: the schedule was deleted
\* (404), or decryptSecret throws, which happens outside the run's try.
ScheduledRunThrows(s) ==
  /\ SchedulerTurn(s)
  /\ \/ ~Live(s)
     \/ /\ ConnectionOf[s] \notin lock
        /\ connection[ConnectionOf[s]].secret = "unreadable"
  /\ EndPass
  /\ UNCHANGED <<now, schedule, connection, lock, inFlight, doneAt>>

(***************************************************************************)
(* POST /schedules/:id/run.  Its 404, 409 and 500 answers change nothing.  *)
(***************************************************************************)
MayRequestRun(s) == Live(s) /\ connection[ConnectionOf[s]].enabled

RequestedRunStarts(s) ==
  /\ MayRequestRun(s)
  /\ StartRun(s, "request")
  /\ UNCHANGED <<now, schedule, connection, loopVars, doneAt>>

RequestedRunLacksSecret(s) ==
  /\ MayRequestRun(s)
  /\ FailWithoutSecret(s)
  /\ UNCHANGED <<now, connection, lock, inFlight, loopVars, doneAt>>

(***************************************************************************)
(* fetchInventory answers: the rest of the run, up to the finally of       *)
(* withIntegrationSyncLock.                                                *)
(***************************************************************************)
\* Mutant: no finally, the lock is kept.
SettleKeepsLock(r) ==
  /\ inFlight' = inFlight \ {r}
  /\ doneAt' = IF r.by = "scheduler" /\ Live(r.schedule)
               THEN [doneAt EXCEPT ![r.schedule] = tickAt]
               ELSE doneAt
  /\ UNCHANGED <<now, connection, lock, loopVars>>

Settle(r) ==
  /\ inFlight' = inFlight \ {r}
  /\ lock' = lock \ {ConnectionOf[r.schedule]}
  /\ doneAt' = IF r.by = "scheduler" /\ Live(r.schedule)
               THEN [doneAt EXCEPT ![r.schedule] = tickAt]
               ELSE doneAt
  /\ UNCHANGED <<now, connection, loopVars>>

RunSucceeds(r) == RecordOk(r.schedule) /\ Settle(r)

\* The fetch, or the apply of some target lab, threw.
RunFails(r) == RecordError(r.schedule, r.failureCount) /\ Settle(r)

(***************************************************************************)
(* The schedule and connection routes.                                     *)
(***************************************************************************)
CreateSchedule(s, enabled, cron) ==
  /\ schedule[s].state = "unborn"
  /\ connection[ConnectionOf[s]].live
  /\ schedule' = [schedule EXCEPT ![s] = NewRow("live", enabled, cron)]
  /\ UNCHANGED <<now, connection, lock, inFlight, loopVars, doneAt>>

\* Mutant: a reconfiguration clears the count and not the pause.
ReconfiguredStillPaused(row, enabled, cron) ==
  [row EXCEPT !.enabled = enabled, !.cron = cron, !.failureCount = 0]

Reconfigured(row, enabled, cron) ==
  [row EXCEPT !.enabled = enabled, !.cron = cron,
              !.failureCount = 0, !.pausedUntil = 0]

UpdateSchedule(s, enabled, cron) ==
  /\ Live(s)
  /\ schedule' = [schedule EXCEPT ![s] = Reconfigured(@, enabled, cron)]
  /\ UNCHANGED <<now, connection, lock, inFlight, loopVars, doneAt>>

Deleted(row) == [row EXCEPT !.state = "deleted"]

DeleteSchedule(s) ==
  /\ Live(s)
  /\ schedule' = [schedule EXCEPT ![s] = Deleted(@)]
  /\ UNCHANGED <<now, connection, lock, inFlight, loopVars, doneAt>>

\* PATCH /connections/:id: enable or disable, store a new secret or clear it.
UpdateConnection(c, enabled, secret) ==
  /\ connection[c].live
  /\ secret \in {connection[c].secret, "stored", "missing"}
  /\ connection' = [connection EXCEPT ![c] = [@ EXCEPT !.enabled = enabled,
                                                       !.secret = secret]]
  /\ UNCHANGED <<now, schedule, lock, inFlight, loopVars, doneAt>>

\* DELETE /connections/:id: its schedules go with it (ON DELETE CASCADE).
DeleteConnection(c) ==
  /\ connection[c].live
  /\ connection' = [connection EXCEPT ![c] = [@ EXCEPT !.live = FALSE,
                                                       !.enabled = FALSE]]
  /\ schedule' = [s \in Schedules |->
                    IF ConnectionOf[s] = c /\ Live(s) THEN Deleted(schedule[s])
                                                      ELSE schedule[s]]
  /\ UNCHANGED <<now, lock, inFlight, loopVars, doneAt>>

(***************************************************************************)
(* The process is restarted: module variables and awaits are lost, tables  *)
(* stay.  With another RACKPAD_SECRET_KEY (or none) the stored secrets no  *)
(* longer decrypt.                                                         *)
(***************************************************************************)
Restart(keyChanged) ==
  /\ lock' = {} /\ inFlight' = {} /\ due' = {}
  /\ autoSyncRunning' = FALSE /\ previousTick' = 0 /\ tickAt' = now
  /\ connection' = [c \in Connections |->
       IF keyChanged /\ connection[c].secret = "stored"
       THEN [connection[c] EXCEPT !.secret = "unreadable"]
       ELSE connection[c]]
  /\ UNCHANGED <<now, schedule, doneAt>>

Tick ==
  /\ now < MaxTime
  /\ now' = now + 1
  /\ UNCHANGED <<schedule, connection, lock, inFlight, loopVars, doneAt>>

SchedulerStep(s) ==
  \/ ScheduledRunStarts(s) \/ ScheduledRunLacksSecret(s)
  \/ ScheduledRunFindsBusy(s) \/ ScheduledRunThrows(s)

RequestStep(s) ==
  \/ RequestedRunStarts(s) \/ RequestedRunLacksSecret(s)
  \/ DeleteSchedule(s)
  \/ \E enabled \in BOOLEAN, cron \in CronChoices :
       CreateSchedule(s, enabled, cron) \/ UpdateSchedule(s, enabled, cron)

ConnectionStep(c) ==
  \/ DeleteConnection(c)
  \/ \E enabled \in BOOLEAN, secret \in {"stored", "missing", "unreadable"} :
       UpdateConnection(c, enabled, secret)

RunSettles(r) == RunSucceeds(r) \/ RunFails(r)

Next ==
  \/ Tick
  \/ TimerFires
  \/ PassCompletes
  \/ \E s \in Schedules : SchedulerStep(s) \/ RequestStep(s)
  \/ \E c \in Connections : ConnectionStep(c)
  \/ \E r \in inFlight : RunSettles(r)
  \/ \E keyChanged \in BOOLEAN : Restart(keyChanged)

Spec == Init /\ [][Next]_vars

(***************************************************************************)
(* Every HTTP request of a client has a timeout and a pass is nothing but  *)
(* awaited code, so a started pass goes on and a fetch answers.            *)
(***************************************************************************)
Fairness ==
  /\ WF_vars(PassCompletes)
  /\ WF_vars(\E s \in Schedules : SchedulerStep(s))
  /\ \A by \in Runners, s \in Schedules :
       WF_vars(\E r \in inFlight : r.by = by /\ r.schedule = s /\ RunSettles(r))

FairSpec == Spec /\ Fairness

-----------------------------------------------------------------------------
TypeOK ==
  /\ now \in Nat
  /\ schedule \in [Schedules -> ScheduleRow]
  /\ connection \in [Connections -> ConnectionRow]
  /\ lock \subseteq Connections
  /\ inFlight \subseteq Run
  /\ autoSyncRunning \in BOOLEAN
  /\ tickAt \in Nat /\ previousTick \in Nat
  /\ due \subseteq Schedules
  /\ doneAt \in [Schedules -> Nat]

\* The lock set holds exactly the connections with a run in flight, and no
\* connection has two: no path of withIntegrationSyncLock leaks a lock or
\* releases another run's ("Mutating syncs are serialized per connection").
LockIsExact ==
  /\ lock = {ConnectionOf[r.schedule] : r \in inFlight}
  /\ \A r1, r2 \in inFlight :
       ConnectionOf[r1.schedule] = ConnectionOf[r2.schedule] => r1 = r2

\* Scheduled runs are strictly sequential, and belong to the pass that the
\* flag guards: two passes never overlap.
RunsAreSequential ==
  \A r1, r2 \in inFlight :
    r1.by = "scheduler" => /\ autoSyncRunning
                           /\ r2.by = "scheduler" => r1 = r2

\* A run writes back failureCount from the row it read before its await.
\* Nobody but a reconfiguration (which zeroes it) touches it meanwhile, so no
\* failure of another run is overwritten.
NoFailureIsLost ==
  \A r \in inFlight : Live(r.schedule) =>
    schedule[r.schedule].failureCount \in {0, r.failureCount}

\* A schedule is paused exactly when its last runs failed, and until the
\* backoff for that many failures after the last of them.
PauseMatchesFailures ==
  \A s \in Schedules :
    LET row == schedule[s] IN
    IF row.failureCount = 0 THEN row.pausedUntil = 0
    ELSE row.pausedUntil = row.lastRunAt + Backoff(row.failureCount)

\* The scheduler runs no occurrence twice: when it takes a schedule up again,
\* a matching minute has come since the last pass whose run of it was
\* recorded.  Neither overlapping windows, a restart (which forgets
\* previousTick), a manual run nor a reconfiguration makes it repeat one.
NoOccurrenceRunsTwice ==
  [][\A s \in due' \ due :
       \E t \in schedule[s].cron : doneAt[s] < t /\ t <= now]_vars

\* What the lock is for, as a specification of its own: the runs of a
\* connection come one after the other and nobody else records a result.
Lease == INSTANCE SyncLease WITH
  Runs <- Run,
  holder <- [c \in Connections |-> {r \in inFlight : ConnectionOf[r.schedule] = c}],
  lastRunAt <- [s \in Schedules |-> schedule[s].lastRunAt]

ImplementsLease == Lease!Spec

\* Every pass ends and every lock is given back.
PassEnds ==
  /\ autoSyncRunning ~> ~autoSyncRunning
  /\ \A c \in Connections : c \in lock ~> c \notin lock
=============================================================================
