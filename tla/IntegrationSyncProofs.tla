---------------------- MODULE IntegrationSyncProofs --------------------------
(***************************************************************************)
(* What holds of IntegrationAutoSync for any number of schedules and       *)
(* connections and any timing constants, and, from NetworkInv on, of the   *)
(* network half of what it runs, NetworkSync, for any tables, collections  *)
(* and bounds.                                                             *)
(***************************************************************************)
EXTENDS IntegrationAutoSync, NetworkSync, TLAPS

\* A backoff is a number of time units.
LEMMA BackoffType ==
  ASSUME NEW n \in 1 .. FailureCap
  PROVE  Backoff(n) \in Nat
<1>1. 2 ^ (n - 1) \in Nat
  BY PowerAssumption
<1>2. \A power \in Nat : Least(BackoffBase * power, BackoffCap) \in Nat
  BY TimeAssumption DEF Least
<1>. QED
  BY <1>1, <1>2 DEF Backoff

\* What the statements make of a row is a row.
LEMMA RowTypes ==
  ASSUME now \in Nat
  PROVE  /\ \A row \in ScheduleRow, n \in 0 .. FailureCap, until \in Nat :
              WithResult(row, n, until) \in ScheduleRow
         /\ \A row \in ScheduleRow, enabled \in BOOLEAN, cron \in CronChoices :
              Reconfigured(row, enabled, cron) \in ScheduleRow
         /\ \A row \in ScheduleRow : Deleted(row) \in ScheduleRow
         /\ \A state \in {"unborn", "live"}, enabled \in BOOLEAN, cron \in CronChoices :
              NewRow(state, enabled, cron) \in ScheduleRow
<1>0. 0 \in 0 .. FailureCap
  BY TimeAssumption
<1>1. \A row \in ScheduleRow, n \in 0 .. FailureCap, until \in Nat :
        WithResult(row, n, until) \in ScheduleRow
  BY DEF ScheduleRow, WithResult
<1>2. \A row \in ScheduleRow, enabled \in BOOLEAN, cron \in CronChoices :
        Reconfigured(row, enabled, cron) \in ScheduleRow
  BY <1>0 DEF ScheduleRow, Reconfigured
<1>3. \A row \in ScheduleRow : Deleted(row) \in ScheduleRow
  BY DEF ScheduleRow, Deleted
<1>4. \A state \in {"unborn", "live"}, enabled \in BOOLEAN, cron \in CronChoices :
        NewRow(state, enabled, cron) \in ScheduleRow
  BY TimeAssumption DEF ScheduleRow, NewRow
<1>. QED
  BY <1>1, <1>2, <1>3, <1>4

\* A run's result leaves the schedule table well typed.
LEMMA RecordType ==
  ASSUME TypeOK, NEW s \in Schedules,
         \/ RecordOk(s)
         \/ \E failures \in 0 .. FailureCap : RecordError(s, failures)
  PROVE  schedule' \in [Schedules -> ScheduleRow]
<1>. USE DEF TypeOK
<1>1. CASE RecordOk(s)
  BY <1>1, RowTypes, TimeAssumption DEF RecordOk
<1>2. ASSUME NEW failures \in 0 .. FailureCap, RecordError(s, failures)
      PROVE  schedule' \in [Schedules -> ScheduleRow]
  <2>. DEFINE n == Least(failures + 1, FailureCap)
  <2>1. n \in 1 .. FailureCap
    BY TimeAssumption DEF Least
  <2>2. now + Backoff(n) \in Nat
    BY <2>1, BackoffType
  <2>3. WithResult(schedule[s], n, now + Backoff(n)) \in ScheduleRow
    BY <2>1, <2>2, RowTypes
  <2>. QED
    BY <1>2, <2>3 DEF RecordError
<1>. QED
  BY <1>1, <1>2

\* Every state has the declared types.
THEOREM TypeCorrect == Spec => []TypeOK
<1>1. Init => TypeOK
  <2>. SUFFICES ASSUME Init PROVE TypeOK
    OBVIOUS
  <2>1. schedule \in [Schedules -> ScheduleRow]
    BY RowTypes DEF Init
  <2>. QED
    BY <2>1 DEF Init, TypeOK, ConnectionRow
<1>2. TypeOK /\ [Next]_vars => TypeOK'
  <2>. SUFFICES ASSUME TypeOK, [Next]_vars PROVE TypeOK'
    OBVIOUS
  <2>. USE DEF TypeOK
  <2>1. CASE UNCHANGED vars
    BY <2>1 DEF vars
  <2>2. CASE Tick
    BY <2>2 DEF Tick, loopVars
  <2>3. CASE TimerFires
    BY <2>3 DEF TimerFires
  <2>4. CASE PassCompletes
    BY <2>4 DEF PassCompletes, EndPass
  <2>5. ASSUME NEW s \in Schedules, SchedulerStep(s) PROVE TypeOK'
    <3>1. ConnectionOf[s] \in Connections
      BY ConnectionOfAssumption
    <3>2. CASE ScheduledRunStarts(s)
      BY <3>1, <3>2 DEF ScheduledRunStarts, StartRun, Run, Runners, ScheduleRow
    <3>3. CASE ScheduledRunLacksSecret(s)
      <4>1. schedule' \in [Schedules -> ScheduleRow]
        <5>1. RecordError(s, schedule[s].failureCount)
          BY <3>3 DEF ScheduledRunLacksSecret, FailWithoutSecret
        <5>2. schedule[s].failureCount \in 0 .. FailureCap
          BY DEF ScheduleRow
        <5>. QED
          BY <5>1, <5>2, RecordType
      <4>. QED
        BY <3>3, <4>1 DEF ScheduledRunLacksSecret
    <3>4. CASE ScheduledRunFindsBusy(s)
      BY <3>4 DEF ScheduledRunFindsBusy
    <3>5. CASE ScheduledRunThrows(s)
      BY <3>5 DEF ScheduledRunThrows, EndPass
    <3>. QED
      BY <2>5, <3>2, <3>3, <3>4, <3>5 DEF SchedulerStep
  <2>6. ASSUME NEW s \in Schedules, RequestStep(s) PROVE TypeOK'
    <3>1. ConnectionOf[s] \in Connections
      BY ConnectionOfAssumption
    <3>2. CASE RequestedRunStarts(s)
      BY <3>1, <3>2 DEF RequestedRunStarts, StartRun, Run, Runners, ScheduleRow, loopVars
    <3>3. CASE RequestedRunLacksSecret(s)
      <4>1. schedule' \in [Schedules -> ScheduleRow]
        <5>1. RecordError(s, schedule[s].failureCount)
          BY <3>3 DEF RequestedRunLacksSecret, FailWithoutSecret
        <5>2. schedule[s].failureCount \in 0 .. FailureCap
          BY DEF ScheduleRow
        <5>. QED
          BY <5>1, <5>2, RecordType
      <4>. QED
        BY <3>3, <4>1 DEF RequestedRunLacksSecret, loopVars
    <3>4. CASE DeleteSchedule(s)
      BY <3>4, RowTypes DEF DeleteSchedule, loopVars
    <3>5. ASSUME NEW enabled \in BOOLEAN, NEW cron \in CronChoices,
                 CreateSchedule(s, enabled, cron)
          PROVE  TypeOK'
      BY <3>5, RowTypes DEF CreateSchedule, loopVars
    <3>6. ASSUME NEW enabled \in BOOLEAN, NEW cron \in CronChoices,
                 UpdateSchedule(s, enabled, cron)
          PROVE  TypeOK'
      BY <3>6, RowTypes DEF UpdateSchedule, loopVars
    <3>. QED
      BY <2>6, <3>2, <3>3, <3>4, <3>5, <3>6 DEF RequestStep
  <2>7. ASSUME NEW c \in Connections, ConnectionStep(c) PROVE TypeOK'
    <3>1. CASE DeleteConnection(c)
      BY <3>1, RowTypes DEF DeleteConnection, ConnectionRow, loopVars
    <3>2. ASSUME NEW enabled \in BOOLEAN,
                 NEW secret \in {"stored", "missing", "unreadable"},
                 UpdateConnection(c, enabled, secret)
          PROVE  TypeOK'
      BY <3>2 DEF UpdateConnection, ConnectionRow, loopVars
    <3>. QED
      BY <2>7, <3>1, <3>2 DEF ConnectionStep
  <2>8. ASSUME NEW r \in inFlight, RunSettles(r) PROVE TypeOK'
    <3>1. r.schedule \in Schedules /\ r.failureCount \in 0 .. FailureCap
      BY DEF Run
    <3>2. schedule' \in [Schedules -> ScheduleRow]
      BY <2>8, <3>1, RecordType DEF RunSettles, RunSucceeds, RunFails
    <3>3. Settle(r)
      BY <2>8 DEF RunSettles, RunSucceeds, RunFails
    <3>. QED
      BY <3>1, <3>2, <3>3 DEF Settle, loopVars
  <2>9. ASSUME NEW keyChanged \in BOOLEAN, Restart(keyChanged) PROVE TypeOK'
    BY <2>9 DEF Restart, ConnectionRow
  <2>. QED
    BY <2>1, <2>2, <2>3, <2>4, <2>5, <2>6, <2>7, <2>8, <2>9 DEF Next
<1>. QED
  BY <1>1, <1>2, PTL DEF Spec

-----------------------------------------------------------------------------
\* What a step that starts no run, ends no run and leaves the scheduler's pass
\* alone cannot disturb.
LEMMA LockUndisturbed ==
  ASSUME LockIsExact, RunsAreSequential, UNCHANGED <<lock, inFlight>>,
         autoSyncRunning' \/ autoSyncRunning' = autoSyncRunning \/ ~SchedulerInFlight
  PROVE  LockIsExact' /\ RunsAreSequential'
  BY DEF LockIsExact, RunsAreSequential, SchedulerInFlight

\* A run that starts takes a free lock, and a scheduled one starts alone.
LEMMA LockTaken ==
  ASSUME LockIsExact, RunsAreSequential, NEW s \in Schedules,
         NEW by \in Runners, StartRun(s, by), UNCHANGED autoSyncRunning,
         by = "scheduler" => autoSyncRunning /\ ~SchedulerInFlight
  PROVE  LockIsExact' /\ RunsAreSequential'
<1>. DEFINE run == [by |-> by, schedule |-> s,
                    failureCount |-> schedule[s].failureCount]
<1>1. run.schedule = s /\ run.by = by
  OBVIOUS
<1>2. inFlight' = inFlight \cup {run} /\ lock' = lock \cup {ConnectionOf[s]}
      /\ ConnectionOf[s] \notin lock
  BY DEF StartRun
<1>. HIDE DEF run
<1>3. LockIsExact'
  BY <1>1, <1>2 DEF LockIsExact
<1>4. RunsAreSequential'
  BY <1>1, <1>2 DEF RunsAreSequential, SchedulerInFlight
<1>. QED
  BY <1>3, <1>4

\* A run that ends gives back its own lock, which no other run holds.
LEMMA LockGivenBack ==
  ASSUME LockIsExact, RunsAreSequential, NEW r \in inFlight, Settle(r)
  PROVE  LockIsExact' /\ RunsAreSequential'
<1>1. /\ inFlight' = inFlight \ {r}
      /\ lock' = lock \ {ConnectionOf[r.schedule]}
      /\ autoSyncRunning' = autoSyncRunning
  BY DEF Settle, loopVars
<1>2. LockIsExact'
  BY <1>1 DEF LockIsExact
<1>3. RunsAreSequential'
  BY <1>1 DEF RunsAreSequential
<1>. QED
  BY <1>2, <1>3

\* Mutating syncs are serialized per connection and scheduled runs are
\* sequential, for any number of connections, schedules and manual requests.
THEOREM SyncsAreSerialized == Spec => [](LockIsExact /\ RunsAreSequential)
<1>. DEFINE Inv == LockIsExact /\ RunsAreSequential
<1>1. Init => Inv
  BY DEF Init, LockIsExact, RunsAreSequential
<1>2. Inv /\ [Next]_vars => Inv'
  <2>. SUFFICES ASSUME Inv, [Next]_vars PROVE Inv'
    OBVIOUS
  <2>1. CASE UNCHANGED vars
    BY <2>1, LockUndisturbed DEF vars
  <2>2. CASE Tick
    BY <2>2, LockUndisturbed DEF Tick, loopVars
  <2>3. CASE TimerFires
    BY <2>3, LockUndisturbed DEF TimerFires
  <2>4. CASE PassCompletes
    BY <2>4, LockUndisturbed DEF PassCompletes
  <2>5. ASSUME NEW s \in Schedules, SchedulerStep(s) PROVE Inv'
    <3>1. CASE ScheduledRunStarts(s)
      BY <3>1, LockTaken DEF ScheduledRunStarts, SchedulerTurn, Runners
    <3>2. CASE ScheduledRunLacksSecret(s)
      BY <3>2, LockUndisturbed DEF ScheduledRunLacksSecret
    <3>3. CASE ScheduledRunFindsBusy(s)
      BY <3>3, LockUndisturbed DEF ScheduledRunFindsBusy
    <3>4. CASE ScheduledRunThrows(s)
      BY <3>4, LockUndisturbed DEF ScheduledRunThrows, SchedulerTurn
    <3>. QED
      BY <2>5, <3>1, <3>2, <3>3, <3>4 DEF SchedulerStep
  <2>6. ASSUME NEW s \in Schedules, RequestStep(s) PROVE Inv'
    <3>1. CASE RequestedRunStarts(s)
      BY <3>1, LockTaken DEF RequestedRunStarts, loopVars, Runners
    <3>2. CASE RequestedRunLacksSecret(s)
      BY <3>2, LockUndisturbed DEF RequestedRunLacksSecret, loopVars
    <3>3. CASE DeleteSchedule(s)
      BY <3>3, LockUndisturbed DEF DeleteSchedule, loopVars
    <3>4. ASSUME NEW enabled \in BOOLEAN, NEW cron \in CronChoices,
                 CreateSchedule(s, enabled, cron) \/ UpdateSchedule(s, enabled, cron)
          PROVE  Inv'
      BY <3>4, LockUndisturbed DEF CreateSchedule, UpdateSchedule, loopVars
    <3>. QED
      BY <2>6, <3>1, <3>2, <3>3, <3>4 DEF RequestStep
  <2>7. ASSUME NEW c \in Connections, ConnectionStep(c) PROVE Inv'
    BY <2>7, LockUndisturbed
    DEF ConnectionStep, DeleteConnection, UpdateConnection, loopVars
  <2>8. ASSUME NEW r \in inFlight, RunSettles(r) PROVE Inv'
    BY <2>8, LockGivenBack DEF RunSettles, RunSucceeds, RunFails
  <2>9. ASSUME NEW keyChanged \in BOOLEAN, Restart(keyChanged) PROVE Inv'
    BY <2>9 DEF Restart, LockIsExact, RunsAreSequential
  <2>. QED
    BY <2>1, <2>2, <2>3, <2>4, <2>5, <2>6, <2>7, <2>8, <2>9 DEF Next
<1>. QED
  BY <1>1, <1>2, PTL DEF Spec

-----------------------------------------------------------------------------
\* A row whose pause is that of its failures.
PausedRow(row) ==
  IF row.failureCount = 0 THEN row.pausedUntil = 0
  ELSE row.pausedUntil = row.lastRunAt + Backoff(row.failureCount)

\* A step that makes of every row itself, a row deleted, or a row whose pause
\* is that of its failures keeps pauses and failures together.
LEMMA PausesKept ==
  ASSUME PauseMatchesFailures, schedule' \in [Schedules -> ScheduleRow],
         \A s \in Schedules :
           \/ schedule'[s] = schedule[s]
           \/ schedule[s] \in ScheduleRow /\ schedule'[s] = Deleted(schedule[s])
           \/ PausedRow(schedule'[s])
  PROVE  PauseMatchesFailures'
<1>1. \A s \in Schedules : PausedRow(schedule[s])
  BY DEF PauseMatchesFailures, PausedRow
<1>2. \A row \in ScheduleRow :
        /\ Deleted(row).failureCount = row.failureCount
        /\ Deleted(row).pausedUntil = row.pausedUntil
        /\ Deleted(row).lastRunAt = row.lastRunAt
  BY DEF ScheduleRow, Deleted
<1>3. \A row \in ScheduleRow : PausedRow(row) => PausedRow(Deleted(row))
  BY <1>2 DEF PausedRow
<1>4. \A s \in Schedules : PausedRow(schedule'[s])
  BY <1>1, <1>3
<1>. QED
  BY <1>4 DEF PauseMatchesFailures, PausedRow

\* Recording a result pauses for the failures it records, or not at all.
LEMMA RecordPauses ==
  ASSUME TypeOK, NEW s \in Schedules,
         \/ RecordOk(s)
         \/ \E failures \in 0 .. FailureCap : RecordError(s, failures)
  PROVE  \A t \in Schedules : schedule'[t] = schedule[t] \/ PausedRow(schedule'[t])
<1>. USE DEF TypeOK
<1>1. \A n \in 0 .. FailureCap, until \in Nat :
        /\ WithResult(schedule[s], n, until).failureCount = n
        /\ WithResult(schedule[s], n, until).pausedUntil = until
        /\ WithResult(schedule[s], n, until).lastRunAt = now
  BY DEF WithResult, ScheduleRow
<1>2. CASE RecordOk(s)
  <2>1. PausedRow(WithResult(schedule[s], 0, 0))
    BY <1>1, TimeAssumption DEF PausedRow
  <2>. QED
    BY <1>2, <2>1 DEF RecordOk
<1>3. ASSUME NEW failures \in 0 .. FailureCap, RecordError(s, failures)
      PROVE  \A t \in Schedules : schedule'[t] = schedule[t] \/ PausedRow(schedule'[t])
  <2>. DEFINE n == Least(failures + 1, FailureCap)
  <2>1. n \in 1 .. FailureCap
    BY TimeAssumption DEF Least
  <2>2. now + Backoff(n) \in Nat
    BY <2>1, BackoffType
  <2>3. PausedRow(WithResult(schedule[s], n, now + Backoff(n)))
    BY <1>1, <2>1, <2>2 DEF PausedRow
  <2>. QED
    BY <1>3, <2>3 DEF RecordError
<1>. QED
  BY <1>2, <1>3

\* A schedule is paused exactly for the failures on record: no run, success,
\* reconfiguration or deletion, in any order, lets the two drift apart.
THEOREM PauseFollowsFailures == Spec => []PauseMatchesFailures
<1>1. Init => PauseMatchesFailures
  BY DEF Init, NewRow, PauseMatchesFailures
<1>2. TypeOK /\ TypeOK' /\ PauseMatchesFailures /\ [Next]_vars => PauseMatchesFailures'
  <2>. SUFFICES ASSUME TypeOK, TypeOK', PauseMatchesFailures, [Next]_vars
                PROVE  PauseMatchesFailures'
    OBVIOUS
  <2>0. /\ schedule \in [Schedules -> ScheduleRow]
        /\ schedule' \in [Schedules -> ScheduleRow]
    BY DEF TypeOK
  <2>1. CASE UNCHANGED schedule
    BY <2>0, <2>1, PausesKept
  <2>2. ASSUME NEW s \in Schedules,
               \/ RecordOk(s)
               \/ \E failures \in 0 .. FailureCap : RecordError(s, failures)
        PROVE  PauseMatchesFailures'
    BY <2>0, <2>2, RecordPauses, PausesKept
  <2>3. ASSUME NEW s \in Schedules, FailWithoutSecret(s)
        PROVE  PauseMatchesFailures'
    <3>1. schedule[s].failureCount \in 0 .. FailureCap
      BY <2>0 DEF ScheduleRow
    <3>. QED
      BY <2>2, <2>3, <3>1 DEF FailWithoutSecret
  <2>4. ASSUME NEW s \in Schedules, SchedulerStep(s) PROVE PauseMatchesFailures'
    <3>1. CASE ScheduledRunLacksSecret(s)
      BY <2>3, <3>1 DEF ScheduledRunLacksSecret
    <3>. QED
      BY <2>1, <2>4, <3>1
      DEF SchedulerStep, ScheduledRunStarts, ScheduledRunFindsBusy, ScheduledRunThrows
  <2>5. ASSUME NEW s \in Schedules, RequestStep(s) PROVE PauseMatchesFailures'
    <3>1. CASE RequestedRunStarts(s)
      BY <2>1, <3>1 DEF RequestedRunStarts
    <3>2. CASE RequestedRunLacksSecret(s)
      BY <2>3, <3>2 DEF RequestedRunLacksSecret
    <3>3. CASE DeleteSchedule(s)
      BY <2>0, <3>3, PausesKept DEF DeleteSchedule
    <3>4. ASSUME NEW enabled \in BOOLEAN, NEW cron \in CronChoices,
                 CreateSchedule(s, enabled, cron)
          PROVE  PauseMatchesFailures'
      <4>1. PausedRow(NewRow("live", enabled, cron))
        BY DEF PausedRow, NewRow
      <4>. QED
        BY <2>0, <3>4, <4>1, PausesKept DEF CreateSchedule
    <3>5. ASSUME NEW enabled \in BOOLEAN, NEW cron \in CronChoices,
                 UpdateSchedule(s, enabled, cron)
          PROVE  PauseMatchesFailures'
      <4>1. PausedRow(Reconfigured(schedule[s], enabled, cron))
        BY <2>0 DEF PausedRow, Reconfigured, ScheduleRow
      <4>. QED
        BY <2>0, <3>5, <4>1, PausesKept DEF UpdateSchedule
    <3>. QED
      BY <2>5, <3>1, <3>2, <3>3, <3>4, <3>5 DEF RequestStep
  <2>6. ASSUME NEW c \in Connections, ConnectionStep(c) PROVE PauseMatchesFailures'
    <3>1. CASE DeleteConnection(c)
      <4>1. \A s \in Schedules :
              schedule'[s] = schedule[s] \/ schedule'[s] = Deleted(schedule[s])
        BY <3>1 DEF DeleteConnection
      <4>. QED
        BY <2>0, <4>1, PausesKept
    <3>. QED
      BY <2>1, <2>6, <3>1 DEF ConnectionStep, UpdateConnection
  <2>7. ASSUME NEW r \in inFlight, RunSettles(r) PROVE PauseMatchesFailures'
    <3>1. r.schedule \in Schedules /\ r.failureCount \in 0 .. FailureCap
      BY DEF TypeOK, Run
    <3>. QED
      BY <2>2, <2>7, <3>1 DEF RunSettles, RunSucceeds, RunFails
  <2>. QED
    BY <2>1, <2>4, <2>5, <2>6, <2>7
    DEF Next, Tick, TimerFires, PassCompletes, Restart, vars
<1>. QED
  BY <1>1, <1>2, TypeCorrect, PTL DEF Spec

-----------------------------------------------------------------------------
\* NoFailureIsLost is not inductive: a schedule could be born under a run.
NoRunOfTheUnborn == \A r \in inFlight : schedule[r.schedule].state # "unborn"

FailureInv == NoFailureIsLost /\ NoRunOfTheUnborn

\* A step that starts no run, revives no schedule and counts no failure for
\* a schedule with a run in flight.
LEMMA CountsKept ==
  ASSUME FailureInv, inFlight' \subseteq inFlight,
         \A r \in inFlight' :
           LET row == schedule[r.schedule]
               next == schedule'[r.schedule]
           IN /\ row.state # "unborn" => next.state # "unborn"
              /\ next.state = "live" /\ row.state # "unborn" =>
                   /\ row.state = "live"
                   /\ next.failureCount \in {0, row.failureCount}
  PROVE  FailureInv'
  BY DEF FailureInv, NoFailureIsLost, NoRunOfTheUnborn, Live

\* A result is recorded for one schedule, which keeps its state.
LEMMA RecordTouchesOne ==
  ASSUME TypeOK, NEW s \in Schedules,
         \/ RecordOk(s)
         \/ \E failures \in 0 .. FailureCap : RecordError(s, failures)
  PROVE  \A t \in Schedules \ {s} : schedule'[t] = schedule[t]
  BY DEF TypeOK, RecordOk, RecordError

\* A run that starts remembers the failure count of its row.
LEMMA RunRemembersCount ==
  ASSUME FailureInv, NEW s \in Schedules, NEW by \in Runners, StartRun(s, by),
         Live(s), UNCHANGED schedule
  PROVE  FailureInv'
<1>. DEFINE run == [by |-> by, schedule |-> s,
                    failureCount |-> schedule[s].failureCount]
<1>1. run.schedule = s /\ run.failureCount = schedule[s].failureCount
  OBVIOUS
<1>2. inFlight' = inFlight \cup {run}
  BY DEF StartRun
<1>. HIDE DEF run
<1>3. NoFailureIsLost'
  BY <1>1, <1>2 DEF FailureInv, NoFailureIsLost, Live
<1>4. NoRunOfTheUnborn'
  BY <1>1, <1>2 DEF FailureInv, NoRunOfTheUnborn, Live
<1>. QED
  BY <1>3, <1>4 DEF FailureInv

\* A failing run writes back the failure count that it read before its await:
\* in the meantime no other run has counted a failure of the schedule, for
\* any number of schedules of a connection and of runs by hand.
THEOREM NoFailureIsOverwritten == Spec => []NoFailureIsLost
<1>1. Init => FailureInv
  BY DEF Init, FailureInv, NoFailureIsLost, NoRunOfTheUnborn
<1>2. TypeOK /\ LockIsExact /\ FailureInv /\ [Next]_vars => FailureInv'
  <2>. SUFFICES ASSUME TypeOK, LockIsExact, FailureInv, [Next]_vars
                PROVE  FailureInv'
    OBVIOUS
  <2>0. /\ schedule \in [Schedules -> ScheduleRow]
        /\ \A r \in inFlight : r.schedule \in Schedules /\ r.failureCount \in 0 .. FailureCap
    BY DEF TypeOK, Run
  <2>1. CASE UNCHANGED <<schedule, inFlight>>
    BY <2>1, CountsKept
  <2>2. ASSUME NEW s \in Schedules, FailWithoutSecret(s), UNCHANGED inFlight
        PROVE  FailureInv'
    <3>1. \A r \in inFlight : r.schedule # s
      BY <2>2 DEF FailWithoutSecret, LockIsExact
    <3>2. schedule[s].failureCount \in 0 .. FailureCap
      BY <2>0 DEF ScheduleRow
    <3>3. \A t \in Schedules \ {s} : schedule'[t] = schedule[t]
      BY <2>2, <3>2, RecordTouchesOne DEF FailWithoutSecret
    <3>. QED
      BY <2>0, <2>2, <3>1, <3>3, CountsKept
  <2>3. ASSUME NEW s \in Schedules, SchedulerStep(s) PROVE FailureInv'
    <3>1. CASE ScheduledRunStarts(s)
      BY <3>1, RunRemembersCount DEF ScheduledRunStarts, Runners
    <3>2. CASE ScheduledRunLacksSecret(s)
      BY <2>2, <3>2 DEF ScheduledRunLacksSecret
    <3>. QED
      BY <2>1, <2>3, <3>1, <3>2
      DEF SchedulerStep, ScheduledRunFindsBusy, ScheduledRunThrows
  <2>4. ASSUME NEW s \in Schedules, RequestStep(s) PROVE FailureInv'
    <3>1. CASE RequestedRunStarts(s)
      BY <3>1, RunRemembersCount DEF RequestedRunStarts, MayRequestRun, Runners
    <3>2. CASE RequestedRunLacksSecret(s)
      BY <2>2, <3>2 DEF RequestedRunLacksSecret
    <3>3. CASE DeleteSchedule(s)
      <4>1. Deleted(schedule[s]).state = "deleted"
        BY <2>0 DEF Deleted, ScheduleRow
      <4>. QED
        BY <2>0, <3>3, <4>1, CountsKept DEF DeleteSchedule
    <3>4. ASSUME NEW enabled \in BOOLEAN, NEW cron \in CronChoices,
                 CreateSchedule(s, enabled, cron)
          PROVE  FailureInv'
      <4>1. \A r \in inFlight : r.schedule # s
        BY <3>4 DEF CreateSchedule, FailureInv, NoRunOfTheUnborn
      <4>2. \A t \in Schedules \ {s} : schedule'[t] = schedule[t]
        BY <2>0, <3>4 DEF CreateSchedule
      <4>. QED
        BY <2>0, <3>4, <4>1, <4>2, CountsKept DEF CreateSchedule
    <3>5. ASSUME NEW enabled \in BOOLEAN, NEW cron \in CronChoices,
                 UpdateSchedule(s, enabled, cron)
          PROVE  FailureInv'
      <4>1. /\ Reconfigured(schedule[s], enabled, cron).state = schedule[s].state
            /\ Reconfigured(schedule[s], enabled, cron).failureCount = 0
        BY <2>0 DEF Reconfigured, ScheduleRow
      <4>2. \A t \in Schedules :
              schedule'[t] = IF t = s THEN Reconfigured(schedule[s], enabled, cron)
                                      ELSE schedule[t]
        BY <2>0, <3>5 DEF UpdateSchedule
      <4>. QED
        BY <2>0, <3>5, <4>1, <4>2, CountsKept DEF UpdateSchedule
    <3>. QED
      BY <2>4, <3>1, <3>2, <3>3, <3>4, <3>5 DEF RequestStep
  <2>5. ASSUME NEW c \in Connections, ConnectionStep(c) PROVE FailureInv'
    <3>1. CASE DeleteConnection(c)
      <4>1. \A s \in Schedules :
              \/ schedule'[s] = schedule[s]
              \/ schedule'[s].state = "deleted"
        BY <2>0, <3>1 DEF DeleteConnection, Deleted, ScheduleRow
      <4>. QED
        BY <2>0, <3>1, <4>1, CountsKept DEF DeleteConnection
    <3>. QED
      BY <2>1, <2>5, <3>1 DEF ConnectionStep, UpdateConnection
  <2>6. ASSUME NEW r \in inFlight, RunSettles(r) PROVE FailureInv'
    <3>1. \A t \in Schedules \ {r.schedule} : schedule'[t] = schedule[t]
      BY <2>0, <2>6, RecordTouchesOne DEF RunSettles, RunSucceeds, RunFails
    <3>2. inFlight' = inFlight \ {r}
      BY <2>6 DEF RunSettles, RunSucceeds, RunFails, Settle
    <3>3. \A other \in inFlight' : other.schedule # r.schedule
      BY <3>2 DEF LockIsExact
    <3>. QED
      BY <2>0, <3>1, <3>2, <3>3, CountsKept
  <2>7. ASSUME NEW keyChanged \in BOOLEAN, Restart(keyChanged) PROVE FailureInv'
    BY <2>7 DEF Restart, FailureInv, NoFailureIsLost, NoRunOfTheUnborn
  <2>. QED
    BY <2>1, <2>3, <2>4, <2>5, <2>6, <2>7
    DEF Next, Tick, TimerFires, PassCompletes, vars
<1>3. FailureInv => NoFailureIsLost
  BY DEF FailureInv
<1>. QED
  BY <1>1, <1>2, <1>3, TypeCorrect, SyncsAreSerialized, PTL DEF Spec

-----------------------------------------------------------------------------
\* A schedule that does not exist yet has no result: creating it records none.
UnbornNeverRan == \A s \in Schedules :
  schedule[s].state = "unborn" => schedule[s].lastRunAt = 0

\* What a step has to do with rows to keep UnbornNeverRan.
LEMMA UnbornKept ==
  ASSUME UnbornNeverRan,
         \A s \in Schedules : \/ schedule'[s] = schedule[s]
                              \/ schedule'[s].state # "unborn"
  PROVE  UnbornNeverRan'
  BY DEF UnbornNeverRan

\* Results are recorded in live rows, which stay live.
LEMMA RecordsLive ==
  ASSUME TypeOK, NEW s \in Schedules,
         \/ RecordOk(s)
         \/ \E failures \in 0 .. FailureCap : RecordError(s, failures)
  PROVE  \A t \in Schedules : \/ schedule'[t] = schedule[t]
                              \/ schedule'[t].state # "unborn"
<1>1. \A n, until : Live(s) => WithResult(schedule[s], n, until).state = "live"
  BY DEF TypeOK, ScheduleRow, WithResult, Live
<1>. QED
  BY <1>1 DEF TypeOK, RecordOk, RecordError

\* No row that is yet to be created has a result.
LEMMA UnbornRowsAreBlank == Spec => []UnbornNeverRan
<1>1. Init => UnbornNeverRan
  BY DEF Init, NewRow, UnbornNeverRan
<1>2. TypeOK /\ UnbornNeverRan /\ [Next]_vars => UnbornNeverRan'
  <2>. SUFFICES ASSUME TypeOK, UnbornNeverRan, [Next]_vars PROVE UnbornNeverRan'
    OBVIOUS
  <2>0. schedule \in [Schedules -> ScheduleRow]
    BY DEF TypeOK
  <2>1. CASE UNCHANGED schedule
    BY <2>1, UnbornKept
  <2>2. ASSUME NEW s \in Schedules, FailWithoutSecret(s) PROVE UnbornNeverRan'
    <3>1. schedule[s].failureCount \in 0 .. FailureCap
      BY <2>0 DEF ScheduleRow
    <3>. QED
      BY <2>2, <3>1, RecordsLive, UnbornKept DEF FailWithoutSecret
  <2>3. ASSUME NEW s \in Schedules, SchedulerStep(s) PROVE UnbornNeverRan'
    <3>1. CASE ScheduledRunLacksSecret(s)
      BY <2>2, <3>1 DEF ScheduledRunLacksSecret
    <3>. QED
      BY <2>1, <2>3, <3>1
      DEF SchedulerStep, ScheduledRunStarts, ScheduledRunFindsBusy, ScheduledRunThrows
  <2>4. ASSUME NEW s \in Schedules, RequestStep(s) PROVE UnbornNeverRan'
    <3>1. CASE RequestedRunStarts(s)
      BY <2>1, <3>1 DEF RequestedRunStarts
    <3>2. CASE RequestedRunLacksSecret(s)
      BY <2>2, <3>2 DEF RequestedRunLacksSecret
    <3>3. CASE DeleteSchedule(s)
      <4>1. Deleted(schedule[s]).state = "deleted"
        BY <2>0 DEF Deleted, ScheduleRow
      <4>. QED
        BY <2>0, <3>3, <4>1, UnbornKept DEF DeleteSchedule
    <3>4. ASSUME NEW enabled \in BOOLEAN, NEW cron \in CronChoices,
                 CreateSchedule(s, enabled, cron)
          PROVE  UnbornNeverRan'
      BY <2>0, <3>4, UnbornKept DEF CreateSchedule, NewRow
    <3>5. ASSUME NEW enabled \in BOOLEAN, NEW cron \in CronChoices,
                 UpdateSchedule(s, enabled, cron)
          PROVE  UnbornNeverRan'
      <4>1. Reconfigured(schedule[s], enabled, cron).state = "live"
        BY <2>0, <3>5 DEF UpdateSchedule, Live, Reconfigured, ScheduleRow
      <4>. QED
        BY <2>0, <3>5, <4>1, UnbornKept DEF UpdateSchedule
    <3>. QED
      BY <2>4, <3>1, <3>2, <3>3, <3>4, <3>5 DEF RequestStep
  <2>5. ASSUME NEW c \in Connections, ConnectionStep(c) PROVE UnbornNeverRan'
    <3>1. CASE DeleteConnection(c)
      <4>1. \A s \in Schedules : \/ schedule'[s] = schedule[s]
                                 \/ schedule'[s].state = "deleted"
        BY <2>0, <3>1 DEF DeleteConnection, Deleted, ScheduleRow
      <4>. QED
        BY <4>1, UnbornKept
    <3>. QED
      BY <2>1, <2>5, <3>1 DEF ConnectionStep, UpdateConnection
  <2>6. ASSUME NEW r \in inFlight, RunSettles(r) PROVE UnbornNeverRan'
    <3>1. r.schedule \in Schedules /\ r.failureCount \in 0 .. FailureCap
      BY DEF TypeOK, Run
    <3>. QED
      BY <2>6, <3>1, RecordsLive, UnbornKept DEF RunSettles, RunSucceeds, RunFails
  <2>. QED
    BY <2>1, <2>3, <2>4, <2>5, <2>6
    DEF Next, Tick, TimerFires, PassCompletes, Restart, vars
<1>. QED
  BY <1>1, <1>2, TypeCorrect, PTL DEF Spec

-----------------------------------------------------------------------------
(***************************************************************************)
(* No occurrence of a cron expression runs twice.  The window of a pass    *)
(* remembers next to nothing: what keeps an occurrence from running twice  *)
(* is lastRunAt, which every recorded run sets to the time it ended, so    *)
(* never before the pass that started it.                                  *)
(***************************************************************************)
\* A pass is not from the future, and a recorded scheduled run was recorded
\* no earlier than its pass began.
ResultsFollowPasses ==
  /\ tickAt <= now
  /\ \A s \in Schedules : /\ doneAt[s] <= schedule[s].lastRunAt
                          /\ schedule[s].lastRunAt <= now

\* A step that records no scheduled run, and after which every row was last
\* run when it was before, or just now.
LEMMA ResultsKept ==
  ASSUME TypeOK, TypeOK', ResultsFollowPasses, now <= now', UNCHANGED doneAt,
         tickAt' = tickAt \/ tickAt' = now,
         \A s \in Schedules : \/ schedule'[s].lastRunAt = schedule[s].lastRunAt
                              \/ schedule'[s].lastRunAt = now
  PROVE  ResultsFollowPasses'
<1>1. /\ now \in Nat /\ now' \in Nat /\ tickAt \in Nat
      /\ \A s \in Schedules : /\ schedule[s].lastRunAt \in Nat
                              /\ schedule'[s].lastRunAt \in Nat
                              /\ doneAt[s] \in Nat
  BY DEF TypeOK, ScheduleRow
<1>. QED
  BY <1>1 DEF ResultsFollowPasses

\* A recorded result is dated now, and the other rows stay as they were.
LEMMA RecordDates ==
  ASSUME TypeOK, NEW s \in Schedules,
         \/ RecordOk(s)
         \/ \E failures \in 0 .. FailureCap : RecordError(s, failures)
  PROVE  /\ \A t \in Schedules \ {s} : schedule'[t] = schedule[t]
         /\ IF Live(s) THEN schedule'[s].lastRunAt = now
                       ELSE schedule'[s] = schedule[s]
<1>1. \A n, until : WithResult(schedule[s], n, until).lastRunAt = now
  BY DEF TypeOK, ScheduleRow, WithResult
<1>. QED
  BY <1>1 DEF TypeOK, RecordOk, RecordError

\* A scheduled run that is recorded is dated after its pass began.
LEMMA ResultsRecorded ==
  ASSUME TypeOK, TypeOK', ResultsFollowPasses, NEW s \in Schedules,
         UNCHANGED <<now, tickAt>>,
         \A t \in Schedules \ {s} : schedule'[t] = schedule[t],
         IF Live(s) THEN schedule'[s].lastRunAt = now
                    ELSE schedule'[s] = schedule[s],
         \/ UNCHANGED doneAt
         \/ Live(s) /\ doneAt' = [doneAt EXCEPT ![s] = tickAt]
  PROVE  ResultsFollowPasses'
<1>1. /\ now \in Nat /\ tickAt \in Nat
      /\ \A t \in Schedules : /\ schedule[t].lastRunAt \in Nat
                              /\ doneAt[t] \in Nat
      /\ doneAt \in [Schedules -> Nat]
  BY DEF TypeOK, ScheduleRow
<1>2. \A t \in Schedules \ {s} : doneAt'[t] = doneAt[t]
  BY <1>1
<1>3. doneAt'[s] = doneAt[s] \/ (Live(s) /\ doneAt'[s] = tickAt)
  BY <1>1
<1>4. doneAt'[s] <= schedule'[s].lastRunAt /\ schedule'[s].lastRunAt <= now
  BY <1>1, <1>3 DEF ResultsFollowPasses
<1>. QED
  BY <1>1, <1>2, <1>4 DEF ResultsFollowPasses

\* No step records a run before its pass or dates it in the future.
LEMMA ResultsAreDated == Spec => []ResultsFollowPasses
<1>1. Init => ResultsFollowPasses
  BY DEF Init, NewRow, ResultsFollowPasses
<1>2. TypeOK /\ TypeOK' /\ UnbornNeverRan /\ ResultsFollowPasses /\ [Next]_vars
        => ResultsFollowPasses'
  <2>. SUFFICES ASSUME TypeOK, TypeOK', UnbornNeverRan, ResultsFollowPasses,
                       [Next]_vars
                PROVE  ResultsFollowPasses'
    OBVIOUS
  <2>0. schedule \in [Schedules -> ScheduleRow] /\ now \in Nat
    BY DEF TypeOK
  <2>1. CASE /\ UNCHANGED <<now, schedule, doneAt>>
             /\ tickAt' = tickAt \/ tickAt' = now
    BY <2>0, <2>1, ResultsKept
  <2>2. CASE Tick
    BY <2>0, <2>2, ResultsKept DEF Tick, loopVars
  <2>3. ASSUME NEW s \in Schedules, SchedulerStep(s) PROVE ResultsFollowPasses'
    <3>1. CASE ScheduledRunLacksSecret(s)
      <4>1. RecordError(s, schedule[s].failureCount) /\ Live(s)
        BY <3>1 DEF ScheduledRunLacksSecret, FailWithoutSecret
      <4>2. schedule[s].failureCount \in 0 .. FailureCap
        BY <2>0 DEF ScheduleRow
      <4>. QED
        BY <3>1, <4>1, <4>2, RecordDates, ResultsRecorded DEF ScheduledRunLacksSecret
    <3>. QED
      BY <2>1, <2>3, <3>1
      DEF SchedulerStep, ScheduledRunStarts, ScheduledRunFindsBusy,
          ScheduledRunThrows, EndPass
  <2>4. ASSUME NEW s \in Schedules, RequestStep(s) PROVE ResultsFollowPasses'
    <3>1. CASE RequestedRunStarts(s)
      BY <2>1, <3>1 DEF RequestedRunStarts, loopVars
    <3>2. CASE RequestedRunLacksSecret(s)
      <4>1. schedule[s].failureCount \in 0 .. FailureCap
        BY <2>0 DEF ScheduleRow
      <4>. QED
        BY <3>2, <4>1, RecordDates, ResultsRecorded
        DEF RequestedRunLacksSecret, FailWithoutSecret, loopVars
    <3>3. CASE DeleteSchedule(s)
      <4>1. Deleted(schedule[s]).lastRunAt = schedule[s].lastRunAt
        BY <2>0 DEF Deleted, ScheduleRow
      <4>. QED
        BY <2>0, <3>3, <4>1, ResultsKept DEF DeleteSchedule, loopVars
    <3>4. ASSUME NEW enabled \in BOOLEAN, NEW cron \in CronChoices,
                 CreateSchedule(s, enabled, cron)
          PROVE  ResultsFollowPasses'
      <4>1. schedule[s].lastRunAt = 0 /\ NewRow("live", enabled, cron).lastRunAt = 0
        BY <3>4 DEF CreateSchedule, UnbornNeverRan, NewRow
      <4>. QED
        BY <2>0, <3>4, <4>1, ResultsKept DEF CreateSchedule, loopVars
    <3>5. ASSUME NEW enabled \in BOOLEAN, NEW cron \in CronChoices,
                 UpdateSchedule(s, enabled, cron)
          PROVE  ResultsFollowPasses'
      <4>1. Reconfigured(schedule[s], enabled, cron).lastRunAt = schedule[s].lastRunAt
        BY <2>0 DEF Reconfigured, ScheduleRow
      <4>. QED
        BY <2>0, <3>5, <4>1, ResultsKept DEF UpdateSchedule, loopVars
    <3>. QED
      BY <2>4, <3>1, <3>2, <3>3, <3>4, <3>5 DEF RequestStep
  <2>5. ASSUME NEW c \in Connections, ConnectionStep(c) PROVE ResultsFollowPasses'
    <3>1. CASE DeleteConnection(c)
      <4>1. \A s \in Schedules : schedule'[s].lastRunAt = schedule[s].lastRunAt
        BY <2>0, <3>1 DEF DeleteConnection, Deleted, ScheduleRow
      <4>. QED
        BY <2>0, <3>1, <4>1, ResultsKept DEF DeleteConnection, loopVars
    <3>. QED
      BY <2>1, <2>5, <3>1 DEF ConnectionStep, UpdateConnection, loopVars
  <2>6. ASSUME NEW r \in inFlight, RunSettles(r) PROVE ResultsFollowPasses'
    <3>1. r.schedule \in Schedules /\ r.failureCount \in 0 .. FailureCap
      BY DEF TypeOK, Run
    <3>. QED
      BY <2>6, <3>1, RecordDates, ResultsRecorded
      DEF RunSettles, RunSucceeds, RunFails, Settle, loopVars
  <2>7. ASSUME NEW keyChanged \in BOOLEAN, Restart(keyChanged)
        PROVE  ResultsFollowPasses'
    BY <2>1, <2>7 DEF Restart
  <2>. QED
    BY <2>1, <2>2, <2>3, <2>4, <2>5, <2>6, <2>7
    DEF Next, TimerFires, PassCompletes, EndPass, vars
<1>. QED
  BY <1>1, <1>2, TypeCorrect, UnbornRowsAreBlank, PTL DEF Spec

-----------------------------------------------------------------------------
\* When a pass takes a schedule up, a matching minute has come since the
\* last pass whose run of it was recorded.
RunsANewOccurrence ==
  \A s \in due' \ due : \E t \in schedule[s].cron : doneAt[s] < t /\ t <= now

\* Only the timer adds to the due list, and it adds what has a due minute.
LEMMA DueIsNew ==
  ASSUME TypeOK, ResultsFollowPasses, TimerFires
  PROVE  RunsANewOccurrence
<1>. SUFFICES ASSUME NEW s \in due' \ due
              PROVE  \E t \in schedule[s].cron : doneAt[s] < t /\ t <= now
  BY DEF RunsANewOccurrence
<1>1. s \in Schedules /\ DueMinutes(s) # {}
  BY DEF TimerFires, IsDue
<1>2. PICK t \in DueMinutes(s) : TRUE
  BY <1>1
<1>3. t \in Nat /\ t \in schedule[s].cron /\ schedule[s].lastRunAt < t /\ t <= now
  BY <1>2, TimeAssumption DEF DueMinutes, MinuteMarks
<1>4. doneAt[s] \in Nat /\ schedule[s].lastRunAt \in Nat
  BY <1>1 DEF TypeOK, ScheduleRow
<1>5. doneAt[s] < t
  BY <1>1, <1>3, <1>4 DEF ResultsFollowPasses
<1>. QED
  BY <1>3, <1>5

\* The scheduler runs no occurrence twice: neither overlapping windows, late
\* ticks, restarts, runs by hand nor new cron expressions make it repeat one.
THEOREM OccurrencesRunOnce == Spec => NoOccurrenceRunsTwice
<1>1. TypeOK /\ ResultsFollowPasses /\ [Next]_vars => [RunsANewOccurrence]_vars
  <2>. SUFFICES ASSUME TypeOK, ResultsFollowPasses, Next PROVE RunsANewOccurrence
    BY DEF vars
  <2>1. CASE due' \subseteq due
    BY <2>1 DEF RunsANewOccurrence
  <2>2. ASSUME NEW s \in Schedules, SchedulerStep(s) PROVE due' \subseteq due
    BY <2>2 DEF SchedulerStep, ScheduledRunStarts, ScheduledRunLacksSecret,
                ScheduledRunFindsBusy, ScheduledRunThrows, EndPass
  <2>3. ASSUME NEW s \in Schedules, RequestStep(s) PROVE due' \subseteq due
    BY <2>3 DEF RequestStep, RequestedRunStarts, RequestedRunLacksSecret,
                DeleteSchedule, CreateSchedule, UpdateSchedule, loopVars
  <2>4. ASSUME NEW c \in Connections, ConnectionStep(c) PROVE due' \subseteq due
    BY <2>4 DEF ConnectionStep, DeleteConnection, UpdateConnection, loopVars
  <2>5. ASSUME NEW r \in inFlight, RunSettles(r) PROVE due' \subseteq due
    BY <2>5 DEF RunSettles, RunSucceeds, RunFails, Settle, loopVars
  <2>6. CASE Tick \/ PassCompletes \/ \E keyChanged \in BOOLEAN : Restart(keyChanged)
    BY <2>1, <2>6 DEF Tick, PassCompletes, EndPass, Restart, loopVars
  <2>. QED
    BY <2>1, <2>2, <2>3, <2>4, <2>5, <2>6, DueIsNew DEF Next
<1>2. NoOccurrenceRunsTwice <=> [][RunsANewOccurrence]_vars
  BY DEF NoOccurrenceRunsTwice, RunsANewOccurrence
<1>. QED
  BY <1>1, <1>2, TypeCorrect, ResultsAreDated, PTL DEF Spec

-----------------------------------------------------------------------------
(***************************************************************************)
(* IntegrationAutoSync implements SyncLease: every step begins a run on a  *)
(* free connection, ends the run that has it, fails at once on a free      *)
(* connection, loses all runs, or is none of the lease's business.         *)
(***************************************************************************)
\* Lease's holder and lastRunAt in terms of this module.
Holder == [c \in Connections |-> {r \in inFlight : ConnectionOf[r.schedule] = c}]
LastRunAt == [s \in Schedules |-> schedule[s].lastRunAt]

\* A step that starts and ends no run and records nothing stutters.
LEMMA LeaseStutters ==
  ASSUME UNCHANGED inFlight,
         \A s \in Schedules : schedule'[s].lastRunAt = schedule[s].lastRunAt
  PROVE  UNCHANGED Lease!vars
  BY DEF Lease!vars

\* StartRun begins a run on a connection that nobody has.
LEMMA LeaseBegins ==
  ASSUME TypeOK, LockIsExact, NEW s \in Schedules, NEW by \in Runners,
         StartRun(s, by), UNCHANGED schedule
  PROVE  Lease!Next
<1>. DEFINE c == ConnectionOf[s]
            run == [by |-> by, schedule |-> s, failureCount |-> schedule[s].failureCount]
<1>1. run \in Run /\ run.schedule = s
  BY DEF TypeOK, ScheduleRow, Run
<1>2. c \in Connections
  BY ConnectionOfAssumption
<1>3. inFlight' = inFlight \cup {run} /\ c \notin lock
  BY DEF StartRun
<1>. HIDE DEF run
<1>4. Holder[c] = {}
  BY <1>2, <1>3 DEF Holder, LockIsExact
<1>5. Holder' = [Holder EXCEPT ![c] = {run}]
  BY <1>1, <1>2, <1>3, <1>4 DEF Holder
<1>6. LastRunAt' = LastRunAt
  BY DEF LastRunAt
<1>7. Lease!Begin(c)
  BY <1>1, <1>4, <1>5, <1>6 DEF Lease!Begin, Holder, LastRunAt
<1>. QED
  BY <1>2, <1>7 DEF Lease!Next

\* A run that settles had the connection and records for its own schedule.
LEMMA LeaseEnds ==
  ASSUME TypeOK, LockIsExact, NEW r \in inFlight, RunSettles(r)
  PROVE  Lease!Next
<1>. DEFINE c == ConnectionOf[r.schedule]
<1>1. r.schedule \in Schedules /\ r.failureCount \in 0 .. FailureCap
  BY DEF TypeOK, Run
<1>2. c \in Connections
  BY <1>1, ConnectionOfAssumption
<1>3. inFlight' = inFlight \ {r}
  BY DEF RunSettles, RunSucceeds, RunFails, Settle
<1>4. Holder[c] = {r}
  BY <1>2 DEF Holder, LockIsExact
<1>5. Holder' = [Holder EXCEPT ![c] = {}]
  BY <1>2, <1>3, <1>4 DEF Holder
<1>6. \A t \in Schedules \ {r.schedule} : LastRunAt'[t] = LastRunAt[t]
  BY <1>1, RecordTouchesOne DEF LastRunAt, RunSettles, RunSucceeds, RunFails
<1>7. Lease!End(c)
  BY <1>4, <1>5, <1>6 DEF Lease!End, Lease!RecordsOnly, Holder, LastRunAt
<1>. QED
  BY <1>2, <1>7 DEF Lease!Next

\* A run without a secret fails at once, on a connection that nobody has.
LEMMA LeaseFails ==
  ASSUME TypeOK, LockIsExact, NEW s \in Schedules, FailWithoutSecret(s),
         UNCHANGED inFlight
  PROVE  Lease!Next
<1>1. schedule[s].failureCount \in 0 .. FailureCap
  BY DEF TypeOK, ScheduleRow
<1>2. Holder[ConnectionOf[s]] = {}
  BY ConnectionOfAssumption DEF Holder, LockIsExact, FailWithoutSecret
<1>3. Holder' = Holder
  BY DEF Holder
<1>4. \A t \in Schedules \ {s} : LastRunAt'[t] = LastRunAt[t]
  BY <1>1, RecordTouchesOne DEF LastRunAt, FailWithoutSecret
<1>5. Lease!FailAtOnce(s)
  BY <1>2, <1>3, <1>4 DEF Lease!FailAtOnce, Lease!RecordsOnly, Holder, LastRunAt
<1>. QED
  BY <1>5 DEF Lease!Next

\* A restart loses every run and no result.
LEMMA LeaseCrashes ==
  ASSUME NEW keyChanged \in BOOLEAN, Restart(keyChanged)
  PROVE  Lease!Next
<1>1. Holder' = [c \in Connections |-> {}] /\ LastRunAt' = LastRunAt
  BY DEF Restart, Holder, LastRunAt
<1>2. Lease!Crash
  BY <1>1 DEF Lease!Crash, Lease!Nobody, Holder, LastRunAt
<1>. QED
  BY <1>2 DEF Lease!Next

\* The scheduler, with its lock, timer, tables and routes, implements the
\* lease, for any schedules and connections.
THEOREM AutoSyncImplementsLease == Spec => ImplementsLease
<1>1. Init => Lease!Init
  <2>. SUFFICES ASSUME Init PROVE Lease!Init
    OBVIOUS
  <2>1. \A s \in Schedules : schedule[s].lastRunAt = 0
    BY DEF Init, NewRow
  <2>. QED
    BY <2>1 DEF Init, Lease!Init, Lease!Nobody
<1>2. TypeOK /\ LockIsExact /\ UnbornNeverRan /\ [Next]_vars => [Lease!Next]_(Lease!vars)
  <2>. SUFFICES ASSUME TypeOK, LockIsExact, UnbornNeverRan, [Next]_vars
                PROVE  Lease!Next \/ UNCHANGED Lease!vars
    OBVIOUS
  <2>0. schedule \in [Schedules -> ScheduleRow]
    BY DEF TypeOK
  <2>1. CASE UNCHANGED <<schedule, inFlight>>
    BY <2>1, LeaseStutters
  <2>2. ASSUME NEW s \in Schedules, SchedulerStep(s)
        PROVE  Lease!Next \/ UNCHANGED Lease!vars
    <3>1. CASE ScheduledRunStarts(s)
      BY <3>1, LeaseBegins DEF ScheduledRunStarts, Runners
    <3>2. CASE ScheduledRunLacksSecret(s)
      BY <3>2, LeaseFails DEF ScheduledRunLacksSecret
    <3>. QED
      BY <2>1, <2>2, <3>1, <3>2
      DEF SchedulerStep, ScheduledRunFindsBusy, ScheduledRunThrows
  <2>3. ASSUME NEW s \in Schedules, RequestStep(s)
        PROVE  Lease!Next \/ UNCHANGED Lease!vars
    <3>1. CASE RequestedRunStarts(s)
      BY <3>1, LeaseBegins DEF RequestedRunStarts, Runners
    <3>2. CASE RequestedRunLacksSecret(s)
      BY <3>2, LeaseFails DEF RequestedRunLacksSecret
    <3>3. CASE DeleteSchedule(s)
      <4>1. Deleted(schedule[s]).lastRunAt = schedule[s].lastRunAt
        BY <2>0 DEF Deleted, ScheduleRow
      <4>. QED
        BY <2>0, <3>3, <4>1, LeaseStutters DEF DeleteSchedule
    <3>4. ASSUME NEW enabled \in BOOLEAN, NEW cron \in CronChoices,
                 CreateSchedule(s, enabled, cron)
          PROVE  UNCHANGED Lease!vars
      <4>1. schedule[s].lastRunAt = 0
        BY <3>4 DEF CreateSchedule, UnbornNeverRan
      <4>. QED
        BY <2>0, <3>4, <4>1, LeaseStutters DEF CreateSchedule, NewRow
    <3>5. ASSUME NEW enabled \in BOOLEAN, NEW cron \in CronChoices,
                 UpdateSchedule(s, enabled, cron)
          PROVE  UNCHANGED Lease!vars
      <4>1. Reconfigured(schedule[s], enabled, cron).lastRunAt = schedule[s].lastRunAt
        BY <2>0 DEF Reconfigured, ScheduleRow
      <4>. QED
        BY <2>0, <3>5, <4>1, LeaseStutters DEF UpdateSchedule
    <3>. QED
      BY <2>3, <3>1, <3>2, <3>3, <3>4, <3>5 DEF RequestStep
  <2>4. ASSUME NEW c \in Connections, ConnectionStep(c)
        PROVE  UNCHANGED Lease!vars
    <3>1. CASE DeleteConnection(c)
      <4>1. \A s \in Schedules : schedule'[s].lastRunAt = schedule[s].lastRunAt
        BY <2>0, <3>1 DEF DeleteConnection, Deleted, ScheduleRow
      <4>. QED
        BY <3>1, <4>1, LeaseStutters DEF DeleteConnection
    <3>. QED
      BY <2>1, <2>4, <3>1, LeaseStutters DEF ConnectionStep, UpdateConnection
  <2>5. ASSUME NEW r \in inFlight, RunSettles(r) PROVE Lease!Next
    BY <2>5, LeaseEnds
  <2>6. ASSUME NEW keyChanged \in BOOLEAN, Restart(keyChanged) PROVE Lease!Next
    BY <2>6, LeaseCrashes
  <2>. QED
    BY <2>1, <2>2, <2>3, <2>4, <2>5, <2>6
    DEF Next, Tick, TimerFires, PassCompletes, vars
<1>. QED
  BY <1>1, <1>2, TypeCorrect, SyncsAreSerialized, UnbornRowsAreBlank, PTL
  DEF Spec, ImplementsLease, Lease!Spec

-----------------------------------------------------------------------------
(***************************************************************************)
(* NetworkSync.                                                            *)
(***************************************************************************)
\* A VLAN number has one row in the lab (the unique index of vlans).
NumbersUnique ==
  \A v, w \in LiveVlans : vlan[v].number = vlan[w].number => v = w

\* What a preview keeps promising however long a client holds it: its ranges
\* lie in their CIDRs, and it does not both delete VLANs and offer links.
Sound(p) ==
  /\ PreviewOK(p)
  /\ p.scopes \subseteq [cidr : Cidrs, range : Ranges]
  /\ \A x \in p.scopes : x.range \subseteq x.cidr
  /\ p.deletable.vlans = {} \/ DOMAIN p.linkOnly = {}

RowsOK ==
  /\ vlan \in [VlanIds -> VlanRow \cup {Unborn, Gone}]
  /\ subnet \in [SubnetIds -> SubnetRow \cup {Unborn, Gone}]

Tables == RowsOK /\ SubnetsDisjoint /\ ChildrenInside /\ LinksAreLive /\ NumbersUnique

NetworkInv == Tables /\ (\A p \in previews : Sound(p)) /\ edits \in 0 .. MaxEdits

-----------------------------------------------------------------------------
(***************************************************************************)
(* Rows and partial functions.                                             *)
(***************************************************************************)
LEMMA Partial ==
  ASSUME NEW S, NEW T, NEW f
  PROVE  f \in PartialFunctions(S, T) <=> DOMAIN f \subseteq S /\ f \in [DOMAIN f -> T]
<1>1. ASSUME f \in PartialFunctions(S, T) PROVE DOMAIN f \subseteq S /\ f \in [DOMAIN f -> T]
  <2>1. PICK D \in SUBSET S : f \in [D -> T]
    BY <1>1 DEF PartialFunctions
  <2>. QED
    BY <2>1
<1>2. ASSUME DOMAIN f \subseteq S, f \in [DOMAIN f -> T] PROVE f \in PartialFunctions(S, T)
  BY <1>2 DEF PartialFunctions
<1>. QED
  BY <1>1, <1>2

LEMMA LiveRows ==
  ASSUME RowsOK
  PROVE  /\ \A v \in LiveVlans : v \in VlanIds /\ vlan[v] \in VlanRow
         /\ \A s \in LiveSubnets : s \in SubnetIds /\ subnet[s] \in SubnetRow
         /\ \A v \in VlanIds : vlan[v] \in VlanRow => v \in LiveVlans
         /\ \A s \in SubnetIds : subnet[s] \in SubnetRow => s \in LiveSubnets
<1>1. \A v \in VlanIds : vlan[v].state = "live" => vlan[v] \in VlanRow
  BY DEF RowsOK, Unborn, Gone
<1>2. \A s \in SubnetIds : subnet[s].state = "live" => subnet[s] \in SubnetRow
  BY DEF RowsOK, Unborn, Gone
<1>3. /\ \A row \in VlanRow : row.state = "live"
      /\ \A row \in SubnetRow : row.state = "live"
  BY DEF VlanRow, SubnetRow
<1>. QED
  BY <1>1, <1>2, <1>3 DEF LiveVlans, LiveSubnets

-----------------------------------------------------------------------------
(***************************************************************************)
(* Previews are sound when they are made, whatever was collected.          *)
(***************************************************************************)
LEMMA PreviewIsSound ==
  ASSUME RowsOK, NEW policy \in Policies, NEW c, CollectionOK(c)
  PROVE  Sound(Preview(policy, c)) /\ Preview(policy, c).source = "snmp"
<1>. DEFINE p == Preview(policy, c)
<1>0. /\ DOMAIN c.vlans \subseteq Numbers /\ \A n \in DOMAIN c.vlans : c.vlans[n] \in Names
      /\ DOMAIN c.subnets \subseteq Cidrs /\ \A k \in DOMAIN c.subnets : c.subnets[k] \in Reported
  BY Partial DEF CollectionOK
<1>1. /\ p.source = "snmp" /\ p.policy = policy
      /\ p.newVlans = [n \in {n \in DOMAIN c.vlans : VlanOf(n) = {}} |-> c.vlans[n]]
      /\ p.newSubnets = [k \in {k \in DOMAIN c.subnets : SubnetOf(k) = {}} |-> c.subnets[k]]
      /\ p.linkOnly = [s \in {} |-> NoNumber]
      /\ p.scopes = {x \in c.scopes : ~ ScopeConflicts(c, x)}
  BY DEF Preview
<1>2. p.newVlans \in PartialFunctions(Numbers, Names)
  BY <1>0, <1>1, Partial
<1>3. p.newSubnets \in PartialFunctions(Cidrs, Reported)
  BY <1>0, <1>1, Partial
<1>4. p.vlanNames \in PartialFunctions(VlanIds, Names)
  <2>. DEFINE D == {v \in LiveVlans : /\ vlan[v].number \in DOMAIN c.vlans
                                      /\ vlan[v].name # c.vlans[vlan[v].number]}
  <2>1. p.vlanNames = [v \in IF policy = "mirror" THEN D ELSE {} |-> c.vlans[vlan[v].number]]
    BY DEF Preview
  <2>. QED
    BY <1>0, <2>1, Partial DEF LiveVlans
<1>5. p.changes \in PartialFunctions(SubnetIds, Reported)
  <2>. DEFINE D == {s \in LiveSubnets : /\ subnet[s].cidr \in DOMAIN c.subnets
                                        /\ SubnetDiffers(s, c.subnets[subnet[s].cidr])}
  <2>1. p.changes = [s \in IF policy = "mirror" THEN D ELSE {} |-> c.subnets[subnet[s].cidr]]
    BY DEF Preview
  <2>. QED
    BY <1>0, <2>1, Partial DEF LiveSubnets
<1>6. DOMAIN p.linkOnly = {} /\ p.linkOnly \in PartialFunctions(SubnetIds, Numbers)
  <2>1. PICK links : links = [s \in {} |-> NoNumber]
    OBVIOUS
  <2>2. DOMAIN links = {} /\ links \in [DOMAIN links -> Numbers]
    BY <2>1
  <2>3. links \in PartialFunctions(SubnetIds, Numbers)
    BY <2>2, Partial
  <2>. QED
    BY <1>1, <2>1, <2>2, <2>3
<1>7. /\ p.scopes \subseteq [cidr : Cidrs, range : Ranges]
      /\ \A x \in p.scopes : x.range \subseteq x.cidr
  BY <1>1 DEF CollectionOK, ScopeConflicts
<1>. QED
  BY <1>1, <1>2, <1>3, <1>4, <1>5, <1>6, <1>7 DEF Sound, PreviewOK

LEMMA PulledIsCollected ==
  ASSUME NEW c, CollectionOK(c), NEW kinds PROVE CollectionOK(Pulled(c, kinds))
<1>0. /\ DOMAIN c.vlans \subseteq Numbers /\ \A n \in DOMAIN c.vlans : c.vlans[n] \in Names
      /\ DOMAIN c.subnets \subseteq Cidrs /\ \A k \in DOMAIN c.subnets : c.subnets[k] \in Reported
  BY Partial DEF CollectionOK
<1>1. /\ Pulled(c, kinds).vlans =
           [n \in IF "vlans" \in kinds THEN DOMAIN c.vlans ELSE {} |-> c.vlans[n]]
      /\ Pulled(c, kinds).subnets =
           [k \in IF "subnets" \in kinds THEN DOMAIN c.subnets ELSE {} |-> c.subnets[k]]
      /\ Pulled(c, kinds).scopes = {}
  BY DEF Pulled
<1>2. Pulled(c, kinds).vlans \in PartialFunctions(Numbers, Names)
  BY <1>0, <1>1, Partial
<1>3. Pulled(c, kinds).subnets \in PartialFunctions(Cidrs, Reported)
  BY <1>0, <1>1, Partial
<1>. QED
  BY <1>1, <1>2, <1>3 DEF CollectionOK

LEMMA IntegrationPreviewIsSound ==
  ASSUME RowsOK, NEW policy \in Policies, NEW c, CollectionOK(c)
  PROVE  Sound(IntegrationPreview(policy, c))
<1>. DEFINE p == Preview(policy, c)
            q == IntegrationPreview(policy, c)
            D == {s \in LiveSubnets : /\ policy = "merge"
                                      /\ subnet[s].cidr \in DOMAIN c.subnets
                                      /\ LinkOffered(c, s)}
<1>1. Sound(Preview(policy, c))
  BY PreviewIsSound
<1>0. /\ q.source = "integration" /\ q.policy = p.policy
      /\ q.newVlans = p.newVlans /\ q.vlanNames = p.vlanNames
      /\ q.newSubnets = p.newSubnets /\ q.changes = p.changes /\ q.scopes = p.scopes
      /\ q.deletable.vlans = {}
  BY DEF IntegrationPreview, Preview
<1>2. q.linkOnly = [s \in D |-> c.subnets[subnet[s].cidr].number]
  BY DEF IntegrationPreview, Preview
<1>3. \A s \in D : c.subnets[subnet[s].cidr].number \in Numbers
  <2>. SUFFICES ASSUME NEW s \in D PROVE c.subnets[subnet[s].cidr].number \in Numbers
    OBVIOUS
  <2>. DEFINE n == c.subnets[subnet[s].cidr].number
  <2>1. n \in DOMAIN c.vlans \/ VlanOf(n) # {}
    BY DEF LinkOffered
  <2>2. CASE n \in DOMAIN c.vlans
    BY <2>2, Partial DEF CollectionOK
  <2>3. CASE VlanOf(n) # {}
    BY <2>3, LiveRows DEF VlanOf, VlanRow
  <2>. QED
    BY <2>1, <2>2, <2>3
<1>4. q.linkOnly \in PartialFunctions(SubnetIds, Numbers)
  BY <1>2, <1>3, Partial DEF LiveSubnets
<1>. HIDE DEF p, q
<1>5. Sound(q)
  BY <1>0, <1>1, <1>4 DEF p, Sound, PreviewOK
<1>. QED
  BY <1>5 DEF q

-----------------------------------------------------------------------------
(***************************************************************************)
(* What the transaction of an apply leaves.                                *)
(***************************************************************************)
Commit(p, policy, doomed, mintV, mintS) ==
  /\ mintV \in Mints(DOMAIN p.newVlans, UnbornVlans)
  /\ mintS \in Mints(DOMAIN p.newSubnets, UnbornSubnets)
  /\ InsertsSucceed(p, doomed, mintV)
  /\ UpdatesSucceed(p, policy, doomed, mintV)
  /\ vlan' = [v \in VlanIds |-> VlanAfter(p, policy, doomed, mintV, v)]
  /\ subnet' = [s \in SubnetIds |-> SubnetAfter(p, policy, doomed, mintV, mintS, s)]

\* Rows to be deleted are live, VLANs among them exclude offered links, and a
\* merge deletes none.
DoomedOK(p, policy, doomed) ==
  /\ doomed.vlans \subseteq LiveVlans /\ doomed.subnets \subseteq LiveSubnets
  /\ doomed.vlans = {} \/ DOMAIN p.linkOnly = {}
  /\ policy = "merge" => doomed.vlans = {} /\ doomed.subnets = {}

LEMMA DoomedIsOK ==
  ASSUME NEW p, Sound(p), NEW policy, NEW allowDeletes
  PROVE  LET doomed == Doomed(p, policy, allowDeletes) IN
         /\ DoomedOK(p, policy, doomed)
         /\ ~ allowDeletes => doomed.vlans = {} /\ doomed.subnets = {}
  BY DEF Sound, Doomed, DoomedOK

\* The VLANs when an apply is over: those it inserted, and those it kept.
VlansArrived(p, policy, doomed, mintV) ==
  /\ vlan' \in [VlanIds -> VlanRow \cup {Unborn, Gone}]
  /\ \A n \in DOMAIN p.newVlans :
       /\ n \in Numbers /\ mintV[n] \in UnbornVlans
       /\ vlan'[mintV[n]].state = "live" /\ vlan'[mintV[n]].number = n
  /\ \A v \in LiveVlans \ doomed.vlans :
       /\ vlan'[v].state = "live" /\ vlan'[v].number = vlan[v].number
       /\ policy = "merge" => vlan'[v] = vlan[v]
  /\ \A v \in LiveVlans' : \/ v \in LiveVlans \ doomed.vlans
                           \/ \E n \in DOMAIN p.newVlans : v = mintV[n]

LEMMA VlansAfter ==
  ASSUME RowsOK, NEW p, Sound(p), NEW policy, NEW doomed, DoomedOK(p, policy, doomed),
         NEW mintV, NEW mintS, Commit(p, policy, doomed, mintV, mintS)
  PROVE  VlansArrived(p, policy, doomed, mintV)
<1>1. /\ mintV \in [DOMAIN p.newVlans -> UnbornVlans]
      /\ \A m, n \in DOMAIN p.newVlans : mintV[m] = mintV[n] => m = n
  BY DEF Commit, Mints
<1>2. \A v \in VlanIds : vlan'[v] = VlanAfter(p, policy, doomed, mintV, v)
  BY DEF Commit
<1>3. /\ DOMAIN p.newVlans \subseteq Numbers
      /\ \A n \in DOMAIN p.newVlans : p.newVlans[n] \in Names
  BY Partial DEF Sound, PreviewOK
<1>4. /\ DOMAIN p.vlanNames \subseteq VlanIds
      /\ \A v \in DOMAIN p.vlanNames : p.vlanNames[v] \in Names
  BY Partial DEF Sound, PreviewOK
<1>5. ASSUME NEW n \in DOMAIN p.newVlans
      PROVE  /\ vlan'[mintV[n]] = NewVlan(n, p.newVlans[n])
             /\ vlan'[mintV[n]] \in VlanRow
             /\ vlan'[mintV[n]].state = "live" /\ vlan'[mintV[n]].number = n
  <2>1. mintV[n] \in VlanIds /\ DOMAIN mintV = DOMAIN p.newVlans
    BY <1>1 DEF UnbornVlans
  <2>2. (CHOOSE m \in DOMAIN mintV : mintV[m] = mintV[n]) = n
    BY <1>1, <2>1
  <2>3. vlan'[mintV[n]] = NewVlan(n, p.newVlans[n])
    BY <1>2, <2>1, <2>2 DEF VlanAfter
  <2>. QED
    BY <1>3, <2>3 DEF NewVlan, VlanRow
<1>6. ASSUME NEW v \in VlanIds, \A n \in DOMAIN p.newVlans : mintV[n] # v
      PROVE  /\ v \in doomed.vlans => vlan'[v] = Gone
             /\ v \notin doomed.vlans =>
                  \/ vlan'[v] = vlan[v]
                  \/ /\ policy = "mirror" /\ v \in LiveVlans /\ v \in DOMAIN p.vlanNames
                     /\ vlan'[v] = [vlan[v] EXCEPT !.name = p.vlanNames[v]]
  <2>1. DOMAIN mintV = DOMAIN p.newVlans
    BY <1>1
  <2>. QED
    BY <1>2, <1>6, <2>1 DEF VlanAfter
<1>7. ASSUME NEW v \in LiveVlans \ doomed.vlans
      PROVE  /\ vlan'[v].state = "live" /\ vlan'[v].number = vlan[v].number
             /\ vlan'[v] \in VlanRow
             /\ policy = "merge" => vlan'[v] = vlan[v]
  <2>1. v \in VlanIds /\ vlan[v] \in VlanRow
    BY LiveRows
  <2>2. \A n \in DOMAIN p.newVlans : mintV[n] # v
    BY <1>1 DEF UnbornVlans, LiveVlans
  <2>3. CASE vlan'[v] = vlan[v]
    BY <2>1, <2>3 DEF VlanRow
  <2>4. CASE /\ policy = "mirror" /\ v \in DOMAIN p.vlanNames
             /\ vlan'[v] = [vlan[v] EXCEPT !.name = p.vlanNames[v]]
    BY <1>4, <2>1, <2>4 DEF VlanRow
  <2>. QED
    BY <1>6, <2>1, <2>2, <2>3, <2>4
<1>8. ASSUME NEW v \in VlanIds, v \notin LiveVlans \ doomed.vlans,
             \A n \in DOMAIN p.newVlans : mintV[n] # v
      PROVE  vlan'[v] \in {vlan[v], Gone} /\ vlan'[v].state # "live"
  <2>1. CASE v \in doomed.vlans
    <3>1. vlan'[v] = Gone
      BY <1>6, <1>8, <2>1
    <3>. QED
      BY <3>1 DEF Gone
  <2>2. CASE v \notin doomed.vlans
    <3>1. vlan[v].state # "live" /\ v \notin LiveVlans
      BY <1>8, <2>2 DEF LiveVlans
    <3>2. vlan'[v] = vlan[v]
      BY <1>6, <1>8, <2>2, <3>1
    <3>. QED
      BY <3>1, <3>2
  <2>. QED
    BY <2>1, <2>2
<1>9. vlan' \in [VlanIds -> VlanRow \cup {Unborn, Gone}]
  <2>1. \A v \in VlanIds : vlan'[v] \in VlanRow \cup {Unborn, Gone}
    BY <1>5, <1>7, <1>8 DEF RowsOK
  <2>. QED
    BY <2>1 DEF Commit
<1>10. ASSUME NEW v \in LiveVlans'
       PROVE  v \in LiveVlans \ doomed.vlans \/ \E n \in DOMAIN p.newVlans : v = mintV[n]
  <2>1. v \in VlanIds /\ vlan'[v].state = "live"
    BY DEF LiveVlans
  <2>. QED
    BY <1>8, <2>1
<1>11. \A n \in DOMAIN p.newVlans : n \in Numbers /\ mintV[n] \in UnbornVlans
  BY <1>1, <1>3
<1>. QED
  BY <1>5, <1>7, <1>9, <1>10, <1>11 DEF VlansArrived

\* A link that an apply finds is to a VLAN that is live when it is over, unless
\* it is one that the apply deletes.
LinksLive(doomed, mintV) ==
  \A n : /\ LinkTo(n, mintV) \subseteq VlanIds
         /\ LinkTo(n, mintV) \ doomed.vlans \subseteq LiveVlans'

LEMMA LinksFound ==
  ASSUME RowsOK, NEW p, Sound(p), NEW policy, NEW doomed, DoomedOK(p, policy, doomed),
         NEW mintV, NEW mintS, Commit(p, policy, doomed, mintV, mintS)
  PROVE  LinksLive(doomed, mintV)
<1>0. VlansArrived(p, policy, doomed, mintV)
  BY VlansAfter
<1>1. \A v \in LiveVlans \ doomed.vlans : v \in LiveVlans'
  BY <1>0 DEF LiveVlans, VlansArrived
<1>2. \A m \in DOMAIN p.newVlans : mintV[m] \in LiveVlans' /\ mintV[m] \in VlanIds
  BY <1>0 DEF LiveVlans, UnbornVlans, VlansArrived
<1>3. DOMAIN mintV = DOMAIN p.newVlans
  BY DEF Commit, Mints
<1>4. ASSUME NEW n, NEW v \in LinkTo(n, mintV)
      PROVE  v \in VlanIds /\ (v \in doomed.vlans \/ v \in LiveVlans')
  <2>1. v \in LiveVlans \/ \E m \in DOMAIN mintV : v = mintV[m]
    BY DEF LinkTo, VlanOf
  <2>. QED
    BY <1>1, <1>2, <1>3, <2>1 DEF LiveVlans
<1>. QED
  BY <1>4 DEF LinksLive

LEMMA TheLinkIsOne ==
  ASSUME NEW links, NEW otherwise
  PROVE  /\ TheLink(links, otherwise) \in links \cup {otherwise}
         /\ links # {} => TheLink(links, otherwise) \in links
  BY DEF TheLink

\* What an apply does to a subnet it keeps.
SubnetKept(p, policy, doomed, mintV, s) ==
  /\ subnet'[s] \in SubnetRow
  /\ subnet'[s].cidr = subnet[s].cidr /\ subnet'[s].hosts = subnet[s].hosts
  /\ subnet'[s].scopes = subnet[s].scopes \cup ScopesFor(p, subnet[s].cidr)
  /\ subnet'[s].vlan \in LiveVlans' \cup {NoVlan}
  /\ policy = "merge" => /\ subnet'[s].name = subnet[s].name
                         /\ subnet[s].vlan \in {NoVlan, subnet'[s].vlan}

LEMMA SubnetIsKept ==
  ASSUME Tables, NEW p, Sound(p), NEW policy, NEW doomed, DoomedOK(p, policy, doomed),
         NEW mintV, NEW mintS, Commit(p, policy, doomed, mintV, mintS),
         NEW s \in LiveSubnets, s \notin doomed.subnets
  PROVE  SubnetKept(p, policy, doomed, mintV, s)
<1>. DEFINE row == IF subnet[s].vlan \in doomed.vlans
                   THEN [subnet[s] EXCEPT !.vlan = NoVlan]
                   ELSE subnet[s]
            updated == IF policy = "mirror" /\ s \in DOMAIN p.changes
                       THEN [row EXCEPT !.name = p.changes[s].name,
                               !.vlan = TheLink(LinkTo(p.changes[s].number, mintV), @)]
                       ELSE row
            after == [updated EXCEPT !.vlan = LinkOnly(p, s, updated, mintV),
                                     !.scopes = @ \cup ScopesFor(p, row.cidr)]
<1>0. RowsOK /\ s \in SubnetIds /\ subnet[s] \in SubnetRow
  BY LiveRows DEF Tables
<1>1. subnet'[s] = after
  <2>1. \A k \in DOMAIN mintS : mintS[k] # s
    BY DEF Commit, Mints, UnbornSubnets, LiveSubnets
  <2>2. subnet'[s] = SubnetAfter(p, policy, doomed, mintV, mintS, s)
    BY <1>0 DEF Commit
  <2>. QED
    BY <2>1, <2>2 DEF SubnetAfter, KeptSubnet
<1>2. LinksLive(doomed, mintV)
  BY <1>0, LinksFound
<1>3. ScopesFor(p, subnet[s].cidr) \subseteq Ranges
  BY DEF ScopesFor, Sound
<1>4. \A v \in LiveVlans : v \notin doomed.vlans => v \in LiveVlans'
  <2>1. VlansArrived(p, policy, doomed, mintV)
    BY <1>0, VlansAfter
  <2>. QED
    BY <2>1 DEF VlansArrived, LiveVlans
<1>5. subnet[s].vlan \in LiveVlans \cup {NoVlan}
  BY DEF Tables, LinksAreLive
<1>6. /\ row \in SubnetRow /\ row.cidr = subnet[s].cidr /\ row.hosts = subnet[s].hosts
      /\ row.scopes = subnet[s].scopes /\ row.name = subnet[s].name
      /\ row.vlan \in LiveVlans' \cup {NoVlan}
      /\ policy = "merge" => row.vlan = subnet[s].vlan
  <2>1. CASE subnet[s].vlan \in doomed.vlans
    BY <1>0, <2>1 DEF SubnetRow, DoomedOK
  <2>2. CASE subnet[s].vlan \notin doomed.vlans
    BY <1>0, <1>4, <1>5, <2>2
  <2>. QED
    BY <2>1, <2>2
<1>. HIDE DEF row
<1>7. /\ updated \in SubnetRow /\ updated.cidr = row.cidr /\ updated.hosts = row.hosts
      /\ updated.scopes = row.scopes
      /\ updated.vlan \in LiveVlans' \cup {NoVlan}
      /\ policy = "merge" => updated.name = row.name /\ updated.vlan = row.vlan
  <2>1. CASE policy = "mirror" /\ s \in DOMAIN p.changes
    <3>. DEFINE links == LinkTo(p.changes[s].number, mintV)
    <3>0. p.changes[s] \in Reported
      BY <2>1, Partial DEF Sound, PreviewOK
    <3>1. p.changes[s].name \in Names
      BY <3>0 DEF Reported
    <3>2. links \cap doomed.vlans = {}
      BY <2>1 DEF Commit, UpdatesSucceed
    <3>3. links \subseteq LiveVlans' /\ links \subseteq VlanIds
      BY <1>2, <3>2 DEF LinksLive
    <3>4. TheLink(links, row.vlan) \in links \cup {row.vlan}
      BY TheLinkIsOne
    <3>5. updated = [row EXCEPT !.name = p.changes[s].name, !.vlan = TheLink(links, row.vlan)]
      BY <2>1
    <3>. HIDE DEF links, updated
    <3>. QED
      BY <1>6, <2>1, <3>1, <3>3, <3>4, <3>5 DEF SubnetRow
  <2>2. CASE ~ (policy = "mirror" /\ s \in DOMAIN p.changes)
    <3>1. updated = row
      BY <2>2
    <3>. QED
      BY <1>6, <3>1
  <2>. QED
    BY <2>1, <2>2
<1>. HIDE DEF updated
<1>8. /\ LinkOnly(p, s, updated, mintV) \in LiveVlans' \cup {NoVlan}
      /\ LinkOnly(p, s, updated, mintV) \in VlanIds \cup {NoVlan}
      /\ updated.vlan \in {NoVlan, LinkOnly(p, s, updated, mintV)}
  <2>1. CASE s \in DOMAIN p.linkOnly /\ updated.vlan = NoVlan
    <3>1. doomed.vlans = {}
      BY <2>1 DEF DoomedOK
    <3>2. LinkTo(p.linkOnly[s], mintV) \subseteq LiveVlans' \cap VlanIds
      BY <1>2, <3>1 DEF LinksLive
    <3>3. TheLink(LinkTo(p.linkOnly[s], mintV), NoVlan) \in LinkTo(p.linkOnly[s], mintV) \cup {NoVlan}
      BY TheLinkIsOne
    <3>. QED
      BY <2>1, <3>2, <3>3 DEF LinkOnly
  <2>2. CASE ~ (s \in DOMAIN p.linkOnly /\ updated.vlan = NoVlan)
    <3>1. LinkOnly(p, s, updated, mintV) = updated.vlan
      BY <2>2 DEF LinkOnly
    <3>2. updated.vlan \in VlanIds \cup {NoVlan}
      BY <1>7 DEF SubnetRow
    <3>. QED
      BY <1>7, <3>1, <3>2
  <2>. QED
    BY <2>1, <2>2
<1>9. /\ after \in SubnetRow /\ after.cidr = updated.cidr /\ after.hosts = updated.hosts
      /\ after.name = updated.name /\ after.vlan = LinkOnly(p, s, updated, mintV)
      /\ after.scopes = updated.scopes \cup ScopesFor(p, row.cidr)
  BY <1>3, <1>6, <1>7, <1>8 DEF SubnetRow
<1>. HIDE DEF after
<1>10. /\ subnet'[s].cidr = subnet[s].cidr /\ subnet'[s].hosts = subnet[s].hosts
       /\ subnet'[s].scopes = subnet[s].scopes \cup ScopesFor(p, subnet[s].cidr)
  BY <1>1, <1>6, <1>7, <1>9
<1>11. /\ subnet'[s] \in SubnetRow /\ subnet'[s].vlan \in LiveVlans' \cup {NoVlan}
       /\ policy = "merge" => /\ subnet'[s].name = subnet[s].name
                              /\ subnet[s].vlan \in {NoVlan, subnet'[s].vlan}
  BY <1>1, <1>6, <1>7, <1>8, <1>9
<1>. QED
  BY <1>10, <1>11 DEF SubnetKept

\* What an apply inserts.
SubnetMade(p, mintV, k, s) ==
  /\ s \in UnbornSubnets /\ subnet'[s] \in SubnetRow
  /\ subnet'[s].cidr = k /\ subnet'[s].hosts = {} /\ subnet'[s].scopes = ScopesFor(p, k)
  /\ subnet'[s].vlan = TheLink(LinkTo(p.newSubnets[k].number, mintV), NoVlan)
  /\ subnet'[s].vlan \in LiveVlans' \cup {NoVlan}

LEMMA SubnetIsMade ==
  ASSUME Tables, NEW p, Sound(p), NEW policy, NEW doomed, DoomedOK(p, policy, doomed),
         NEW mintV, NEW mintS, Commit(p, policy, doomed, mintV, mintS),
         NEW k \in DOMAIN p.newSubnets
  PROVE  SubnetMade(p, mintV, k, mintS[k]) /\ k \in Cidrs
<1>. DEFINE s == mintS[k]
            links == LinkTo(p.newSubnets[k].number, mintV)
<1>1. /\ DOMAIN mintS = DOMAIN p.newSubnets /\ s \in UnbornSubnets /\ s \in SubnetIds
      /\ \A l \in DOMAIN mintS : mintS[l] = s => l = k
  BY DEF Commit, Mints, UnbornSubnets
<1>2. (CHOOSE l \in DOMAIN mintS : mintS[l] = s) = k
  BY <1>1
<1>3. subnet'[s] = SubnetAfter(p, policy, doomed, mintV, mintS, s)
  BY <1>1 DEF Commit
<1>4. subnet'[s] = NewSubnet(k, p.newSubnets[k].name, TheLink(links, NoVlan), ScopesFor(p, k))
  BY <1>1, <1>2, <1>3 DEF SubnetAfter
<1>5. k \in Cidrs /\ p.newSubnets[k].name \in Names
  <2>1. k \in Cidrs /\ p.newSubnets[k] \in Reported
    BY Partial DEF Sound, PreviewOK
  <2>. QED
    BY <2>1 DEF Reported
<1>6. links \cap doomed.vlans = {}
  BY DEF Commit, InsertsSucceed
<1>7. LinksLive(doomed, mintV)
  BY LinksFound DEF Tables
<1>8. TheLink(links, NoVlan) \in (LiveVlans' \cap VlanIds) \cup {NoVlan}
  <2>1. TheLink(links, NoVlan) \in links \cup {NoVlan}
    BY TheLinkIsOne
  <2>. QED
    BY <1>6, <1>7, <2>1 DEF LinksLive
<1>9. ScopesFor(p, k) \subseteq Ranges
  BY DEF ScopesFor, Sound
<1>. HIDE DEF links
<1>10. /\ subnet'[s] \in SubnetRow
       /\ subnet'[s].cidr = k /\ subnet'[s].hosts = {} /\ subnet'[s].scopes = ScopesFor(p, k)
       /\ subnet'[s].vlan = TheLink(links, NoVlan)
  BY <1>4, <1>5, <1>8, <1>9 DEF NewSubnet, SubnetRow
<1>. QED
  BY <1>1, <1>5, <1>8, <1>10 DEF SubnetMade, links

-----------------------------------------------------------------------------
(***************************************************************************)
(* An apply keeps the tables consistent.                                   *)
(***************************************************************************)
LEMMA SubnetsAfter ==
  ASSUME Tables, NEW p, Sound(p), NEW policy, NEW doomed, DoomedOK(p, policy, doomed),
         NEW mintV, NEW mintS, Commit(p, policy, doomed, mintV, mintS),
         NEW s \in LiveSubnets'
  PROVE  \/ s \in LiveSubnets /\ SubnetKept(p, policy, doomed, mintV, s)
         \/ \E k \in DOMAIN p.newSubnets : s = mintS[k] /\ SubnetMade(p, mintV, k, s)
<1>0. DOMAIN mintS = DOMAIN p.newSubnets
  BY DEF Commit, Mints
<1>1. CASE \E k \in DOMAIN mintS : mintS[k] = s
  <2>1. PICK k \in DOMAIN p.newSubnets : mintS[k] = s
    BY <1>0, <1>1
  <2>. QED
    BY <2>1, SubnetIsMade
<1>2. CASE ~ \E k \in DOMAIN mintS : mintS[k] = s
  <2>1. s \in SubnetIds /\ subnet'[s].state = "live"
    BY DEF LiveSubnets
  <2>2. subnet'[s] = SubnetAfter(p, policy, doomed, mintV, mintS, s)
    BY <2>1 DEF Commit
  <2>3. s \notin doomed.subnets
    BY <1>2, <2>1, <2>2 DEF SubnetAfter, Gone
  <2>4. s \in LiveSubnets \/ subnet'[s] = subnet[s]
    BY <1>2, <2>2, <2>3 DEF SubnetAfter
  <2>5. s \in LiveSubnets
    BY <2>1, <2>4 DEF LiveSubnets
  <2>. QED
    BY <2>3, <2>5, SubnetIsKept
<1>. QED
  BY <1>1, <1>2

LEMMA ApplyKeepsRows ==
  ASSUME Tables, NEW p, Sound(p), NEW policy, NEW doomed, DoomedOK(p, policy, doomed),
         NEW mintV, NEW mintS, Commit(p, policy, doomed, mintV, mintS)
  PROVE  RowsOK' /\ NumbersUnique' /\ LinksAreLive'
<1>1. VlansArrived(p, policy, doomed, mintV)
  BY VlansAfter DEF Tables
<1>2. ASSUME NEW s \in SubnetIds PROVE subnet'[s] \in SubnetRow \cup {Unborn, Gone}
  <2>0. subnet'[s] = SubnetAfter(p, policy, doomed, mintV, mintS, s)
    BY DEF Commit
  <2>1. CASE s \in LiveSubnets'
    BY <2>1, SubnetsAfter DEF SubnetKept, SubnetMade
  <2>2. CASE s \notin LiveSubnets'
    <3>1. \A k \in DOMAIN mintS : mintS[k] # s
      <4>1. DOMAIN mintS = DOMAIN p.newSubnets
        BY DEF Commit, Mints
      <4>2. \A row \in SubnetRow : row.state = "live"
        BY DEF SubnetRow
      <4>. QED
        BY <2>2, <4>1, <4>2, SubnetIsMade DEF SubnetMade, LiveSubnets
    <3>2. CASE s \in LiveSubnets /\ s \notin doomed.subnets
      BY <3>2, SubnetIsKept DEF SubnetKept
    <3>3. CASE s \in doomed.subnets
      BY <2>0, <3>1, <3>3 DEF SubnetAfter
    <3>4. CASE s \notin LiveSubnets /\ s \notin doomed.subnets
      BY <2>0, <3>1, <3>4 DEF SubnetAfter, Tables, RowsOK
    <3>. QED
      BY <3>2, <3>3, <3>4
  <2>. QED
    BY <2>1, <2>2
<1>3. RowsOK'
  <2>1. subnet' = [s \in SubnetIds |-> subnet'[s]]
    BY DEF Commit
  <2>. QED
    BY <1>1, <1>2, <2>1 DEF RowsOK, VlansArrived
<1>4. NumbersUnique'
  <2>. SUFFICES ASSUME NEW v \in LiveVlans', NEW w \in LiveVlans', vlan'[v].number = vlan'[w].number
                PROVE  v = w
    BY DEF NumbersUnique
  <2>1. \A n \in DOMAIN p.newVlans : \A x \in LiveVlans : vlan[x].number # n
    BY DEF Commit, InsertsSucceed, VlanOf
  <2>2. \A x, y \in LiveVlans : vlan[x].number = vlan[y].number => x = y
    BY DEF Tables, NumbersUnique
  <2>3. /\ \A n \in DOMAIN p.newVlans : vlan'[mintV[n]].number = n
        /\ \A x \in LiveVlans \ doomed.vlans : vlan'[x].number = vlan[x].number
        /\ \A x \in LiveVlans' : \/ x \in LiveVlans \ doomed.vlans
                                 \/ \E n \in DOMAIN p.newVlans : x = mintV[n]
    BY <1>1 DEF VlansArrived
  <2>. QED
    BY <2>1, <2>2, <2>3
<1>5. LinksAreLive'
  <2>. SUFFICES ASSUME NEW s \in LiveSubnets' PROVE subnet'[s].vlan \in LiveVlans' \cup {NoVlan}
    BY DEF LinksAreLive
  <2>. QED
    BY SubnetsAfter DEF SubnetKept, SubnetMade
<1>. QED
  BY <1>3, <1>4, <1>5

LEMMA UnionOfCup ==
  ASSUME NEW S, NEW T PROVE UNION (S \cup T) = (UNION S) \cup (UNION T)
<1>1. \A x \in UNION (S \cup T) : x \in (UNION S) \cup (UNION T)
  OBVIOUS
<1>2. \A x \in (UNION S) \cup (UNION T) : x \in UNION (S \cup T)
  OBVIOUS
<1>. QED
  BY <1>1, <1>2

LEMMA ApplyKeepsSubnets ==
  ASSUME Tables, NEW p, Sound(p), NEW policy, NEW doomed, DoomedOK(p, policy, doomed),
         NEW mintV, NEW mintS, Commit(p, policy, doomed, mintV, mintS)
  PROVE  SubnetsDisjoint' /\ ChildrenInside'
<1>0. \A k : UNION ScopesFor(p, k) \subseteq k
  BY DEF ScopesFor, Sound
<1>1. ChildrenInside'
  <2>. SUFFICES ASSUME NEW s \in LiveSubnets'
                PROVE  subnet'[s].hosts \cup UNION subnet'[s].scopes \subseteq subnet'[s].cidr
    BY DEF ChildrenInside
  <2>1. CASE s \in LiveSubnets /\ SubnetKept(p, policy, doomed, mintV, s)
    <3>1. subnet[s].hosts \cup UNION subnet[s].scopes \subseteq subnet[s].cidr
      BY <2>1 DEF Tables, ChildrenInside
    <3>2. UNION subnet'[s].scopes = (UNION subnet[s].scopes) \cup (UNION ScopesFor(p, subnet[s].cidr))
      <4>1. subnet'[s].scopes = subnet[s].scopes \cup ScopesFor(p, subnet[s].cidr)
        BY <2>1 DEF SubnetKept
      <4>. QED
        BY Zenon, <4>1, UnionOfCup
    <3>. QED
      BY <1>0, <2>1, <3>1, <3>2 DEF SubnetKept
  <2>2. ASSUME NEW k \in DOMAIN p.newSubnets, SubnetMade(p, mintV, k, s)
        PROVE  subnet'[s].hosts \cup UNION subnet'[s].scopes \subseteq subnet'[s].cidr
    BY <1>0, <2>2 DEF SubnetMade
  <2>. QED
    BY <2>1, <2>2, SubnetsAfter
<1>2. SubnetsDisjoint'
  <2>. SUFFICES ASSUME NEW s \in LiveSubnets', NEW t \in LiveSubnets', s # t
                PROVE  ~ Overlap(subnet'[s].cidr, subnet'[t].cidr)
    BY DEF SubnetsDisjoint
  <2>1. \A x, y \in LiveSubnets : x # y => ~ Overlap(subnet[x].cidr, subnet[y].cidr)
    BY DEF Tables, SubnetsDisjoint
  <2>2. \A k \in DOMAIN p.newSubnets : \A x \in LiveSubnets : ~ Overlap(k, subnet[x].cidr)
    BY DEF Commit, InsertsSucceed, CidrAvailable
  <2>3. \A k, l \in DOMAIN p.newSubnets : k = l \/ ~ Overlap(k, l)
    BY DEF Commit, InsertsSucceed
  <2>4. \A k, l : Overlap(k, l) <=> Overlap(l, k)
    BY DEF Overlap
  <2>5. \A x \in {s, t} : \/ x \in LiveSubnets /\ subnet'[x].cidr = subnet[x].cidr
                          \/ \E k \in DOMAIN p.newSubnets : x = mintS[k] /\ subnet'[x].cidr = k
    BY SubnetsAfter DEF SubnetKept, SubnetMade
  <2>. QED
    BY <2>1, <2>2, <2>3, <2>4, <2>5
<1>. QED
  BY <1>1, <1>2

LEMMA ApplyIsCommit ==
  ASSUME NEW p, NEW policy, NEW allowDeletes, Apply(p, policy, allowDeletes)
  PROVE  \E mintV, mintS : Commit(p, policy, Doomed(p, policy, allowDeletes), mintV, mintS)
  BY DEF Apply, Commit

LEMMA ApplyKeeps ==
  ASSUME Tables, NEW p, Sound(p), NEW policy, NEW allowDeletes,
         Apply(p, policy, allowDeletes)
  PROVE  Tables'
<1>1. PICK doomed : doomed = Doomed(p, policy, allowDeletes)
  OBVIOUS
<1>2. PICK mintV, mintS : Commit(p, policy, doomed, mintV, mintS)
  BY <1>1, ApplyIsCommit
<1>3. DoomedOK(p, policy, doomed)
  BY <1>1, DoomedIsOK
<1>. QED
  BY <1>2, <1>3, ApplyKeepsRows, ApplyKeepsSubnets DEF Tables

-----------------------------------------------------------------------------
(***************************************************************************)
(* The routes write one row, or one and the links to it.                   *)
(***************************************************************************)
LEMMA OneVlanWritten ==
  ASSUME Tables, NEW v \in VlanIds, NEW row \in VlanRow,
         vlan' = [vlan EXCEPT ![v] = row], subnet' = subnet,
         \A w \in LiveVlans : w # v => vlan[w].number # row.number
  PROVE  Tables'
<1>0. LiveSubnets' = LiveSubnets
  BY DEF LiveSubnets
<1>1. /\ vlan'[v] = row /\ \A w \in VlanIds : w # v => vlan'[w] = vlan[w]
      /\ vlan' \in [VlanIds -> VlanRow \cup {Unborn, Gone}]
  BY DEF Tables, RowsOK
<1>2. LiveVlans' = LiveVlans \cup {v}
  BY <1>1 DEF LiveVlans, VlanRow
<1>3. RowsOK'
  BY <1>1 DEF Tables, RowsOK
<1>4. NumbersUnique'
  <2>. SUFFICES ASSUME NEW x \in LiveVlans', NEW y \in LiveVlans', vlan'[x].number = vlan'[y].number
                PROVE  x = y
    BY DEF NumbersUnique
  <2>1. x \in VlanIds /\ y \in VlanIds
    BY DEF LiveVlans
  <2>. QED
    BY <1>1, <1>2, <2>1 DEF Tables, NumbersUnique
<1>5. SubnetsDisjoint' /\ ChildrenInside' /\ LinksAreLive'
  BY <1>0, <1>2 DEF Tables, SubnetsDisjoint, ChildrenInside, LinksAreLive
<1>. QED
  BY <1>3, <1>4, <1>5 DEF Tables

LEMMA OneSubnetWritten ==
  ASSUME Tables, NEW s \in SubnetIds, NEW row \in SubnetRow,
         subnet' = [subnet EXCEPT ![s] = row], vlan' = vlan,
         \A t \in LiveSubnets : t # s => ~ Overlap(row.cidr, subnet[t].cidr),
         row.hosts \cup UNION row.scopes \subseteq row.cidr,
         row.vlan \in LiveVlans \cup {NoVlan}
  PROVE  Tables'
<1>0. LiveVlans' = LiveVlans
  BY DEF LiveVlans
<1>1. /\ subnet'[s] = row /\ \A t \in SubnetIds : t # s => subnet'[t] = subnet[t]
      /\ subnet' \in [SubnetIds -> SubnetRow \cup {Unborn, Gone}]
  BY DEF Tables, RowsOK
<1>2. LiveSubnets' = LiveSubnets \cup {s}
  BY <1>1 DEF LiveSubnets, SubnetRow
<1>3. RowsOK'
  BY <1>1 DEF Tables, RowsOK
<1>4. NumbersUnique'
  BY <1>0 DEF Tables, NumbersUnique
<1>5. ASSUME NEW t \in LiveSubnets'
      PROVE  \/ t = s /\ subnet'[t] = row
             \/ t # s /\ t \in LiveSubnets /\ subnet'[t] = subnet[t]
  BY <1>1, <1>2 DEF LiveSubnets
<1>6. SubnetsDisjoint'
  <2>. SUFFICES ASSUME NEW x \in LiveSubnets', NEW y \in LiveSubnets', x # y
                PROVE  ~ Overlap(subnet'[x].cidr, subnet'[y].cidr)
    BY DEF SubnetsDisjoint
  <2>1. \A a, b \in LiveSubnets : a # b => ~ Overlap(subnet[a].cidr, subnet[b].cidr)
    BY DEF Tables, SubnetsDisjoint
  <2>2. \A k, l : Overlap(k, l) <=> Overlap(l, k)
    BY DEF Overlap
  <2>. QED
    BY <1>5, <2>1, <2>2
<1>7. ChildrenInside'
  BY <1>5 DEF Tables, ChildrenInside
<1>8. LinksAreLive'
  BY <1>0, <1>5 DEF Tables, LinksAreLive
<1>. QED
  BY <1>3, <1>4, <1>6, <1>7, <1>8 DEF Tables

LEMMA VlanEditsKeep ==
  ASSUME Tables, NEW v \in VlanIds,
         \/ \E n \in Numbers, name \in Names : AddVlan(v, n, name) \/ EditVlan(v, n, name)
         \/ \E ported \in BOOLEAN : SetPorted(v, ported)
  PROVE  Tables'
<1>0. \A w \in LiveVlans : w \in VlanIds /\ vlan[w] \in VlanRow
  BY LiveRows DEF Tables
<1>1. ASSUME NEW n \in Numbers, NEW name \in Names, AddVlan(v, n, name) PROVE Tables'
  <2>0. PICK row : row = NewVlan(n, name)
    OBVIOUS
  <2>1. row \in VlanRow /\ row.number = n
    BY <2>0 DEF NewVlan, VlanRow
  <2>2. \A w \in LiveVlans : w # v => vlan[w].number # row.number
    BY <1>1, <2>1 DEF AddVlan, VlanOf
  <2>3. vlan' = [vlan EXCEPT ![v] = row] /\ subnet' = subnet
    BY <1>1, <2>0 DEF AddVlan
  <2>. QED
    BY <2>1, <2>2, <2>3, OneVlanWritten
<1>2. ASSUME NEW n \in Numbers, NEW name \in Names, EditVlan(v, n, name) PROVE Tables'
  <2>0. PICK row : row = [vlan[v] EXCEPT !.number = n, !.name = name]
    OBVIOUS
  <2>1. row \in VlanRow /\ row.number = n
    BY <1>0, <1>2, <2>0 DEF EditVlan, VlanRow
  <2>2. \A w \in LiveVlans : w # v => vlan[w].number # row.number
    BY <1>2, <2>1 DEF EditVlan, VlanOf
  <2>3. vlan' = [vlan EXCEPT ![v] = row] /\ subnet' = subnet
    BY <1>2, <2>0 DEF EditVlan, Tables, RowsOK
  <2>. QED
    BY <2>1, <2>2, <2>3, OneVlanWritten
<1>3. ASSUME NEW ported \in BOOLEAN, SetPorted(v, ported) PROVE Tables'
  <2>0. PICK row : row = [vlan[v] EXCEPT !.ported = ported]
    OBVIOUS
  <2>1. row \in VlanRow /\ row.number = vlan[v].number /\ v \in LiveVlans
    BY <1>0, <1>3, <2>0 DEF SetPorted, VlanRow
  <2>2. \A w \in LiveVlans : w # v => vlan[w].number # row.number
    BY <2>1 DEF Tables, NumbersUnique
  <2>3. vlan' = [vlan EXCEPT ![v] = row] /\ subnet' = subnet
    BY <1>3, <2>0 DEF SetPorted, Tables, RowsOK
  <2>. QED
    BY <2>1, <2>2, <2>3, OneVlanWritten
<1>. QED
  BY <1>1, <1>2, <1>3

\* The links go with the VLAN.
LEMMA RemoveVlanKeeps ==
  ASSUME Tables, NEW v \in VlanIds, RemoveVlan(v) PROVE Tables'
<1>1. /\ vlan' \in [VlanIds -> VlanRow \cup {Unborn, Gone}] /\ vlan'[v] = Gone
      /\ \A w \in VlanIds : w # v => vlan'[w] = vlan[w]
  BY DEF RemoveVlan, Tables, RowsOK
<1>2. LiveVlans' = LiveVlans \ {v}
  BY <1>1 DEF LiveVlans, Gone
<1>3. ASSUME NEW s \in SubnetIds
      PROVE  /\ subnet'[s] \in SubnetRow \cup {Unborn, Gone}
             /\ s \in LiveSubnets' <=> s \in LiveSubnets
             /\ s \in LiveSubnets =>
                  /\ subnet'[s].cidr = subnet[s].cidr /\ subnet'[s].hosts = subnet[s].hosts
                  /\ subnet'[s].scopes = subnet[s].scopes
                  /\ subnet'[s].vlan \in LiveVlans' \cup {NoVlan}
  <2>1. CASE s \in LiveSubnets /\ subnet[s].vlan = v
    <3>1. subnet[s] \in SubnetRow
      BY <2>1, LiveRows DEF Tables
    <3>2. subnet'[s] = [subnet[s] EXCEPT !.vlan = NoVlan]
      BY <2>1 DEF RemoveVlan
    <3>. QED
      BY <2>1, <3>1, <3>2 DEF SubnetRow, LiveSubnets
  <2>2. CASE ~ (s \in LiveSubnets /\ subnet[s].vlan = v)
    <3>1. subnet'[s] = subnet[s]
      BY <2>2 DEF RemoveVlan
    <3>2. s \in LiveSubnets => subnet[s].vlan \in LiveVlans' \cup {NoVlan}
      BY <1>2, <2>2 DEF Tables, LinksAreLive
    <3>. QED
      BY <3>1, <3>2 DEF Tables, RowsOK, LiveSubnets
  <2>. QED
    BY <2>1, <2>2
<1>4. RowsOK'
  <2>1. subnet' = [s \in SubnetIds |-> subnet'[s]]
    BY DEF RemoveVlan
  <2>. QED
    BY <1>1, <1>3, <2>1 DEF RowsOK
<1>5. \A s \in LiveSubnets' : s \in SubnetIds
  BY DEF LiveSubnets
<1>6. SubnetsDisjoint' /\ ChildrenInside' /\ LinksAreLive'
  BY <1>3, <1>5 DEF Tables, SubnetsDisjoint, ChildrenInside, LinksAreLive
<1>7. NumbersUnique'
  BY <1>1, <1>2 DEF Tables, NumbersUnique, LiveVlans
<1>. QED
  BY <1>4, <1>6, <1>7 DEF Tables

LEMMA SubnetEditsKeep ==
  ASSUME Tables, NEW s \in SubnetIds,
         \/ \E k \in Cidrs, name \in Names, v \in VlanIds \cup {NoVlan} :
              AddSubnet(s, k, name, v) \/ EditSubnet(s, k, name, v)
         \/ \E a \in Addresses : Assign(s, a) \/ Unassign(s, a)
         \/ \E r \in Ranges : AddScope(s, r) \/ RemoveScope(s, r)
         \/ \E r, to \in Ranges : EditScope(s, r, to)
  PROVE  Tables'
<1>. DEFINE Inside(row) == row.hosts \cup UNION row.scopes \subseteq row.cidr
<1>0. /\ \A t \in LiveSubnets : t \in SubnetIds /\ subnet[t] \in SubnetRow
      /\ \A t \in LiveSubnets : t # s /\ s \in LiveSubnets =>
           ~ Overlap(subnet[s].cidr, subnet[t].cidr)
      /\ \A t \in LiveSubnets : Inside(subnet[t])
      /\ \A t \in LiveSubnets : subnet[t].vlan \in LiveVlans \cup {NoVlan}
  <2>1. \A t \in LiveSubnets : t \in SubnetIds /\ subnet[t] \in SubnetRow
    BY LiveRows DEF Tables
  <2>. QED
    BY <2>1 DEF Tables, SubnetsDisjoint, ChildrenInside, LinksAreLive
<1>1. ASSUME NEW k \in Cidrs, NEW name \in Names, NEW v \in VlanIds \cup {NoVlan},
             AddSubnet(s, k, name, v)
      PROVE  Tables'
  <2>0. PICK row : row = NewSubnet(k, name, v, {})
    OBVIOUS
  <2>1. row \in SubnetRow /\ Inside(row) /\ row.cidr = k /\ row.vlan \in LiveVlans \cup {NoVlan}
    BY <1>1, <2>0 DEF AddSubnet, NewSubnet, SubnetRow
  <2>2. \A t \in LiveSubnets : ~ Overlap(row.cidr, subnet[t].cidr)
    BY <1>1, <2>1 DEF AddSubnet, CidrAvailable
  <2>3. subnet' = [subnet EXCEPT ![s] = row] /\ vlan' = vlan
    BY <1>1, <2>0 DEF AddSubnet
  <2>. QED
    BY <2>1, <2>2, <2>3, OneSubnetWritten
<1>2. ASSUME NEW k \in Cidrs, NEW name \in Names, NEW v \in VlanIds \cup {NoVlan},
             EditSubnet(s, k, name, v)
      PROVE  Tables'
  <2>0. PICK row : row = [subnet[s] EXCEPT !.cidr = k, !.name = name, !.vlan = v]
    OBVIOUS
  <2>1. /\ row \in SubnetRow /\ row.cidr = k /\ row.vlan \in LiveVlans \cup {NoVlan}
        /\ row.hosts = subnet[s].hosts /\ row.scopes = subnet[s].scopes
    BY <1>0, <1>2, <2>0 DEF EditSubnet, SubnetRow
  <2>2. Inside(row)
    <3>1. CASE k = subnet[s].cidr
      BY <1>0, <1>2, <2>1, <3>1 DEF EditSubnet
    <3>2. CASE k # subnet[s].cidr
      BY <1>2, <2>1, <3>2 DEF EditSubnet, ChildrenFit
    <3>. QED
      BY <3>1, <3>2
  <2>3. \A t \in LiveSubnets : t # s => ~ Overlap(row.cidr, subnet[t].cidr)
    <3>1. CASE k = subnet[s].cidr
      BY <1>0, <1>2, <2>1, <3>1 DEF EditSubnet
    <3>2. CASE k # subnet[s].cidr
      BY <1>2, <2>1, <3>2 DEF EditSubnet, CidrAvailable
    <3>. QED
      BY <3>1, <3>2
  <2>4. subnet' = [subnet EXCEPT ![s] = row] /\ vlan' = vlan
    BY <1>2, <2>0 DEF EditSubnet, Tables, RowsOK
  <2>. QED
    BY <2>1, <2>2, <2>3, <2>4, OneSubnetWritten
\* The others write the children of a row that they leave where it is.
<1>3. ASSUME s \in LiveSubnets, NEW hosts \in SUBSET Addresses, NEW scopes \in SUBSET Ranges,
             hosts \cup UNION scopes \subseteq subnet[s].cidr,
             subnet' = [subnet EXCEPT ![s] =
                          [subnet[s] EXCEPT !.hosts = hosts, !.scopes = scopes]],
             vlan' = vlan
      PROVE  Tables'
  <2>0. PICK row : row = [subnet[s] EXCEPT !.hosts = hosts, !.scopes = scopes]
    OBVIOUS
  <2>1. /\ row \in SubnetRow /\ row.cidr = subnet[s].cidr /\ row.vlan = subnet[s].vlan
        /\ row.hosts = hosts /\ row.scopes = scopes
    BY <1>0, <1>3, <2>0 DEF SubnetRow
  <2>2. Inside(row) /\ row.vlan \in LiveVlans \cup {NoVlan}
    BY <1>0, <1>3, <2>1
  <2>3. \A t \in LiveSubnets : t # s => ~ Overlap(row.cidr, subnet[t].cidr)
    BY <1>0, <1>3, <2>1
  <2>4. subnet' = [subnet EXCEPT ![s] = row] /\ vlan' = vlan
    BY <1>3, <2>0
  <2>. QED
    BY <2>1, <2>2, <2>3, <2>4, OneSubnetWritten
<1>4. ASSUME s \in LiveSubnets, NEW hosts \in SUBSET Addresses, hosts \subseteq subnet[s].cidr,
             subnet' = [subnet EXCEPT ![s].hosts = hosts], vlan' = vlan
      PROVE  Tables'
  <2>0. PICK scopes : scopes = subnet[s].scopes
    OBVIOUS
  <2>1. scopes \in SUBSET Ranges /\ UNION scopes \subseteq subnet[s].cidr
    BY <1>0, <1>4, <2>0 DEF SubnetRow
  <2>2. [subnet[s] EXCEPT !.hosts = hosts] = [subnet[s] EXCEPT !.hosts = hosts, !.scopes = scopes]
    BY <1>0, <1>4, <2>0 DEF SubnetRow
  <2>3. subnet' = [subnet EXCEPT ![s] =
                    [subnet[s] EXCEPT !.hosts = hosts, !.scopes = scopes]]
    BY <1>4, <2>2
  <2>. QED
    BY <1>3, <1>4, <2>1, <2>3
<1>5. ASSUME s \in LiveSubnets, NEW scopes \in SUBSET Ranges, UNION scopes \subseteq subnet[s].cidr,
             subnet' = [subnet EXCEPT ![s].scopes = scopes], vlan' = vlan
      PROVE  Tables'
  <2>0. PICK hosts : hosts = subnet[s].hosts
    OBVIOUS
  <2>1. hosts \in SUBSET Addresses /\ hosts \subseteq subnet[s].cidr
    BY <1>0, <1>5, <2>0 DEF SubnetRow
  <2>2. [subnet[s] EXCEPT !.scopes = scopes] = [subnet[s] EXCEPT !.hosts = hosts, !.scopes = scopes]
    BY <1>0, <1>5, <2>0 DEF SubnetRow
  <2>3. subnet' = [subnet EXCEPT ![s] =
                    [subnet[s] EXCEPT !.hosts = hosts, !.scopes = scopes]]
    BY <1>5, <2>2
  <2>. QED
    BY <1>3, <1>5, <2>1, <2>3
<1>6. s \in LiveSubnets =>
        /\ subnet[s].hosts \subseteq Addresses /\ subnet[s].hosts \subseteq subnet[s].cidr
        /\ subnet[s].scopes \subseteq Ranges /\ UNION subnet[s].scopes \subseteq subnet[s].cidr
  BY <1>0 DEF SubnetRow
<1>. HIDE DEF Inside
<1>7. ASSUME NEW a \in Addresses, Assign(s, a) PROVE Tables'
  <2>0. PICK hosts : hosts = subnet[s].hosts \cup {a}
    OBVIOUS
  <2>1. /\ s \in LiveSubnets /\ vlan' = vlan
        /\ subnet' = [subnet EXCEPT ![s].hosts = hosts]
        /\ hosts \in SUBSET Addresses /\ hosts \subseteq subnet[s].cidr
    BY <1>6, <1>7, <2>0 DEF Assign
  <2>. QED
    BY <1>4, <2>1
<1>8. ASSUME NEW a \in Addresses, Unassign(s, a) PROVE Tables'
  <2>0. PICK hosts : hosts = subnet[s].hosts \ {a}
    OBVIOUS
  <2>1. /\ s \in LiveSubnets /\ vlan' = vlan
        /\ subnet' = [subnet EXCEPT ![s].hosts = hosts]
        /\ hosts \in SUBSET Addresses /\ hosts \subseteq subnet[s].cidr
    BY <1>6, <1>8, <2>0 DEF Unassign
  <2>. QED
    BY <1>4, <2>1
<1>9. ASSUME NEW r \in Ranges, AddScope(s, r) PROVE Tables'
  <2>0. PICK scopes : scopes = subnet[s].scopes \cup {r}
    OBVIOUS
  <2>1. /\ s \in LiveSubnets /\ vlan' = vlan /\ r \subseteq subnet[s].cidr
        /\ subnet' = [subnet EXCEPT ![s].scopes = scopes]
        /\ scopes \in SUBSET Ranges
    BY <1>6, <1>9, <2>0 DEF AddScope
  <2>2. UNION scopes \subseteq subnet[s].cidr
    BY <1>6, <2>0, <2>1
  <2>. QED
    BY <1>5, <2>1, <2>2
<1>10. ASSUME NEW r \in Ranges, RemoveScope(s, r) PROVE Tables'
  <2>0. PICK scopes : scopes = subnet[s].scopes \ {r}
    OBVIOUS
  <2>1. /\ s \in LiveSubnets /\ vlan' = vlan
        /\ subnet' = [subnet EXCEPT ![s].scopes = scopes]
        /\ scopes \in SUBSET Ranges
    BY <1>6, <1>10, <2>0 DEF RemoveScope
  <2>2. UNION scopes \subseteq subnet[s].cidr
    BY <1>6, <2>0, <2>1
  <2>. QED
    BY <1>5, <2>1, <2>2
<1>11. ASSUME NEW r \in Ranges, NEW to \in Ranges, EditScope(s, r, to) PROVE Tables'
  <2>0. PICK scopes : scopes = (subnet[s].scopes \ {r}) \cup {to}
    OBVIOUS
  <2>1. /\ s \in LiveSubnets /\ vlan' = vlan /\ to \subseteq subnet[s].cidr
        /\ subnet' = [subnet EXCEPT ![s].scopes = scopes]
        /\ scopes \in SUBSET Ranges
    BY <1>6, <1>11, <2>0 DEF EditScope
  <2>2. UNION scopes \subseteq subnet[s].cidr
    BY <1>6, <2>0, <2>1
  <2>. QED
    BY <1>5, <2>1, <2>2
<1>. QED
  BY <1>1, <1>2, <1>7, <1>8, <1>9, <1>10, <1>11

LEMMA RemoveSubnetKeeps ==
  ASSUME Tables, NEW s \in SubnetIds, RemoveSubnet(s) PROVE Tables'
<1>1. /\ subnet' \in [SubnetIds -> SubnetRow \cup {Unborn, Gone}] /\ subnet'[s] = Gone
      /\ \A t \in SubnetIds : t # s => subnet'[t] = subnet[t]
      /\ vlan' = vlan
  BY DEF RemoveSubnet, Tables, RowsOK
<1>2. LiveSubnets' = LiveSubnets \ {s} /\ LiveVlans' = LiveVlans
  BY <1>1 DEF LiveSubnets, LiveVlans, Gone
<1>3. \A t \in LiveSubnets' : t \in LiveSubnets /\ subnet'[t] = subnet[t]
  BY <1>1, <1>2 DEF LiveSubnets
<1>4. SubnetsDisjoint' /\ ChildrenInside' /\ LinksAreLive'
  BY <1>2, <1>3 DEF Tables, SubnetsDisjoint, ChildrenInside, LinksAreLive
<1>5. RowsOK' /\ NumbersUnique'
  BY <1>1, <1>2 DEF Tables, RowsOK, NumbersUnique
<1>. QED
  BY <1>4, <1>5 DEF Tables

-----------------------------------------------------------------------------
(***************************************************************************)
(* The invariant, and what follows from it.                                *)
(***************************************************************************)
\* What an unattended run applies is sound: it was computed from these tables.
LEMMA UnattendedIsSound ==
  ASSUME RowsOK, NEW policy \in Policies, NEW c \in Collections
  PROVE  /\ Sound(Preview(policy, c))
         /\ \A kinds : Sound(IntegrationPreview(policy, Pulled(c, kinds)))
<1>1. CollectionOK(c)
  BY CollectionAssumption
<1>2. \A kinds : CollectionOK(Pulled(c, kinds))
  BY <1>1, PulledIsCollected
<1>3. \A kinds : Sound(IntegrationPreview(policy, Pulled(c, kinds)))
  <2>. TAKE kinds
  <2>1. CollectionOK(Pulled(c, kinds))
    BY <1>2
  <2>. QED
    BY <2>1, IntegrationPreviewIsSound
<1>. QED
  BY <1>1, <1>3, PreviewIsSound

LEMMA NetworkInitially == NetworkInit => NetworkInv
<1>. SUFFICES ASSUME NetworkInit PROVE NetworkInv
  OBVIOUS
<1>1. LiveVlans = {} /\ LiveSubnets = {}
  BY DEF NetworkInit, LiveVlans, LiveSubnets, Unborn
<1>2. RowsOK
  BY DEF NetworkInit, RowsOK
<1>. QED
  BY <1>1, <1>2, BoundAssumption
     DEF NetworkInit, NetworkInv, Tables, SubnetsDisjoint, ChildrenInside, LinksAreLive, NumbersUnique

LEMMA SyncsKeep ==
  ASSUME NetworkInv, UnattendedSync \/ ReviewedSync
  PROVE  NetworkInv'
<1>0. Tables /\ (\A p \in previews : Sound(p)) /\ RowsOK
  BY DEF NetworkInv, Tables
<1>1. ASSUME NEW policy \in Policies, NEW c \in Collections, ScheduledSync(policy, c)
      PROVE  Tables' /\ UNCHANGED <<previews, edits>>
  <2>1. PICK p : p = Preview(policy, c)
    OBVIOUS
  <2>2. Sound(p) /\ Apply(p, policy, FALSE)
    BY <1>0, <1>1, <2>1, UnattendedIsSound DEF ScheduledSync
  <2>. QED
    BY <1>0, <1>1, <2>2, ApplyKeeps DEF ScheduledSync
<1>2. ASSUME NEW policy \in Policies, NEW c \in Collections, NEW kinds \in Kinds,
             AutoSync(policy, c, kinds)
      PROVE  Tables' /\ UNCHANGED <<previews, edits>>
  <2>1. PICK p : p = IntegrationPreview(policy, Pulled(c, kinds))
    OBVIOUS
  <2>2. Sound(p) /\ Apply(p, policy, FALSE)
    BY <1>0, <1>2, <2>1, UnattendedIsSound DEF AutoSync
  <2>. QED
    BY <1>0, <1>2, <2>2, ApplyKeeps DEF AutoSync
<1>3. ASSUME NEW p \in previews, NEW policy \in Policies, NEW allowDeletes \in BOOLEAN,
             SnmpApply(p, policy, allowDeletes)
      PROVE  Tables' /\ UNCHANGED <<previews, edits>>
  BY <1>0, <1>3, ApplyKeeps DEF SnmpApply
<1>4. ASSUME NEW p \in previews, IntegrationApply(p)
      PROVE  Tables' /\ previews' \subseteq previews /\ UNCHANGED edits
  BY <1>0, <1>4, ApplyKeeps DEF IntegrationApply
<1>5. Tables' /\ previews' \subseteq previews /\ UNCHANGED edits
  BY <1>1, <1>2, <1>3, <1>4 DEF UnattendedSync, ReviewedSync
<1>6. \A p \in previews' : Sound(p)
  BY <1>0, <1>5
<1>. QED
  BY <1>5, <1>6 DEF NetworkInv, Sound, PreviewOK

LEMMA PreviewingKeeps ==
  ASSUME NetworkInv, Previewing
  PROVE  NetworkInv'
<1>0. Tables /\ (\A p \in previews : Sound(p)) /\ RowsOK
  BY DEF NetworkInv, Tables
<1>1. ASSUME NEW policy \in Policies, NEW c \in Collections, SnmpPreview(policy, c)
      PROVE  \A p \in previews' : Sound(p)
  BY <1>0, <1>1, UnattendedIsSound DEF SnmpPreview
<1>2. ASSUME NEW policy \in Policies, NEW c \in Collections, NEW kinds \in Kinds,
             FetchPreview(policy, c, kinds)
      PROVE  \A p \in previews' : Sound(p)
  BY <1>0, <1>2, UnattendedIsSound DEF FetchPreview
<1>3. ASSUME NEW p \in previews, Discard(p)
      PROVE  \A q \in previews' : Sound(q)
  BY <1>0, <1>3 DEF Discard
<1>4. UNCHANGED <<vlan, subnet, edits>>
  BY DEF Previewing, SnmpPreview, FetchPreview, Discard
<1>5. Tables'
  BY <1>0, <1>4 DEF Tables, RowsOK, SubnetsDisjoint, ChildrenInside, LinksAreLive,
     NumbersUnique, LiveVlans, LiveSubnets
<1>6. \A p \in previews' : Sound(p)
  BY <1>1, <1>2, <1>3 DEF Previewing
<1>. QED
  BY <1>4, <1>5, <1>6 DEF NetworkInv, Sound, PreviewOK

LEMMA RoutesKeep ==
  ASSUME NetworkInv, VlanRoute \/ SubnetRoute
  PROVE  NetworkInv'
<1>0. Tables
  BY DEF NetworkInv
<1>1. CASE VlanRoute
  <2>1. PICK v \in VlanIds :
          \/ \E n \in Numbers, name \in Names : AddVlan(v, n, name) \/ EditVlan(v, n, name)
          \/ RemoveVlan(v)
          \/ \E ported \in BOOLEAN : SetPorted(v, ported)
    BY <1>1 DEF VlanRoute
  <2>2. Tables'
    BY <1>0, <2>1, VlanEditsKeep, RemoveVlanKeeps
  <2>3. Edit
    BY <2>1 DEF AddVlan, EditVlan, RemoveVlan, SetPorted
  <2>. QED
    BY <2>2, <2>3, BoundAssumption DEF NetworkInv, Edit, Sound, PreviewOK
<1>2. CASE SubnetRoute
  <2>1. PICK s \in SubnetIds :
          \/ \E k \in Cidrs, name \in Names, v \in VlanIds \cup {NoVlan} :
               AddSubnet(s, k, name, v) \/ EditSubnet(s, k, name, v)
          \/ RemoveSubnet(s)
          \/ \E a \in Addresses : Assign(s, a) \/ Unassign(s, a)
          \/ \E r \in Ranges : AddScope(s, r) \/ RemoveScope(s, r)
          \/ \E r, to \in Ranges : EditScope(s, r, to)
    BY <1>2 DEF SubnetRoute
  <2>2. Tables'
    BY <1>0, <2>1, SubnetEditsKeep, RemoveSubnetKeeps
  <2>3. Edit \/ UNCHANGED <<previews, edits>>
    BY <2>1 DEF AddSubnet, EditSubnet, RemoveSubnet, Assign, Unassign, AddScope, RemoveScope,
       EditScope
  <2>. QED
    BY <2>2, <2>3, BoundAssumption DEF NetworkInv, Edit, Sound, PreviewOK
<1>. QED
  BY <1>1, <1>2

LEMMA NetworkInductive == NetworkInv /\ [NetworkNext]_networkVars => NetworkInv'
<1>. SUFFICES ASSUME NetworkInv, [NetworkNext]_networkVars PROVE NetworkInv'
  OBVIOUS
<1>1. CASE UNCHANGED networkVars
  BY <1>1 DEF networkVars, NetworkInv, Tables, RowsOK, SubnetsDisjoint, ChildrenInside, LinksAreLive,
     NumbersUnique, LiveVlans, LiveSubnets, Sound, PreviewOK
<1>. QED
  BY <1>1, SyncsKeep, PreviewingKeeps, RoutesKeep DEF NetworkNext

LEMMA NetworkInvariance == NetworkSpec => []NetworkInv
  BY NetworkInitially, NetworkInductive, PTL DEF NetworkSpec

\* However long a preview was held and whatever the routes did meanwhile, the
\* tables stay consistent: no subnets overlap, their children lie inside them,
\* and no link outlives its VLAN.
THEOREM TablesStayConsistent == NetworkSpec => []TablesConsistent
<1>1. NetworkInv => TablesConsistent
  BY DEF NetworkInv, Tables, RowsOK, TablesConsistent, NetworkTypeOK, Sound
<1>. QED
  BY <1>1, NetworkInvariance, PTL

-----------------------------------------------------------------------------
(***************************************************************************)
(* What a sync takes away, and what it delivers.                           *)
(***************************************************************************)
NothingTaken ==
  /\ \A v \in LiveVlans : vlan'[v].state = "live"
  /\ \A s \in LiveSubnets : subnet'[s].state = "live"

LEMMA UnconfirmedTakesNothing ==
  ASSUME Tables, NEW p, Sound(p), NEW policy, Apply(p, policy, FALSE)
  PROVE  NothingTaken
<1>1. PICK doomed : doomed = Doomed(p, policy, FALSE)
  OBVIOUS
<1>2. PICK mintV, mintS : Commit(p, policy, doomed, mintV, mintS)
  BY <1>1, ApplyIsCommit
<1>3. DoomedOK(p, policy, doomed) /\ doomed.vlans = {} /\ doomed.subnets = {}
  BY <1>1, DoomedIsOK
<1>4. VlansArrived(p, policy, doomed, mintV)
  BY <1>2, <1>3, VlansAfter DEF Tables
<1>5. \A s \in LiveSubnets : SubnetKept(p, policy, doomed, mintV, s)
  BY <1>2, <1>3, SubnetIsKept
<1>. QED
  BY <1>3, <1>4, <1>5 DEF NothingTaken, VlansArrived, SubnetKept, SubnetRow

NothingOverwritten ==
  /\ \A v \in LiveVlans : vlan'[v] = vlan[v]
  /\ \A s \in LiveSubnets :
       /\ subnet'[s].state = "live"
       /\ subnet'[s].cidr = subnet[s].cidr /\ subnet'[s].name = subnet[s].name
       /\ subnet'[s].hosts = subnet[s].hosts /\ subnet[s].scopes \subseteq subnet'[s].scopes
       /\ subnet[s].vlan \in {NoVlan, subnet'[s].vlan}

LEMMA MergeOverwritesNothing ==
  ASSUME Tables, NEW p, Sound(p), NEW allowDeletes, Apply(p, "merge", allowDeletes)
  PROVE  NothingOverwritten
<1>1. PICK doomed : doomed = Doomed(p, "merge", allowDeletes)
  OBVIOUS
<1>2. PICK mintV, mintS : Commit(p, "merge", doomed, mintV, mintS)
  BY <1>1, ApplyIsCommit
<1>3. DoomedOK(p, "merge", doomed)
  BY <1>1, DoomedIsOK
<1>4. doomed.vlans = {} /\ doomed.subnets = {}
  BY <1>3 DEF DoomedOK
<1>5. VlansArrived(p, "merge", doomed, mintV)
  BY <1>2, <1>3, VlansAfter DEF Tables
<1>6. \A s \in LiveSubnets : SubnetKept(p, "merge", doomed, mintV, s)
  BY <1>2, <1>3, <1>4, SubnetIsKept
<1>7. \A v \in LiveVlans : vlan'[v] = vlan[v]
  BY <1>4, <1>5 DEF VlansArrived
<1>. QED
  BY <1>6, <1>7 DEF NothingOverwritten, SubnetKept, SubnetRow

\* Only a mirror that was confirmed takes anything away: neither the scheduled
\* syncs nor a merge, nor an unconfirmed apply of a preview however stale.
THEOREM OnlyConfirmedMirrorsEverTake == NetworkSpec => OnlyConfirmedMirrorsTake
<1>1. ASSUME NetworkInv, UnconfirmedSync PROVE NothingTaken
  <2>0. Tables /\ RowsOK /\ \A p \in previews : Sound(p)
    BY <1>1 DEF NetworkInv, Tables
  <2>1. PICK p, policy : Sound(p) /\ Apply(p, policy, FALSE)
    <3>1. ASSUME NEW policy \in Policies, NEW c \in Collections, ScheduledSync(policy, c)
          PROVE  \E p, q : Sound(p) /\ Apply(p, q, FALSE)
      BY <2>0, <3>1, UnattendedIsSound DEF ScheduledSync
    <3>2. ASSUME NEW policy \in Policies, NEW c \in Collections, NEW kinds \in Kinds,
                 AutoSync(policy, c, kinds)
          PROVE  \E p, q : Sound(p) /\ Apply(p, q, FALSE)
      BY <2>0, <3>2, UnattendedIsSound DEF AutoSync
    <3>3. ASSUME NEW p \in previews, NEW policy \in Policies, SnmpApply(p, policy, FALSE)
          PROVE  \E r, q : Sound(r) /\ Apply(r, q, FALSE)
      BY <2>0, <3>3 DEF SnmpApply
    <3>4. ASSUME NEW p \in previews, IntegrationApply(p)
          PROVE  \E r, q : Sound(r) /\ Apply(r, q, FALSE)
      BY <2>0, <3>4 DEF IntegrationApply
    <3>. QED
      BY <1>1, <3>1, <3>2, <3>3, <3>4 DEF UnconfirmedSync, UnattendedSync
  <2>. QED
    BY <2>0, <2>1, UnconfirmedTakesNothing
<1>2. ASSUME NetworkInv, MergeStep PROVE NothingOverwritten
  <2>0. Tables /\ RowsOK /\ \A p \in previews : Sound(p)
    BY <1>2 DEF NetworkInv, Tables
  <2>1. PICK p, allow : Sound(p) /\ Apply(p, "merge", allow)
    <3>0. "merge" \in Policies
      BY DEF Policies
    <3>1. ASSUME NEW c \in Collections, ScheduledSync("merge", c)
          PROVE  \E p, q : Sound(p) /\ Apply(p, "merge", q)
      BY <2>0, <3>0, <3>1, UnattendedIsSound DEF ScheduledSync
    <3>2. ASSUME NEW c \in Collections, NEW kinds \in Kinds, AutoSync("merge", c, kinds)
          PROVE  \E p, q : Sound(p) /\ Apply(p, "merge", q)
      BY <2>0, <3>0, <3>2, UnattendedIsSound DEF AutoSync
    <3>3. ASSUME NEW p \in previews, NEW allow \in BOOLEAN, SnmpApply(p, "merge", allow)
          PROVE  \E r, q : Sound(r) /\ Apply(r, "merge", q)
      BY <2>0, <3>3 DEF SnmpApply
    <3>4. ASSUME NEW p \in previews, p.policy = "merge", IntegrationApply(p)
          PROVE  \E r, q : Sound(r) /\ Apply(r, "merge", q)
      BY <2>0, <3>4 DEF IntegrationApply
    <3>. QED
      BY <1>2, <3>1, <3>2, <3>3, <3>4 DEF MergeStep
  <2>. QED
    BY <2>0, <2>1, MergeOverwritesNothing
<1>. QED
  BY <1>1, <1>2, NetworkInvariance, PTL
     DEF OnlyConfirmedMirrorsTake, NothingTaken, NothingOverwritten

LEMMA ApplyDelivers ==
  ASSUME Tables, NEW p, Sound(p), NEW policy, NEW allowDeletes,
         Apply(p, policy, allowDeletes), NEW k \in DOMAIN p.newSubnets
  PROVE  Arrives(k, p.newSubnets[k])
<1>1. PICK doomed : doomed = Doomed(p, policy, allowDeletes)
  OBVIOUS
<1>2. PICK mintV, mintS : Commit(p, policy, doomed, mintV, mintS)
  BY <1>1, ApplyIsCommit
<1>3. DoomedOK(p, policy, doomed)
  BY <1>1, DoomedIsOK
<1>4. VlansArrived(p, policy, doomed, mintV)
  BY <1>2, <1>3, VlansAfter DEF Tables
<1>5. SubnetMade(p, mintV, k, mintS[k])
  BY <1>2, <1>3, SubnetIsMade
<1>6. NumbersUnique'
  BY <1>2, <1>3, ApplyKeepsRows
<1>. DEFINE n == p.newSubnets[k].number
            links == LinkTo(n, mintV)
<1>7. links \cap doomed.vlans = {} /\ DOMAIN mintV = DOMAIN p.newVlans
  BY <1>2 DEF Commit, InsertsSucceed, Mints
<1>8. ASSUME NEW v \in links
      PROVE  v \in LiveVlans' /\ vlan'[v].number = n
  <2>1. (v \in LiveVlans /\ vlan[v].number = n) \/ (n \in DOMAIN p.newVlans /\ v = mintV[n])
    BY <1>7 DEF LinkTo, VlanOf
  <2>. QED
    BY <1>4, <1>7, <2>1 DEF VlansArrived, LiveVlans, UnbornVlans
<1>9. ASSUME NEW v \in LiveVlans', vlan'[v].number = n
      PROVE  v \in links
  <2>1. CASE v \in LiveVlans \ doomed.vlans
    BY <1>4, <1>9, <2>1 DEF VlansArrived, LinkTo, VlanOf
  <2>2. ASSUME NEW m \in DOMAIN p.newVlans, v = mintV[m] PROVE v \in links
    BY <1>4, <1>7, <1>9, <2>2 DEF VlansArrived, LinkTo
  <2>. QED
    BY <1>4, <2>1, <2>2 DEF VlansArrived
<1>. HIDE DEF links, n
<1>10. ASSUME NEW v \in LiveVlans', vlan'[v].number = n
       PROVE  subnet'[mintS[k]].vlan = v
  <2>1. subnet'[mintS[k]].vlan = TheLink(links, NoVlan)
    BY <1>5 DEF SubnetMade, links, n
  <2>2. TheLink(links, NoVlan) \in links
    BY <1>9, <1>10, TheLinkIsOne
  <2>. QED
    BY <1>6, <1>8, <1>10, <2>1, <2>2 DEF NumbersUnique
<1>11. /\ mintS[k] \in SubnetIds /\ subnet'[mintS[k]].state = "live"
       /\ subnet'[mintS[k]].cidr = k
  BY <1>5 DEF SubnetMade, SubnetRow, UnbornSubnets
<1>. QED
  BY <1>10, <1>11 DEF Arrives, LiveVlans, n

LEMMA ScheduledDelivers ==
  ASSUME Tables, NEW policy \in Policies, NEW c \in Collections, ScheduledSync(policy, c)
  PROVE  /\ \A n \in DOMAIN c.vlans : \E v \in VlanIds :
              vlan'[v].state = "live" /\ vlan'[v].number = n
         /\ \A k \in DOMAIN c.subnets : \E s \in SubnetIds :
              subnet'[s].state = "live" /\ subnet'[s].cidr = k
<1>0. PICK p : p = Preview(policy, c)
  OBVIOUS
<1>1. Sound(p) /\ Apply(p, policy, FALSE)
  BY <1>0, UnattendedIsSound DEF ScheduledSync, Tables
<1>2. PICK doomed : doomed = Doomed(p, policy, FALSE)
  OBVIOUS
<1>3. PICK mintV, mintS : Commit(p, policy, doomed, mintV, mintS)
  BY <1>1, <1>2, ApplyIsCommit
<1>4. DoomedOK(p, policy, doomed) /\ doomed.vlans = {} /\ doomed.subnets = {}
  BY <1>1, <1>2, DoomedIsOK
<1>5. VlansArrived(p, policy, doomed, mintV)
  BY <1>1, <1>3, <1>4, VlansAfter DEF Tables
<1>6. /\ DOMAIN p.newVlans = {n \in DOMAIN c.vlans : VlanOf(n) = {}}
      /\ DOMAIN p.newSubnets = {k \in DOMAIN c.subnets : SubnetOf(k) = {}}
  BY <1>0 DEF Preview
<1>7. ASSUME NEW n \in DOMAIN c.vlans
      PROVE  \E v \in VlanIds : vlan'[v].state = "live" /\ vlan'[v].number = n
  <2>1. CASE VlanOf(n) = {}
    <3>1. n \in DOMAIN p.newVlans
      BY <1>6, <2>1
    <3>. QED
      BY <1>5, <3>1 DEF VlansArrived, UnbornVlans
  <2>2. CASE VlanOf(n) # {}
    <3>1. PICK v \in LiveVlans : vlan[v].number = n
      BY <2>2 DEF VlanOf
    <3>. QED
      BY <1>4, <1>5, <3>1 DEF VlansArrived, LiveVlans
  <2>. QED
    BY <2>1, <2>2
<1>8. ASSUME NEW k \in DOMAIN c.subnets
      PROVE  \E s \in SubnetIds : subnet'[s].state = "live" /\ subnet'[s].cidr = k
  <2>1. CASE SubnetOf(k) = {}
    <3>1. k \in DOMAIN p.newSubnets
      BY <1>6, <2>1
    <3>2. SubnetMade(p, mintV, k, mintS[k])
      BY <1>1, <1>3, <1>4, <3>1, SubnetIsMade
    <3>. QED
      BY <3>2 DEF SubnetMade, SubnetRow, UnbornSubnets
  <2>2. CASE SubnetOf(k) # {}
    <3>1. PICK s \in LiveSubnets : subnet[s].cidr = k
      BY <2>2 DEF SubnetOf
    <3>2. SubnetKept(p, policy, doomed, mintV, s)
      BY <1>1, <1>3, <1>4, SubnetIsKept
    <3>. QED
      BY <3>1, <3>2 DEF SubnetKept, SubnetRow, LiveSubnets
  <2>. QED
    BY <2>1, <2>2
<1>. QED
  BY <1>7, <1>8

\* An apply that succeeds delivers what its preview listed, linked to the VLANs
\* of the reported numbers, and a scheduled run what the device reported.
THEOREM SyncAlwaysDelivers == NetworkSpec => SyncDelivers
<1>1. ASSUME NetworkInv, NEW p \in previews,
             \/ \E policy \in Policies, allowDeletes \in BOOLEAN :
                  SnmpApply(p, policy, allowDeletes)
             \/ IntegrationApply(p),
             NEW k \in DOMAIN p.newSubnets
      PROVE  Arrives(k, p.newSubnets[k])
  <2>1. PICK policy, allow : Apply(p, policy, allow)
    BY <1>1 DEF SnmpApply, IntegrationApply
  <2>. QED
    BY <1>1, <2>1, ApplyDelivers DEF NetworkInv
<1>2. ASSUME NetworkInv, NEW policy \in Policies, NEW c \in Collections, ScheduledSync(policy, c)
      PROVE  /\ \A n \in DOMAIN c.vlans : \E v \in VlanIds :
                  vlan'[v].state = "live" /\ vlan'[v].number = n
             /\ \A k \in DOMAIN c.subnets : \E s \in SubnetIds :
                  subnet'[s].state = "live" /\ subnet'[s].cidr = k
  BY <1>2, ScheduledDelivers DEF NetworkInv
<1>. DEFINE Delivered ==
  /\ \A p \in previews :
       ((\E policy \in Policies, allowDeletes \in BOOLEAN :
           SnmpApply(p, policy, allowDeletes)) \/ IntegrationApply(p))
         => \A k \in DOMAIN p.newSubnets : Arrives(k, p.newSubnets[k])
  /\ \A policy \in Policies, c \in Collections :
       ScheduledSync(policy, c) =>
         /\ \A n \in DOMAIN c.vlans : \E v \in VlanIds :
              vlan'[v].state = "live" /\ vlan'[v].number = n
         /\ \A k \in DOMAIN c.subnets :
              \E s \in SubnetIds :
                subnet'[s].state = "live" /\ subnet'[s].cidr = k
<1>3. NetworkInv => Delivered
  BY <1>1, <1>2
<1>. QED
  BY <1>3, NetworkInvariance, PTL DEF SyncDelivers

=============================================================================
