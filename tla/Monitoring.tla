------------------------------ MODULE Monitoring ------------------------------
(***************************************************************************)
(* Health checks of one device: the monitoring loop, checks on request and *)
(* SNMP link traps, the device status they roll up to, and the alerts they *)
(* send (server/lib/monitoring.ts, alerts.ts, snmp-traps.ts and            *)
(* server/routes/monitoring.ts).                                           *)
(*                                                                         *)
(* A pass of the loop, a request and a trap are jobs.  A job handles its   *)
(* monitors one after the other, awaiting the probe and then the alert of  *)
(* one before it turns to the next.  Nothing keeps two jobs from handling  *)
(* the same monitor at once: each decides with the row that it read before *)
(* its await.                                                              *)
(*                                                                         *)
(* Time is a natural number; 0 stands for a null timestamp.                *)
(***************************************************************************)
EXTENDS Integers, Sequences

CONSTANTS
  Monitors,         \* ids of monitors of the device
  Order,            \* the order of listMonitors
  Existing,         \* the monitors that exist at first
  Interfaces,       \* the monitors that link traps are about
  Jobs,             \* bound: jobs at a time
  Every,            \* intervalMs of the monitors, and of the loop
  RepeatEvery,      \* repeatIntervalMinutes
  DedupeWindow,     \* DEDUPE_WINDOW_MS
  SettingsChoices,  \* alert settings that an administrator may choose
  MaxTime,          \* bound on the clock
  MaxEdits          \* bound: edits by users and restarts

AlertSettings ==
  [enabled : BOOLEAN, onDown : BOOLEAN, onRecovery : BOOLEAN, repeat : BOOLEAN]

ASSUME MonitorAssumption ==
  /\ Existing \subseteq Monitors /\ Interfaces \subseteq Monitors
  /\ \A m \in Monitors : \E i \in DOMAIN Order : Order[i] = m
ASSUME SettingsAssumption == SettingsChoices \subseteq AlertSettings
ASSUME TimeAssumption ==
  /\ Every \in Nat \ {0} /\ RepeatEvery \in Nat \ {0}
  /\ DedupeWindow \in Nat \ {0} /\ MaxTime \in Nat \ {0} /\ MaxEdits \in Nat

VARIABLES
  now,       \* the wall clock
  monitor,   \* table deviceMonitors
  status,    \* devices.status, or "gone"
  settings,  \* appSettings: alertSettings
  job,       \* the jobs under way
  nextPass,  \* when the interval fires next
  heard,     \* dedupeCache: when a trap was last heard; a stale entry is
             \* dropped at once
  told,      \* history: monitors, not excused, whose present outage was notified
  excused,   \* history: monitors that two jobs handled at once, that a
             \* restart cut off while alerting, or that reported an outage
             \* while alerts were off
  edits      \* edits and restarts so far

vars == <<now, monitor, status, settings, job, nextPass, heard, told, excused,
          edits>>

Results == {"online", "offline", "unknown"}
LinkResults == {"online", "offline"}
Exempt == {"maintenance", "gone"}

\* A row: state "unborn", "live" or "gone"; result one of Results or "none";
\* checkedAt and alertAt are 0 for never.
NewMonitor(state, enabled) ==
  [state |-> state, enabled |-> enabled, result |-> "none", checkedAt |-> 0,
   alertAt |-> 0]

Gone == NewMonitor("gone", FALSE)

Live(m) == m \in Monitors /\ monitor[m].state = "live"
Active(m) == Live(m) /\ monitor[m].enabled
ActiveMonitors == {m \in Monitors : Active(m)}

(***************************************************************************)
(* Jobs.  todo holds the monitors still to be handled, each with the       *)
(* lastCheckAt that decides whether it is due: that of the list a pass of  *)
(* the loop began with.  Requests and traps do not ask; theirs is 0.       *)
(***************************************************************************)
Idle == [phase |-> "idle"]

Turn(kind, todo, link) ==
  IF todo = <<>> THEN Idle
  ELSE [phase |-> "turn", kind |-> kind, todo |-> todo, link |-> link]

Listed(set, seen) ==
  LET ids == SelectSeq(Order, LAMBDA m : m \in set)
  IN [i \in DOMAIN ids |-> [id |-> ids[i], seen |-> seen[ids[i]]]]

LastCheck == [m \in Monitors |-> monitor[m].checkedAt]
NotAsked == [m \in Monitors |-> 0]

Handling(j, m) == job[j].phase \in {"probe", "alert"} /\ job[j].id = m

Shared(j, m) == \E k \in Jobs \ {j} : Handling(k, m)

Init ==
  /\ now = 1
  /\ monitor = [m \in Monitors |->
                  NewMonitor(IF m \in Existing THEN "live" ELSE "unborn", TRUE)]
  /\ status = "unknown"
  /\ settings \in SettingsChoices
  /\ job = [j \in Jobs |-> Idle]
  /\ nextPass = 1 + Every
  /\ heard = [t \in LinkResults \X SUBSET Interfaces |-> 0]
  /\ told = {}
  /\ excused = {}
  /\ edits = 0

(***************************************************************************)
(* refreshDeviceMonitorRollup                                              *)
(***************************************************************************)
Verdict(rows) ==
  LET active == {m \in Monitors : rows[m].state = "live" /\ rows[m].enabled}
      results == {rows[m].result : m \in active}
  IN IF "offline" \in results THEN "offline"
     ELSE IF "online" \in results THEN "online"
     ELSE "unknown"

Silent(rows) == \A m \in Monitors : rows[m].state # "live" \/ ~ rows[m].enabled

Rollup(rows, current) ==
  IF current \in Exempt \/ Silent(rows) THEN current ELSE Verdict(rows)

(***************************************************************************)
(* sendMonitorTransitionAlert: what it sends after `result`, given the     *)
(* lastResult and lastAlertAt of the row that the job read.                *)
(***************************************************************************)
OutageAlerts == settings.enabled /\ settings.onDown

\* Mutant: the last result is not looked at.
KindRegardless(row, result) ==
  IF OutageAlerts /\ result = "offline" THEN "down" ELSE "nothing"

\* Mutant: the first result of a monitor does not count as a change.
KindOfChange(row, result) ==
  IF OutageAlerts /\ row.result = "online" /\ result = "offline" THEN "down"
  ELSE "nothing"

Kind(row, result) ==
  LET still == row.result = "offline" IN
  IF settings.enabled /\ settings.onRecovery /\ still /\ result = "online"
  THEN "recovery"
  ELSE IF ~ OutageAlerts \/ result # "offline" THEN "nothing"
  ELSE IF ~ still \/ row.alertAt = 0 THEN "down"
  ELSE IF settings.repeat /\ now - row.alertAt >= RepeatEvery THEN "repeat"
  ELSE "nothing"

(***************************************************************************)
(* The end of runMonitorCheck and of recordMonitorResult reads the row     *)
(* again; when it is gone, parseMonitor throws.  The loop survives that, a *)
(* request and a trap do not.                                              *)
(***************************************************************************)
Rest(this) ==
  IF Live(this.id) \/ this.kind = "loop"
  THEN Turn(this.kind, this.todo, this.link)
  ELSE Idle

\* Mutant: only the row is updated.
RecordedAlone(rows) == status

\* persistMonitorResult calls the rollup after the UPDATE.
Recorded(rows) == Rollup(rows, status)

(***************************************************************************)
(* persistMonitorResult: the UPDATE by id, the rollup, and the start of an *)
(* alert or else the end of the monitor's turn.                            *)
(***************************************************************************)
Persist(j, this, result) ==
  LET m == this.id
      rows == IF Live(m)
              THEN [monitor EXCEPT ![m].result = result, ![m].checkedAt = this.began]
              ELSE monitor
      kind == IF status = "gone" THEN "nothing" ELSE Kind(this.row, result)
      unheard == result = "offline" /\ ~ OutageAlerts
  IN /\ monitor' = rows
     /\ status' = Recorded(rows)
     /\ job' = [job EXCEPT ![j] =
          IF kind = "nothing" THEN Rest(this)
          ELSE [phase |-> "alert", kind |-> this.kind, todo |-> this.todo,
                link |-> this.link, id |-> m, began |-> this.began, sends |-> kind]]
     /\ excused' = IF Shared(j, m) \/ unheard THEN excused \cup {m} ELSE excused
     /\ told' = ((IF result = "offline" THEN told ELSE told \ {m})
                  \cup (IF kind = "down" THEN {m} ELSE {})) \ excused'

Handle(j) ==
  LET this == job[j] IN
  [phase |-> "probe", kind |-> this.kind, todo |-> Tail(this.todo),
   link |-> this.link, id |-> Head(this.todo).id,
   row |-> [result |-> monitor[Head(this.todo).id].result,
            alertAt |-> monitor[Head(this.todo).id].alertAt],
   began |-> now]

IsTurn(j) == job[j].phase = "turn"
First(j) == Head(job[j].todo)

\* Node runs a job on until it awaits.
Quiet == \A j \in Jobs : ~ IsTurn(j)

IsDue(entry) == entry.seen = 0 \/ now - entry.seen >= Every

\* The first of the list is not due, is gone, or (on the loop) is disabled,
\* which throws and is logged.
PassesOver(j) ==
  /\ IsTurn(j)
  /\ \/ ~ IsDue(First(j))
     \/ ~ Live(First(j).id)
     \/ job[j].kind = "loop" /\ ~ Active(First(j).id)
  /\ job' = [job EXCEPT ![j] = Turn(@.kind, Tail(@.todo), @.link)]
  /\ status' = IF job[j].kind = "trap" /\ Tail(job[j].todo) = <<>>
               THEN Rollup(monitor, status) ELSE status
  /\ UNCHANGED <<now, monitor, settings, nextPass, heard, told, excused, edits>>

\* On a request it ends the request with a 409.
RequestRefused(j) ==
  /\ IsTurn(j) /\ job[j].kind = "request"
  /\ Live(First(j).id) /\ ~ Active(First(j).id)
  /\ job' = [job EXCEPT ![j] = Idle]
  /\ UNCHANGED <<now, monitor, status, settings, nextPass, heard, told, excused, edits>>

\* runMonitorCheck up to executeCheck.
ProbeBegins(j) ==
  /\ IsTurn(j) /\ job[j].kind # "trap"
  /\ IsDue(First(j)) /\ Active(First(j).id)
  /\ job' = [job EXCEPT ![j] = Handle(j)]
  /\ excused' = IF Shared(j, First(j).id) THEN excused \cup {First(j).id} ELSE excused
  /\ told' = told \ excused'
  /\ UNCHANGED <<now, monitor, status, settings, nextPass, heard, edits>>

\* recordMonitorResult awaits nothing before it persists.
TrapRecords(j) ==
  /\ IsTurn(j) /\ job[j].kind = "trap"
  /\ Live(First(j).id)
  /\ Persist(j, Handle(j), job[j].link)
  /\ UNCHANGED <<now, settings, nextPass, heard, edits>>

ProbeAnswers(j, result) ==
  /\ Quiet /\ job[j].phase = "probe"
  /\ Persist(j, job[j], result)
  /\ UNCHANGED <<now, settings, nextPass, heard, edits>>

\* Delivered or not, lastAlertAt is set.
AlertSettles(j) ==
  /\ Quiet /\ job[j].phase = "alert"
  /\ monitor' = IF Live(job[j].id)
                THEN [monitor EXCEPT ![job[j].id].alertAt = job[j].began]
                ELSE monitor
  /\ job' = [job EXCEPT ![j] = Rest(@)]
  /\ status' = IF job[j].kind = "trap" /\ job[j].todo = <<>> /\ Live(job[j].id)
               THEN Rollup(monitor, status) ELSE status
  /\ UNCHANGED <<now, settings, nextPass, heard, told, excused, edits>>

(***************************************************************************)
(* Where jobs come from.                                                   *)
(***************************************************************************)
\* setInterval fires whether or not the pass before has ended.
PassBegins(j) ==
  /\ Quiet /\ job[j] = Idle /\ now >= nextPass
  /\ job' = [job EXCEPT ![j] = Turn("loop", Listed(ActiveMonitors, LastCheck), "none")]
  /\ nextPass' = now + Every
  /\ UNCHANGED <<now, monitor, status, settings, heard, told, excused, edits>>

\* POST /run and /run/:deviceId take the active monitors, /:id/run takes one.
RequestBegins(j, set) ==
  /\ Quiet /\ job[j] = Idle
  /\ set = ActiveMonitors \/ \E m \in Monitors : Live(m) /\ set = {m}
  /\ job' = [job EXCEPT ![j] = Turn("request", Listed(set, NotAsked), "none")]
  /\ UNCHANGED <<now, monitor, status, settings, nextPass, heard, told, excused, edits>>

Trusted == Interfaces \cap ActiveMonitors

\* shouldDedupe notes the trap, dropped or not.
TrapArrives(j, link) ==
  /\ Quiet /\ Trusted # {} /\ job[j] = Idle
  /\ heard' = [heard EXCEPT ![<<link, Trusted>>] = now]
  /\ job' = IF heard[<<link, Trusted>>] # 0 THEN job
            ELSE [job EXCEPT ![j] = Turn("trap", Listed(Trusted, NotAsked), link)]
  /\ UNCHANGED <<now, monitor, status, settings, nextPass, told, excused, edits>>

(***************************************************************************)
(* The routes, and the rest of the world.                                  *)
(***************************************************************************)
Edit == Quiet /\ edits < MaxEdits /\ edits' = edits + 1

\* POST / does not roll up; the IF-MIB import does.
CreateMonitor(m, enabled) ==
  /\ monitor[m].state = "unborn" /\ status # "gone"
  /\ monitor' = [monitor EXCEPT ![m] = NewMonitor("live", enabled)]
  /\ Edit
  /\ UNCHANGED <<now, status, settings, job, nextPass, heard, told, excused>>

ImportMonitor(m) ==
  /\ monitor[m].state = "unborn" /\ status # "gone"
  /\ monitor' = [monitor EXCEPT ![m] = NewMonitor("live", TRUE)]
  /\ status' = Rollup(monitor', status)
  /\ Edit
  /\ UNCHANGED <<now, settings, job, nextPass, heard, told, excused>>

UpdateMonitor(m, enabled) ==
  /\ Live(m)
  /\ monitor' = [monitor EXCEPT ![m].enabled = enabled]
  /\ status' = Rollup(monitor', status)
  /\ Edit
  /\ UNCHANGED <<now, settings, job, nextPass, heard, told, excused>>

DeleteMonitor(m) ==
  /\ Live(m)
  /\ monitor' = [monitor EXCEPT ![m] = Gone]
  /\ status' = Rollup(monitor', status)
  /\ Edit
  /\ UNCHANGED <<now, settings, job, nextPass, heard, told, excused>>

\* PATCH /devices/:id with a status.
SetStatus(s) ==
  /\ status # "gone"
  /\ status' = s
  /\ Edit
  /\ UNCHANGED <<now, monitor, settings, job, nextPass, heard, told, excused>>

\* deviceMonitors.deviceId is ON DELETE CASCADE.
DeleteDevice ==
  /\ status' = "gone"
  /\ monitor' = [m \in Monitors |-> Gone]
  /\ Edit
  /\ UNCHANGED <<now, settings, job, nextPass, heard, told, excused>>

SaveSettings(choice) ==
  /\ settings' = choice
  /\ Edit
  /\ UNCHANGED <<now, monitor, status, job, nextPass, heard, told, excused>>

Restart ==
  /\ job' = [j \in Jobs |-> Idle]
  /\ nextPass' = now + Every
  /\ heard' = [t \in DOMAIN heard |-> 0]
  /\ excused' = excused \cup {m \in Monitors :
                   \E j \in Jobs : job[j].phase = "alert" /\ job[j].id = m}
  /\ told' = told \ excused'
  /\ Edit
  /\ UNCHANGED <<now, monitor, status, settings>>

TimePasses ==
  /\ Quiet /\ now < MaxTime
  /\ now' = now + 1
  /\ heard' = [t \in DOMAIN heard |-> 
                 IF now' - heard[t] >= DedupeWindow THEN 0 ELSE heard[t]]
  /\ UNCHANGED <<monitor, status, settings, job, nextPass, told, excused, edits>>

JobStep(j) ==
  \/ PassesOver(j) \/ RequestRefused(j) \/ ProbeBegins(j) \/ TrapRecords(j)
  \/ \E result \in Results : ProbeAnswers(j, result)
  \/ AlertSettles(j)

JobStart(j) ==
  \/ PassBegins(j)
  \/ \E set \in SUBSET Monitors : RequestBegins(j, set)
  \/ \E link \in LinkResults : TrapArrives(j, link)

Route ==
  \/ \E m \in Monitors :
       \/ ImportMonitor(m) \/ DeleteMonitor(m)
       \/ \E enabled \in BOOLEAN : CreateMonitor(m, enabled) \/ UpdateMonitor(m, enabled)
  \/ \E s \in {"online", "maintenance"} : SetStatus(s)
  \/ DeleteDevice
  \/ \E choice \in SettingsChoices : SaveSettings(choice)

Next ==
  \/ TimePasses \/ Restart \/ Route
  \/ \E j \in Jobs : JobStep(j) \/ JobStart(j)

Spec == Init /\ [][Next]_vars

-----------------------------------------------------------------------------
\* The status says what the active monitors found last, as soon as one of
\* them found anything.
Agrees ==
  \/ status \in Exempt
  \/ \A m \in ActiveMonitors : monitor[m].result \notin LinkResults
  \/ status = Verdict(monitor)

\* A status that a user set by hand stays until a monitor reports; whatever a
\* check, a trap, a route or the deletion of a monitor changes, however late
\* it comes, leaves the status in agreement with the monitors.
StatusFollowsMonitors ==
  [][/\ (\E m \in Monitors : monitor'[m].checkedAt # monitor[m].checkedAt) => Agrees'
     /\ Agrees /\ monitor' # monitor => Agrees']_vars

\* No outage is notified twice: when a down alert is sent, the monitor has not
\* been down since the last one, unless two jobs handled the monitor at once or
\* the process died while alerting.  A message that could not be delivered and
\* one that was owed since alerts were off count.
OneAlertPerOutage ==
  [][\A j \in Jobs :
       LET after == job'[j] IN
       after.phase = "alert" /\ job[j].phase # "alert" /\ after.sends = "down"
         => after.id \in excused' \/ after.id \notin told]_vars

\* Every outage that is on record was notified when it was recorded, over
\* passes, requests, traps, edits and restarts, with the same exceptions.
EveryOutageIsTold ==
  \A m \in Monitors \ excused :
    Live(m) /\ monitor[m].result = "offline" => m \in told
=============================================================================
