------------------------------- MODULE SyncLease -------------------------------
(***************************************************************************)
(* What withIntegrationSyncLock (server/lib/integrations/auto-sync.ts)     *)
(* promises: runs of one connection come one after the other, and only the *)
(* run that has the connection records a result, for its own schedule.     *)
(*                                                                         *)
(* This is the abstract specification that IntegrationAutoSync implements. *)
(* It knows no lock, no timer and no table.                                *)
(***************************************************************************)
CONSTANTS Schedules, Connections, ConnectionOf, Runs

VARIABLES
  holder,    \* the run that has a connection, as a set of at most one
  lastRunAt  \* when the last result of a schedule was recorded

vars == <<holder, lastRunAt>>

Nobody == [c \in Connections |-> {}]

Init == holder = Nobody /\ lastRunAt = [s \in Schedules |-> 0]

RecordsOnly(s) == \A t \in Schedules \ {s} : lastRunAt'[t] = lastRunAt[t]

Begin(c) ==
  /\ holder[c] = {}
  /\ UNCHANGED lastRunAt
  /\ \E r \in Runs : /\ ConnectionOf[r.schedule] = c
                    /\ holder' = [holder EXCEPT ![c] = {r}]

End(c) ==
  \E r \in holder[c] : /\ holder' = [holder EXCEPT ![c] = {}]
                      /\ RecordsOnly(r.schedule)

\* A run that fails before it awaits anything.
FailAtOnce(s) ==
  /\ UNCHANGED holder
  /\ holder[ConnectionOf[s]] = {}
  /\ RecordsOnly(s)

Crash == holder' = Nobody /\ UNCHANGED lastRunAt

Next ==
  \/ \E c \in Connections : Begin(c) \/ End(c)
  \/ \E s \in Schedules : FailAtOnce(s)
  \/ Crash

Spec == Init /\ [][Next]_vars
=============================================================================
