------------------------ MODULE MCIntegrationAutoSync ------------------------
(* Small instances of IntegrationAutoSync for TLC. *)
EXTENDS IntegrationAutoSync, TLC

CONSTANTS s1, s2, c1, c2

\* Two schedules of one connection contend for its lock.
SharedConnection == s1 :> c1 @@ s2 :> c1
OneSchedule == s1 :> c1

\* A cron expression that matches every minute, and one every other minute.
EveryMinute == {1 .. MaxTime}
TwoCadences == {1 .. MaxTime, {2 * Minute}}
=============================================================================
