--------------------------- MODULE MonitoringProofs ---------------------------
(***************************************************************************)
(* What holds of Monitoring for any monitors, jobs and settings.           *)
(***************************************************************************)
EXTENDS Monitoring, TLAPS

Row == [state : {"unborn", "live", "gone"}, enabled : BOOLEAN,
        result : Results \cup {"none"}, checkedAt : Nat, alertAt : Nat]

JobTyped(this) ==
  /\ this.phase \in {"idle", "turn", "probe", "alert"}
  /\ this.phase # "idle" /\ this.kind = "trap" => this.link \in LinkResults
  /\ this.phase \in {"probe", "alert"} =>
       this.id \in Monitors /\ this.began \in Nat \ {0}

Typed ==
  /\ now \in Nat \ {0}
  /\ monitor \in [Monitors -> Row]
  /\ job = [j \in Jobs |-> job[j]]
  /\ \A j \in Jobs : JobTyped(job[j])

\* What was never created was never checked, handled or notified.
UnbornAreUntouched ==
  \A m \in Monitors : monitor[m].state = "unborn" =>
    /\ monitor[m].checkedAt = 0 /\ monitor[m].result = "none"
    /\ m \notin told
    /\ \A j \in Jobs : ~ Handling(j, m)

\* A deleted device has no monitors.
DeviceGone == status = "gone" => \A m \in Monitors : ~ Live(m)

\* What two jobs handle at once is excused, and nothing excused is told.
Lone ==
  /\ told \cap excused = {}
  /\ \A j, k \in Jobs :
       \A m \in Monitors : Handling(j, m) /\ Handling(k, m) => j = k \/ m \in excused

\* The row that a job holds on to over its probe is the one in the table.
Accurate(m, row) ==
  /\ Live(m) => row.result = monitor[m].result
  /\ m \in told => row.result = "offline" /\ row.alertAt # 0

RowsAreFresh ==
  \A j \in Jobs :
    job[j].phase = "probe" /\ job[j].id \notin excused => Accurate(job[j].id, job[j].row)

Alerting(j, m) == job[j].phase = "alert" /\ job[j].id = m

\* A monitor that was notified is down, and either lastAlertAt says so or the
\* alert is on its way.
ToldAreDown ==
  \A m \in told : m \in Monitors /\ (Live(m) =>
    /\ monitor[m].result = "offline"
    /\ monitor[m].alertAt # 0 \/ \E j \in Jobs : Alerting(j, m))

Inv ==
  /\ Typed
  /\ UnbornAreUntouched
  /\ DeviceGone
  /\ Lone
  /\ RowsAreFresh
  /\ ToldAreDown
  /\ EveryOutageIsTold

-----------------------------------------------------------------------------
(***************************************************************************)
(* Steps of jobs.                                                          *)
(***************************************************************************)
LEMMA RollupIsNotGone ==
  ASSUME NEW rows, NEW current, Rollup(rows, current) = "gone"
  PROVE  current = "gone"
  BY DEF Rollup, Verdict, Exempt

LEMMA TurnIsTyped ==
  ASSUME NEW kind, NEW todo, NEW link, kind = "trap" => link \in LinkResults
  PROVE  /\ JobTyped(Turn(kind, todo, link))
         /\ Turn(kind, todo, link).phase \in {"idle", "turn"}
<1>1. CASE todo = <<>>
  BY <1>1 DEF Turn, Idle, JobTyped
<1>2. CASE todo # <<>>
  BY <1>2 DEF Turn, JobTyped
<1>. QED
  BY <1>1, <1>2

\* A job that is not at a monitor keeps everything but the types as it is.
Resting(this) == JobTyped(this) /\ this.phase \in {"idle", "turn"}

LEMMA Rests ==
  ASSUME Inv, NEW j \in Jobs, NEW this, Resting(this), job[j].phase # "alert",
         job' = [job EXCEPT ![j] = this],
         now' = now, monitor' = monitor, status' = "gone" => status = "gone",
         told' = told, excused' = excused
  PROVE  Inv'
<1>1. \A k \in Jobs : k # j => job'[k] = job[k]
  BY DEF Inv, Typed
<1>2. job'[j] = this
  BY DEF Inv, Typed
<1>3. Typed'
  BY <1>1, <1>2 DEF Inv, Typed, JobTyped, Resting
<1>4. \A k \in Jobs : \A m : Handling(k, m)' => Handling(k, m)
  BY <1>1, <1>2 DEF Handling, Resting
<1>5. Lone' /\ UnbornAreUntouched'
  BY <1>4 DEF Inv, Lone, UnbornAreUntouched
<1>6. RowsAreFresh'
  BY <1>1, <1>2 DEF Inv, RowsAreFresh, Accurate, Resting, Live
<1>7. \A k \in Jobs : \A m : Alerting(k, m) => Alerting(k, m)'
  BY <1>1 DEF Alerting
<1>8. ToldAreDown'
  BY <1>7 DEF Inv, ToldAreDown, Live
<1>. QED
  BY <1>3, <1>5, <1>6, <1>8 DEF Inv, DeviceGone, EveryOutageIsTold, Live

-----------------------------------------------------------------------------
(***************************************************************************)
(* persistMonitorResult.  At is what a step that calls it knows: the job j *)
(* is not yet alerting, and holds a row of m that is accurate unless       *)
(* another job handles m too.                                              *)
(***************************************************************************)
At(j, this) ==
  /\ job[j].phase # "alert"
  /\ this.id \in Monitors /\ this.began \in Nat \ {0}
  /\ this.kind = "trap" => this.link \in LinkResults
  /\ monitor[this.id].state # "unborn"
  /\ \A m : Handling(j, m) => m = this.id
  /\ this.id \notin excused /\ ~ Shared(j, this.id) => Accurate(this.id, this.row)

After(j, this, result) ==
  IF (status = "gone" \/ Kind(this.row, result) = "nothing") THEN Rest(this)
  ELSE [phase |-> "alert", kind |-> this.kind, todo |-> this.todo,
        link |-> this.link, id |-> this.id, began |-> this.began,
        sends |-> Kind(this.row, result)]

LEMMA PersistWrites ==
  ASSUME Typed, NEW j \in Jobs, NEW this, NEW result \in Results,
         At(j, this), Persist(j, this, result)
  PROVE  /\ ~ Live(this.id) => monitor' = monitor
         /\ Live(this.id) =>
              /\ monitor' \in [Monitors -> Row]
              /\ \A m \in Monitors :
                   /\ monitor'[m].state = monitor[m].state
                   /\ monitor'[m].alertAt = monitor[m].alertAt
                   /\ m # this.id => monitor'[m] = monitor[m]
              /\ monitor'[this.id].result = result
         /\ \A k \in Jobs : k # j => job'[k] = job[k]
         /\ job' = [k \in Jobs |-> job'[k]]
         /\ status' = Rollup(monitor', status)
         /\ \A m : m \in excused' <=> \/ m \in excused
                                      \/ m = this.id /\ Shared(j, m)
                                      \/ m = this.id /\ result = "offline" /\ ~ OutageAlerts
<1>. USE DEF Typed, At
<1>1. monitor' = IF Live(this.id)
                 THEN [monitor EXCEPT ![this.id].result = result,
                                      ![this.id].checkedAt = this.began]
                 ELSE monitor
  BY DEF Persist
<1>2. ~ Live(this.id) => monitor' = monitor
  BY <1>1
<1>3. ASSUME Live(this.id)
      PROVE  /\ monitor' \in [Monitors -> Row]
             /\ \A m \in Monitors :
                  /\ monitor'[m].state = monitor[m].state
                  /\ monitor'[m].alertAt = monitor[m].alertAt
                  /\ m # this.id => monitor'[m] = monitor[m]
             /\ monitor'[this.id].result = result
  BY <1>1, <1>3 DEF Row, Results
<1>4. /\ \A k \in Jobs : k # j => job'[k] = job[k]
      /\ job' = [k \in Jobs |-> job'[k]]
  BY DEF Persist
<1>5. status' = Rollup(monitor', status)
  BY <1>1 DEF Persist, Recorded
<1>6. \A m : m \in excused' <=> \/ m \in excused
                                \/ m = this.id /\ Shared(j, m)
                                \/ m = this.id /\ result = "offline" /\ ~ OutageAlerts
  BY DEF Persist
<1>. QED
  BY <1>2, <1>3, <1>4, <1>5, <1>6

LEMMA PersistSends ==
  ASSUME Typed, NEW j \in Jobs, NEW this, NEW result \in Results,
         At(j, this), Persist(j, this, result)
  PROVE  /\ job'[j] = After(j, this, result)
         /\ \A m : m \in told' <=>
              /\ m \notin excused'
              /\ \/ m \in told /\ (m = this.id => result = "offline")
                 \/ /\ m = this.id /\ status # "gone"
                    /\ Kind(this.row, result) = "down"
<1>. USE DEF Typed, At
<1>. DEFINE kind == IF status = "gone" THEN "nothing" ELSE Kind(this.row, result)
<1>1. job'[j] = After(j, this, result)
  BY DEF Persist, After
<1>2. told' = ((IF result = "offline" THEN told ELSE told \ {this.id})
               \cup (IF kind = "down" THEN {this.id} ELSE {})) \ excused'
  BY Zenon DEF Persist
<1>. QED
  BY <1>1, <1>2

LEMMA KindOf ==
  ASSUME NEW row, NEW result \in Results
  PROVE  /\ Kind(row, result) = "down" => result = "offline"
         /\ OutageAlerts /\ result = "offline" /\ Kind(row, result) # "down" =>
              row.result = "offline" /\ row.alertAt # 0
         /\ Kind(row, result) \in {"recovery", "nothing", "down", "repeat"}
  BY DEF Kind, Results

LEMMA AfterIsTyped ==
  ASSUME Typed, NEW j \in Jobs, NEW this, NEW result \in Results, At(j, this)
  PROVE  /\ JobTyped(After(j, this, result))
         /\ After(j, this, result).phase \in {"idle", "turn", "alert"}
         /\ After(j, this, result).phase = "alert" => After(j, this, result).id = this.id
         /\ status # "gone" /\ Kind(this.row, result) # "nothing" =>
              After(j, this, result).phase = "alert"
<1>1. CASE status = "gone" \/ Kind(this.row, result) = "nothing"
  <2>1. After(j, this, result) = Rest(this)
    BY <1>1 DEF After
  <2>2. JobTyped(Rest(this)) /\ Rest(this).phase \in {"idle", "turn"}
    BY TurnIsTyped DEF Rest, Idle, JobTyped, At
  <2>. QED
    BY <1>1, <2>1, <2>2
<1>2. CASE ~ (status = "gone" \/ Kind(this.row, result) = "nothing")
  BY <1>2 DEF After, JobTyped, At
<1>. QED
  BY <1>1, <1>2

LEMMA PersistKeeps ==
  ASSUME Inv, NEW j \in Jobs, NEW this, NEW result \in Results,
         At(j, this), Persist(j, this, result), now' = now
  PROVE  Inv'
<1>. DEFINE m == this.id
<1>1. m \in Monitors /\ monitor[m].state # "unborn"
  BY DEF At
<1>2. /\ Live(m) \/ monitor' = monitor
      /\ \A n \in Monitors :
           /\ monitor'[n].state = monitor[n].state
           /\ monitor'[n].alertAt = monitor[n].alertAt
           /\ n # m => monitor'[n] = monitor[n]
      /\ Live(m) => monitor'[m].result = result
  BY PersistWrites DEF Inv
<1>3. \A k \in Jobs : k # j => job'[k] = job[k]
  BY PersistWrites DEF Inv
<1>4. /\ JobTyped(job'[j])
      /\ job'[j].phase \in {"idle", "turn", "alert"}
      /\ job'[j].phase = "alert" => job'[j].id = m
      /\ status # "gone" /\ Kind(this.row, result) # "nothing" => job'[j].phase = "alert"
  BY PersistSends, AfterIsTyped DEF Inv
<1>5. \A n : n \in excused' <=> \/ n \in excused
                                \/ n = m /\ Shared(j, n)
                                \/ n = m /\ result = "offline" /\ ~ OutageAlerts
  BY PersistWrites DEF Inv
<1>6. \A n : n \in told' <=>
        /\ n \notin excused'
        /\ \/ n \in told /\ (n = m => result = "offline")
           \/ n = m /\ status # "gone" /\ Kind(this.row, result) = "down"
  BY PersistSends DEF Inv
<1>7. \A k \in Jobs : \A n : k # j => (Handling(k, n)' <=> Handling(k, n))
  BY <1>3 DEF Handling
<1>8. \A n : Handling(j, n)' => n = m
  BY <1>4 DEF Handling
<1>9. \A n : Live(n)' <=> Live(n)
  BY <1>2 DEF Live
<1>10. Typed'
  <2>1. monitor' \in [Monitors -> Row]
    BY <1>2, PersistWrites DEF Inv, Typed
  <2>2. job' = [k \in Jobs |-> job'[k]]
    BY PersistWrites DEF Inv
  <2>3. \A k \in Jobs : JobTyped(job'[k])
    BY <1>3, <1>4 DEF Inv, Typed
  <2>. QED
    BY <2>1, <2>2, <2>3 DEF Inv, Typed, JobTyped
<1>11. UnbornAreUntouched'
  <2>. SUFFICES ASSUME NEW n \in Monitors, monitor[n].state = "unborn"
                PROVE  /\ monitor'[n].checkedAt = 0 /\ monitor'[n].result = "none"
                       /\ n \notin told'
                       /\ \A k \in Jobs : ~ Handling(k, n)'
    BY <1>2 DEF UnbornAreUntouched
  <2>. QED
    BY <1>1, <1>2, <1>6, <1>7, <1>8 DEF Inv, UnbornAreUntouched
<1>12. DeviceGone'
  <2>1. status' = "gone" => status = "gone"
    BY PersistWrites, RollupIsNotGone DEF Inv
  <2>. QED
    BY <1>9, <2>1 DEF Inv, DeviceGone
<1>13. Lone'
  <2>1. told' \cap excused' = {}
    BY <1>6
  <2>2. ASSUME NEW k \in Jobs, NEW l \in Jobs, NEW n \in Monitors,
               Handling(k, n)', Handling(l, n)', k # l
        PROVE  n \in excused'
    <3>1. CASE k # j /\ l # j
      BY <1>5, <1>7, <2>2, <3>1 DEF Inv, Lone
    <3>2. CASE k = j \/ l = j
      BY <1>5, <1>7, <1>8, <2>2, <3>2 DEF Shared
    <3>. QED
      BY <3>1, <3>2
  <2>. QED
    BY <2>1, <2>2 DEF Lone
<1>14. RowsAreFresh'
  <2>. SUFFICES ASSUME NEW k \in Jobs, job'[k].phase = "probe", job'[k].id \notin excused'
                PROVE  Accurate(job[k].id, job[k].row)'
    BY DEF RowsAreFresh
  <2>. DEFINE n == job[k].id
  <2>1. k # j /\ job'[k] = job[k]
    BY <1>3, <1>4
  <2>2. n \in Monitors /\ Handling(k, n)
    BY <2>1 DEF Inv, Typed, JobTyped, Handling
  <2>3. n # m
    BY <1>5, <2>1, <2>2 DEF Shared
  <2>4. Accurate(n, job[k].row)
    BY <1>5, <2>1 DEF Inv, RowsAreFresh
  <2>5. monitor'[n] = monitor[n] /\ (n \in told' => n \in told)
    BY <1>2, <1>6, <2>2, <2>3
  <2>. QED
    BY <1>9, <2>1, <2>4, <2>5 DEF Accurate
<1>15. ASSUME m \notin excused'
       PROVE  ~ Shared(j, m) /\ Accurate(m, this.row) /\ (result = "offline" => OutageAlerts)
  BY <1>5, <1>15 DEF At
<1>16. Live(m) => status # "gone"
  BY <1>1 DEF Inv, DeviceGone
<1>17. ToldAreDown'
  <2>. SUFFICES ASSUME NEW n \in told'
                PROVE  n \in Monitors /\ (Live(n)' =>
                         /\ monitor'[n].result = "offline"
                         /\ monitor'[n].alertAt # 0 \/ \E k \in Jobs : Alerting(k, n)')
    BY DEF ToldAreDown
  <2>1. \A k \in Jobs : Alerting(k, n) => Alerting(k, n)' /\ k # j
    BY <1>3 DEF Alerting, At
  <2>2. CASE n # m
    BY <1>2, <1>6, <1>9, <2>1, <2>2 DEF Inv, ToldAreDown
  <2>3. CASE n = m /\ Live(m)
    <3>1. result = "offline" /\ monitor'[m].result = "offline"
      BY <1>2, <1>6, <2>3, KindOf
    <3>2. CASE Kind(this.row, result) # "nothing"
      <4>1. Alerting(j, m)'
        BY <1>4, <1>16, <2>3, <3>2 DEF Alerting
      <4>. QED
        BY <1>1, <2>3, <3>1, <4>1
    <3>3. CASE Kind(this.row, result) = "nothing"
      <4>1. m \in told
        BY <1>6, <2>3, <3>3
      <4>2. ~ Shared(j, m)
        BY <1>6, <1>15, <2>3
      <4>3. \A k \in Jobs : ~ Alerting(k, m)
        BY <2>1, <2>3, <4>2 DEF Alerting, Handling, Shared
      <4>4. monitor[m].alertAt # 0
        BY <2>3, <4>1, <4>3 DEF Inv, ToldAreDown
      <4>. QED
        BY <1>1, <1>2, <2>3, <3>1, <4>4
    <3>. QED
      BY <3>2, <3>3
  <2>. QED
    BY <1>1, <1>9, <2>2, <2>3
<1>18. EveryOutageIsTold'
  <2>. SUFFICES ASSUME NEW n \in Monitors, n \notin excused', Live(n)',
                       monitor'[n].result = "offline"
                PROVE  n \in told'
    BY DEF EveryOutageIsTold
  <2>1. CASE n # m
    BY <1>2, <1>5, <1>6, <1>9, <2>1 DEF Inv, EveryOutageIsTold
  <2>2. CASE n = m
    <3>1. Live(m) /\ result = "offline" /\ status # "gone"
      BY <1>2, <1>9, <1>16, <2>2
    <3>2. CASE Kind(this.row, result) = "down"
      BY <1>6, <2>2, <3>1, <3>2
    <3>3. CASE Kind(this.row, result) # "down"
      <4>1. this.row.result = "offline"
        BY <1>15, <2>2, <3>1, <3>3, KindOf
      <4>2. monitor[m].result = "offline"
        BY <1>15, <2>2, <3>1, <4>1 DEF Accurate
      <4>3. m \in told
        BY <1>1, <1>5, <2>2, <3>1, <4>2 DEF Inv, EveryOutageIsTold
      <4>. QED
        BY <1>6, <2>2, <3>1, <4>3
    <3>. QED
      BY <3>2, <3>3
  <2>. QED
    BY <2>1, <2>2
<1>. QED
  BY <1>10, <1>11, <1>12, <1>13, <1>14, <1>17, <1>18 DEF Inv

-----------------------------------------------------------------------------
(***************************************************************************)
(* The actions keep the invariant.                                         *)
(***************************************************************************)
LEMMA NothingKeeps ==
  ASSUME Inv, job' = job, now' = now, monitor' = monitor, status' = status,
         told' = told, excused' = excused
  PROVE  Inv'
<1>1. \A m : Live(m)' <=> Live(m)
  BY DEF Live
<1>2. \A j, m : (Handling(j, m)' <=> Handling(j, m)) /\ (Alerting(j, m)' <=> Alerting(j, m))
  BY DEF Handling, Alerting
<1>. QED
  BY <1>1, <1>2
  DEF Inv, Typed, JobTyped, UnbornAreUntouched, DeviceGone, Lone, RowsAreFresh,
      Accurate, ToldAreDown, EveryOutageIsTold

LEMMA PassesOverKeeps ==
  ASSUME Inv, NEW j \in Jobs, PassesOver(j) PROVE Inv'
<1>. DEFINE this == Turn(job[j].kind, Tail(job[j].todo), job[j].link)
<1>1. job[j].phase = "turn"
  BY DEF PassesOver, IsTurn
<1>2. Resting(this)
  BY <1>1, TurnIsTyped DEF Resting, Inv, Typed, JobTyped
<1>3. job' = [job EXCEPT ![j] = this]
  BY DEF PassesOver
<1>4. status' = "gone" => status = "gone"
  BY RollupIsNotGone DEF PassesOver
<1>. HIDE DEF this
<1>. QED
  BY <1>1, <1>2, <1>3, <1>4, Rests DEF PassesOver

LEMMA RequestRefusedKeeps ==
  ASSUME Inv, NEW j \in Jobs, RequestRefused(j) PROVE Inv'
<1>1. Resting(Idle)
  BY DEF Resting, JobTyped, Idle
<1>. QED
  BY <1>1, Rests DEF RequestRefused, IsTurn

LEMMA JobStartKeeps ==
  ASSUME Inv, NEW j \in Jobs, JobStart(j) PROVE Inv'
<1>1. \A kind, todo : kind # "trap" => Resting(Turn(kind, todo, "none"))
  BY TurnIsTyped DEF Resting
<1>2. \A todo, link : link \in LinkResults => Resting(Turn("trap", todo, link))
  BY TurnIsTyped DEF Resting
<1>3. job[j] = Idle => job[j].phase # "alert"
  BY DEF Idle
<1>4. CASE PassBegins(j)
  <2>. DEFINE this == Turn("loop", Listed(ActiveMonitors, LastCheck), "none")
  <2>1. Resting(this) /\ job' = [job EXCEPT ![j] = this]
    BY <1>1, <1>4 DEF PassBegins
  <2>. HIDE DEF this
  <2>. QED
    BY <1>3, <1>4, <2>1, Rests DEF PassBegins
<1>5. ASSUME NEW set \in SUBSET Monitors, RequestBegins(j, set) PROVE Inv'
  <2>. DEFINE this == Turn("request", Listed(set, NotAsked), "none")
  <2>1. Resting(this) /\ job' = [job EXCEPT ![j] = this]
    BY <1>1, <1>5 DEF RequestBegins
  <2>. HIDE DEF this
  <2>. QED
    BY <1>3, <1>5, <2>1, Rests DEF RequestBegins
<1>6. ASSUME NEW link \in LinkResults, TrapArrives(j, link) PROVE Inv'
  <2>1. CASE heard[<<link, Trusted>>] = 0
    <3>. DEFINE this == Turn("trap", Listed(Trusted, NotAsked), link)
    <3>1. Resting(this) /\ job' = [job EXCEPT ![j] = this]
      BY <1>2, <1>6, <2>1 DEF TrapArrives
    <3>. HIDE DEF this
    <3>. QED
      BY <1>3, <1>6, <3>1, Rests DEF TrapArrives
  <2>2. CASE heard[<<link, Trusted>>] # 0
    <3>1. /\ job' = job /\ now' = now /\ monitor' = monitor /\ status' = status
          /\ told' = told /\ excused' = excused
      BY <1>6, <2>2 DEF TrapArrives
    <3>. QED
      BY <3>1, NothingKeeps
  <2>. QED
    BY <2>1, <2>2
<1>. QED
  BY <1>4, <1>5, <1>6 DEF JobStart

LEMMA ProbeBeginsKeeps ==
  ASSUME Inv, NEW j \in Jobs, ProbeBegins(j) PROVE Inv'
<1>. DEFINE m == First(j).id
<1>1. /\ m \in Monitors /\ Live(m)
      /\ job[j].phase = "turn" /\ job[j].kind # "trap"
      /\ now' = now /\ monitor' = monitor /\ status' = status
      /\ told' = told \ excused'
  BY DEF ProbeBegins, Active, Live, IsTurn
<1>2. /\ job' = [k \in Jobs |-> job'[k]]
      /\ \A k \in Jobs : k # j => job'[k] = job[k]
      /\ job'[j] = Handle(j)
  BY DEF ProbeBegins, Inv, Typed
<1>3. \A n : n \in excused' <=> \/ n \in excused
                                \/ n = m /\ Shared(j, n)
  BY DEF ProbeBegins
<1>4. /\ Handle(j).phase = "probe" /\ Handle(j).kind = job[j].kind
      /\ Handle(j).id = m /\ Handle(j).began = now
      /\ Handle(j).row.result = monitor[m].result
      /\ Handle(j).row.alertAt = monitor[m].alertAt
  BY DEF Handle, First
<1>. HIDE DEF m
<1>5. Typed'
  BY <1>1, <1>2, <1>4 DEF Inv, Typed, JobTyped
<1>6. /\ \A k \in Jobs : \A n : k # j => (Handling(k, n)' <=> Handling(k, n))
      /\ \A n : Handling(j, n)' => n = m
  BY <1>2, <1>4 DEF Handling
<1>7. \A n : Live(n)' <=> Live(n)
  BY <1>1 DEF Live
<1>8. UnbornAreUntouched'
  BY <1>1, <1>6 DEF Inv, UnbornAreUntouched, Live
<1>9. Lone'
  <2>1. ASSUME NEW k \in Jobs, NEW l \in Jobs, NEW n \in Monitors,
               Handling(k, n)', Handling(l, n)', k # l
        PROVE  n \in excused'
    <3>1. CASE k # j /\ l # j
      BY <1>3, <1>6, <2>1, <3>1 DEF Inv, Lone
    <3>2. CASE k = j \/ l = j
      BY <1>3, <1>6, <2>1, <3>2 DEF Shared
    <3>. QED
      BY <3>1, <3>2
  <2>. QED
    BY <1>1, <2>1 DEF Lone
<1>10. RowsAreFresh'
  <2>. SUFFICES ASSUME NEW k \in Jobs, job'[k].phase = "probe", job'[k].id \notin excused'
                PROVE  Accurate(job[k].id, job[k].row)'
    BY DEF RowsAreFresh
  <2>1. CASE k # j
    BY <1>1, <1>2, <1>3, <1>7, <2>1 DEF Inv, RowsAreFresh, Accurate
  <2>2. CASE k = j
    <3>1. m \notin excused /\ ~ Shared(j, m)
      BY <1>2, <1>3, <1>4, <2>2
    <3>2. \A l \in Jobs : ~ Alerting(l, m)
      BY <1>1, <3>1 DEF Alerting, Shared, Handling
    <3>3. m \in told => monitor[m].result = "offline" /\ monitor[m].alertAt # 0
      BY <1>1, <3>2 DEF Inv, ToldAreDown
    <3>. QED
      BY <1>1, <1>2, <1>4, <2>2, <3>3 DEF Accurate
  <2>. QED
    BY <2>1, <2>2
<1>11. ToldAreDown'
  <2>1. \A k \in Jobs : \A n : Alerting(k, n) => Alerting(k, n)'
    BY <1>1, <1>2 DEF Alerting
  <2>. QED
    BY <1>1, <1>7, <2>1 DEF Inv, ToldAreDown
<1>12. EveryOutageIsTold'
  BY <1>1, <1>3, <1>7 DEF Inv, EveryOutageIsTold
<1>13. DeviceGone'
  BY <1>1, <1>7 DEF Inv, DeviceGone
<1>. QED
  BY <1>5, <1>8, <1>9, <1>10, <1>11, <1>12, <1>13 DEF Inv

LEMMA TrapIsAt ==
  ASSUME Inv, NEW j \in Jobs, TrapRecords(j)
  PROVE  /\ At(j, Handle(j)) /\ Persist(j, Handle(j), job[j].link)
         /\ job[j].link \in Results /\ now' = now
<1>. DEFINE this == Handle(j)
            m == First(j).id
<1>1. /\ m \in Monitors /\ Live(m) /\ monitor[m].state # "unborn"
      /\ job[j].phase = "turn" /\ job[j].kind = "trap" /\ job[j].link \in LinkResults
  BY DEF TrapRecords, IsTurn, Live, Inv, Typed, JobTyped
<1>2. /\ this.id = m /\ this.kind = "trap" /\ this.link = job[j].link /\ this.began = now
      /\ this.row.result = monitor[m].result /\ this.row.alertAt = monitor[m].alertAt
  BY <1>1 DEF Handle, First
<1>3. Persist(j, this, job[j].link) /\ now' = now
  BY DEF TrapRecords
<1>. HIDE DEF this, m
<1>4. ASSUME ~ Shared(j, m) PROVE Accurate(m, this.row)
  <2>1. \A l \in Jobs : ~ Alerting(l, m)
    BY <1>1, <1>4 DEF Alerting, Shared, Handling
  <2>. QED
    BY <1>1, <1>2, <2>1 DEF Accurate, Inv, ToldAreDown
<1>5. At(j, this)
  BY <1>1, <1>2, <1>4 DEF At, Handling, Inv, Typed
<1>6. job[j].link \in Results
  BY <1>1 DEF Results, LinkResults
<1>. QED
  BY <1>3, <1>5, <1>6 DEF this

LEMMA ProbeIsAt ==
  ASSUME Inv, NEW j \in Jobs, NEW result \in Results, ProbeAnswers(j, result)
  PROVE  At(j, job[j]) /\ Persist(j, job[j], result) /\ now' = now
<1>1. job[j].phase = "probe" /\ Persist(j, job[j], result) /\ now' = now
  BY DEF ProbeAnswers
<1>2. /\ job[j].id \in Monitors /\ job[j].began \in Nat \ {0}
      /\ job[j].kind = "trap" => job[j].link \in LinkResults
  BY <1>1 DEF Inv, Typed, JobTyped
<1>3. Handling(j, job[j].id) /\ \A m : Handling(j, m) => m = job[j].id
  BY <1>1 DEF Handling
<1>4. monitor[job[j].id].state # "unborn"
  BY <1>2, <1>3 DEF Inv, UnbornAreUntouched
<1>5. At(j, job[j])
  BY <1>1, <1>2, <1>3, <1>4 DEF At, Inv, RowsAreFresh
<1>. QED
  BY <1>1, <1>5

LEMMA AlertSettlesKeeps ==
  ASSUME Inv, NEW j \in Jobs, AlertSettles(j) PROVE Inv'
<1>. DEFINE m == job[j].id
<1>1. /\ job[j].phase = "alert"
      /\ monitor' = IF Live(m) THEN [monitor EXCEPT ![m].alertAt = job[j].began]
                    ELSE monitor
      /\ now' = now /\ told' = told /\ excused' = excused
  BY DEF AlertSettles
<1>2. m \in Monitors /\ job[j].began \in Nat \ {0}
  BY <1>1 DEF Inv, Typed, JobTyped
<1>3. job'[j] = Rest(job[j]) /\ job' = [k \in Jobs |-> job'[k]]
  BY DEF AlertSettles, Inv, Typed
<1>4. \A k \in Jobs : k # j => job'[k] = job[k]
  BY DEF AlertSettles, Inv, Typed
<1>5. JobTyped(job'[j]) /\ job'[j].phase \in {"idle", "turn"}
  BY <1>1, <1>3, TurnIsTyped DEF Rest, Idle, JobTyped, Inv, Typed
<1>6. /\ monitor' \in [Monitors -> Row]
      /\ \A n \in Monitors :
           /\ monitor'[n].state = monitor[n].state
           /\ monitor'[n].result = monitor[n].result
           /\ monitor'[n].checkedAt = monitor[n].checkedAt
           /\ n # m => monitor'[n] = monitor[n]
      /\ Live(m) => monitor'[m].alertAt # 0
  <2>1. CASE Live(m)
    BY <1>1, <1>2, <2>1 DEF Row, Inv, Typed
  <2>2. CASE ~ Live(m)
    BY <1>1, <2>2 DEF Inv, Typed
  <2>. QED
    BY <2>1, <2>2
<1>7. \A n : Live(n)' <=> Live(n)
  BY <1>6 DEF Live
<1>8. \A k \in Jobs : \A n : Handling(k, n)' => Handling(k, n) /\ k # j
  BY <1>4, <1>5 DEF Handling
<1>9. Handling(j, m)
  BY <1>1 DEF Handling
<1>10. Typed'
  BY <1>1, <1>3, <1>4, <1>5, <1>6 DEF Inv, Typed, JobTyped
<1>11. UnbornAreUntouched'
  BY <1>1, <1>6, <1>8 DEF Inv, UnbornAreUntouched
<1>12. Lone'
  BY <1>1, <1>8 DEF Inv, Lone
<1>13. DeviceGone'
  <2>1. status' = "gone" => status = "gone"
    BY RollupIsNotGone DEF AlertSettles
  <2>. QED
    BY <1>7, <2>1 DEF Inv, DeviceGone
<1>14. RowsAreFresh'
  <2>. SUFFICES ASSUME NEW k \in Jobs, job'[k].phase = "probe", job'[k].id \notin excused'
                PROVE  Accurate(job[k].id, job[k].row)'
    BY DEF RowsAreFresh
  <2>. DEFINE n == job[k].id
  <2>1. k # j /\ job'[k] = job[k]
    BY <1>4, <1>5
  <2>2. n \in Monitors /\ Handling(k, n)
    BY <2>1 DEF Inv, Typed, JobTyped, Handling
  <2>3. Accurate(n, job[k].row)
    BY <1>1, <2>1 DEF Inv, RowsAreFresh
  <2>. QED
    BY <1>1, <1>6, <1>7, <2>1, <2>2, <2>3 DEF Accurate
<1>15. ToldAreDown'
  <2>. SUFFICES ASSUME NEW n \in told
                PROVE  n \in Monitors /\ (Live(n)' =>
                         /\ monitor'[n].result = "offline"
                         /\ monitor'[n].alertAt # 0 \/ \E k \in Jobs : Alerting(k, n)')
    BY <1>1 DEF ToldAreDown
  <2>1. CASE n # m
    <3>1. \A k \in Jobs : Alerting(k, n) => Alerting(k, n)'
      BY <1>4, <2>1 DEF Alerting
    <3>. QED
      BY <1>6, <1>7, <2>1, <3>1 DEF Inv, ToldAreDown
  <2>2. CASE n = m
    BY <1>6, <1>7, <2>2 DEF Inv, ToldAreDown
  <2>. QED
    BY <2>1, <2>2
<1>16. EveryOutageIsTold'
  BY <1>1, <1>6, <1>7 DEF Inv, EveryOutageIsTold
<1>. QED
  BY <1>10, <1>11, <1>12, <1>13, <1>14, <1>15, <1>16 DEF Inv

\* What an edit does to a row: it leaves what the checks found, deletes the row
\* or creates it.
EditedRow(m) ==
  \/ /\ monitor'[m].state = monitor[m].state
     /\ monitor'[m].result = monitor[m].result
     /\ monitor'[m].checkedAt = monitor[m].checkedAt
     /\ monitor'[m].alertAt = monitor[m].alertAt
  \/ monitor'[m].state = "gone"
  \/ /\ monitor[m].state = "unborn"
     /\ monitor'[m].state = "live" /\ monitor'[m].result = "none"

LEMMA EditKeeps ==
  ASSUME Inv, now' = now, job' = job, told' = told, excused' = excused,
         monitor' \in [Monitors -> Row],
         \A m \in Monitors : EditedRow(m),
         status' = "gone" => \A m \in Monitors : ~ Live(m)'
  PROVE  Inv'
<1>1. \A j, m : (Handling(j, m)' <=> Handling(j, m)) /\ (Alerting(j, m)' <=> Alerting(j, m))
  BY DEF Handling, Alerting
<1>2. Typed'
  BY DEF Inv, Typed, JobTyped
<1>3. UnbornAreUntouched'
  BY <1>1 DEF Inv, UnbornAreUntouched, EditedRow
<1>4. Lone'
  BY <1>1 DEF Inv, Lone
<1>5. RowsAreFresh'
  <2>. SUFFICES ASSUME NEW k \in Jobs, job[k].phase = "probe", job[k].id \notin excused
                PROVE  Accurate(job[k].id, job[k].row)'
    BY DEF RowsAreFresh
  <2>. DEFINE m == job[k].id
  <2>1. m \in Monitors /\ Handling(k, m)
    BY DEF Inv, Typed, JobTyped, Handling
  <2>2. monitor[m].state # "unborn" /\ Accurate(m, job[k].row)
    BY <2>1 DEF Inv, UnbornAreUntouched, RowsAreFresh
  <2>3. Live(m)' => Live(m) /\ monitor'[m].result = monitor[m].result
    BY <2>1, <2>2 DEF EditedRow, Live
  <2>. QED
    BY <2>2, <2>3 DEF Accurate
<1>6. ToldAreDown'
  <2>. SUFFICES ASSUME NEW m \in told
                PROVE  m \in Monitors /\ (Live(m)' =>
                         /\ monitor'[m].result = "offline"
                         /\ monitor'[m].alertAt # 0 \/ \E k \in Jobs : Alerting(k, m)')
    BY DEF ToldAreDown
  <2>1. m \in Monitors /\ monitor[m].state # "unborn"
    BY DEF Inv, ToldAreDown, UnbornAreUntouched
  <2>2. CASE Live(m)'
    <3>1. /\ Live(m) /\ monitor'[m].result = monitor[m].result
          /\ monitor'[m].alertAt = monitor[m].alertAt
      BY <2>1, <2>2 DEF EditedRow, Live
    <3>. QED
      BY <1>1, <3>1 DEF Inv, ToldAreDown
  <2>. QED
    BY <2>1, <2>2
<1>7. EveryOutageIsTold'
  <2>. SUFFICES ASSUME NEW m \in Monitors \ excused, Live(m)', monitor'[m].result = "offline"
                PROVE  m \in told
    BY DEF EveryOutageIsTold
  <2>1. Live(m) /\ monitor[m].result = "offline"
    BY DEF EditedRow, Live
  <2>. QED
    BY <2>1 DEF Inv, EveryOutageIsTold
<1>. QED
  BY <1>2, <1>3, <1>4, <1>5, <1>6, <1>7 DEF Inv, DeviceGone

LEMMA RouteKeeps == ASSUME Inv, Route PROVE Inv'
<1>. USE DEF Inv, Typed
<1>1. ASSUME NEW m \in Monitors, NEW enabled \in BOOLEAN,
             monitor[m].state = "unborn", status # "gone",
             monitor' = [monitor EXCEPT ![m] = NewMonitor("live", enabled)],
             status' = "gone" => status = "gone",
             now' = now, job' = job, told' = told, excused' = excused
      PROVE  Inv'
  <2>1. monitor' \in [Monitors -> Row] /\ \A n \in Monitors : EditedRow(n)
    BY <1>1 DEF NewMonitor, Row, EditedRow
  <2>. QED
    BY <1>1, <2>1, EditKeeps
<1>2. ASSUME NEW m \in Monitors, NEW enabled \in BOOLEAN, CreateMonitor(m, enabled)
      PROVE  Inv'
  BY <1>1, <1>2 DEF CreateMonitor
<1>3. ASSUME NEW m \in Monitors, ImportMonitor(m) PROVE Inv'
  <2>1. status' = "gone" => status = "gone"
    BY <1>3, RollupIsNotGone DEF ImportMonitor
  <2>. QED
    BY <1>1, <1>3, <2>1 DEF ImportMonitor
<1>4. ASSUME NEW m \in Monitors, NEW enabled \in BOOLEAN, UpdateMonitor(m, enabled)
      PROVE  Inv'
  <2>1. /\ monitor' \in [Monitors -> Row]
        /\ \A n \in Monitors : EditedRow(n) /\ monitor'[n].state = monitor[n].state
    BY <1>4 DEF UpdateMonitor, Row, EditedRow
  <2>2. status' = "gone" => \A n \in Monitors : ~ Live(n)'
    BY <1>4, <2>1, RollupIsNotGone DEF UpdateMonitor, DeviceGone, Live
  <2>. QED
    BY <1>4, <2>1, <2>2, EditKeeps DEF UpdateMonitor
<1>5. ASSUME NEW m \in Monitors, DeleteMonitor(m) PROVE Inv'
  <2>1. /\ monitor' \in [Monitors -> Row]
        /\ \A n \in Monitors : EditedRow(n) /\ (monitor'[n].state = monitor[n].state
                                                \/ monitor'[n].state = "gone")
    BY <1>5 DEF DeleteMonitor, Gone, NewMonitor, Row, EditedRow
  <2>2. status' = "gone" => \A n \in Monitors : ~ Live(n)'
    BY <1>5, <2>1, RollupIsNotGone DEF DeleteMonitor, DeviceGone, Live
  <2>. QED
    BY <1>5, <2>1, <2>2, EditKeeps DEF DeleteMonitor
<1>6. ASSUME NEW s \in {"online", "maintenance"}, SetStatus(s) PROVE Inv'
  BY <1>6, EditKeeps DEF SetStatus, EditedRow
<1>7. CASE DeleteDevice
  <2>1. /\ monitor' \in [Monitors -> Row]
        /\ \A n \in Monitors : EditedRow(n) /\ ~ Live(n)'
    BY <1>7 DEF DeleteDevice, Gone, NewMonitor, Row, EditedRow, Live
  <2>. QED
    BY <1>7, <2>1, EditKeeps DEF DeleteDevice
<1>8. ASSUME NEW choice \in SettingsChoices, SaveSettings(choice) PROVE Inv'
  BY <1>8, NothingKeeps DEF SaveSettings
<1>. QED
  BY <1>2, <1>3, <1>4, <1>5, <1>6, <1>7, <1>8 DEF Route

LEMMA RestartKeeps == ASSUME Inv, Restart PROVE Inv'
<1>1. /\ now' = now /\ monitor' = monitor /\ status' = status
      /\ job' = [j \in Jobs |-> Idle]
      /\ excused' = excused \cup {m \in Monitors : \E j \in Jobs : Alerting(j, m)}
      /\ told' = told \ excused'
  BY DEF Restart, Alerting
<1>2. \A j \in Jobs : job'[j].phase = "idle"
  BY <1>1 DEF Idle
<1>3. Typed'
  BY <1>1, <1>2 DEF Inv, Typed, JobTyped
<1>4. \A j \in Jobs : \A m : ~ Handling(j, m)'
  BY <1>2 DEF Handling
<1>5. \A m : Live(m)' <=> Live(m)
  BY <1>1 DEF Live
<1>6. ToldAreDown'
  BY <1>1, <1>5 DEF Inv, ToldAreDown
<1>7. UnbornAreUntouched' /\ DeviceGone' /\ Lone' /\ RowsAreFresh'
  BY <1>1, <1>2, <1>4, <1>5 DEF Inv, UnbornAreUntouched, DeviceGone, Lone, RowsAreFresh
<1>8. EveryOutageIsTold'
  BY <1>1, <1>5 DEF Inv, EveryOutageIsTold
<1>. QED
  BY <1>3, <1>6, <1>7, <1>8 DEF Inv

LEMMA TimePassesKeeps == ASSUME Inv, TimePasses PROVE Inv'
<1>1. \A m : Live(m)' <=> Live(m)
  BY DEF TimePasses, Live
<1>2. \A j, m : (Handling(j, m)' <=> Handling(j, m)) /\ (Alerting(j, m)' <=> Alerting(j, m))
  BY DEF TimePasses, Handling, Alerting
<1>. QED
  BY <1>1, <1>2
  DEF TimePasses, Inv, Typed, JobTyped, UnbornAreUntouched, DeviceGone, Lone,
      RowsAreFresh, Accurate, ToldAreDown, EveryOutageIsTold

LEMMA Inductive == Spec => []Inv
<1>1. Init => Inv
  BY MonitorAssumption
  DEF Init, NewMonitor, Idle, Inv, Typed, Row, JobTyped, UnbornAreUntouched, DeviceGone,
      Lone, RowsAreFresh, ToldAreDown, EveryOutageIsTold, Handling
<1>2. Inv /\ [Next]_vars => Inv'
  <2>. SUFFICES ASSUME Inv, [Next]_vars PROVE Inv'
    OBVIOUS
  <2>1. CASE UNCHANGED vars
    BY <2>1, NothingKeeps DEF vars
  <2>2. ASSUME NEW j \in Jobs, JobStep(j) PROVE Inv'
    <3>1. CASE TrapRecords(j)
      BY <3>1, TrapIsAt, PersistKeeps
    <3>2. ASSUME NEW result \in Results, ProbeAnswers(j, result) PROVE Inv'
      BY <3>2, ProbeIsAt, PersistKeeps
    <3>. QED
      BY <2>2, <3>1, <3>2, PassesOverKeeps, RequestRefusedKeeps, ProbeBeginsKeeps,
         AlertSettlesKeeps
      DEF JobStep
  <2>. QED
    BY <2>1, <2>2, JobStartKeeps, RouteKeeps, RestartKeeps, TimePassesKeeps DEF Next
<1>. QED
  BY <1>1, <1>2, PTL DEF Spec

-----------------------------------------------------------------------------
\* Whatever monitors there are, and however passes, requests, traps, edits and
\* restarts interleave, an outage on record was notified when it was recorded,
\* unless two jobs handled its monitor at once, a restart cut its alert off, or
\* it came while alerts were off.
THEOREM OutagesAreTold == Spec => []EveryOutageIsTold
<1>1. Inv => EveryOutageIsTold
  BY DEF Inv
<1>. QED
  BY <1>1, Inductive, PTL

-----------------------------------------------------------------------------
(***************************************************************************)
(* Down alerts.                                                            *)
(***************************************************************************)
\* Job j begins to send a down alert, and the outage was not told yet.
SendsDown(j) ==
  job'[j].phase = "alert" /\ job[j].phase # "alert" /\ job'[j].sends = "down"

IsNews(j) == job'[j].id \in excused' \/ job'[j].id \notin told

LEMMA PersistSendsNews ==
  ASSUME Inv, NEW j \in Jobs, NEW k \in Jobs, NEW this, NEW result \in Results,
         At(j, this), Persist(j, this, result), SendsDown(k)
  PROVE  IsNews(k)
<1>1. k = j
  BY PersistWrites DEF Inv, SendsDown
<1>2. job'[j] = After(j, this, result)
  BY PersistSends DEF Inv
<1>3. Rest(this).phase # "alert"
  BY TurnIsTyped DEF Rest, Idle, At
<1>4. Kind(this.row, result) = "down" /\ job'[j].id = this.id
  BY <1>1, <1>2, <1>3 DEF SendsDown, After
<1>5. ~ (this.row.result = "offline" /\ this.row.alertAt # 0)
  BY <1>4 DEF Kind
<1>6. this.id \notin excused' => this.id \notin excused /\ ~ Shared(j, this.id)
  BY PersistWrites DEF Inv
<1>. QED
  BY <1>1, <1>4, <1>5, <1>6 DEF IsNews, At, Accurate

LEMMA OnlyResultsSend ==
  ASSUME Inv, [Next]_vars, NEW k \in Jobs, SendsDown(k)
  PROVE  \E j \in Jobs : TrapRecords(j) \/ \E result \in Results : ProbeAnswers(j, result)
<1>1. job' # job
  BY DEF SendsDown
<1>2. ~ Route /\ ~ TimePasses
  BY <1>1 DEF Route, TimePasses, CreateMonitor, ImportMonitor, UpdateMonitor, DeleteMonitor,
     SetStatus, DeleteDevice, SaveSettings
<1>3. ~ Restart
  BY DEF SendsDown, Restart, Idle
<1>4. ASSUME NEW j \in Jobs, NEW this, this.phase # "alert", job' = [job EXCEPT ![j] = this]
      PROVE  FALSE
  BY <1>4 DEF SendsDown, Inv, Typed
<1>5. ASSUME NEW kind, NEW todo, NEW link PROVE Turn(kind, todo, link).phase # "alert"
  BY DEF Turn, Idle
<1>6. ASSUME NEW j \in Jobs, JobStart(j) PROVE FALSE
  <2>1. CASE PassBegins(j)
    BY <1>4, <1>5, <2>1 DEF PassBegins
  <2>2. ASSUME NEW set \in SUBSET Monitors, RequestBegins(j, set) PROVE FALSE
    BY <1>4, <1>5, <2>2 DEF RequestBegins
  <2>3. ASSUME NEW link \in LinkResults, TrapArrives(j, link) PROVE FALSE
    BY <1>1, <1>4, <1>5, <2>3 DEF TrapArrives
  <2>. QED
    BY <1>6, <2>1, <2>2, <2>3 DEF JobStart
<1>7. ASSUME NEW j \in Jobs,
             PassesOver(j) \/ RequestRefused(j) \/ ProbeBegins(j) \/ AlertSettles(j)
      PROVE  FALSE
  <2>1. CASE PassesOver(j)
    BY <1>4, <1>5, <2>1 DEF PassesOver
  <2>2. CASE RequestRefused(j)
    BY <1>4, <2>2 DEF RequestRefused, Idle
  <2>3. CASE ProbeBegins(j)
    <3>1. Handle(j).phase # "alert"
      BY DEF Handle
    <3>. QED
      BY <1>4, <2>3, <3>1 DEF ProbeBegins
  <2>4. CASE AlertSettles(j)
    <3>1. Rest(job[j]).phase # "alert"
      BY <1>5 DEF Rest, Idle
    <3>. QED
      BY <1>4, <2>4, <3>1 DEF AlertSettles
  <2>. QED
    BY <1>7, <2>1, <2>2, <2>3, <2>4
<1>. QED
  BY <1>1, <1>2, <1>3, <1>6, <1>7 DEF Next, JobStep, vars

\* No outage is notified twice, whatever monitors and settings there are, with
\* the exceptions of OutagesAreTold.
THEOREM OutagesAreToldOnce == Spec => OneAlertPerOutage
<1>1. ASSUME Inv, [Next]_vars, NEW k \in Jobs, SendsDown(k) PROVE IsNews(k)
  <2>1. PICK j \in Jobs :
          TrapRecords(j) \/ \E result \in Results : ProbeAnswers(j, result)
    BY <1>1, OnlyResultsSend
  <2>2. CASE TrapRecords(j)
    BY <1>1, <2>2, TrapIsAt, PersistSendsNews
  <2>3. ASSUME NEW result \in Results, ProbeAnswers(j, result) PROVE IsNews(k)
    BY <1>1, <2>3, ProbeIsAt, PersistSendsNews
  <2>. QED
    BY <2>1, <2>2, <2>3
<1>2. Inv /\ [Next]_vars =>
        \A j \in Jobs :
          LET after == job'[j] IN
          after.phase = "alert" /\ job[j].phase # "alert" /\ after.sends = "down"
            => after.id \in excused' \/ after.id \notin told
  BY <1>1 DEF SendsDown, IsNews
<1>. QED
  BY <1>2, Inductive, PTL DEF Spec, OneAlertPerOutage

-----------------------------------------------------------------------------
(***************************************************************************)
(* The status of the device.                                               *)
(***************************************************************************)
LEMMA RollupAgrees ==
  ASSUME status' = Rollup(monitor', status) PROVE Agrees'
<1>1. CASE status \in Exempt
  BY <1>1 DEF Rollup, Agrees
<1>2. CASE Silent(monitor')
  BY <1>2 DEF Silent, Agrees, ActiveMonitors, Active, Live
<1>3. CASE status \notin Exempt /\ ~ Silent(monitor')
  BY <1>3 DEF Rollup, Agrees, Verdict
<1>. QED
  BY <1>1, <1>2, <1>3

Checked == \E m \in Monitors : monitor'[m].checkedAt # monitor[m].checkedAt

Follows == (Checked => Agrees') /\ (Agrees /\ monitor' # monitor => Agrees')

\* A row may come or change, as long as the active monitors found the same
\* links up and down.
LEMMA SameLinks ==
  ASSUME Agrees, status' = status,
         \A m \in Monitors, r \in LinkResults :
           (m \in ActiveMonitors /\ monitor[m].result = r)
             <=> (m \in ActiveMonitors' /\ monitor'[m].result = r)
  PROVE  Agrees'
<1>1. CASE status \in Exempt
  BY <1>1 DEF Agrees
<1>2. CASE \A m \in ActiveMonitors : monitor[m].result \notin LinkResults
  BY <1>2 DEF Agrees, ActiveMonitors, LinkResults
<1>3. CASE status = Verdict(monitor)
  <2>1. \A r \in LinkResults :
          r \in {monitor[m].result : m \in {n \in Monitors :
                                             monitor[n].state = "live" /\ monitor[n].enabled}}
          <=> r \in {monitor'[m].result : m \in {n \in Monitors :
                                             monitor'[n].state = "live" /\ monitor'[n].enabled}}
    BY DEF ActiveMonitors, Active, Live
  <2>2. Verdict(monitor) = Verdict(monitor')
    BY <2>1 DEF Verdict, LinkResults
  <2>. QED
    BY <1>3, <2>2 DEF Agrees, Verdict
<1>. QED
  BY <1>1, <1>2, <1>3 DEF Agrees

LEMMA JobStepFollows ==
  ASSUME Inv, NEW j \in Jobs, JobStep(j) PROVE Follows
<1>1. CASE monitor' = monitor
  BY <1>1 DEF Follows, Checked
<1>2. CASE TrapRecords(j)
  BY <1>2, TrapIsAt, PersistWrites, RollupAgrees DEF Inv, Follows
<1>3. ASSUME NEW result \in Results, ProbeAnswers(j, result) PROVE Follows
  BY <1>3, ProbeIsAt, PersistWrites, RollupAgrees DEF Inv, Follows
<1>4. CASE AlertSettles(j) /\ monitor' # monitor
  <2>. DEFINE m == job[j].id
  <2>1. Live(m) /\ monitor' = [monitor EXCEPT ![m].alertAt = job[j].began]
    BY <1>4 DEF AlertSettles
  <2>2. \A n \in Monitors :
          /\ monitor'[n].state = monitor[n].state /\ monitor'[n].enabled = monitor[n].enabled
          /\ monitor'[n].result = monitor[n].result
          /\ monitor'[n].checkedAt = monitor[n].checkedAt
    BY <2>1 DEF Inv, Typed, Row
  <2>3. \A n \in Monitors : n \in ActiveMonitors' <=> n \in ActiveMonitors
    BY <2>2 DEF ActiveMonitors, Active, Live
  <2>4. ASSUME Agrees PROVE Agrees'
    <3>1. CASE status' = status
      BY <2>2, <2>3, <2>4, <3>1, SameLinks
    <3>2. CASE status' = Rollup(monitor, status)
      <4>1. Rollup(monitor', status) = Rollup(monitor, status)
        BY <2>2 DEF Rollup, Silent, Verdict
      <4>. QED
        BY <3>2, <4>1, RollupAgrees
    <3>. QED
      BY <1>4, <3>1, <3>2 DEF AlertSettles
  <2>. QED
    BY <2>2, <2>4 DEF Follows, Checked
<1>. QED
  BY <1>1, <1>2, <1>3, <1>4 DEF JobStep, PassesOver, RequestRefused, ProbeBegins

LEMMA RouteFollows == ASSUME Inv, Route PROVE Follows
<1>1. CASE monitor' = monitor
  BY <1>1 DEF Follows, Checked
<1>2. ASSUME NEW m \in Monitors, NEW enabled \in BOOLEAN, CreateMonitor(m, enabled)
      PROVE  Follows
  <2>1. monitor[m].state = "unborn" /\ monitor[m].checkedAt = 0 /\ status' = status
    BY <1>2 DEF CreateMonitor, Inv, UnbornAreUntouched
  <2>2. /\ monitor'[m].checkedAt = 0 /\ monitor'[m].result = "none"
        /\ \A n \in Monitors : n # m => monitor'[n] = monitor[n]
    BY <1>2 DEF CreateMonitor, NewMonitor, Inv, Typed
  <2>3. \A n \in Monitors : n # m => (n \in ActiveMonitors' <=> n \in ActiveMonitors)
    BY <2>2 DEF ActiveMonitors, Active, Live
  <2>4. m \notin ActiveMonitors
    BY <2>1 DEF ActiveMonitors, Active, Live
  <2>5. Agrees => Agrees'
    BY <2>1, <2>2, <2>3, <2>4, SameLinks DEF LinkResults
  <2>. QED
    BY <2>1, <2>2, <2>5 DEF Follows, Checked
<1>3. ASSUME NEW m \in Monitors, ImportMonitor(m) PROVE Follows
  BY <1>3, RollupAgrees DEF ImportMonitor, Follows
<1>4. ASSUME NEW m \in Monitors, NEW enabled \in BOOLEAN, UpdateMonitor(m, enabled)
      PROVE  Follows
  BY <1>4, RollupAgrees DEF UpdateMonitor, Follows
<1>5. ASSUME NEW m \in Monitors, DeleteMonitor(m) PROVE Follows
  BY <1>5, RollupAgrees DEF DeleteMonitor, Follows
<1>6. CASE DeleteDevice
  BY <1>6 DEF DeleteDevice, Follows, Agrees, Exempt
<1>. QED
  BY <1>1, <1>2, <1>3, <1>4, <1>5, <1>6 DEF Route, SetStatus, SaveSettings

\* However late a result comes, and whatever was edited meanwhile, a check, a
\* trap or a route that changes the monitors leaves the device status in
\* agreement with the active ones.
THEOREM StatusFollows == Spec => StatusFollowsMonitors
<1>1. ASSUME Inv, [Next]_vars PROVE Follows
  <2>1. CASE monitor' = monitor
    BY <2>1 DEF Follows, Checked
  <2>. QED
    BY <1>1, <2>1, JobStepFollows, RouteFollows
    DEF Next, vars, JobStart, PassBegins, RequestBegins, TrapArrives, Restart, TimePasses
<1>2. Inv /\ [Next]_vars =>
        /\ (\E m \in Monitors : monitor'[m].checkedAt # monitor[m].checkedAt) => Agrees'
        /\ Agrees /\ monitor' # monitor => Agrees'
  BY <1>1 DEF Follows, Checked
<1>. QED
  BY <1>2, Inductive, PTL DEF Spec, StatusFollowsMonitors
===============================================================================
