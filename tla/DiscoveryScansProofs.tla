-------------------------- MODULE DiscoveryScansProofs --------------------------
(***************************************************************************)
(* The queue of DiscoveryScans for any networks, labs, schedules and       *)
(* limits.                                                                 *)
(***************************************************************************)
EXTENDS DiscoveryScans, FiniteSetTheorems, SequenceTheorems, WellFoundedInduction, TLAPS

(***************************************************************************)
(* The invariant, of any queue js and set `run` of running schedules:      *)
(* StartJob passes through a queue that is in no state.                    *)
(***************************************************************************)
Attached(js, run) ==
  /\ \A s : s \in run <=> \E i \in DOMAIN js : s \in js[i].scheduleIds
  /\ \A i, k \in DOMAIN js : \A s :
       s \in js[i].scheduleIds /\ s \in js[k].scheduleIds => i = k

OnePerNetwork(js) == \A i, k \in DOMAIN js : js[i].net = js[k].net => i = k

InOrder(js) ==
  \A i \in Queued(js), k \in Scanning(js) : LabOf[js[i].net] = LabOf[js[k].net] => k < i

OfLab(js, active, n) == {i \in active : LabOf[js[i].net] = LabOf[n]}

WithinLimits(js) ==
  /\ Cardinality(Scanning(js)) <= MaxActive
  /\ \A n \in Networks : Cardinality(OfLab(js, Scanning(js), n)) <= MaxActivePerLab

NothingIdle(js) == \A i \in Queued(js) : ~ Room(js, Scanning(js), js[i].net)

Ordered(js, run) ==
  js \in Seq(Job) /\ Attached(js, run) /\ OnePerNetwork(js) /\ InOrder(js) /\ WithinLimits(js)

QueueInv ==
  /\ rows \in [Schedules -> Row \cup {NoRow}]
  /\ Ordered(jobs, running)
  /\ NothingIdle(jobs)
  /\ Cardinality(Queued(jobs)) <= MaxQueued

-----------------------------------------------------------------------------
(***************************************************************************)
(* Least and greatest elements, and sets of places in a queue.             *)
(***************************************************************************)
LEMMA LeastElement ==
  ASSUME NEW T \in SUBSET Nat, T # {}
  PROVE  \E x \in T : \A y \in T : x <= y
<1> DEFINE Below == {p \in Nat \X Nat : p[1] < p[2]}
<1>1. IsWellFoundedOn(Below, Nat)
  BY NatLessThanWellFounded DEF OpToRel
<1> HIDE DEF Below
<1>2. PICK x \in T : \A y \in T : ~ (<<y, x>> \in Below)
  BY <1>1, WFMin
<1>3. \A y \in T : ~ (y < x)
  BY <1>2 DEF Below
<1>. QED
  BY <1>3

LEMMA GreatestElement ==
  ASSUME NEW n \in Nat, NEW T \in SUBSET (1 .. n), T # {}
  PROVE  \E x \in T : \A y \in T : y <= x
<1> DEFINE Distances == {d \in Nat : \E y \in T : d = n - y}
<1>1. Distances # {} /\ Distances \in SUBSET Nat
  <2>1. PICK y \in T : TRUE
    OBVIOUS
  <2>2. n - y \in Distances
    BY <2>1
  <2>. QED
    BY <2>2
<1>2. PICK d \in Distances : \A e \in Distances : d <= e
  BY <1>1, LeastElement
<1>3. PICK x \in T : d = n - x
  BY <1>2
<1>4. \A y \in T : n - y \in Distances
  OBVIOUS
<1>5. \A y \in T : y <= x
  BY <1>2, <1>3, <1>4
<1>. QED
  BY <1>5

LEMMA Places ==
  ASSUME NEW js \in Seq(Job)
  PROVE  /\ Len(js) \in Nat
         /\ DOMAIN js = 1 .. Len(js)
         /\ IsFiniteSet(DOMAIN js)
         /\ \A i \in DOMAIN js : js[i] \in Job
         /\ Queued(js) \subseteq DOMAIN js
         /\ Scanning(js) \subseteq DOMAIN js
         /\ DOMAIN js \subseteq Nat
         /\ \A i \in DOMAIN js : i \in Queued(js) <=> i \notin Scanning(js)
<1>1. /\ Len(js) \in Nat
      /\ DOMAIN js = 1 .. Len(js)
      /\ \A i \in DOMAIN js : js[i] \in Job
  BY LenProperties, ElementOfSeq
<1>2. IsFiniteSet(DOMAIN js)
  BY <1>1, FS_Interval
<1>. QED
  BY <1>1, <1>2 DEF Queued, Scanning, Job

LEMMA Smaller ==
  ASSUME NEW T, IsFiniteSet(T), NEW S \in SUBSET T
  PROVE  /\ IsFiniteSet(S)
         /\ Cardinality(S) \in Nat
         /\ Cardinality(T) \in Nat
         /\ Cardinality(S) <= Cardinality(T)
  BY FS_Subset, FS_CardinalityType

LEMMA AllButTheGreatest ==
  ASSUME NEW T \in SUBSET Nat, NEW i \in T, \A k \in T : k <= i
  PROVE  T = {k \in T : k < i} \cup {i}
<1>1. \A k \in T : k # i => k < i
  OBVIOUS
<1>. QED
  BY <1>1

\* A job that finds room next to more jobs finds room next to fewer.
LEMMA RoomIsAntitone ==
  ASSUME NEW js, NEW T, IsFiniteSet(T), NEW S \in SUBSET T, NEW n, Room(js, T, n)
  PROVE  Room(js, S, n)
<1>1. OfLab(js, S, n) \in SUBSET OfLab(js, T, n) /\ OfLab(js, T, n) \in SUBSET T
  BY DEF OfLab
<1>2. Cardinality(S) \in Nat /\ Cardinality(T) \in Nat /\ Cardinality(S) <= Cardinality(T)
  BY Smaller
<1>3. IsFiniteSet(OfLab(js, T, n))
  BY <1>1, Smaller
<1>4. /\ Cardinality(OfLab(js, S, n)) \in Nat
      /\ Cardinality(OfLab(js, T, n)) \in Nat
      /\ Cardinality(OfLab(js, S, n)) <= Cardinality(OfLab(js, T, n))
  BY <1>1, <1>3, Smaller
<1>. QED
  BY <1>2, <1>4, LimitsAssumption DEF Room, OfLab

-----------------------------------------------------------------------------
(***************************************************************************)
(* A dispatch.                                                             *)
(***************************************************************************)
LEMMA StartedJobs ==
  ASSUME NEW js \in Seq(Job), NEW S \in SUBSET Queued(js)
  PROVE  /\ Started(js, S) \in Seq(Job)
         /\ DOMAIN Started(js, S) = DOMAIN js
         /\ \A i \in DOMAIN js : /\ Started(js, S)[i].net = js[i].net
                                /\ Started(js, S)[i].scheduleIds = js[i].scheduleIds
         /\ Scanning(Started(js, S)) = Scanning(js) \cup S
         /\ Queued(Started(js, S)) = Queued(js) \ S
<1>. DEFINE new == Started(js, S)
<1>1. DOMAIN new = 1 .. Len(js)
  BY Places DEF Started
<1>2. \A i \in DOMAIN js : /\ new[i] = IF i \in S THEN [js[i] EXCEPT !.status = "running"] ELSE js[i]
                           /\ js[i] \in Job
  BY Places DEF Started
<1>3. \A i \in DOMAIN js : /\ new[i] \in Job
                           /\ new[i].net = js[i].net
                           /\ new[i].scheduleIds = js[i].scheduleIds
                           /\ new[i].status = IF i \in S THEN "running" ELSE js[i].status
  BY <1>2 DEF Job
<1>4. new \in [1 .. Len(js) -> Job]
  BY <1>1, <1>3, Places DEF Started
<1>5. new \in Seq(Job)
  BY <1>4, Places, SeqDef
<1>6. Scanning(new) = Scanning(js) \cup S /\ Queued(new) = Queued(js) \ S
  BY <1>1, <1>3, Places DEF Scanning, Queued
<1>. QED
  BY <1>1, <1>3, <1>5, <1>6, Places

\* The limits hold next to the last job that is started: so they hold.
LEMMA DispatchKeepsLimits ==
  ASSUME NEW js \in Seq(Job), WithinLimits(js),
         NEW S \in SUBSET Queued(js), FirstComeFirstServed(js, S)
  PROVE  WithinLimits(Started(js, S))
<1>. DEFINE new == Started(js, S)
            before(i) == Scanning(js) \cup {k \in S : k < i}
<1>1. S \subseteq DOMAIN js /\ Scanning(js) \subseteq DOMAIN js /\ IsFiniteSet(DOMAIN js)
  BY Places
<1>2. Cardinality(Scanning(new)) <= MaxActive
  <2>1. CASE S = {}
    <3>1. Scanning(new) = Scanning(js) \cup S
      BY StartedJobs
    <3>2. Scanning(js) \cup S = Scanning(js)
      BY <2>1
    <3>3. Cardinality(Scanning(new)) = Cardinality(Scanning(js))
      BY <3>1, <3>2, Zenon
    <3>. HIDE DEF new
    <3>. QED
      BY <3>3 DEF WithinLimits
  <2>2. CASE S # {}
    <3>1. PICK i \in S : \A k \in S : k <= i
      BY <1>1, <2>2, Places, GreatestElement
    <3>2. Scanning(new) = before(i) \cup {i} /\ i \notin before(i) /\ before(i) \subseteq DOMAIN js
      <4>1. i \notin Scanning(js) /\ i \in Nat /\ S \in SUBSET Nat
        BY <1>1, Places
      <4>2. S = {k \in S : k < i} \cup {i}
        BY <3>1, <4>1, AllButTheGreatest
      <4>3. Scanning(new) = Scanning(js) \cup S
        BY StartedJobs
      <4>4. i \notin {k \in S : k < i}
        BY <4>1
      <4>. QED
        BY <1>1, <4>1, <4>2, <4>3, <4>4
    <3>3. Cardinality(before(i)) < MaxActive
      BY DEF FirstComeFirstServed, Room
    <3>4. IsFiniteSet(before(i)) /\ Cardinality(before(i)) \in Nat
      BY <1>1, <3>2, Smaller
    <3>5. Cardinality(Scanning(new)) = Cardinality(before(i)) + 1
      BY <3>2, <3>4, FS_AddElement
    <3>. QED
      BY <3>3, <3>4, <3>5, LimitsAssumption
  <2>. QED
    BY <2>1, <2>2
<1>3. ASSUME NEW n \in Networks
      PROVE  Cardinality(OfLab(new, Scanning(new), n)) <= MaxActivePerLab
  <2>. DEFINE mine == {k \in S : LabOf[js[k].net] = LabOf[n]}
  <2>1. OfLab(new, Scanning(new), n) = OfLab(js, Scanning(js), n) \cup mine
    BY <1>1, StartedJobs DEF OfLab
  <2>2. CASE mine = {}
    BY <2>1, <2>2 DEF WithinLimits
  <2>3. CASE mine # {}
    <3>1. PICK i \in mine : \A k \in mine : k <= i
      BY <1>1, <2>3, Places, GreatestElement
    <3>. DEFINE others == {k \in before(i) : LabOf[js[k].net] = LabOf[js[i].net]}
    <3>2. OfLab(new, Scanning(new), n) = others \cup {i} /\ i \notin others /\ others \subseteq DOMAIN js
      <4>1. i \notin Scanning(js) /\ i \in Nat /\ mine \in SUBSET Nat
        BY <1>1, Places
      <4>2. mine = {k \in mine : k < i} \cup {i}
        BY <3>1, <4>1, AllButTheGreatest
      <4>3. others = OfLab(js, Scanning(js), n) \cup {k \in mine : k < i}
        BY DEF OfLab
      <4>4. i \notin others
        BY <4>1
      <4>. QED
        BY <1>1, <2>1, <4>1, <4>2, <4>3, <4>4
    <3>3. Cardinality(others) < MaxActivePerLab
      BY DEF FirstComeFirstServed, Room
    <3>4. IsFiniteSet(others) /\ Cardinality(others) \in Nat
      BY <1>1, <3>2, Smaller
    <3>5. Cardinality(OfLab(new, Scanning(new), n)) = Cardinality(others) + 1
      BY <3>2, <3>4, FS_AddElement
    <3>. QED
      BY <3>3, <3>4, <3>5, LimitsAssumption
  <2>. QED
    BY <2>2, <2>3
<1>. QED
  BY <1>2, <1>3 DEF WithinLimits

\* Of two jobs of a lab the older finds at least the room of the younger.
LEMMA DispatchKeepsOrder ==
  ASSUME NEW js \in Seq(Job), InOrder(js),
         NEW S \in SUBSET Queued(js), FirstComeFirstServed(js, S)
  PROVE  InOrder(Started(js, S))
<1>. DEFINE new == Started(js, S)
            before(i) == Scanning(js) \cup {k \in S : k < i}
<1>. SUFFICES ASSUME NEW i \in Queued(new), NEW k \in Scanning(new),
                     LabOf[new[i].net] = LabOf[new[k].net]
              PROVE  k < i
  BY DEF InOrder
<1>1. /\ i \in Queued(js) /\ i \notin S
      /\ k \in Scanning(js) \/ k \in S
      /\ i \in Nat /\ k \in Nat /\ i # k
      /\ LabOf[js[i].net] = LabOf[js[k].net]
  BY StartedJobs, Places
<1>2. CASE k \in Scanning(js)
  BY <1>1, <1>2 DEF InOrder
<1>3. CASE k \in S /\ i < k
  <2>1. Room(js, before(k), js[k].net)
    BY <1>3 DEF FirstComeFirstServed
  <2>2. before(i) \subseteq before(k)
    <3>1. \A j \in S : j \in Nat
      BY Places
    <3>2. \A j \in S : j < i => j < k
      BY <1>1, <1>3, <3>1
    <3>. QED
      BY <3>2
  <2>3. IsFiniteSet(before(k))
    <3>1. before(k) \subseteq DOMAIN js /\ IsFiniteSet(DOMAIN js)
      BY Places
    <3>. QED
      BY <3>1, Smaller
  <2>4. Room(js, before(i), js[k].net)
    BY <2>1, <2>2, <2>3, RoomIsAntitone
  <2>5. Room(js, before(i), js[i].net)
    BY <1>1, <2>4 DEF Room
  <2>. QED
    BY <1>1, <2>5 DEF FirstComeFirstServed
<1>. QED
  BY <1>1, <1>2, <1>3

LEMMA DispatchLeavesNothingIdle ==
  ASSUME NEW js \in Seq(Job), NEW S \in SUBSET Queued(js), FirstComeFirstServed(js, S)
  PROVE  NothingIdle(Started(js, S))
<1>. DEFINE new == Started(js, S)
            before(i) == Scanning(js) \cup {k \in S : k < i}
<1>. SUFFICES ASSUME NEW i \in Queued(new), Room(new, Scanning(new), new[i].net)
              PROVE  FALSE
  BY DEF NothingIdle
<1>1. i \in Queued(js) /\ i \notin S /\ new[i].net = js[i].net
  BY StartedJobs, Places
<1>2. IsFiniteSet(Scanning(new)) /\ Scanning(new) \subseteq DOMAIN js
  <2>1. Scanning(new) \subseteq DOMAIN js /\ IsFiniteSet(DOMAIN js)
    BY StartedJobs, Places
  <2>. QED
    BY <2>1, Smaller
<1>3. before(i) \subseteq Scanning(new)
  BY StartedJobs
<1>4. Room(new, before(i), js[i].net)
  BY <1>1, <1>2, <1>3, RoomIsAntitone
<1>5. \A j \in before(i) : new[j].net = js[j].net
  <2>1. before(i) \subseteq DOMAIN js
    BY <1>2, <1>3
  <2>. QED
    BY <2>1, StartedJobs
<1>6. OfLab(new, before(i), js[i].net) = OfLab(js, before(i), js[i].net)
  BY <1>5 DEF OfLab
<1>7. Room(js, before(i), js[i].net)
  BY <1>4, <1>6 DEF Room, OfLab
<1>. QED
  BY <1>1, <1>7 DEF FirstComeFirstServed

LEMMA Dispatching ==
  ASSUME NEW js, NEW run, Ordered(js, run), NEW new \in Dispatched(js)
  PROVE  /\ Ordered(new, run)
         /\ NothingIdle(new)
         /\ Queued(new) \subseteq Queued(js)
<1>1. PICK S \in SUBSET Queued(js) : FirstComeFirstServed(js, S) /\ new = Started(js, S)
  BY DEF Dispatched
<1>2. js \in Seq(Job)
  BY DEF Ordered
<1>3. Attached(new, run) /\ OnePerNetwork(new)
  BY <1>1, <1>2, StartedJobs DEF Ordered, Attached, OnePerNetwork
<1>4. WithinLimits(new) /\ InOrder(new) /\ NothingIdle(new)
  BY <1>1, <1>2, DispatchKeepsLimits, DispatchKeepsOrder, DispatchLeavesNothingIdle DEF Ordered
<1>. QED
  BY <1>1, <1>2, <1>3, <1>4, StartedJobs DEF Ordered

-----------------------------------------------------------------------------
(***************************************************************************)
(* startDiscoveryScanJob for a schedule that is not running, or for none.  *)
(***************************************************************************)
LEMMA AppendedJob ==
  ASSUME NEW js \in Seq(Job), NEW job \in Job
  PROVE  LET new == Append(js, job) IN
         /\ new \in Seq(Job)
         /\ Len(js) + 1 \in DOMAIN new /\ Len(js) + 1 \notin DOMAIN js
         /\ DOMAIN new = DOMAIN js \cup {Len(js) + 1}
         /\ new[Len(js) + 1] = job
         /\ \A i \in DOMAIN js : new[i] = js[i] /\ i < Len(js) + 1
<1>. DEFINE new == Append(js, job)
<1>1. /\ new \in Seq(Job) /\ Len(new) = Len(js) + 1
      /\ \A i \in 1 .. Len(js) : new[i] = js[i]
      /\ new[Len(js) + 1] = job
  OBVIOUS
<1>2. DOMAIN new = 1 .. Len(js) + 1 /\ DOMAIN js = 1 .. Len(js) /\ Len(js) \in Nat
  BY <1>1, Places
<1>. QED
  BY <1>1, <1>2

LEMMA Joining ==
  ASSUME NEW js, Ordered(js, running), NothingIdle(js),
         NEW n, NEW who \in SUBSET Schedules, who \cap running = {}, Join(js, n, who)
  PROVE  /\ Ordered(jobs', running')
         /\ NothingIdle(jobs')
         /\ Queued(jobs') = Queued(js)
<1>1. PICK i \in DOMAIN js : /\ jobs' = [js EXCEPT ![i].scheduleIds = @ \cup who]
                            /\ running' = running \cup who
  BY DEF Join, ActiveOf
<1>2. js \in Seq(Job) /\ js[i] \in Job /\ i \in 1 .. Len(js)
  BY Places DEF Ordered
<1>. DEFINE joined == [js[i] EXCEPT !.scheduleIds = @ \cup who]
<1>3. /\ joined \in Job
      /\ joined.net = js[i].net /\ joined.status = js[i].status
      /\ joined.scheduleIds = js[i].scheduleIds \cup who
  BY <1>2 DEF Job
<1>4. jobs' = [js EXCEPT ![i] = joined]
  BY <1>1
<1>5. /\ jobs' \in Seq(Job)
      /\ DOMAIN jobs' = DOMAIN js
      /\ \A k \in DOMAIN js : jobs'[k] = IF k = i THEN joined ELSE js[k]
  <2>1. /\ jobs' \in Seq(Job) /\ Len(jobs') = Len(js)
        /\ \A k \in 1 .. Len(js) : jobs'[k] = IF k = i THEN joined ELSE js[k]
    BY <1>2, <1>3, <1>4, ExceptSeq
  <2>. QED
    BY <1>2, <2>1, LenProperties
<1>6. \A k \in DOMAIN js :
        /\ jobs'[k].net = js[k].net /\ jobs'[k].status = js[k].status
        /\ jobs'[k].scheduleIds = IF k = i THEN js[k].scheduleIds \cup who ELSE js[k].scheduleIds
  BY <1>3, <1>5
<1>7. Queued(jobs') = Queued(js) /\ Scanning(jobs') = Scanning(js)
  BY <1>5, <1>6 DEF Queued, Scanning
<1>8. Queued(js) \subseteq DOMAIN js /\ Scanning(js) \subseteq DOMAIN js
  BY DEF Queued, Scanning
<1>9. Attached(jobs', running')
  <2>1. \A s : s \in running' <=> \E k \in DOMAIN jobs' : s \in jobs'[k].scheduleIds
    BY <1>1, <1>5, <1>6 DEF Ordered, Attached
  <2>2. \A k \in DOMAIN js : \A s : s \in js[k].scheduleIds => s \notin who
    BY DEF Ordered, Attached
  <2>3. ASSUME NEW k \in DOMAIN jobs', NEW l \in DOMAIN jobs', NEW s,
               s \in jobs'[k].scheduleIds, s \in jobs'[l].scheduleIds
        PROVE  k = l
    <3>1. CASE s \in who
      BY <1>5, <1>6, <2>2, <2>3, <3>1
    <3>2. CASE s \notin who
      <4>1. s \in js[k].scheduleIds /\ s \in js[l].scheduleIds
        BY <1>5, <1>6, <2>3, <3>2
      <4>. QED
        BY <1>5, <4>1 DEF Ordered, Attached
    <3>. QED
      BY <3>1, <3>2
  <2>4. \A k, l \in DOMAIN jobs' : \A s :
          s \in jobs'[k].scheduleIds /\ s \in jobs'[l].scheduleIds => k = l
    BY <2>3, Zenon
  <2>. QED
    BY <2>1, <2>4 DEF Attached
<1>10. OnePerNetwork(jobs') /\ InOrder(jobs')
  <2>1. \A k \in DOMAIN js : jobs'[k].net = js[k].net
    BY <1>6
  <2>2. OnePerNetwork(jobs')
    BY <1>5, <2>1 DEF Ordered, OnePerNetwork
  <2>3. \A q \in Queued(js), k \in Scanning(js) :
          LabOf[jobs'[q].net] = LabOf[jobs'[k].net] => k < q
    BY <1>8, <2>1 DEF Ordered, InOrder
  <2>. QED
    BY <1>7, <2>2, <2>3 DEF InOrder
<1>11. \A n_1 : OfLab(jobs', Scanning(jobs'), n_1) = OfLab(js, Scanning(js), n_1)
  BY <1>6, <1>7, <1>8 DEF OfLab
<1>12. WithinLimits(jobs')
  BY <1>7, <1>11 DEF Ordered, WithinLimits
<1>13. NothingIdle(jobs')
  <2>1. \A k \in Queued(js) : jobs'[k].net = js[k].net
    BY <1>6, <1>8
  <2>. QED
    BY <1>7, <1>11, <2>1 DEF NothingIdle, Room, OfLab
<1>. QED
  BY <1>5, <1>7, <1>9, <1>10, <1>12, <1>13 DEF Ordered

LEMMA EnqueuedJob ==
  ASSUME NEW js, Ordered(js, running), NEW n \in Networks,
         NEW who \in SUBSET Schedules, who \cap running = {}, ActiveOf(js, n) = {}
  PROVE  LET new == Append(js, NewJob(n, who)) IN
         /\ Ordered(new, running \cup who)
         /\ Scanning(new) = Scanning(js)
         /\ Queued(new) = Queued(js) \cup {Len(js) + 1}
<1>. DEFINE new == Append(js, NewJob(n, who))
            last == Len(js) + 1
<1>1. js \in Seq(Job) /\ NewJob(n, who) \in Job
  BY DEF Ordered, NewJob, Job
<1>2. /\ new \in Seq(Job)
      /\ last \in DOMAIN new /\ last \notin DOMAIN js
      /\ DOMAIN new = DOMAIN js \cup {last}
      /\ new[last].net = n /\ new[last].status = "queued" /\ new[last].scheduleIds = who
      /\ \A i \in DOMAIN js : new[i] = js[i] /\ i < last
  BY <1>1, AppendedJob DEF NewJob
<1>. HIDE DEF new, last
<1>3. Scanning(new) = Scanning(js) /\ Queued(new) = Queued(js) \cup {last}
  BY <1>2 DEF Scanning, Queued
<1>4. Scanning(js) \subseteq DOMAIN js /\ Queued(js) \subseteq DOMAIN js
  BY DEF Scanning, Queued
<1>5. Attached(new, running \cup who)
  <2>1. \A s : s \in running \cup who <=> \E k \in DOMAIN new : s \in new[k].scheduleIds
    BY <1>2 DEF Ordered, Attached
  <2>2. \A k \in DOMAIN js : \A s : s \in js[k].scheduleIds => s \notin who
    BY DEF Ordered, Attached
  <2>. QED
    BY <1>2, <2>1, <2>2 DEF Ordered, Attached
<1>6. OnePerNetwork(new)
  <2>1. \A k \in DOMAIN js : js[k].net # n
    BY DEF ActiveOf
  <2>. QED
    BY <1>2, <2>1 DEF Ordered, OnePerNetwork
<1>7. InOrder(new)
  BY <1>2, <1>3, <1>4 DEF Ordered, InOrder
<1>8. \A m : OfLab(new, Scanning(new), m) = OfLab(js, Scanning(js), m)
  BY <1>2, <1>3, <1>4 DEF OfLab
<1>9. WithinLimits(new)
  BY <1>3, <1>8 DEF Ordered, WithinLimits
<1>10. Ordered(new, running \cup who)
  BY <1>2, <1>5, <1>6, <1>7, <1>9 DEF Ordered
<1>. QED
  BY <1>3, <1>10 DEF new, last

\* Past a full queue only a job is let that can start at once: it does, since
\* none of those that wait can.
LEMMA NewJobStarts ==
  ASSUME NEW js, Ordered(js, running), NothingIdle(js), NEW n \in Networks,
         NEW who \in SUBSET Schedules, who \cap running = {}, ActiveOf(js, n) = {},
         Room(js, Scanning(js), n),
         NEW new \in Dispatched(Append(js, NewJob(n, who)))
  PROVE  Queued(new) \subseteq Queued(js)
<1>. DEFINE longer == Append(js, NewJob(n, who))
            last == Len(js) + 1
<1>1. /\ js \in Seq(Job) /\ longer \in Seq(Job)
      /\ last \notin DOMAIN js /\ longer[last].net = n
      /\ \A i \in DOMAIN js : longer[i] = js[i]
  BY AppendedJob DEF Ordered, NewJob, Job
<1>2. /\ Scanning(longer) = Scanning(js)
      /\ Queued(longer) = Queued(js) \cup {last}
  BY EnqueuedJob
<1>3. PICK S \in SUBSET Queued(longer) : FirstComeFirstServed(longer, S) /\ new = Started(longer, S)
  BY DEF Dispatched
<1>. HIDE DEF longer, last
<1>4. \A i \in Scanning(js) : longer[i] = js[i]
  BY <1>1, Places
<1>5. \A m : Room(longer, Scanning(js), m) <=> Room(js, Scanning(js), m)
  <2>1. \A m : OfLab(longer, Scanning(js), m) = OfLab(js, Scanning(js), m)
    BY <1>4 DEF OfLab
  <2>. QED
    BY <2>1 DEF Room, OfLab
<1>6. S \subseteq {last}
  <2>. SUFFICES ASSUME NEW i \in S, i # last PROVE FALSE
    OBVIOUS
  <2>. DEFINE before == Scanning(longer) \cup {k \in S : k < i}
  <2>1. Room(longer, before, longer[i].net)
    BY <1>3 DEF FirstComeFirstServed
  <2>2. IsFiniteSet(before)
    <3>1. before \subseteq DOMAIN longer /\ IsFiniteSet(DOMAIN longer)
      BY <1>1, <1>3, Places
    <3>. QED
      BY <3>1, Smaller
  <2>3. Room(longer, Scanning(js), longer[i].net)
    BY <1>2, <2>1, <2>2, RoomIsAntitone
  <2>4. i \in Queued(js) /\ longer[i] = js[i]
    BY <1>1, <1>2, <1>3, Places
  <2>. QED
    BY <1>5, <2>3, <2>4 DEF NothingIdle
<1>7. last \in S
  <2>. SUFFICES ASSUME last \notin S PROVE FALSE
    OBVIOUS
  <2>1. S = {}
    BY <1>6
  <2>2. ~ Room(longer, Scanning(longer) \cup {k \in S : k < last}, longer[last].net)
    BY <1>2, <1>3 DEF FirstComeFirstServed
  <2>3. ~ Room(longer, Scanning(js), n)
    BY <1>1, <1>2, <2>1, <2>2
  <2>. QED
    BY <1>5, <2>3
<1>. QED
  BY <1>1, <1>2, <1>3, <1>7, StartedJobs

LEMMA Enqueuing ==
  ASSUME NEW js, Ordered(js, running), NothingIdle(js), Cardinality(Queued(js)) <= MaxQueued,
         NEW n \in Networks, NEW who \in SUBSET Schedules, who \cap running = {},
         Enqueue(js, n, who)
  PROVE  /\ Ordered(jobs', running')
         /\ NothingIdle(jobs')
         /\ Cardinality(Queued(jobs')) <= MaxQueued
<1>. DEFINE longer == Append(js, NewJob(n, who))
<1>1. /\ ActiveOf(js, n) = {} /\ ~ Full(js, n)
      /\ jobs' \in Dispatched(longer)
      /\ running' = running \cup who
  BY DEF Enqueue
<1>2. Ordered(longer, running \cup who) /\ Queued(longer) = Queued(js) \cup {Len(js) + 1}
  BY <1>1, EnqueuedJob
<1>3. Ordered(jobs', running') /\ NothingIdle(jobs') /\ Queued(jobs') \subseteq Queued(longer)
  BY <1>1, <1>2, Dispatching
<1>4. js \in Seq(Job) /\ IsFiniteSet(Queued(js)) /\ Cardinality(Queued(js)) \in Nat
  <2>1. js \in Seq(Job)
    BY DEF Ordered
  <2>2. Queued(js) \subseteq DOMAIN js /\ IsFiniteSet(DOMAIN js)
    BY <2>1, Places
  <2>. QED
    BY <2>1, <2>2, Smaller
<1>5. CASE Cardinality(Queued(js)) < MaxQueued
  <2>. DEFINE waiting == Queued(js)
  <2>0. /\ IsFiniteSet(waiting \cup {Len(js) + 1})
        /\ Cardinality(waiting \cup {Len(js) + 1}) =
             IF Len(js) + 1 \in waiting THEN Cardinality(waiting) ELSE Cardinality(waiting) + 1
    BY <1>4, FS_AddElement
  <2>1. /\ IsFiniteSet(Queued(longer))
        /\ Cardinality(Queued(longer)) <= Cardinality(Queued(js)) + 1
    BY <1>2, <1>4, <2>0
  <2>2. /\ Cardinality(Queued(jobs')) <= Cardinality(Queued(longer))
        /\ Cardinality(Queued(jobs')) \in Nat /\ Cardinality(Queued(longer)) \in Nat
    BY <1>3, <2>1, Smaller
  <2>. QED
    BY <1>3, <1>4, <1>5, <2>1, <2>2, LimitsAssumption
<1>6. CASE Room(js, Scanning(js), n)
  <2>1. Queued(jobs') \subseteq Queued(js)
    BY <1>1, <1>6, NewJobStarts
  <2>2. Cardinality(Queued(jobs')) <= Cardinality(Queued(js)) /\ Cardinality(Queued(jobs')) \in Nat
    BY <1>4, <2>1, Smaller
  <2>. QED
    BY <1>3, <1>4, <2>2, LimitsAssumption
<1>. QED
  BY <1>1, <1>4, <1>5, <1>6, LimitsAssumption DEF Full

LEMMA StartingAJob ==
  ASSUME QueueInv, NEW n \in Networks, NEW who \in SUBSET Schedules, who \cap running = {},
         StartJob(n, who)
  PROVE  /\ Ordered(jobs', running')
         /\ NothingIdle(jobs')
         /\ Cardinality(Queued(jobs')) <= MaxQueued
<1>1. PICK js \in Dispatched(jobs) : Join(js, n, who) \/ Refuse(js, n) \/ Enqueue(js, n, who)
  BY DEF StartJob
<1>2. Ordered(js, running) /\ NothingIdle(js) /\ Queued(js) \subseteq Queued(jobs)
  BY Dispatching DEF QueueInv
<1>3. Cardinality(Queued(js)) <= MaxQueued
  <2>1. jobs \in Seq(Job)
    BY DEF QueueInv, Ordered
  <2>2. Queued(jobs) \subseteq DOMAIN jobs /\ IsFiniteSet(DOMAIN jobs)
    BY <2>1, Places
  <2>3. IsFiniteSet(Queued(jobs)) /\ Cardinality(Queued(jobs)) \in Nat
    BY <2>2, Smaller
  <2>4. Cardinality(Queued(js)) \in Nat /\ Cardinality(Queued(js)) <= Cardinality(Queued(jobs))
    BY <1>2, <2>3, Smaller
  <2>. QED
    BY <2>3, <2>4, LimitsAssumption DEF QueueInv
<1>4. CASE Join(js, n, who)
  BY <1>2, <1>3, <1>4, Joining
<1>5. CASE Refuse(js, n)
  BY <1>2, <1>3, <1>5 DEF Refuse
<1>6. CASE Enqueue(js, n, who)
  BY <1>2, <1>3, <1>6, Enqueuing
<1>. QED
  BY <1>1, <1>4, <1>5, <1>6

-----------------------------------------------------------------------------
(***************************************************************************)
(* The end of a scan.                                                      *)
(***************************************************************************)
\* What is left of a queue js without its job i keeps its order: each place k of
\* it was place from[k] before.
Remains(new, js, i, from) ==
  /\ new \in Seq(Job)
  /\ \A k \in DOMAIN new : new[k] = js[from[k]] /\ from[k] # i
  /\ \A k, l \in DOMAIN new : (k < l <=> from[k] < from[l]) /\ (from[k] = from[l] => k = l)
  /\ \A l \in DOMAIN js : l # i => \E k \in DOMAIN new : from[k] = l

LEMMA RemovedJob ==
  ASSUME NEW js \in Seq(Job), NEW i \in DOMAIN js
  PROVE  \E from \in [DOMAIN Without(js, i) -> DOMAIN js] : Remains(Without(js, i), js, i, from)
<1>. DEFINE new == Without(js, i)
            from == [k \in 1 .. Len(js) - 1 |-> IF k < i THEN k ELSE k + 1]
<1>1. Len(js) \in Nat /\ DOMAIN js = 1 .. Len(js) /\ i \in 1 .. Len(js) /\ Len(js) - 1 \in Nat
  BY Places
<1>2. DOMAIN new = 1 .. Len(js) - 1 /\ DOMAIN from = 1 .. Len(js) - 1
  BY DEF Without
<1>3. \A k \in 1 .. Len(js) - 1 : from[k] \in 1 .. Len(js) /\ from[k] # i
  BY <1>1
<1>4. \A k \in 1 .. Len(js) - 1 : new[k] = js[from[k]] /\ new[k] \in Job
  BY <1>1, <1>3, Places DEF Without
<1>5. new \in [1 .. Len(js) - 1 -> Job]
  BY <1>2, <1>4 DEF Without
<1>6. new \in Seq(Job)
  BY <1>1, <1>5, SeqDef
<1>7. \A k, l \in 1 .. Len(js) - 1 : (k < l <=> from[k] < from[l]) /\ (from[k] = from[l] => k = l)
  BY <1>1
<1>8. ASSUME NEW l \in 1 .. Len(js), l # i
      PROVE  \E k \in 1 .. Len(js) - 1 : from[k] = l
  <2>1. CASE l < i
    <3>1. l \in 1 .. Len(js) - 1 /\ from[l] = l
      BY <1>1, <2>1
    <3>. QED
      BY <3>1
  <2>2. CASE i < l
    <3>1. l - 1 \in 1 .. Len(js) - 1 /\ from[l - 1] = l
      BY <1>1, <2>2
    <3>. QED
      BY <3>1
  <2>. QED
    BY <1>1, <1>8, <2>1, <2>2
<1>9. from \in [DOMAIN new -> DOMAIN js]
  BY <1>1, <1>2, <1>3
<1>. HIDE DEF from, new
<1>10. Remains(new, js, i, from)
  <2>1. \A k \in DOMAIN new : new[k] = js[from[k]] /\ from[k] # i
    BY <1>2, <1>3, <1>4
  <2>2. \A k, l \in DOMAIN new : (k < l <=> from[k] < from[l]) /\ (from[k] = from[l] => k = l)
    BY <1>2, <1>7
  <2>3. \A l \in DOMAIN js : l # i => \E k \in DOMAIN new : from[k] = l
    BY <1>1, <1>2, <1>8
  <2>. QED
    BY <1>6, <2>1, <2>2, <2>3 DEF Remains
<1>. QED
  BY <1>9, <1>10 DEF new

LEMMA RemovedJobIsOrdered ==
  ASSUME NEW js, NEW run, Ordered(js, run), NEW i \in DOMAIN js
  PROVE  /\ Ordered(Without(js, i), run \ js[i].scheduleIds)
         /\ IsFiniteSet(Queued(Without(js, i)))
         /\ Cardinality(Queued(Without(js, i))) <= Cardinality(Queued(js))
<1>. DEFINE new == Without(js, i)
<1>1. js \in Seq(Job)
  BY DEF Ordered
<1>0. PICK from \in [DOMAIN new -> DOMAIN js] : Remains(new, js, i, from)
  BY <1>1, RemovedJob
<1>. HIDE DEF new
<1>2. /\ from \in [DOMAIN new -> DOMAIN js]
      /\ new \in Seq(Job)
      /\ \A k \in DOMAIN new : new[k] = js[from[k]] /\ from[k] # i
      /\ \A k, l \in DOMAIN new : (k < l <=> from[k] < from[l]) /\ (from[k] = from[l] => k = l)
      /\ \A l \in DOMAIN js : l # i => \E k \in DOMAIN new : from[k] = l
  BY <1>0 DEF Remains
<1>3. Attached(new, run \ js[i].scheduleIds)
  <2>1. ASSUME NEW s
        PROVE  s \in run \ js[i].scheduleIds <=> \E k \in DOMAIN new : s \in new[k].scheduleIds
    <3>1. ASSUME s \in run, s \notin js[i].scheduleIds
          PROVE  \E k \in DOMAIN new : s \in new[k].scheduleIds
      <4>1. PICK l \in DOMAIN js : s \in js[l].scheduleIds
        BY <3>1 DEF Ordered, Attached
      <4>2. PICK k \in DOMAIN new : from[k] = l
        BY <1>2, <3>1, <4>1
      <4>. QED
        BY <1>2, <4>1, <4>2
    <3>2. ASSUME NEW k \in DOMAIN new, s \in new[k].scheduleIds
          PROVE  s \in run \ js[i].scheduleIds
      <4>1. from[k] \in DOMAIN js /\ from[k] # i /\ s \in js[from[k]].scheduleIds
        BY <1>2, <3>2
      <4>. QED
        BY <4>1 DEF Ordered, Attached
    <3>. QED
      BY <3>1, <3>2
  <2>2. ASSUME NEW k \in DOMAIN new, NEW l \in DOMAIN new, NEW s,
               s \in new[k].scheduleIds, s \in new[l].scheduleIds
        PROVE  k = l
    <3>1. from[k] = from[l]
      BY <1>2, <2>2 DEF Ordered, Attached
    <3>. QED
      BY <1>2, <3>1
  <2>3. \A k, l \in DOMAIN new : \A s :
          s \in new[k].scheduleIds /\ s \in new[l].scheduleIds => k = l
    BY <2>2, Zenon
  <2>4. \A s : s \in run \ js[i].scheduleIds <=> \E k \in DOMAIN new : s \in new[k].scheduleIds
    BY <2>1, Zenon
  <2>. QED
    BY <2>3, <2>4, Zenon DEF Attached
<1>4. OnePerNetwork(new)
  <2>. SUFFICES ASSUME NEW k \in DOMAIN new, NEW l \in DOMAIN new, new[k].net = new[l].net
                PROVE  k = l
    BY DEF OnePerNetwork
  <2>1. from[k] = from[l]
    BY <1>2 DEF Ordered, OnePerNetwork
  <2>. QED
    BY <1>2, <2>1
<1>5. /\ \A k \in Scanning(new) : k \in DOMAIN new /\ from[k] \in Scanning(js)
      /\ \A k \in Queued(new) : k \in DOMAIN new /\ from[k] \in Queued(js)
  BY <1>2 DEF Scanning, Queued
<1>6. InOrder(new)
  <2>. SUFFICES ASSUME NEW q \in Queued(new), NEW k \in Scanning(new),
                       LabOf[new[q].net] = LabOf[new[k].net]
                PROVE  k < q
    BY DEF InOrder
  <2>1. from[k] < from[q]
    BY <1>2, <1>5 DEF Ordered, InOrder
  <2>. QED
    BY <1>2, <1>5, <2>1
<1>7. ASSUME NEW T, NEW U, T \subseteq DOMAIN new, IsFiniteSet(U), \A k \in T : from[k] \in U
      PROVE  IsFiniteSet(T) /\ Cardinality(T) <= Cardinality(U)
  <2>. DEFINE f == [k \in T |-> from[k]]
  <2>1. f \in [T -> U] /\ \A k, l \in T : f[k] = f[l] => k = l
    BY <1>2, <1>7
  <2>2. f \in Injection(T, U)
    BY <2>1 DEF Injection, IsInjective
  <2>. QED
    BY <1>7, <2>2, FS_Injection
<1>8. /\ IsFiniteSet(Scanning(js)) /\ Cardinality(Scanning(js)) \in Nat
      /\ IsFiniteSet(Queued(js)) /\ Cardinality(Queued(js)) \in Nat
  <2>1. Scanning(js) \subseteq DOMAIN js /\ Queued(js) \subseteq DOMAIN js /\ IsFiniteSet(DOMAIN js)
    BY <1>1, Places
  <2>. QED
    BY <2>1, Smaller
<1>9. /\ IsFiniteSet(Scanning(new)) /\ Cardinality(Scanning(new)) <= Cardinality(Scanning(js))
      /\ IsFiniteSet(Queued(new)) /\ Cardinality(Queued(new)) <= Cardinality(Queued(js))
  <2>1. Scanning(new) \subseteq DOMAIN new /\ Queued(new) \subseteq DOMAIN new
    BY DEF Scanning, Queued
  <2>. QED
    BY <1>5, <1>7, <1>8, <2>1
<1>10. WithinLimits(new)
  <2>1. ASSUME NEW n \in Networks
        PROVE  Cardinality(OfLab(new, Scanning(new), n)) <= MaxActivePerLab
    <3>. DEFINE T == OfLab(new, Scanning(new), n)
                U == OfLab(js, Scanning(js), n)
    <3>1. T \subseteq DOMAIN new /\ \A k \in T : from[k] \in U
      BY <1>2, <1>5 DEF OfLab
    <3>2. U \subseteq Scanning(js)
      BY DEF OfLab
    <3>3. IsFiniteSet(U) /\ Cardinality(U) \in Nat
      BY <1>8, <3>2, Smaller
    <3>4. IsFiniteSet(T) /\ Cardinality(T) <= Cardinality(U)
      BY <1>7, <3>1, <3>3
    <3>5. Cardinality(T) \in Nat
      BY <3>4, FS_CardinalityType
    <3>6. Cardinality(U) <= MaxActivePerLab
      BY DEF Ordered, WithinLimits
    <3>. QED
      BY <3>3, <3>4, <3>5, <3>6, LimitsAssumption
  <2>2. Cardinality(Scanning(new)) <= MaxActive
    <3>1. Cardinality(Scanning(new)) \in Nat
      BY <1>9, FS_CardinalityType
    <3>. QED
      BY <1>8, <1>9, <3>1, LimitsAssumption DEF Ordered, WithinLimits
  <2>. QED
    BY <2>1, <2>2 DEF WithinLimits
<1>. QED
  BY <1>2, <1>3, <1>4, <1>6, <1>9, <1>10 DEF Ordered, new

LEMMA EndingAScan ==
  ASSUME QueueInv, NEW i \in DOMAIN jobs, Finish(i)
  PROVE  /\ Ordered(jobs', running')
         /\ NothingIdle(jobs')
         /\ Cardinality(Queued(jobs')) <= MaxQueued
<1>. DEFINE left == Without(jobs, i)
<1>1. jobs' \in Dispatched(left) /\ running' = running \ jobs[i].scheduleIds
  BY DEF Finish
<1>2. /\ Ordered(left, running')
      /\ IsFiniteSet(Queued(left)) /\ Cardinality(Queued(left)) <= Cardinality(Queued(jobs))
  BY <1>1, RemovedJobIsOrdered DEF QueueInv
<1>3. Ordered(jobs', running') /\ NothingIdle(jobs') /\ Queued(jobs') \subseteq Queued(left)
  BY <1>1, <1>2, Dispatching
<1>4. Cardinality(Queued(jobs)) \in Nat
  <2>1. jobs \in Seq(Job)
    BY DEF QueueInv, Ordered
  <2>2. Queued(jobs) \subseteq DOMAIN jobs /\ IsFiniteSet(DOMAIN jobs)
    BY <2>1, Places
  <2>. QED
    BY <2>2, Smaller
<1>5. /\ Cardinality(Queued(jobs')) \in Nat /\ Cardinality(Queued(left)) \in Nat
      /\ Cardinality(Queued(jobs')) <= Cardinality(Queued(left))
  BY <1>2, <1>3, Smaller
<1>. QED
  BY <1>2, <1>3, <1>4, <1>5, LimitsAssumption DEF QueueInv

LEMMA EmptyQueueIsOrdered ==
  ASSUME NEW js \in Seq(Job), DOMAIN js = {}
  PROVE  /\ Ordered(js, {})
         /\ NothingIdle(js)
         /\ Cardinality(Queued(js)) <= MaxQueued
<1>1. Scanning(js) = {} /\ Queued(js) = {}
  BY DEF Scanning, Queued
<1>2. \A n \in Networks : OfLab(js, Scanning(js), n) = {}
  BY <1>1 DEF OfLab
<1>3. /\ Cardinality(Scanning(js)) = 0 /\ Cardinality(Queued(js)) = 0
      /\ \A n \in Networks : Cardinality(OfLab(js, Scanning(js), n)) = 0
  BY <1>1, <1>2, FS_EmptySet, Zenon
<1>4. WithinLimits(js)
  BY <1>3, LimitsAssumption DEF WithinLimits
<1>5. Attached(js, {}) /\ OnePerNetwork(js)
  BY DEF Attached, OnePerNetwork
<1>6. InOrder(js) /\ NothingIdle(js)
  BY <1>1 DEF InOrder, NothingIdle
<1>. QED
  BY <1>3, <1>4, <1>5, <1>6, LimitsAssumption DEF Ordered

LEMMA EmptyQueue ==
  /\ Ordered(<<>>, {}) /\ NothingIdle(<<>>)
  /\ Cardinality(Queued(<<>>)) <= MaxQueued
<1>1. <<>> \in Seq(Job) /\ DOMAIN <<>> = {}
  OBVIOUS
<1>. QED
  BY <1>1, EmptyQueueIsOrdered

-----------------------------------------------------------------------------
LEMMA QueueInvHolds == Spec => []QueueInv
<1>1. Init => QueueInv
  <2>. SUFFICES ASSUME Init PROVE QueueInv
    OBVIOUS
  <2>1. jobs = <<>> /\ running = {}
    BY DEF Init
  <2>2. rows \in [Schedules -> Row \cup {NoRow}]
    <3>1. \A n \in Networks : NewRow(n, TRUE) \in Row
      BY DEF NewRow, Row
    <3>2. {NewRow(n, TRUE) : n \in Networks} \subseteq Row
      BY <3>1
    <3>3. rows \in [Schedules -> {NoRow} \cup {NewRow(n, TRUE) : n \in Networks}]
      BY DEF Init
    <3>. QED
      BY <3>2, <3>3
  <2>. QED
    BY <2>1, <2>2, EmptyQueue, Zenon DEF QueueInv
<1>2. QueueInv /\ [Next]_vars => QueueInv'
  <2>. SUFFICES ASSUME QueueInv, [Next]_vars PROVE QueueInv'
    OBVIOUS
  <2>. DEFINE QueueIsSound == /\ Ordered(jobs', running') /\ NothingIdle(jobs')
                              /\ Cardinality(Queued(jobs')) <= MaxQueued
  <2>1. ASSUME QueueIsSound, rows' \in [Schedules -> Row \cup {NoRow}] PROVE QueueInv'
    BY <2>1 DEF QueueInv
  <2>2. UNCHANGED <<jobs, running>> => QueueIsSound
    BY DEF QueueInv
  <2>3. \A s \in Schedules : rows[s] # NoRow => rows[s] \in Row /\ rows[s].net \in Networks
    BY DEF QueueInv, Row
  <2>4. CASE UNCHANGED <<jobs, running, rows>>
    BY <2>1, <2>2, <2>4 DEF QueueInv
  <2>5. CASE PollOne
    <3>1. rows' = rows
      BY <2>5 DEF PollOne
    <3>2. CASE UNCHANGED <<jobs, running>>
      BY <2>4, <3>1, <3>2
    <3>3. CASE LET s == Head(polling) IN s \notin running /\ Due(s) /\ StartJob(rows[s].net, {s})
      <4>. DEFINE s == Head(polling)
      <4>1. s \in Schedules /\ rows[s].net \in Networks /\ s \notin running
        BY <2>3, <3>3 DEF Due, Enabled
      <4>2. StartJob(rows[s].net, {s})
        BY <3>3
      <4>. HIDE DEF s
      <4>3. QueueIsSound
        BY <4>1, <4>2, StartingAJob
      <4>. QED
        BY <2>1, <3>1, <4>3 DEF QueueInv
    <3>. QED
      BY <2>5, <3>2, <3>3 DEF PollOne
  <2>6. ASSUME NEW n \in Networks, ScanEnds(n) PROVE QueueInv'
    <3>1. PICK i \in DOMAIN jobs : Finish(i)
      BY <2>6 DEF ScanEnds, ActiveOf
    <3>2. QueueIsSound
      BY <3>1, EndingAScan
    <3>3. rows' \in [Schedules -> Row \cup {NoRow}]
      <4>1. \A s \in Schedules : rows[s] # NoRow => [rows[s] EXCEPT !.lastRun = "recent"] \in Row
        BY <2>3 DEF Row
      <4>. QED
        BY <3>1, <4>1 DEF Finish, RecordRun, QueueInv
    <3>. QED
      BY <2>1, <3>2, <3>3
  <2>7. ASSUME NEW n \in Networks, ScanNow(n) PROVE QueueInv'
    <3>1. QueueIsSound
      BY <2>7, StartingAJob DEF ScanNow
    <3>. QED
      BY <2>1, <2>7, <3>1 DEF ScanNow, QueueInv
  <2>8. ASSUME NEW s \in Schedules, RunNow(s) PROVE QueueInv'
    <3>1. rows[s].net \in Networks /\ {s} \cap running = {} /\ StartJob(rows[s].net, {s})
      BY <2>3, <2>8 DEF RunNow
    <3>2. QueueIsSound
      BY <3>1, StartingAJob
    <3>. QED
      BY <2>1, <2>8, <3>2 DEF RunNow, QueueInv
  <2>9. ASSUME NEW s \in Schedules, NEW row \in Row \cup {NoRow},
               rows' = [rows EXCEPT ![s] = row], UNCHANGED <<jobs, running>>
        PROVE  QueueInv'
    BY <2>1, <2>2, <2>9 DEF QueueInv
  <2>10. ASSUME NEW s \in Schedules, NEW n \in Networks, NEW b \in BOOLEAN, CreateSchedule(s, n, b)
         PROVE  QueueInv'
    <3>1. NewRow(n, b) \in Row
      BY DEF NewRow, Row
    <3>. QED
      BY <2>9, <2>10, <3>1 DEF CreateSchedule
  <2>11. ASSUME NEW s \in Schedules, NEW row \in Row, UpdateSchedule(s, row) PROVE QueueInv'
    BY <2>9, <2>11 DEF UpdateSchedule
  <2>12. ASSUME NEW s \in Schedules, DeleteSchedule(s) PROVE QueueInv'
    BY <2>9, <2>12 DEF DeleteSchedule
  <2>13. CASE Restart
    <3>1. jobs' = <<>> /\ running' = {} /\ rows' = rows
      BY <2>13 DEF Restart
    <3>. QED
      BY <2>1, <3>1, EmptyQueue, Zenon DEF QueueInv
  <2>14. ASSUME NEW s \in Schedules, IntervalPasses(s) PROVE QueueInv'
    <3>1. [rows[s] EXCEPT !.lastRun = "passed"] \in Row
      BY <2>3, <2>14 DEF IntervalPasses, Row
    <3>2. rows' = [rows EXCEPT ![s] = [rows[s] EXCEPT !.lastRun = "passed"]]
      BY <2>14 DEF IntervalPasses
    <3>. QED
      BY <2>9, <2>14, <3>1, <3>2 DEF IntervalPasses
  <2>. QED
    BY <2>4, <2>5, <2>6, <2>7, <2>8, <2>10, <2>11, <2>12, <2>13, <2>14
    DEF Next, Users, Poll, vars
<1>. QED
  BY <1>1, <1>2, PTL DEF Spec

\* Any number of labs, networks and schedules, and any limits: at most
\* MaxActive scans run, at most MaxActivePerLab of them in a lab, and at most
\* MaxQueued wait, although the queue lets a job in past its limit.
THEOREM QueueIsBounded == Spec => []LimitsHold
<1>1. QueueInv => LimitsHold
  BY DEF QueueInv, Ordered, WithinLimits, OfLab, LimitsHold
<1>. QED
  BY <1>1, QueueInvHolds, PTL

\* No network is queued or scanned twice at a time.
THEOREM NetworksAreScannedOnce == Spec => []OneScanPerNetwork
<1>1. QueueInv => OneScanPerNetwork
  BY DEF QueueInv, Ordered, OnePerNetwork, OneScanPerNetwork
<1>. QED
  BY <1>1, QueueInvHolds, PTL

\* A schedule is marked as running exactly while one job, and no second, will
\* report to it, over any order of polls, edits, requests and ends of scans.
THEOREM RunningMarksAreExact == Spec => []SchedulesAreAttachedOnce
<1>1. QueueInv => SchedulesAreAttachedOnce
  <2>. SUFFICES ASSUME QueueInv PROVE SchedulesAreAttachedOnce
    OBVIOUS
  <2>1. running = UNION {jobs[i].scheduleIds : i \in DOMAIN jobs}
    BY DEF QueueInv, Ordered, Attached
  <2>. QED
    BY <2>1 DEF QueueInv, Ordered, Attached, SchedulesAreAttachedOnce
<1>. QED
  BY <1>1, QueueInvHolds, PTL

\* No job waits that has room, and the scans of a lab start in the order they
\* were asked for.
THEOREM QueueIsFair == Spec => [](NoIdleSlot /\ FairWithinLab)
<1>1. QueueInv => NoIdleSlot /\ FairWithinLab
  BY DEF QueueInv, Ordered, NothingIdle, InOrder, NoIdleSlot, FairWithinLab
<1>. QED
  BY <1>1, QueueInvHolds, PTL

-----------------------------------------------------------------------------
(***************************************************************************)
(* The order of the schedules.                                             *)
(***************************************************************************)
LEMMA AnOrder ==
  ASSUME NEW S, IsFiniteSet(S), NEW q \in SetToSeqs(S)
  PROVE  /\ Cardinality(S) \in Nat /\ DOMAIN q = 1 .. Cardinality(S)
         /\ q \in Seq(S) /\ Len(q) = Cardinality(S)
         /\ \A i, k \in DOMAIN q : q[i] = q[k] => i = k
<1>1. Cardinality(S) \in Nat
  BY FS_CardinalityType
<1>2. /\ q \in [1 .. Cardinality(S) -> S]
      /\ \A i, k \in 1 .. Cardinality(S) : i # k => q[i] # q[k]
  BY DEF SetToSeqs
<1>3. q \in Seq(S)
  BY <1>1, <1>2, IsASeq
<1>. QED
  BY <1>1, <1>2, <1>3

LEMMA OrdersConcatenate ==
  ASSUME NEW S, NEW T, IsFiniteSet(S), IsFiniteSet(T), S \cap T = {},
         NEW p \in SetToSeqs(S), NEW q \in SetToSeqs(T)
  PROVE  p \o q \in SetToSeqs(S \cup T)
<1>. DEFINE m == Cardinality(S)
            n == Cardinality(T)
            r == p \o q
<1>1. /\ m \in Nat /\ p \in [1 .. m -> S] /\ p \in Seq(S) /\ Len(p) = m
      /\ \A i, k \in 1 .. m : p[i] = p[k] => i = k
  BY AnOrder DEF SetToSeqs
<1>2. /\ n \in Nat /\ q \in [1 .. n -> T] /\ q \in Seq(T) /\ Len(q) = n
      /\ \A i, k \in 1 .. n : q[i] = q[k] => i = k
  BY AnOrder DEF SetToSeqs
<1>3. Cardinality(S \cup T) = m + n
  <2>1. Cardinality(S \cup T) = m + n - Cardinality(S \cap T)
    BY FS_Union
  <2>2. Cardinality(S \cap T) = 0
    BY FS_EmptySet
  <2>. QED
    BY <1>1, <1>2, <2>1, <2>2
<1>. HIDE DEF m, n
<1>4. /\ p \in Seq(S \cup T) /\ q \in Seq(S \cup T)
  BY <1>1, <1>2
<1>5. /\ r \in Seq(S \cup T) /\ Len(r) = m + n
      /\ \A i \in 1 .. m + n : r[i] = IF i <= m THEN p[i] ELSE q[i - m]
  <2>1. /\ r \in Seq(S \cup T) /\ Len(r) = Len(p) + Len(q)
        /\ \A i \in 1 .. Len(p) + Len(q) : r[i] = IF i <= Len(p) THEN p[i] ELSE q[i - Len(p)]
    BY <1>4, ConcatProperties
  <2>. QED
    BY <1>1, <1>2, <2>1
<1>. HIDE DEF r
<1>6. r \in [1 .. m + n -> S \cup T]
  BY <1>5, LenProperties
<1>7. ASSUME NEW i \in 1 .. m + n, NEW k \in 1 .. m + n, i # k PROVE r[i] # r[k]
  <2>1. \A j \in 1 .. m + n : \/ j \in 1 .. m /\ r[j] = p[j] /\ r[j] \in S
                              \/ j - m \in 1 .. n /\ ~ j <= m /\ r[j] = q[j - m] /\ r[j] \in T
    BY <1>1, <1>2, <1>5
  <2>2. CASE i \in 1 .. m /\ k \in 1 .. m
    BY <1>1, <1>7, <2>1, <2>2
  <2>3. CASE i \notin 1 .. m /\ k \notin 1 .. m
    <3>1. i - m \in 1 .. n /\ k - m \in 1 .. n /\ r[i] = q[i - m] /\ r[k] = q[k - m]
      BY <2>1, <2>3
    <3>2. i - m # k - m
      BY <1>1, <1>2, <1>7
    <3>. QED
      BY <1>2, <3>1, <3>2
  <2>4. CASE ~ (i \in 1 .. m <=> k \in 1 .. m)
    BY <2>1, <2>4
  <2>. QED
    BY <2>2, <2>3, <2>4
<1>8. r \in SetToSeqs(S \cup T)
  BY <1>3, <1>6, <1>7 DEF SetToSeqs
<1>. QED
  BY <1>8 DEF r

(***************************************************************************)
(* There always is such an order, so that no poll, end of a scan or        *)
(* deletion waits for one: of the sets without an order the least would    *)
(* get one from the rest of it and its latest schedule.                    *)
(***************************************************************************)
LEMMA EveryoneHasAPlace ==
  ASSUME NEW S, IsFiniteSet(S), NEW q \in SetToSeqs(S)
  PROVE  \A s \in S : \E i \in DOMAIN q : q[i] = s
<1>. DEFINE D == 1 .. Cardinality(S)
<1>1. Cardinality(S) \in Nat
  BY FS_CardinalityType
<1>2. IsFiniteSet(D) /\ Cardinality(D) = Cardinality(S)
  BY <1>1, FS_Interval
<1>3. q \in [D -> S] /\ IsInjective(q)
  BY AnOrder DEF SetToSeqs, IsInjective
<1>. HIDE DEF D
<1>4. q \in Surjection(D, S)
  BY <1>2, <1>3, FS_Injection DEF Injection
<1>. QED
  BY <1>4 DEF Surjection

LEMMA OrdersExtend ==
  ASSUME recorded \in SetToSeqs(Ran), NEW T \in SUBSET Ran, T # {},
         \A s \in T : ByLastRun(T \ {s}) # {}
  PROVE  ByLastRun(T) # {}
<1>1. IsFiniteSet(Ran) /\ IsFiniteSet(T)
  BY FS_Subset, SchedulesAssumption DEF Ran
<1>. DEFINE P == {i \in DOMAIN recorded : recorded[i] \in T}
            n == Cardinality(Ran)
<1>2. n \in Nat /\ DOMAIN recorded = 1 .. n
  BY <1>1, AnOrder
<1>3. \A t \in T : \E i \in P : recorded[i] = t
  BY <1>1, EveryoneHasAPlace
<1>. HIDE DEF n
<1>4. PICK last \in P : \A i \in P : i <= last
  <2>1. P \in SUBSET (1 .. n) /\ P # {}
    BY <1>2, <1>3
  <2>. QED
    BY <1>2, <2>1, GreatestElement
<1>5. PICK s \in T : s = recorded[last]
  BY <1>4
<1>. HIDE DEF P
<1>6. PICK q \in ByLastRun(T \ {s}) : TRUE
  BY <1>5
<1>7. /\ q \in SetToSeqs(T \ {s})
      /\ \A i, k \in DOMAIN q : i < k => RanBefore(q[i], q[k])
  BY <1>6 DEF ByLastRun
<1>8. IsFiniteSet(T \ {s}) /\ IsFiniteSet({s}) /\ Cardinality({s}) = 1
  BY <1>1, FS_RemoveElement, FS_Singleton
<1>9. << s >> \in SetToSeqs({s})
  <2>1. << s >> \in [1 .. 1 -> {s}]
    OBVIOUS
  <2>2. \A i, k \in 1 .. 1 : ~ (i # k)
    OBVIOUS
  <2>. QED
    BY <1>8, <2>1, <2>2 DEF SetToSeqs
<1>10. q \o << s >> \in SetToSeqs(T)
  <2>1. q \o << s >> \in SetToSeqs((T \ {s}) \cup {s})
    BY <1>7, <1>8, <1>9, OrdersConcatenate
  <2>2. (T \ {s}) \cup {s} = T
    BY <1>5
  <2>. QED
    BY <2>1, <2>2
<1>11. PICK m \in Nat : /\ DOMAIN q = 1 .. m /\ DOMAIN (q \o << s >>) = 1 .. m + 1
                        /\ \A i \in 1 .. m : (q \o << s >>)[i] = q[i] /\ q[i] \in T \ {s}
                        /\ (q \o << s >>)[m + 1] = s
  <2>1. q \in Seq(T \ {s}) /\ Len(q) \in Nat /\ DOMAIN q = 1 .. Len(q)
    BY <1>7, <1>8, AnOrder
  <2>2. q \in Seq(T) /\ << s >> \in Seq(T) /\ Len(<< s >>) = 1 /\ << s >>[1] = s
    BY <2>1
  <2>3. /\ q \o << s >> \in Seq(T) /\ Len(q \o << s >>) = Len(q) + 1
        /\ \A i \in 1 .. Len(q) + 1 :
             (q \o << s >>)[i] = IF i <= Len(q) THEN q[i] ELSE << s >>[i - Len(q)]
    BY <2>2, ConcatProperties
  <2>4. DOMAIN (q \o << s >>) = 1 .. Len(q) + 1
    BY <2>1, <2>3
  <2>5. (q \o << s >>)[Len(q) + 1] = s
    BY <2>1, <2>2, <2>3
  <2>6. \A i \in 1 .. Len(q) : (q \o << s >>)[i] = q[i] /\ q[i] \in T \ {s}
    BY <2>1, <2>3
  <2>. QED
    BY <2>1, <2>4, <2>5, <2>6
<1>12. \A t \in T \ {s} : RanBefore(t, s)
  <2>1. SUFFICES ASSUME NEW t \in T \ {s} PROVE RanBefore(t, s)
    OBVIOUS
  <2>2. PICK i \in P : recorded[i] = t
    BY <1>3
  <2>3. i \in DOMAIN recorded /\ last \in DOMAIN recorded /\ i <= last /\ i # last
    BY <1>4, <1>5, <2>2 DEF P
  <2>4. i < last
    BY <1>2, <2>3
  <2>. QED
    BY <1>5, <2>2, <2>3, <2>4 DEF RanBefore
<1>13. PICK r : r = q \o << s >>
  OBVIOUS
<1>14. ASSUME NEW i \in 1 .. m + 1, NEW k \in 1 .. m + 1, i < k
       PROVE  RanBefore(r[i], r[k])
  <2>1. i \in 1 .. m /\ r[i] = q[i] /\ r[i] \in T \ {s}
    BY <1>11, <1>13, <1>14
  <2>2. CASE k = m + 1
    BY <1>11, <1>12, <1>13, <2>1, <2>2
  <2>3. CASE k \in 1 .. m
    BY <1>7, <1>11, <1>13, <1>14, <2>1, <2>3
  <2>. QED
    BY <1>11, <2>2, <2>3
<1>15. r \in ByLastRun(T)
  BY <1>10, <1>11, <1>13, <1>14 DEF ByLastRun
<1>. QED
  BY <1>15

LEMMA OrdersExist ==
  ASSUME recorded \in SetToSeqs(Ran), NEW S \in SUBSET Ran
  PROVE  ByLastRun(S) # {}
<1>. DEFINE Unordered(T) == T \in SUBSET Ran /\ ByLastRun(T) = {}
            Sizes == {n \in Nat : \E T : Unordered(T) /\ n = Cardinality(T)}
<1>. SUFFICES ASSUME ByLastRun(S) = {} PROVE FALSE
  OBVIOUS
<1>1. \A T \in SUBSET Ran : IsFiniteSet(T) /\ Cardinality(T) \in Nat
  BY FS_Subset, FS_CardinalityType, SchedulesAssumption DEF Ran
<1>2. PICK n \in Sizes : \A k \in Sizes : n <= k
  <2>1. Cardinality(S) \in Sizes
    BY <1>1
  <2>. QED
    BY <2>1, LeastElement
<1>3. PICK T \in SUBSET Ran : ByLastRun(T) = {} /\ n = Cardinality(T)
  BY <1>2
<1>4. T # {}
  <2>1. << >> \in SetToSeqs({})
    BY FS_EmptySet DEF SetToSeqs
  <2>2. << >> \in ByLastRun({})
    BY <2>1 DEF ByLastRun
  <2>. QED
    BY <1>3, <2>2
<1>5. ASSUME NEW s \in T PROVE ByLastRun(T \ {s}) # {}
  <2>1. Cardinality(T \ {s}) = n - 1 /\ n - 1 \in Nat
    BY <1>1, <1>3, FS_RemoveElement
  <2>2. n - 1 \notin Sizes
    BY <1>2, <2>1
  <2>. QED
    BY <2>1, <2>2
<1>. QED
  BY <1>3, <1>4, <1>5, OrdersExtend

\* A poll asks every enabled schedule once.
LEMMA PollsAskOnce ==
  ASSUME NEW q \in OldestFirst
  PROVE  q \in SetToSeqs(Enabled)
<1>1. PICK parts \in SetToSeqs(Enabled \ Ran) \X ByLastRun(Enabled \cap Ran) :
        q = parts[1] \o parts[2]
  BY DEF OldestFirst
<1>2. /\ parts[1] \in SetToSeqs(Enabled \ Ran) /\ parts[2] \in SetToSeqs(Enabled \cap Ran)
      /\ (Enabled \ Ran) \cap (Enabled \cap Ran) = {}
  BY DEF ByLastRun
<1>3. IsFiniteSet(Enabled \ Ran) /\ IsFiniteSet(Enabled \cap Ran)
  BY FS_Subset, SchedulesAssumption DEF Enabled
<1>4. q \in SetToSeqs((Enabled \ Ran) \cup (Enabled \cap Ran))
  BY <1>1, <1>2, <1>3, OrdersConcatenate
<1>5. (Enabled \ Ran) \cup (Enabled \cap Ran) = Enabled
  OBVIOUS
<1>. QED
  BY <1>4, <1>5

OrderInv ==
  /\ recorded \in SetToSeqs(Ran)
  /\ polling \in Seq(Schedules)
  /\ \A i, k \in DOMAIN polling : polling[i] = polling[k] => i = k
  /\ acts \in 0 .. MaxActs

LEMMA OrderInvHolds == Spec => []OrderInv
<1>1. Init => OrderInv
  <2>. SUFFICES ASSUME Init PROVE OrderInv
    OBVIOUS
  <2>1. \A s \in Schedules : rows[s] # NoRow => rows[s].lastRun = "never"
    BY DEF Init, NewRow
  <2>2. Ran = {}
    BY <2>1 DEF Ran
  <2>3. << >> \in SetToSeqs({})
    BY FS_EmptySet DEF SetToSeqs
  <2>4. recorded = << >> /\ polling = << >> /\ acts \in 0 .. MaxActs
    BY LimitsAssumption DEF Init
  <2>. QED
    BY <2>2, <2>3, <2>4 DEF OrderInv
<1>2. QueueInv /\ OrderInv /\ [Next]_vars => OrderInv'
  <2>. SUFFICES ASSUME QueueInv, OrderInv, [Next]_vars PROVE OrderInv'
    OBVIOUS
  <2>. USE DEF OrderInv
  <2>1. \A s \in Schedules : rows[s] # NoRow => rows[s] \in Row
    BY DEF QueueInv
  <2>2. rows' = rows => Ran' = Ran
    BY DEF Ran
  <2>3. Request => acts' \in 0 .. MaxActs
    BY LimitsAssumption DEF Request
  <2>4. CASE UNCHANGED vars
    BY <2>2, <2>4 DEF vars
  <2>5. CASE Poll
    <3>1. polling' \in SetToSeqs(Enabled) /\ IsFiniteSet(Enabled) /\ Enabled \subseteq Schedules
      BY <2>5, PollsAskOnce, FS_Subset, SchedulesAssumption DEF Poll, Enabled
    <3>2. /\ polling' \in Seq(Schedules)
          /\ \A i, k \in DOMAIN polling' : polling'[i] = polling'[k] => i = k
      <4>1. /\ polling' \in Seq(Enabled)
            /\ \A i, k \in DOMAIN polling' : polling'[i] = polling'[k] => i = k
        BY <3>1, AnOrder
      <4>. QED
        BY <3>1, <4>1
    <3>. QED
      BY <2>2, <2>5, <3>2 DEF Poll
  <2>6. CASE PollOne
    <3>1. polling' = Tail(polling) /\ polling # << >> /\ UNCHANGED <<rows, recorded, acts>>
      BY <2>6 DEF PollOne
    <3>2. /\ polling' \in Seq(Schedules) /\ Len(polling') = Len(polling) - 1
          /\ \A i \in 1 .. Len(polling') : polling'[i] = polling[i + 1]
      BY <3>1
    <3>3. \A i, k \in DOMAIN polling' : polling'[i] = polling'[k] => i = k
      BY <3>2, SMTT(30)
    <3>. QED
      BY <2>2, <3>1, <3>2, <3>3
  <2>7. ASSUME NEW n \in Networks, ScanEnds(n) PROVE OrderInv'
    <3>1. PICK i \in DOMAIN jobs : Finish(i)
      BY <2>7 DEF ScanEnds, ActiveOf
    <3>2. PICK who : who = jobs[i].scheduleIds
      OBVIOUS
    <3>. DEFINE Late == {s \in who : rows[s] # NoRow}
    <3>3. who \subseteq Schedules
      <4>1. jobs[i] \in Job
        BY <3>1 DEF QueueInv, Ordered
      <4>. QED
        BY <3>2, <4>1 DEF Job
    <3>4. RecordRun(who) /\ UNCHANGED <<polling, acts>>
      BY <3>1, <3>2 DEF Finish
    <3>5. PICK earlier \in SetToSeqs(Ran \ who), latest \in SetToSeqs(Late) :
            recorded' = earlier \o latest
      BY <3>4 DEF RecordRun, ByLastRun
    <3>6. /\ Ran \ who \subseteq Schedules /\ Late \subseteq Schedules
          /\ (Ran \ who) \cap Late = {}
      BY <3>3 DEF Ran
    <3>7. IsFiniteSet(Ran \ who) /\ IsFiniteSet(Late)
      BY <3>6, FS_Subset, SchedulesAssumption
    <3>8. recorded' \in SetToSeqs((Ran \ who) \cup Late)
      BY <3>5, <3>6, <3>7, OrdersConcatenate
    <3>9. Ran' = (Ran \ who) \cup Late
      <4>1. \A s \in Schedules :
              rows'[s] = IF s \in who /\ rows[s] # NoRow
                         THEN [rows[s] EXCEPT !.lastRun = "recent"] ELSE rows[s]
        BY <3>4 DEF RecordRun
      <4>2. \A s \in Schedules : rows[s] # NoRow =>
              [rows[s] EXCEPT !.lastRun = "recent"].lastRun = "recent"
        BY <2>1 DEF Row
      <4>3. \A s \in Schedules : rows[s] # NoRow =>
              [rows[s] EXCEPT !.lastRun = "recent"] \in Row
        BY <2>1 DEF Row
      <4>4. NoRow \notin Row
        BY RowAssumption
      <4>5. \A s \in Schedules :
              rows'[s] # NoRow /\ rows'[s].lastRun # "never"
                <=> s \in Late \/ (s \notin who /\ rows[s] # NoRow /\ rows[s].lastRun # "never")
        BY <4>1, <4>2, <4>3, <4>4
      <4>6. Ran' = {s \in Schedules : rows'[s] # NoRow /\ rows'[s].lastRun # "never"}
        BY DEF Ran
      <4>. QED
        BY <3>6, <4>5, <4>6 DEF Ran
    <3>. QED
      BY <3>4, <3>8, <3>9
  <2>8. ASSUME NEW n \in Networks, ScanNow(n) PROVE OrderInv'
    BY <2>2, <2>3, <2>8 DEF ScanNow
  <2>9. ASSUME NEW s \in Schedules, RunNow(s) PROVE OrderInv'
    BY <2>2, <2>3, <2>9 DEF RunNow
  <2>10. ASSUME NEW s \in Schedules, NEW n \in Networks, NEW b \in BOOLEAN, CreateSchedule(s, n, b)
         PROVE  OrderInv'
    <3>1. rows[s] = NoRow /\ rows' = [rows EXCEPT ![s] = NewRow(n, b)]
      BY <2>10 DEF CreateSchedule
    <3>2. Ran' = Ran
      BY <3>1 DEF Ran, NewRow, QueueInv
    <3>. QED
      BY <2>3, <2>10, <3>2 DEF CreateSchedule
  <2>11. ASSUME NEW s \in Schedules, NEW row \in Row, UpdateSchedule(s, row) PROVE OrderInv'
    <3>1. /\ rows[s] # NoRow /\ rows' = [rows EXCEPT ![s] = row]
          /\ row.lastRun = "never" <=> rows[s].lastRun = "never"
      BY <2>11 DEF UpdateSchedule
    <3>2. Ran' = Ran
      BY <3>1, RowAssumption DEF Ran, QueueInv
    <3>. QED
      BY <2>3, <2>11, <3>2 DEF UpdateSchedule
  <2>12. ASSUME NEW s \in Schedules, DeleteSchedule(s) PROVE OrderInv'
    <3>1. rows' = [rows EXCEPT ![s] = NoRow] /\ recorded' \in SetToSeqs(Ran \ {s})
      BY <2>12 DEF DeleteSchedule, ByLastRun
    <3>2. Ran' = Ran \ {s}
      BY <3>1 DEF Ran, QueueInv
    <3>. QED
      BY <2>3, <2>12, <3>1, <3>2 DEF DeleteSchedule
  <2>13. CASE Restart
    BY <2>2, <2>3, <2>13 DEF Restart
  <2>14. ASSUME NEW s \in Schedules, IntervalPasses(s) PROVE OrderInv'
    <3>1. /\ rows[s] # NoRow /\ rows[s].lastRun = "recent"
          /\ rows' = [rows EXCEPT ![s] = [rows[s] EXCEPT !.lastRun = "passed"]]
      BY <2>14 DEF IntervalPasses
    <3>2. PICK row : row = [rows[s] EXCEPT !.lastRun = "passed"]
      OBVIOUS
    <3>3. row \in Row /\ row.lastRun = "passed"
      BY <2>1, <3>1, <3>2 DEF Row
    <3>4. Ran' = Ran
      BY <3>1, <3>2, <3>3, RowAssumption DEF Ran, QueueInv
    <3>. QED
      BY <2>14, <3>4 DEF IntervalPasses
  <2>. QED
    BY <2>4, <2>5, <2>6, <2>7, <2>8, <2>9, <2>10, <2>11, <2>12, <2>13, <2>14 DEF Next, Users
<1>. QED
  BY <1>1, <1>2, QueueInvHolds, PTL DEF Spec

\* For any schedules and networks: each schedule that has a lastRunAt keeps one
\* place in the order of the polls, whatever scan it joined and whoever edits
\* or deletes it meanwhile, and no poll asks a schedule twice.
THEOREM SchedulesKeepTheirPlace == Spec => []TypeOK
<1>1. QueueInv /\ OrderInv => TypeOK
  <2>. SUFFICES ASSUME QueueInv, OrderInv PROVE TypeOK
    OBVIOUS
  <2>1. \A i \in DOMAIN jobs : jobs[i].scheduleIds \subseteq Schedules
    <3>1. \A i \in DOMAIN jobs : jobs[i] \in Job
      BY DEF QueueInv, Ordered
    <3>. QED
      BY <3>1 DEF Job
  <2>2. running \subseteq Schedules
    <3>1. \A s : s \in running <=> \E i \in DOMAIN jobs : s \in jobs[i].scheduleIds
      BY Zenon DEF QueueInv, Ordered, Attached
    <3>. QED
      BY <2>1, <3>1
  <2>. QED
    BY <2>2 DEF QueueInv, Ordered, OrderInv, TypeOK
<1>. QED
  BY <1>1, QueueInvHolds, OrderInvHolds, PTL

\* Whatever schedules were edited, deleted or run, the next poll finds an order
\* to ask the enabled ones in, and so does every step that records a run or
\* deletes a schedule: the model never refuses what the code does.
THEOREM EveryPollHasAnOrder ==
  Spec => [](OldestFirst # {} /\ \A S \in SUBSET Ran : ByLastRun(S) # {})
<1>1. OrderInv => OldestFirst # {} /\ \A S \in SUBSET Ran : ByLastRun(S) # {}
  <2>. SUFFICES ASSUME OrderInv
                PROVE  OldestFirst # {} /\ \A S \in SUBSET Ran : ByLastRun(S) # {}
    OBVIOUS
  <2>1. \A S \in SUBSET Ran : ByLastRun(S) # {}
    BY OrdersExist DEF OrderInv
  <2>2. PICK ran \in ByLastRun(Enabled \cap Ran) : TRUE
    BY <2>1
  <2>3. PICK never \in SetToSeqs(Enabled \ Ran) : TRUE
    <3>1. IsFiniteSet(Enabled \ Ran)
      BY FS_Subset, SchedulesAssumption DEF Enabled
    <3>2. PICK f \in Bijection(1 .. Cardinality(Enabled \ Ran), Enabled \ Ran) : TRUE
      BY <3>1, FS_CardinalityType DEF ExistsBijection
    <3>3. f \in SetToSeqs(Enabled \ Ran)
      BY <3>2 DEF SetToSeqs, Bijection, Injection, IsInjective
    <3>. QED
      BY <3>3
  <2>4. << never, ran >> \in SetToSeqs(Enabled \ Ran) \X ByLastRun(Enabled \cap Ran)
    BY <2>2, <2>3
  <2>5. << never, ran >>[1] \o << never, ran >>[2] \in OldestFirst
    BY <2>4, Zenon DEF OldestFirst
  <2>. QED
    BY <2>1, <2>5
<1>. QED
  BY <1>1, OrderInvHolds, PTL
=============================================================================
