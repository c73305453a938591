---------------------------- MODULE ReviewedApply ----------------------------
(***************************************************************************)
(* What the one-time tokens of server/lib/integrations/preview-tokens.ts   *)
(* promise: what a user reviewed is applied at most once, by that user,    *)
(* and only while the connection is configured as it was when the          *)
(* controller was asked and no scheduled run writes to it.                 *)
(*                                                                         *)
(* This is the abstract specification that IntegrationPreviews implements. *)
(* It knows neither tokens nor requests, and may forget a review.          *)
(***************************************************************************)
CONSTANTS Users, Connections, Kinds, Ids, Versions, Gone

VARIABLES
  version,  \* how a connection is configured, or Gone
  begun,    \* ids of the reviews that were ever begun
  open,     \* reviews that may yet be applied
  applied,  \* what was applied: which review, by whom, under which version
  busy      \* connections that a scheduled run writes to

vars == <<version, begun, open, applied, busy>>

Review == [id : Ids, user : Users, of : Connections, base : Versions, offered : BOOLEAN,
           kind : Kinds]

Init ==
  /\ version \in [Connections -> Versions \cup {Gone}]
  /\ begun = {}
  /\ open = {}
  /\ applied = {}
  /\ busy = {}

Reconfigure ==
  /\ version' \in [Connections -> Versions \cup {Gone}]
  /\ UNCHANGED <<begun, open, applied, busy>>

\* Scheduled runs begin or end, reviews are forgotten; both when the server stops.
Run ==
  /\ busy' \in SUBSET Connections
  /\ open' \in SUBSET open
  /\ UNCHANGED <<version, begun, applied>>

Begin(i, u, c) ==
  /\ i \notin begun
  /\ version[c] # Gone
  /\ begun' = begun \cup {i}
  /\ open' = open \cup [id : {i}, user : {u}, of : {c}, base : {version[c]},
                        offered : {FALSE}, kind : Kinds]
  /\ UNCHANGED <<version, applied, busy>>

Offer(i) ==
  /\ open' = {IF r.id = i THEN [r EXCEPT !.offered = TRUE] ELSE r : r \in open}
  /\ UNCHANGED <<version, begun, applied, busy>>

Apply(r) ==
  /\ r.offered
  /\ version[r.of] = r.base
  /\ r.of \notin busy
  /\ open' = open \ {r}
  /\ applied' = applied \cup {[id |-> r.id, kind |-> r.kind, of |-> r.of,
                               by |-> r.user, version |-> r.base]}
  /\ UNCHANGED <<version, begun, busy>>

Next ==
  \/ Reconfigure \/ Run
  \/ \E i \in Ids : Offer(i) \/ \E u \in Users, c \in Connections : Begin(i, u, c)
  \/ \E r \in open : Apply(r)

Spec == Init /\ [][Next]_vars
=============================================================================
