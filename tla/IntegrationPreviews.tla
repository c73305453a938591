-------------------------- MODULE IntegrationPreviews --------------------------
(***************************************************************************)
(* Reviewing what a controller reports before it is applied: the pull, the *)
(* one-time tokens it issues for the network preview and for the device    *)
(* snapshot, and the requests that spend them (server/routes/              *)
(* integrations.ts, server/lib/integrations/preview-tokens.ts), while the  *)
(* connection is edited, disabled, deleted, tested and synced by schedule. *)
(*                                                                         *)
(* A pull awaits the controller; every other request is one step.  What an *)
(* apply writes is in NetworkSync and in DeviceImport.  Of a row there are *)
(* the fields that are part of its revision: a config stands for address,  *)
(* credential id, scopes and toggles.  A secret is the number of its       *)
(* entry, for the same one entered again is encrypted differently.         *)
(***************************************************************************)
EXTENDS Integers, FiniteSets

CONSTANTS
  Connections,
  Users, Admins,  \* those who may save and pull, those who may apply
  Configs,
  Unborn, Gone,   \* a connection before its row is inserted, after it is deleted
  MaxPulls,       \* bound: pulls ever begun
  MaxSecrets      \* bound: secrets ever entered

ASSUME UserAssumption == Admins \subseteq Users
ASSUME BoundAssumption == MaxPulls \in Nat /\ MaxSecrets \in Nat

KINDS == {"network-preview", "device-snapshot"}
STATUSES == {"unknown", "ok", "error"}
PullIds == 1 .. MaxPulls
NoSecret == 0
Secrets == NoSecret .. MaxSecrets

VARIABLES
  connection,  \* integrationConnections: row, Unborn or Gone
  entered,     \* how many secrets were entered
  pulls,       \* pulls that await the controller, with the row they read
  begun,       \* how many pulls were begun
  tokens,      \* the map of live tokens
  running,     \* connections that a scheduled run has locked
  applied,     \* every apply that wrote
  disturbed    \* pulls whose connection was edited after they began

vars == <<connection, entered, pulls, begun, tokens, running, applied, disturbed>>

Live == {c \in Connections : connection[c] \notin {Unborn, Gone}}

\* integrationPreviewConnectionRevision
\* Mutant: the status, which every pull and test records, is part of it.
RevisionWithStatus(row) == row

Revision(row) == [config |-> row.config, secret |-> row.secret, enabled |-> row.enabled]

Row == [config : Configs, secret : Secrets, enabled : BOOLEAN, status : STATUSES]
Revisions == [config : Configs, secret : Secrets, enabled : BOOLEAN]

\* What stands for no row is none.
ASSUME RowAssumption == \A x \in {Unborn, Gone} : x \notin Row /\ x \notin Revisions

Pull == [id : PullIds, user : Users, of : Connections, row : Row]

--------------------------------------------------------------------------------
(* Saving connections.                                                      *)

\* A new secret, if one is entered; bounded by MaxSecrets.
EnterSecret(n) ==
  \/ n = NoSecret /\ UNCHANGED entered
  \/ n = entered + 1 /\ n \in Secrets /\ entered' = n

CreateConnection(c, config, secret) ==
  /\ connection[c] = Unborn
  /\ EnterSecret(secret)
  /\ connection' = [connection EXCEPT ![c] =
       [config |-> config, secret |-> secret, enabled |-> TRUE, status |-> "unknown"]]
  /\ UNCHANGED <<pulls, begun, tokens, running, applied, disturbed>>

Disturb(c) == disturbed' = disturbed \cup
  {p.id : p \in {q \in pulls : q.of = c}} \cup {t.id : t \in {u \in tokens : u.of = c}}

\* PATCH: the secret is kept, cleared or entered again.
UpdateConnection(c, config, secret, enabled) ==
  /\ c \in Live
  /\ \/ secret = connection[c].secret /\ UNCHANGED entered
     \/ EnterSecret(secret)
  /\ connection' = [connection EXCEPT ![c].config = config, ![c].secret = secret,
                                      ![c].enabled = enabled]
  /\ Disturb(c)
  /\ UNCHANGED <<pulls, begun, tokens, running, applied>>

DeleteConnection(c) ==
  /\ c \in Live
  /\ connection' = [connection EXCEPT ![c] = Gone]
  /\ Disturb(c)
  /\ UNCHANGED <<entered, pulls, begun, tokens, running, applied>>

\* recordIntegrationConnectionStatus finds no row once the connection is deleted.
RecordStatus(c, status) ==
  connection' = IF c \in Live THEN [connection EXCEPT ![c].status = status] ELSE connection

\* The end of a test, asked for or of the background loop.
TestEnds(c, status) ==
  /\ c \in Live
  /\ RecordStatus(c, status)
  /\ UNCHANGED <<entered, pulls, begun, tokens, running, applied, disturbed>>

--------------------------------------------------------------------------------
(* A pull and its tokens.                                                   *)

BeginPull(u, c) ==
  /\ c \in Live
  /\ connection[c].enabled /\ connection[c].secret # NoSecret
  /\ begun < MaxPulls
  /\ begun' = begun + 1
  /\ pulls' = pulls \cup {[id |-> begun', user |-> u, of |-> c, row |-> connection[c]]}
  /\ UNCHANGED <<connection, entered, tokens, running, applied, disturbed>>

\* Mutant: the tokens are bound to the connection as it is by now.
TokensOfRowNow(p) ==
  IF p.of \in Live
  THEN [id : {p.id}, kind : KINDS, user : {p.user}, of : {p.of},
        revision : {Revision(connection[p.of])}]
  ELSE {}

\* issueIntegrationPreviewToken, for both kinds.
TokensOf(p) ==
  [id : {p.id}, kind : KINDS, user : {p.user}, of : {p.of}, revision : {Revision(p.row)}]

\* The controller has answered.
PullEnds(p) ==
  /\ pulls' = pulls \ {p}
  /\ RecordStatus(p.of, "ok")
  /\ tokens' = tokens \cup TokensOf(p)
  /\ UNCHANGED <<entered, begun, running, applied, disturbed>>

PullFails(p) ==
  /\ pulls' = pulls \ {p}
  /\ RecordStatus(p.of, "error")
  /\ UNCHANGED <<entered, begun, tokens, running, applied, disturbed>>

--------------------------------------------------------------------------------
(* Applying.                                                                *)

\* scopeMatches, for a request of user u about connection c.
ScopeMatches(t, u, c) ==
  /\ t.user = u /\ t.of = c
  /\ c \in Live
  /\ t.revision = Revision(connection[c])

\* consumeIntegrationPreviewToken, under the lock of the connection.
Consume(t, u, c) ==
  /\ u \in Admins
  /\ c \in Live
  /\ connection[c].enabled
  /\ c \notin running
  /\ ScopeMatches(t, u, c)
  /\ tokens' = tokens \ {t}

Apply(t, u, c) ==
  /\ Consume(t, u, c)
  /\ applied' = applied \cup {[id |-> t.id, kind |-> t.kind, of |-> c, by |-> u,
                               version |-> Revision(connection[c])]}
  /\ UNCHANGED <<connection, entered, pulls, begun, running, disturbed>>

\* Nothing selected, a record that was not offered, or an error: the
\* transaction is rolled back, the token is spent.
ApplyThrows(t, u, c) ==
  /\ Consume(t, u, c)
  /\ UNCHANGED <<connection, entered, pulls, begun, running, applied, disturbed>>

\* purgeExpired, at the next issue or use of a token.
Expire(t) ==
  /\ tokens' = tokens \ {t}
  /\ UNCHANGED <<connection, entered, pulls, begun, running, applied, disturbed>>

--------------------------------------------------------------------------------
(* The other holder of the lock, and restarts.                              *)

RunStarts(c) ==
  /\ c \in Live \ running
  /\ running' = running \cup {c}
  /\ UNCHANGED <<connection, entered, pulls, begun, tokens, applied, disturbed>>

RunEnds(c) ==
  /\ c \in running
  /\ running' = running \ {c}
  /\ UNCHANGED <<connection, entered, pulls, begun, tokens, applied, disturbed>>

\* Pulls, tokens and locks are in memory only.
Restart ==
  /\ pulls' = {} /\ tokens' = {} /\ running' = {}
  /\ UNCHANGED <<connection, entered, begun, applied, disturbed>>

--------------------------------------------------------------------------------
Init ==
  /\ connection = [c \in Connections |-> Unborn]
  /\ entered = 0 /\ begun = 0
  /\ pulls = {} /\ tokens = {} /\ running = {} /\ applied = {} /\ disturbed = {}

ConnectionStep(c) ==
  \/ \E config \in Configs, secret \in Secrets :
       \/ CreateConnection(c, config, secret)
       \/ \E enabled \in BOOLEAN : UpdateConnection(c, config, secret, enabled)
  \/ DeleteConnection(c)
  \/ \E status \in {"ok", "error"} : TestEnds(c, status)
  \/ \E u \in Users : BeginPull(u, c)
  \/ RunStarts(c) \/ RunEnds(c)

TokenStep(t) ==
  \/ Expire(t)
  \/ \E u \in Users, c \in Connections : Apply(t, u, c) \/ ApplyThrows(t, u, c)

Next ==
  \/ \E c \in Connections : ConnectionStep(c)
  \/ \E p \in pulls : PullEnds(p) \/ PullFails(p)
  \/ \E t \in tokens : TokenStep(t)
  \/ Restart

Spec == Init /\ [][Next]_vars

--------------------------------------------------------------------------------
(* Properties.                                                              *)

TypeOK ==
  /\ connection \in [Connections -> Row \cup {Unborn, Gone}]
  /\ entered \in Secrets /\ begun \in 0 .. MaxPulls
  /\ pulls \subseteq Pull
  /\ tokens \subseteq [id : PullIds, kind : KINDS, user : Users, of : Connections,
                       revision : Revisions]
  /\ running \subseteq Connections
  /\ applied \subseteq [id : PullIds, kind : KINDS, of : Connections, by : Admins,
                        version : Revisions]
  /\ disturbed \subseteq PullIds

\* A review that nobody disturbed can be applied: what the pull itself, tests
\* and other applies write does not change the revision its tokens are bound to.
UndisturbedReviewsStand ==
  /\ TypeOK
  /\ \A t \in tokens : t.id \notin disturbed => ScopeMatches(t, t.user, t.of)

\* Each review is applied at most once, by the user who asked for it and under
\* the configuration that the controller was asked with, also when an edit came
\* during the pull, was undone, or the same secret was entered again; and never
\* while a scheduled run has the connection.
Open ==
  (UNION {[id : {p.id}, user : {p.user}, of : {p.of}, base : {Revision(p.row)},
           offered : {FALSE}, kind : KINDS] : p \in pulls})
    \cup {[id |-> t.id, user |-> t.user, of |-> t.of, base |-> t.revision,
           offered |-> TRUE, kind |-> t.kind] : t \in tokens}

Reviewed == INSTANCE ReviewedApply WITH
  Kinds <- KINDS, Ids <- PullIds, Versions <- Revisions,
  version <- [c \in Connections |-> IF c \in Live THEN Revision(connection[c]) ELSE Gone],
  begun <- 1 .. begun, open <- Open, busy <- running

ImplementsReview == Reviewed!Spec
=============================================================================
