-------------------------------- MODULE SignIn --------------------------------
(***************************************************************************)
(* Sign-in, sessions and users: the first account, local and OIDC          *)
(* sign-in, sessions against edits of their accounts, the password reset   *)
(* from the command line, the restore of a backup and restarts             *)
(* (server/lib/auth.ts, lib/oidc.ts, lib/password-reset.ts, routes/auth.ts *)
(* and routes/users.ts).                                                   *)
(*                                                                         *)
(* An OIDC flow begins at /oidc/start, which puts a verifier of its own    *)
(* into the browser's cookie; a flow and its verifier are one number here, *)
(* and 0 is no cookie.  Requests and their answers overlap, each handler   *)
(* is interrupted where it awaits the provider or a body, and the command  *)
(* line is a process of its own.  A state or a code that has expired is    *)
(* one nobody comes back with, and the cookie outlives both; the lab       *)
(* grants of users and the rate limit of sign-ins are left out, and an     *)
(* editor, who may not administer accounts either, is a viewer.            *)
(***************************************************************************)
EXTENDS Naturals

CONSTANTS
  Browsers, Locals, Persons, \* browsers, local accounts, accounts of the provider
  Backups,   \* user tables a backup may hold
  MaxFlows,  \* bound: OIDC flows
  SessionIds, \* bound: ids of rows of userSessions, one more than once a row is gone
  MaxEdits,  \* bound: edits of accounts
  None

Accounts == Locals \cup Persons
Roles == {"admin", "viewer"}
Flows == 1 .. MaxFlows

\* The row of an account.  `password`: it can sign in with one; `recheck`:
\* roleRecheckRequired of its identity; `epoch` counts what revokes sessions.
Account == [role : Roles, disabled : BOOLEAN, password : BOOLEAN,
            recheck : BOOLEAN, epoch : Nat]

\* A row of userSessions: its id, who got it where, by which flow (0: by a
\* password), in which epoch of the account, and whether the process died before it
\* removed it, or a reset came between the check of the password and its grant.
Session == [id : SessionIds, browser : Browsers, account : Accounts, epoch : Nat,
            flow : 0 .. MaxFlows, late : BOOLEAN]

\* A callback that awaits the provider, and the code it then leads to: each
\* callback of a flow has a number, and a code of its own.
Code == [flow : Flows, person : Persons, nth : Nat]

ASSUME SignInAssumption ==
  /\ MaxFlows \in Nat /\ MaxEdits \in Nat
  /\ Locals \cap Persons = {}
  /\ None \notin BOOLEAN \cup Browsers \cup Accounts \cup Account
  /\ Backups \subseteq [Accounts -> Account \cup {None}]
  /\ \A table \in Backups : \E a \in Accounts : table[a] # None

VARIABLES
  users,      \* the tables users and oidcIdentities
  sessions,   \* the table userSessions
  bootstrap,  \* bootstrapRequired
  request,    \* an administrator's request is let in, its body outstanding
  starting,   \* /oidc/start requests awaiting the discovery document
  states,     \* oidcStates
  verifying,  \* callbacks awaiting the provider
  pending,    \* pendingSessions
  replies,    \* Set-Cookie headers on their way
  cookie,     \* each browser's cookie
  started,    \* history: the browser that started a flow
  returned,   \* history: the browser a flow came back to
  callbacks,  \* history: how often a flow came back
  grants,     \* history: how many sessions a flow gave
  undone,     \* history: the first user was rolled back
  edits       \* bound: edits of accounts so far

flows == <<starting, states, verifying, pending, replies, cookie,
           started, returned, callbacks, grants>>
accounts == <<users, sessions, bootstrap, request, undone, edits>>
vars == <<accounts, flows>>

NoUsers == \A a \in Accounts : users[a] = None

\* needsBootstrap: counts the users once, and keeps the answer.
NeedsBootstrap == IF bootstrap = None THEN NoUsers ELSE bootstrap

NewAccount(a, role, disabled) ==
  [role |-> role, disabled |-> disabled, password |-> a \in Locals,
   recheck |-> FALSE, epoch |-> 1]

\* createSession: a row of its own, beside those in `others`.
Grant(others, b, a, epoch, flow, late) ==
  \E id \in SessionIds :
    /\ \A s \in others : s.id # id
    /\ sessions' = others \cup {[id |-> id, browser |-> b, account |-> a, epoch |-> epoch,
                              flow |-> flow, late |-> late]}

\* Accounts are edited a bounded number of times.
Edit == edits < MaxEdits /\ edits' = edits + 1

Of(a) == {s \in sessions : s.account = a}

Init ==
  /\ users \in Backups \cup {[a \in Accounts |-> None]}
  /\ sessions = {} /\ bootstrap = None /\ request = FALSE
  /\ starting = {} /\ states = {} /\ verifying = {} /\ pending = {}
  /\ replies = {} /\ cookie = [b \in Browsers |-> 0]
  /\ started = [f \in Flows |-> None] /\ returned = [f \in Flows |-> None]
  /\ callbacks = [f \in Flows |-> 0] /\ grants = [f \in Flows |-> 0]
  /\ undone = FALSE /\ edits = 0

-----------------------------------------------------------------------------
(***************************************************************************)
(* The first account, and local sign-in.                                   *)
(***************************************************************************)
\* GET /status, and the hook before every request that is not public.
Status ==
  /\ bootstrap' = NeedsBootstrap
  /\ UNCHANGED <<users, sessions, request, flows, undone>>

\* POST /bootstrap
Bootstrap(b, a) ==
  /\ NeedsBootstrap /\ users[a] = None
  /\ users' = [users EXCEPT ![a] = NewAccount(a, "admin", FALSE)]
  /\ Grant(sessions, b, a, 1, 0, FALSE)
  /\ bootstrap' = FALSE
  /\ undone' = FALSE
  /\ UNCHANGED <<request, flows>>

\* Its transaction throws.
BootstrapFails ==
  /\ NeedsBootstrap
  /\ bootstrap' = None
  /\ undone' = FALSE
  /\ UNCHANGED <<users, sessions, request, flows>>

MaySignIn(a) == users[a] # None /\ ~ users[a].disabled /\ users[a].password

\* POST /login
Login(b, a) ==
  /\ MaySignIn(a)
  /\ Grant(sessions, b, a, users[a].epoch, 0, FALSE)
  /\ UNCHANGED <<users, bootstrap, request, flows, undone>>

\* The command line: resetLocalUserPassword, one transaction.
Reset(a) == users' = [users EXCEPT ![a].epoch = users[a].epoch + 1]

ResetPassword(a) ==
  /\ users[a] # None
  /\ Reset(a)
  /\ sessions' = sessions \ Of(a)
  /\ UNCHANGED <<bootstrap, request, flows, undone>>

\* The server has one thread, but the command line is another process: its
\* transaction may come while the server verifies the password of the row it
\* has read, and before it grants the session.
ResetAmidLogin(b, a) ==
  /\ MaySignIn(a)
  /\ Reset(a)
  /\ Grant(sessions \ Of(a), b, a, users[a].epoch, 0, TRUE)
  /\ UNCHANGED <<bootstrap, request, flows, undone>>

\* POST /logout, the expiry of a session, or lookupSession of one whose
\* account is disabled.
SessionEnds(s) ==
  /\ sessions' = sessions \ {s}
  /\ UNCHANGED <<users, bootstrap, request, flows, undone>>

-----------------------------------------------------------------------------
(***************************************************************************)
(* OIDC.                                                                   *)
(***************************************************************************)
\* GET /oidc/start, up to its await.  The cookie is the one the request bears.
Start(b, f) ==
  /\ started[f] = None /\ \A g \in Flows : g < f => started[g] # None
  /\ started' = [started EXCEPT ![f] = b]
  /\ starting' = starting \cup {[browser |-> b, flow |-> f, previous |-> cookie[b]]}
  /\ UNCHANGED <<states, verifying, pending, replies, cookie, returned, callbacks, grants>>

\* The flow of the previous cookie is dropped, and the new one answered.
Started(r) ==
  /\ starting' = starting \ {r}
  /\ states' = (states \ {r.previous}) \cup {r.flow}
  /\ pending' = {q \in pending : q.flow # r.previous}
  /\ replies' = replies \cup {[browser |-> r.browser, cookie |-> r.flow]}
  /\ UNCHANGED <<verifying, cookie, started, returned, callbacks, grants>>

StartFails(r) ==
  /\ starting' = starting \ {r}
  /\ UNCHANGED <<states, verifying, pending, replies, cookie, started, returned, callbacks,
                 grants>>

ReplyArrives(r) ==
  /\ cookie' = [cookie EXCEPT ![r.browser] = r.cookie]
  /\ replies' = replies \ {r}
  /\ UNCHANGED <<starting, states, verifying, pending, started, returned, callbacks, grants>>

\* assertBrowserBinding
Bound(b, f) == cookie[b] = f

\* What becomes of the state of a callback, before the provider is awaited.
Consumed(f) == states \ {f}

\* GET /oidc/callback: the link the provider sends `person` back with may be
\* opened in any browser, and twice, once the flow's own has left for it.
Callback(b, f, person) ==
  /\ f \in states
  /\ [browser |-> started[f], cookie |-> f] \notin replies
  /\ Bound(b, f)
  /\ states' = Consumed(f)
  /\ callbacks' = [callbacks EXCEPT ![f] = callbacks[f] + 1]
  /\ verifying' =
       verifying \cup {[flow |-> f, person |-> person, nth |-> callbacks[f] + 1]}
  /\ returned' = [returned EXCEPT ![f] = b]
  /\ UNCHANGED <<starting, pending, replies, cookie, started, grants>>

\* The provider answers, or not, and the token is verified, or not.
Verified(v, succeeds) ==
  /\ verifying' = verifying \ {v}
  /\ pending' = IF succeeds THEN pending \cup {v} ELSE pending
  /\ UNCHANGED <<starting, states, replies, cookie, started, returned, callbacks, grants>>

\* Mutant: the code is not removed, and may be taken again.
TakesAgain(b, q) ==
  /\ Bound(b, q.flow)
  /\ UNCHANGED <<request, starting, states, verifying, pending, cookie, started, returned, callbacks>>

\* POST /oidc/session takes the code, once.
Takes(b, q) ==
  /\ Bound(b, q.flow)
  /\ pending' = pending \ {q}
  /\ UNCHANGED <<request, starting, states, verifying, cookie, started, returned, callbacks>>

\* The ID token has expired, or the account is disabled or not allowed.
Refused(b, q) ==
  /\ Takes(b, q)
  /\ UNCHANGED <<users, sessions, bootstrap, replies, undone, grants>>

\* upsertOidcUser: the roles the claims of an account may come to.
RolesFor(a, claimed) ==
  IF users[a] = None
  THEN IF NoUsers THEN "admin" ELSE claimed
  ELSE IF users[a].recheck THEN claimed ELSE users[a].role

\* Mutant: the first account is not noted.
NotNoted == bootstrap

\* upsertOidcUser notes the first account.
Noted == IF NoUsers THEN FALSE ELSE bootstrap

Completes(b, q, claimed) ==
  LET a == q.person
      old == IF users[a] = None THEN NewAccount(a, claimed, FALSE) ELSE users[a] IN
  /\ Takes(b, q)
  /\ ~ old.disabled
  /\ users' = [users EXCEPT ![a] =
                 [old EXCEPT !.role = RolesFor(a, claimed), !.recheck = FALSE]]
  /\ Grant(sessions, b, a, old.epoch, q.flow, FALSE)
  /\ grants' = [grants EXCEPT ![q.flow] = grants[q.flow] + 1]
  /\ bootstrap' = Noted
  /\ undone' = FALSE
  /\ replies' = replies \cup {[browser |-> b, cookie |-> 0]}

\* createSession throws: the transaction is rolled back, the note is not.
CompletionFails(b, q) ==
  /\ Takes(b, q)
  /\ bootstrap' = Noted
  /\ undone' = (undone \/ NoUsers)
  /\ UNCHANGED <<users, sessions, replies, grants>>

-----------------------------------------------------------------------------
(***************************************************************************)
(* Administrators.                                                         *)
(***************************************************************************)
IsAdmin(a) ==
  /\ users[a] # None /\ users[a].role = "admin" /\ ~ users[a].disabled
  /\ Of(a) # {}

\* The headers of a request are there: the hook looks the session up.
RequestBegins(a) ==
  /\ ~ request /\ IsAdmin(a) /\ ~ NeedsBootstrap
  /\ request' = TRUE
  /\ bootstrap' = FALSE
  /\ UNCHANGED <<users, sessions, flows, undone>>

\* Its body is there, or the connection is lost.
RequestEnds ==
  /\ request /\ request' = FALSE
  /\ UNCHANGED <<flows, undone>>

RequestIsLost == RequestEnds /\ UNCHANGED <<users, sessions, bootstrap>>

\* POST /users
CreateUser(a, role, disabled) ==
  /\ RequestEnds
  /\ users[a] = None
  /\ users' = [users EXCEPT ![a] = NewAccount(a, role, disabled)]
  /\ UNCHANGED <<sessions, bootstrap>>

\* PATCH /users/:id: `disabled` is None when the body does not say.
Patched(a, role, disabled, rotate) ==
  LET row == users[a] IN
  [row EXCEPT !.role = role,
              !.disabled = IF disabled = None THEN row.disabled ELSE disabled,
              !.password = row.password \/ rotate,
              !.epoch = IF rotate \/ disabled = TRUE THEN row.epoch + 1 ELSE row.epoch]

Patch(a, role, disabled, rotate) ==
  /\ RequestEnds
  /\ users[a] # None
  /\ users' = [users EXCEPT ![a] = Patched(a, role, disabled, rotate)]

\* Mutant: only disabling an account ends its sessions.
EndsOnDisabling(disabled, rotate) == disabled = TRUE

EndsSessions(disabled, rotate) == rotate \/ disabled = TRUE

PatchUser(a, role, disabled, rotate) ==
  /\ Patch(a, role, disabled, rotate)
  /\ sessions' = IF EndsSessions(disabled, rotate) THEN sessions \ Of(a) ELSE sessions
  /\ UNCHANGED bootstrap

\* DELETE /users/:id has no body, and is one step.
DeleteUser(actor, a) ==
  /\ IsAdmin(actor) /\ ~ NeedsBootstrap
  /\ actor # a /\ users[a] # None
  /\ users' = [users EXCEPT ![a] = None]
  /\ sessions' = sessions \ Of(a)
  /\ bootstrap' = FALSE
  /\ UNCHANGED <<request, flows, undone>>

\* POST /admin/restore, of a backup from before the recheck or after.
Restore(table, legacy) ==
  /\ RequestEnds
  /\ users' = [a \in Accounts |->
                 IF table[a] # None /\ a \in Persons /\ legacy
                 THEN [table[a] EXCEPT !.recheck = TRUE] ELSE table[a]]
  /\ sessions' = {}
  /\ bootstrap' = FALSE

-----------------------------------------------------------------------------
MemoryIsLost ==
  /\ bootstrap' = None /\ request' = FALSE /\ undone' = FALSE
  /\ starting' = {} /\ states' = {} /\ verifying' = {} /\ pending' = {}
  /\ replies' = {}
  /\ UNCHANGED <<cookie, started, returned, callbacks, grants>>

Restart == MemoryIsLost /\ UNCHANGED <<users, sessions, edits>>

\* The process dies between the update of an account and the removal of its
\* sessions, which are two statements.
DiesBeforeRevoking(a, role, disabled, rotate) ==
  /\ request /\ users[a] # None
  /\ EndsSessions(disabled, rotate)
  /\ users' = [users EXCEPT ![a] = Patched(a, role, disabled, rotate)]
  /\ sessions' = {IF s.account = a THEN [s EXCEPT !.late = TRUE] ELSE s : s \in sessions}
  /\ MemoryIsLost

\* What browsers, the provider and time do to the flows.
FlowStep ==
  \/ \E b \in Browsers :
       \/ \E f \in Flows : Start(b, f)
       \/ \E f \in Flows, person \in Persons : Callback(b, f, person)
  \/ \E r \in starting : Started(r) \/ StartFails(r)
  \/ \E r \in replies : ReplyArrives(r)
  \/ \E v \in verifying, succeeds \in BOOLEAN : Verified(v, succeeds)

SignInStep ==
  \/ Status \/ BootstrapFails
  \/ \E b \in Browsers :
       \/ \E a \in Locals : Bootstrap(b, a)
       \/ \E a \in Accounts : Login(b, a)
       \/ \E q \in pending : Refused(b, q) \/ CompletionFails(b, q)
       \/ \E q \in pending, claimed \in Roles : Completes(b, q, claimed)
  \/ \E s \in sessions : SessionEnds(s)
  \/ \E a \in Accounts : RequestBegins(a)
  \/ RequestIsLost

AdminStep ==
  \/ \E a \in Locals, role \in Roles, disabled \in BOOLEAN : CreateUser(a, role, disabled)
  \/ \E a \in Accounts, role \in Roles, disabled \in BOOLEAN \cup {None}, rotate \in BOOLEAN :
       PatchUser(a, role, disabled, rotate) \/ DiesBeforeRevoking(a, role, disabled, rotate)
  \/ \E actor, a \in Accounts : DeleteUser(actor, a)
  \/ \E table \in Backups, legacy \in BOOLEAN : Restore(table, legacy)
  \/ \E a \in Locals : ResetPassword(a) \/ \E b \in Browsers : ResetAmidLogin(b, a)

Next ==
  \/ FlowStep /\ UNCHANGED accounts
  \/ SignInStep /\ UNCHANGED edits
  \/ AdminStep /\ Edit
  \/ Restart

Spec == Init /\ [][Next]_vars

-----------------------------------------------------------------------------
\* A session in the table is of an account that is there and enabled, was
\* granted after its last change of password or disabling, and by OIDC only
\* after the role check a legacy restore asks for; unless the process died in
\* the midst of an edit, or a reset came amid the check of the password.
SessionsAreCurrent ==
  \A s \in sessions :
    /\ users[s.account] # None
    /\ s.flow # 0 => ~ users[s.account].recheck
    /\ ~ s.late => /\ ~ users[s.account].disabled
                   /\ s.epoch = users[s.account].epoch

\* Whatever links are opened where and how often, however answers cross and flows
\* replace one another, a flow comes back once, to the browser that started it, and
\* gives one session at most, there, whoever signs in and whatever ended before.
FlowsStayInTheirBrowser ==
  /\ \A s \in sessions : s.flow # 0 =>
       /\ started[s.flow] = s.browser /\ returned[s.flow] = s.browser
       /\ \A t \in sessions : t.flow = s.flow => t = s
  /\ \A f \in Flows : callbacks[f] <= 1 /\ grants[f] <= callbacks[f]

\* The server asks for an initial account exactly while there is none, over
\* both ways to create it, restores and restarts; unless the first OIDC account
\* was rolled back after it had been noted.
BootstrapIsRight == bootstrap # None /\ ~ undone => bootstrap = NoUsers
=============================================================================
