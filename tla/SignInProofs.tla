----------------------------- MODULE SignInProofs -----------------------------
(***************************************************************************)
(* Sign-in for any browsers and accounts, any number of flows, sessions    *)
(* and edits, and any backups: the initial account, the sessions of an     *)
(* account, and the flows.                                                 *)
(***************************************************************************)
EXTENDS SignIn, TLAPS

UsersOK == users \in [Accounts -> Account \cup {None}]

-----------------------------------------------------------------------------
(***************************************************************************)
(* The table of users.                                                     *)
(***************************************************************************)
LEMMA NewAccountIsOne ==
  ASSUME NEW a \in Accounts, NEW role \in Roles, NEW disabled \in BOOLEAN
  PROVE  /\ NewAccount(a, role, disabled) \in Account
         /\ NewAccount(a, role, disabled) # None
<1>1. ASSUME NEW p \in BOOLEAN
      PROVE  [role |-> role, disabled |-> disabled, password |-> p,
              recheck |-> FALSE, epoch |-> 1] \in Account
  BY DEF Account
<1>2. (a \in Locals) \in BOOLEAN
  OBVIOUS
<1>3. NewAccount(a, role, disabled) \in Account
  BY <1>1, <1>2, Zenon DEF NewAccount
<1>. QED
  BY <1>3, SignInAssumption

LEMMA PatchedIsOne ==
  ASSUME UsersOK, NEW a \in Accounts, users[a] # None, NEW role \in Roles,
         NEW disabled \in BOOLEAN \cup {None}, NEW rotate \in BOOLEAN
  PROVE  /\ Patched(a, role, disabled, rotate) \in Account
         /\ Patched(a, role, disabled, rotate) # None
<1>1. users[a] \in Account
  BY DEF UsersOK
<1>2. (users[a].password \/ rotate) \in BOOLEAN
  OBVIOUS
<1>3. (IF disabled = None THEN users[a].disabled ELSE disabled) \in BOOLEAN
  BY <1>1 DEF Account
<1>4. (IF rotate \/ disabled = TRUE THEN users[a].epoch + 1 ELSE users[a].epoch) \in Nat
  BY <1>1 DEF Account
<1>. QED
  BY <1>1, <1>2, <1>3, <1>4, SignInAssumption DEF Patched, Account

\* One row is written.
LEMMA OneRow ==
  ASSUME UsersOK, NEW a \in Accounts, NEW row \in Account,
         users' = [users EXCEPT ![a] = row]
  PROVE  UsersOK' /\ ~ NoUsers'
BY SignInAssumption DEF UsersOK, NoUsers

LEMMA ResetIsRow ==
  ASSUME UsersOK, NEW a \in Accounts, users[a] # None, Reset(a)
  PROVE  UsersOK' /\ ~ NoUsers'
<1>1. users[a] \in Account
  BY DEF UsersOK
<1>2. [users[a] EXCEPT !.epoch = users[a].epoch + 1] \in Account
  BY <1>1 DEF Account
<1>3. users' = [users EXCEPT ![a] = [users[a] EXCEPT !.epoch = users[a].epoch + 1]]
  BY DEF Reset
<1>. QED
  BY <1>2, <1>3, OneRow

LEMMA CompletedRow ==
  ASSUME UsersOK, NEW b \in Browsers, NEW q, q.person \in Persons, NEW claimed \in Roles,
         Completes(b, q, claimed)
  PROVE  UsersOK' /\ ~ NoUsers'
<1>. DEFINE a == q.person
            old == IF users[a] = None THEN NewAccount(a, claimed, FALSE) ELSE users[a]
            row == [old EXCEPT !.role = RolesFor(a, claimed), !.recheck = FALSE]
<1>1. a \in Accounts
  BY DEF Accounts
<1>2. old \in Account
  BY <1>1, NewAccountIsOne DEF UsersOK
<1>3. RolesFor(a, claimed) \in Roles
  BY <1>1 DEF RolesFor, Roles, UsersOK, Account
<1>4. row \in Account
  BY <1>2, <1>3 DEF Account
<1>5. users' = [users EXCEPT ![a] = row]
  BY DEF Completes
<1>. QED
  BY <1>1, <1>4, <1>5, OneRow

\* A restore leaves an account, as every backup has one.
LEMMA RestoredTable ==
  ASSUME NEW table \in Backups, NEW legacy \in BOOLEAN, Restore(table, legacy)
  PROVE  UsersOK' /\ ~ NoUsers'
<1>1. table \in [Accounts -> Account \cup {None}]
  BY SignInAssumption
<1>2. \A a \in Accounts :
        /\ users'[a] \in Account \cup {None}
        /\ table[a] # None => users'[a] # None
  <2>. TAKE a \in Accounts
  <2>1. users'[a] = IF table[a] # None /\ a \in Persons /\ legacy
                    THEN [table[a] EXCEPT !.recheck = TRUE] ELSE table[a]
    BY DEF Restore
  <2>2. CASE table[a] # None /\ a \in Persons /\ legacy
    <3>1. table[a] \in Account
      BY <1>1, <2>2
    <3>2. [table[a] EXCEPT !.recheck = TRUE] \in Account
      BY <3>1 DEF Account
    <3>. QED
      BY <2>1, <2>2, <3>2, SignInAssumption
  <2>3. CASE ~ (table[a] # None /\ a \in Persons /\ legacy)
    BY <1>1, <2>1, <2>3
  <2>. QED
    BY <2>2, <2>3
<1>3. UsersOK'
  BY <1>2 DEF UsersOK, Restore
<1>4. ~ NoUsers'
  <2>1. PICK a \in Accounts : table[a] # None
    BY SignInAssumption
  <2>. QED
    BY <2>1, <1>2 DEF NoUsers
<1>. QED
  BY <1>3, <1>4
-----------------------------------------------------------------------------
(***************************************************************************)
(* What is noted of the initial account.                                   *)
(***************************************************************************)
BootstrapInv ==
  /\ bootstrap \in {TRUE, FALSE, None}
  /\ undone \in BOOLEAN /\ request \in BOOLEAN
  /\ bootstrap = TRUE => NoUsers
  /\ bootstrap = FALSE => undone \/ ~ NoUsers
  /\ undone \/ request => bootstrap = FALSE

LEMMA NoneIsNoAnswer == None # TRUE /\ None # FALSE
BY SignInAssumption

LEMMA NotedAtLast ==
  ASSUME ~ NoUsers', bootstrap' = FALSE, undone' \in BOOLEAN, request' \in BOOLEAN
  PROVE  BootstrapInv'
<1>1. bootstrap' # TRUE
  BY Zenon
<1>. QED
  BY <1>1, Zenon DEF BootstrapInv

LEMMA NothingIsNoted ==
  ASSUME bootstrap' = None, undone' = FALSE, request' = FALSE
  PROVE  BootstrapInv'
BY NoneIsNoAnswer, Zenon DEF BootstrapInv

LEMMA NotedBefore ==
  ASSUME BootstrapInv, ~ NoUsers', bootstrap' = bootstrap, undone' = undone,
         request' = request \/ request' = FALSE, request \/ ~ NoUsers
  PROVE  BootstrapInv'
<1>1. bootstrap # TRUE
  BY NoneIsNoAnswer, Zenon DEF BootstrapInv
<1>2. request' \in BOOLEAN /\ (request' => request)
  <2>1. CASE request' = request
    BY <2>1, SMT DEF BootstrapInv
  <2>2. CASE request' = FALSE
    <3>1. request' \in BOOLEAN
      BY <2>2, Zenon
    <3>2. ~ request'
      BY <2>2, Zenon
    <3>. QED
      BY <3>1, <3>2
  <2>. QED
    BY <2>1, <2>2
<1>. QED
  BY <1>1, <1>2, Zenon DEF BootstrapInv

LEMMA SameUsers ==
  ASSUME users' = users
  PROVE  NoUsers' = NoUsers
BY DEF NoUsers

LEMMA NeedsBootstrapIsRight ==
  ASSUME BootstrapInv, ~ undone
  PROVE  /\ NeedsBootstrap = NoUsers
         /\ NeedsBootstrap \in BOOLEAN
<1>0. NoUsers \in BOOLEAN
  BY Zenon DEF NoUsers
<1>1. CASE bootstrap = None
  BY <1>0, <1>1, Zenon DEF NeedsBootstrap
<1>2. CASE bootstrap = TRUE
  <2>1. NoUsers = TRUE
    BY <1>0, <1>2, Zenon DEF BootstrapInv
  <2>. QED
    BY <1>0, <1>2, <2>1, NoneIsNoAnswer, Zenon DEF NeedsBootstrap
<1>3. CASE bootstrap = FALSE
  <2>1. NoUsers = FALSE
    BY <1>0, <1>3, Zenon DEF BootstrapInv
  <2>. QED
    BY <1>0, <1>3, <2>1, NoneIsNoAnswer, Zenon DEF NeedsBootstrap
<1>. QED
  BY <1>1, <1>2, <1>3, Zenon DEF BootstrapInv

LEMMA StatusNotes ==
  ASSUME BootstrapInv, Status
  PROVE  BootstrapInv'
<1>1. NoUsers' = NoUsers /\ undone' = undone /\ request' = request
  BY SameUsers, Zenon DEF Status
<1>2. CASE undone
  <2>1. bootstrap = FALSE
    BY <1>2, Zenon DEF BootstrapInv
  <2>2. bootstrap' = FALSE
    BY <2>1, NoneIsNoAnswer, Zenon DEF Status, NeedsBootstrap
  <2>. QED
    BY <1>1, <1>2, <2>2, NoneIsNoAnswer, Zenon DEF BootstrapInv
<1>3. CASE ~ undone
  <2>1. bootstrap' = NoUsers /\ bootstrap' \in BOOLEAN
    BY <1>3, NeedsBootstrapIsRight, Zenon DEF Status
  <2>2. request => bootstrap' = FALSE
    <3>1. ASSUME request PROVE ~ NoUsers
      BY <1>3, <3>1, Zenon DEF BootstrapInv
    <3>. QED
      BY <2>1, <3>1, Zenon
  <2>. QED
    BY <1>1, <1>3, <2>1, <2>2, Zenon DEF BootstrapInv
<1>. QED
  BY <1>2, <1>3, Zenon

LEMMA NotedIsRight ==
  ASSUME BootstrapInv
  PROVE  /\ NoUsers => Noted = FALSE
         /\ ~ NoUsers => /\ Noted = bootstrap /\ bootstrap # TRUE
                         /\ undone \/ request => bootstrap = FALSE
BY Zenon DEF Noted, BootstrapInv

LEMMA CompletionNotes ==
  ASSUME BootstrapInv, ~ NoUsers', bootstrap' = Noted, undone' = FALSE, request' = request
  PROVE  BootstrapInv'
<1>1. CASE NoUsers
  <2>1. bootstrap' = FALSE
    BY <1>1, NotedIsRight, Zenon
  <2>. QED
    BY <2>1, NotedAtLast, Zenon DEF BootstrapInv
<1>2. CASE ~ NoUsers
  <2>1. bootstrap' = bootstrap /\ bootstrap # TRUE
    BY <1>2, NotedIsRight, Zenon
  <2>. QED
    BY <2>1, Zenon DEF BootstrapInv
<1>. QED
  BY <1>1, <1>2, Zenon

LEMMA FailureNotes ==
  ASSUME BootstrapInv, users' = users, bootstrap' = Noted, undone' = (undone \/ NoUsers),
         request' = request
  PROVE  BootstrapInv'
<1>1. NoUsers' = NoUsers
  BY SameUsers, Zenon
<1>2. CASE NoUsers
  <2>1. bootstrap' = FALSE /\ undone' = TRUE
    BY <1>2, NotedIsRight, Zenon
  <2>. QED
    BY <1>1, <2>1, Zenon DEF BootstrapInv
<1>3. CASE ~ NoUsers
  <2>1. bootstrap' = bootstrap /\ bootstrap # TRUE
    BY <1>3, NotedIsRight, Zenon
  <2>2. undone' = undone
    BY <1>3, Zenon DEF BootstrapInv
  <2>. QED
    BY <1>1, <1>3, <2>1, <2>2, Zenon DEF BootstrapInv
<1>. QED
  BY <1>2, <1>3, Zenon
-----------------------------------------------------------------------------
(***************************************************************************)
(* Types.                                                                  *)
(***************************************************************************)
FlowTypes ==
  /\ states \subseteq Flows
  /\ starting \subseteq [browser : Browsers, flow : Flows, previous : 0 .. MaxFlows]
  /\ verifying \subseteq Code /\ pending \subseteq Code
  /\ replies \subseteq [browser : Browsers, cookie : 0 .. MaxFlows]
  /\ cookie \in [Browsers -> 0 .. MaxFlows]
  /\ started \in [Flows -> Browsers \cup {None}]
  /\ returned \in [Flows -> Browsers \cup {None}]
  /\ callbacks \in [Flows -> Nat] /\ grants \in [Flows -> Nat]

Types == UsersOK /\ sessions \subseteq Session /\ FlowTypes

LEMMA FlowNumbers == 0 \in 0 .. MaxFlows /\ Flows \subseteq 0 .. MaxFlows /\ 0 \notin Flows
BY SignInAssumption DEF Flows

LEMMA FlowStepTypes ==
  ASSUME FlowTypes, FlowStep
  PROVE  FlowTypes'
<1>1. ASSUME NEW b \in Browsers, NEW f \in Flows, Start(b, f)
      PROVE  FlowTypes'
  BY <1>1 DEF FlowTypes, Start
<1>2. ASSUME NEW b \in Browsers, NEW f \in Flows, NEW person \in Persons,
             Callback(b, f, person)
      PROVE  FlowTypes'
  <2>1. callbacks[f] + 1 \in Nat
    BY DEF FlowTypes
  <2>2. [flow |-> f, person |-> person, nth |-> callbacks[f] + 1] \in Code
    BY <2>1 DEF Code
  <2>. QED
    BY <1>2, <2>1, <2>2 DEF FlowTypes, Callback, Consumed
<1>3. ASSUME NEW r \in starting, Started(r)
      PROVE  FlowTypes'
  <2>1. /\ r.browser \in Browsers /\ r.flow \in Flows /\ r.flow \in 0 .. MaxFlows
    BY FlowNumbers DEF FlowTypes
  <2>. QED
    BY <1>3, <2>1 DEF FlowTypes, Started
<1>4. ASSUME NEW r \in starting, StartFails(r)
      PROVE  FlowTypes'
  BY <1>4 DEF FlowTypes, StartFails
<1>5. ASSUME NEW r \in replies, ReplyArrives(r)
      PROVE  FlowTypes'
  BY <1>5 DEF FlowTypes, ReplyArrives
<1>6. ASSUME NEW v \in verifying, NEW succeeds \in BOOLEAN, Verified(v, succeeds)
      PROVE  FlowTypes'
  BY <1>6 DEF FlowTypes, Verified
<1>. QED
  BY <1>1, <1>2, <1>3, <1>4, <1>5, <1>6 DEF FlowStep

LEMMA GrantTypes ==
  ASSUME NEW others, others \subseteq Session, NEW b \in Browsers, NEW a \in Accounts,
         NEW epoch \in Nat, NEW flow \in 0 .. MaxFlows, NEW late \in BOOLEAN,
         Grant(others, b, a, epoch, flow, late)
  PROVE  sessions' \subseteq Session
BY DEF Grant, Session

LEMMA TakesTypes ==
  ASSUME FlowTypes, NEW b \in Browsers, NEW q \in pending, Takes(b, q),
         \/ replies' = replies \/ replies' = replies \cup {[browser |-> b, cookie |-> 0]},
         \/ grants' = grants \/ grants' = [grants EXCEPT ![q.flow] = grants[q.flow] + 1]
  PROVE  FlowTypes' /\ q.flow \in Flows /\ q.person \in Persons
<1>1. q.flow \in Flows /\ q.person \in Persons
  BY DEF FlowTypes, Code
<1>2. grants' \in [Flows -> Nat]
  BY <1>1 DEF FlowTypes
<1>. QED
  BY <1>1, <1>2, FlowNumbers DEF FlowTypes, Takes

LEMMA SignInTypes ==
  ASSUME Types, SignInStep
  PROVE  Types'
<1>1. ASSUME Status \/ BootstrapFails \/ RequestIsLost \/ \E a \in Accounts : RequestBegins(a)
      PROVE  Types'
  BY <1>1 DEF Status, BootstrapFails, RequestIsLost, RequestEnds, RequestBegins, flows,
              Types, UsersOK, FlowTypes
<1>2. ASSUME NEW b \in Browsers, NEW a \in Locals, Bootstrap(b, a)
      PROVE  Types'
  <2>1. a \in Accounts /\ "admin" \in Roles
    BY DEF Accounts, Roles
  <2>2. UsersOK'
    BY <1>2, <2>1, OneRow, NewAccountIsOne DEF Bootstrap, Types
  <2>3. sessions' \subseteq Session
    BY <1>2, <2>1, FlowNumbers, GrantTypes DEF Bootstrap, Types
  <2>. QED
    BY <1>2, <2>2, <2>3 DEF Bootstrap, Types, FlowTypes, flows
<1>3. ASSUME NEW b \in Browsers, NEW a \in Accounts, Login(b, a)
      PROVE  Types'
  <2>1. users[a].epoch \in Nat
    BY <1>3 DEF Login, MaySignIn, Types, UsersOK, Account
  <2>2. sessions' \subseteq Session
    BY <1>3, <2>1, FlowNumbers, GrantTypes DEF Login, Types
  <2>. QED
    BY <1>3, <2>2 DEF Login, Types, UsersOK, FlowTypes, flows
<1>4. ASSUME NEW b \in Browsers, NEW q \in pending, Refused(b, q) \/ CompletionFails(b, q)
      PROVE  Types'
  <2>1. FlowTypes'
    BY <1>4, TakesTypes DEF Refused, CompletionFails, Types
  <2>. QED
    BY <1>4, <2>1 DEF Refused, CompletionFails, Types, UsersOK
<1>5. ASSUME NEW b \in Browsers, NEW q \in pending, NEW claimed \in Roles,
             Completes(b, q, claimed)
      PROVE  Types'
  <2>1. FlowTypes' /\ q.flow \in 0 .. MaxFlows /\ q.person \in Persons
    BY <1>5, TakesTypes, FlowNumbers DEF Completes, Types
  <2>2. UsersOK' /\ q.person \in Accounts
    BY <1>5, <2>1, CompletedRow DEF Types, Accounts
  <2>. DEFINE old == IF users[q.person] = None THEN NewAccount(q.person, claimed, FALSE)
                                               ELSE users[q.person]
  <2>3. old.epoch \in Nat
    BY <2>2, NewAccountIsOne DEF Types, UsersOK, Account
  <2>4. Grant(sessions, b, q.person, old.epoch, q.flow, FALSE)
    BY <1>5 DEF Completes
  <2>5. sessions' \subseteq Session
    BY <2>1, <2>2, <2>3, <2>4, GrantTypes DEF Types
  <2>. QED
    BY <2>1, <2>2, <2>5 DEF Types
<1>6. ASSUME NEW s \in sessions, SessionEnds(s)
      PROVE  Types'
  BY <1>6 DEF SessionEnds, Types, UsersOK, FlowTypes, flows
<1>. QED
  BY <1>1, <1>2, <1>3, <1>4, <1>5, <1>6 DEF SignInStep

\* What a restart leaves.
LEMMA MemoryTypes ==
  ASSUME FlowTypes, MemoryIsLost
  PROVE  FlowTypes'
BY DEF FlowTypes, MemoryIsLost

LEMMA AdminTypes ==
  ASSUME Types, AdminStep
  PROVE  Types'
<1>1. ASSUME NEW a \in Locals, NEW role \in Roles, NEW disabled \in BOOLEAN,
             CreateUser(a, role, disabled)
      PROVE  Types'
  <2>1. a \in Accounts
    BY DEF Accounts
  <2>2. UsersOK'
    BY <1>1, <2>1, OneRow, NewAccountIsOne DEF CreateUser, Types
  <2>. QED
    BY <1>1, <2>2 DEF CreateUser, RequestEnds, Types, FlowTypes, flows
<1>2. ASSUME NEW a \in Accounts, NEW role \in Roles, NEW disabled \in BOOLEAN \cup {None},
             NEW rotate \in BOOLEAN, PatchUser(a, role, disabled, rotate)
      PROVE  Types'
  <2>1. UsersOK'
    BY <1>2, OneRow, PatchedIsOne DEF PatchUser, Patch, Types
  <2>2. sessions' \subseteq Session
    BY <1>2 DEF PatchUser, Types
  <2>. QED
    BY <1>2, <2>1, <2>2 DEF PatchUser, Patch, RequestEnds, Types, FlowTypes, flows
<1>3. ASSUME NEW a \in Accounts, NEW role \in Roles, NEW disabled \in BOOLEAN \cup {None},
             NEW rotate \in BOOLEAN, DiesBeforeRevoking(a, role, disabled, rotate)
      PROVE  Types'
  <2>1. UsersOK'
    BY <1>3, OneRow, PatchedIsOne DEF DiesBeforeRevoking, Types
  <2>2. \A s \in sessions : (IF s.account = a THEN [s EXCEPT !.late = TRUE] ELSE s) \in Session
    BY DEF Types, Session
  <2>3. sessions' \subseteq Session
    BY <1>3, <2>2 DEF DiesBeforeRevoking
  <2>4. FlowTypes'
    BY <1>3, MemoryTypes DEF DiesBeforeRevoking, Types
  <2>. QED
    BY <2>1, <2>3, <2>4 DEF Types
<1>4. ASSUME NEW actor \in Accounts, NEW a \in Accounts, DeleteUser(actor, a)
      PROVE  Types'
  BY <1>4 DEF DeleteUser, Types, UsersOK, FlowTypes, flows
<1>5. ASSUME NEW table \in Backups, NEW legacy \in BOOLEAN, Restore(table, legacy)
      PROVE  Types'
  <2>1. UsersOK'
    BY <1>5, RestoredTable
  <2>. QED
    BY <1>5, <2>1 DEF Restore, RequestEnds, Types, FlowTypes, flows
<1>6. ASSUME NEW a \in Locals, ResetPassword(a)
      PROVE  Types'
  <2>1. UsersOK'
    BY <1>6, ResetIsRow DEF ResetPassword, Types, Accounts
  <2>. QED
    BY <1>6, <2>1 DEF ResetPassword, Types, FlowTypes, flows
<1>7. ASSUME NEW a \in Locals, NEW b \in Browsers, ResetAmidLogin(b, a)
      PROVE  Types'
  <2>1. a \in Accounts
    BY DEF Accounts
  <2>2. UsersOK'
    BY <1>7, <2>1, ResetIsRow DEF ResetAmidLogin, MaySignIn, Types
  <2>3. users[a].epoch \in Nat /\ sessions \ Of(a) \subseteq Session
    BY <1>7, <2>1 DEF ResetAmidLogin, MaySignIn, Types, UsersOK, Account
  <2>4. sessions' \subseteq Session
    BY <1>7, <2>1, <2>3, FlowNumbers, GrantTypes DEF ResetAmidLogin
  <2>. QED
    BY <1>7, <2>2, <2>4 DEF ResetAmidLogin, Types, FlowTypes, flows
<1>. QED
  BY <1>1, <1>2, <1>3, <1>4, <1>5, <1>6, <1>7 DEF AdminStep

LEMMA InitTypes == Init => Types
<1>. SUFFICES ASSUME Init PROVE Types
  OBVIOUS
<1>1. UsersOK
  BY SignInAssumption DEF Init, UsersOK
<1>. QED
  BY <1>1, FlowNumbers DEF Init, Types, FlowTypes

LEMMA StepTypes ==
  ASSUME Types, [Next]_vars
  PROVE  Types'
<1>1. CASE FlowStep /\ UNCHANGED accounts
  BY <1>1, FlowStepTypes DEF Types, UsersOK, accounts
<1>2. CASE SignInStep
  BY <1>2, SignInTypes
<1>3. CASE AdminStep
  BY <1>3, AdminTypes
<1>4. CASE Restart
  BY <1>4, MemoryTypes DEF Restart, Types, UsersOK
<1>5. CASE UNCHANGED vars
  BY <1>5 DEF vars, accounts, flows, Types, UsersOK, FlowTypes
<1>. QED
  BY <1>1, <1>2, <1>3, <1>4, <1>5 DEF Next
-----------------------------------------------------------------------------
(***************************************************************************)
(* The initial account, over every step.                                   *)
(***************************************************************************)
LEMMA SignInNotes ==
  ASSUME Types, BootstrapInv, SignInStep
  PROVE  BootstrapInv'
<1>1. ASSUME Status PROVE BootstrapInv'
  BY <1>1, StatusNotes
<1>2. ASSUME BootstrapFails PROVE BootstrapInv'
  <2>1. ~ request
    <3>1. ASSUME request PROVE FALSE
      <4>1. bootstrap = FALSE
        BY <3>1, Zenon DEF BootstrapInv
      <4>. QED
        BY <1>2, <4>1, NoneIsNoAnswer, Zenon DEF BootstrapFails, NeedsBootstrap
    <3>. QED
      BY <3>1
  <2>2. request' = FALSE
    BY <1>2, <2>1, Zenon DEF BootstrapFails, BootstrapInv
  <2>. QED
    BY <1>2, <2>2, NothingIsNoted, Zenon DEF BootstrapFails
<1>3. ASSUME NEW b \in Browsers, NEW a \in Locals, Bootstrap(b, a)
      PROVE  BootstrapInv'
  <2>1. a \in Accounts /\ "admin" \in Roles
    BY DEF Accounts, Roles
  <2>2. ~ NoUsers'
    BY <1>3, <2>1, OneRow, NewAccountIsOne DEF Bootstrap, Types
  <2>. QED
    BY <1>3, <2>2, NotedAtLast, Zenon DEF Bootstrap, BootstrapInv
<1>4. ASSUME users' = users, bootstrap' = bootstrap, undone' = undone,
             request' = request \/ request' = FALSE
      PROVE  BootstrapInv'
  <2>1. NoUsers' = NoUsers
    BY <1>4, SameUsers, Zenon
  <2>2. CASE request' = request
    BY <1>4, <2>1, <2>2, Zenon DEF BootstrapInv
  <2>3. CASE request' = FALSE
    BY <1>4, <2>1, <2>3, Zenon DEF BootstrapInv
  <2>. QED
    BY <1>4, <2>2, <2>3
<1>5. ASSUME NEW b \in Browsers, NEW a \in Accounts, Login(b, a)
      PROVE  BootstrapInv'
  BY <1>4, <1>5, Zenon DEF Login
<1>6. ASSUME NEW b \in Browsers, NEW q \in pending, Refused(b, q)
      PROVE  BootstrapInv'
  BY <1>4, <1>6, Zenon DEF Refused, Takes
<1>7. ASSUME NEW b \in Browsers, NEW q \in pending, CompletionFails(b, q)
      PROVE  BootstrapInv'
  BY <1>7, FailureNotes, Zenon DEF CompletionFails, Takes
<1>8. ASSUME NEW b \in Browsers, NEW q \in pending, NEW claimed \in Roles,
             Completes(b, q, claimed)
      PROVE  BootstrapInv'
  <2>1. q.person \in Persons
    BY DEF Types, FlowTypes, Code
  <2>2. ~ NoUsers'
    BY <1>8, <2>1, CompletedRow DEF Types
  <2>. QED
    BY <1>8, <2>2, CompletionNotes, Zenon DEF Completes, Takes
<1>9. ASSUME NEW s \in sessions, SessionEnds(s)
      PROVE  BootstrapInv'
  BY <1>4, <1>9, Zenon DEF SessionEnds
<1>10. ASSUME NEW a \in Accounts, RequestBegins(a)
       PROVE  BootstrapInv'
  <2>1. ~ NoUsers
    BY <1>10 DEF RequestBegins, IsAdmin, NoUsers
  <2>2. ~ NoUsers'
    BY <1>10, <2>1, SameUsers, Zenon DEF RequestBegins
  <2>. QED
    BY <1>10, <2>2, NotedAtLast, Zenon DEF RequestBegins, BootstrapInv
<1>11. ASSUME RequestIsLost PROVE BootstrapInv'
  BY <1>4, <1>11, Zenon DEF RequestIsLost, RequestEnds
<1>. QED
  BY <1>1, <1>2, <1>3, <1>5, <1>6, <1>7, <1>8, <1>9, <1>10, <1>11, Zenon DEF SignInStep

LEMMA AdminNotes ==
  ASSUME Types, BootstrapInv, AdminStep
  PROVE  BootstrapInv'
<1>1. ASSUME NEW a \in Locals, NEW role \in Roles, NEW disabled \in BOOLEAN,
             CreateUser(a, role, disabled)
      PROVE  BootstrapInv'
  <2>1. a \in Accounts
    BY DEF Accounts
  <2>2. ~ NoUsers'
    BY <1>1, <2>1, OneRow, NewAccountIsOne DEF CreateUser, Types
  <2>. QED
    BY <1>1, <2>2, NotedBefore, Zenon DEF CreateUser, RequestEnds
<1>2. ASSUME NEW a \in Accounts, NEW role \in Roles, NEW disabled \in BOOLEAN \cup {None},
             NEW rotate \in BOOLEAN, PatchUser(a, role, disabled, rotate)
      PROVE  BootstrapInv'
  <2>1. ~ NoUsers'
    BY <1>2, OneRow, PatchedIsOne DEF PatchUser, Patch, Types
  <2>. QED
    BY <1>2, <2>1, NotedBefore, Zenon DEF PatchUser, Patch, RequestEnds
<1>3. ASSUME NEW a \in Accounts, NEW role \in Roles, NEW disabled \in BOOLEAN \cup {None},
             NEW rotate \in BOOLEAN, DiesBeforeRevoking(a, role, disabled, rotate)
      PROVE  BootstrapInv'
  BY <1>3, NothingIsNoted, Zenon DEF DiesBeforeRevoking, MemoryIsLost
<1>4. ASSUME NEW actor \in Accounts, NEW a \in Accounts, DeleteUser(actor, a)
      PROVE  BootstrapInv'
  <2>1. ~ NoUsers'
    BY <1>4 DEF DeleteUser, IsAdmin, NoUsers, Types, UsersOK
  <2>. QED
    BY <1>4, <2>1, NotedAtLast, Zenon DEF DeleteUser, BootstrapInv
<1>5. ASSUME NEW table \in Backups, NEW legacy \in BOOLEAN, Restore(table, legacy)
      PROVE  BootstrapInv'
  <2>1. ~ NoUsers'
    BY <1>5, RestoredTable
  <2>2. undone' \in BOOLEAN /\ request' \in BOOLEAN
    BY <1>5, Zenon DEF Restore, RequestEnds, BootstrapInv
  <2>. QED
    BY <1>5, <2>1, <2>2, NotedAtLast, Zenon DEF Restore
<1>6. ASSUME NEW a \in Locals, ResetPassword(a) \/ \E b \in Browsers : ResetAmidLogin(b, a)
      PROVE  BootstrapInv'
  <2>1. a \in Accounts /\ users[a] # None /\ Reset(a)
    BY <1>6 DEF ResetPassword, ResetAmidLogin, MaySignIn, Accounts
  <2>2. ~ NoUsers /\ ~ NoUsers'
    BY <2>1, ResetIsRow DEF Types, NoUsers
  <2>3. bootstrap' = bootstrap /\ undone' = undone /\ request' = request
    BY <1>6, Zenon DEF ResetPassword, ResetAmidLogin
  <2>. QED
    BY <2>2, <2>3, NotedBefore, Zenon
<1>. QED
  BY <1>1, <1>2, <1>3, <1>4, <1>5, <1>6, Zenon DEF AdminStep

LEMMA InitNotes == Init => BootstrapInv
BY NoneIsNoAnswer, Zenon DEF Init, BootstrapInv

LEMMA StepNotes ==
  ASSUME Types, BootstrapInv, [Next]_vars
  PROVE  BootstrapInv'
<1>1. CASE UNCHANGED <<users, bootstrap, undone, request>>
  <2>1. NoUsers' = NoUsers
    BY <1>1, SameUsers, Zenon
  <2>. QED
    BY <1>1, <2>1, Zenon DEF BootstrapInv
<1>2. CASE SignInStep
  BY <1>2, SignInNotes
<1>3. CASE AdminStep
  BY <1>3, AdminNotes
<1>4. CASE Restart
  BY <1>4, NothingIsNoted, Zenon DEF Restart, MemoryIsLost
<1>. QED
  BY <1>1, <1>2, <1>3, <1>4, Zenon DEF Next, vars, accounts

\* The server asks for an initial account exactly while there is none, over any
\* sequence of accounts, restores, restarts and edits, but for a first OIDC
\* account that was rolled back (needsBootstrap, setBootstrapState).
THEOREM InitialAccountIsAskedForOnce == Spec => []BootstrapIsRight
<1>1. Init => Types /\ BootstrapInv
  BY InitTypes, InitNotes
<1>2. Types /\ BootstrapInv /\ [Next]_vars => (Types /\ BootstrapInv)'
  BY StepTypes, StepNotes
<1>3. Types /\ BootstrapInv => BootstrapIsRight
  <2>. SUFFICES ASSUME BootstrapInv, bootstrap # None, ~ undone PROVE bootstrap = NoUsers
    BY DEF BootstrapIsRight
  <2>1. CASE bootstrap = TRUE
    <3>1. NoUsers = TRUE
      BY <2>1, Zenon DEF BootstrapInv, NoUsers
    <3>. QED
      BY <2>1, <3>1, Zenon
  <2>2. CASE bootstrap = FALSE
    <3>1. NoUsers = FALSE
      BY <2>2, Zenon DEF BootstrapInv, NoUsers
    <3>. QED
      BY <2>2, <3>1, Zenon
  <2>. QED
    BY <2>1, <2>2, Zenon DEF BootstrapInv
<1>. QED
  BY <1>1, <1>2, <1>3, PTL DEF Spec
-----------------------------------------------------------------------------
(***************************************************************************)
(* Sessions against the edits of their accounts.                           *)
(***************************************************************************)
Current(s) ==
  /\ users[s.account] # None
  /\ s.flow # 0 => ~ users[s.account].recheck
  /\ ~ s.late => /\ ~ users[s.account].disabled
                 /\ s.epoch = users[s.account].epoch

LEMMA CurrentIsAll == SessionsAreCurrent <=> \A s \in sessions : Current(s)
BY DEF SessionsAreCurrent, Current

\* The account of a session is as before.
LEMMA RowIsKept ==
  ASSUME SessionsAreCurrent, NEW s \in sessions, users'[s.account] = users[s.account]
  PROVE  Current(s)'
BY DEF SessionsAreCurrent, Current

\* Sessions only end.
LEMMA SessionsEnd ==
  ASSUME SessionsAreCurrent, users' = users, sessions' \subseteq sessions
  PROVE  SessionsAreCurrent'
BY RowIsKept, CurrentIsAll DEF SessionsAreCurrent, Current

\* One row changes, and its sessions with it.
LEMMA OthersStayCurrent ==
  ASSUME Types, SessionsAreCurrent, NEW a \in Accounts, NEW row,
         users' = [users EXCEPT ![a] = row],
         \A s \in sessions' : \/ s \in sessions \ Of(a)
                              \/ Current(s)'
  PROVE  SessionsAreCurrent'
<1>1. ASSUME NEW s \in sessions \ Of(a) PROVE Current(s)'
  <2>1. s.account # a /\ s.account \in Accounts
    BY DEF Of, Types, Session
  <2>2. users'[s.account] = users[s.account]
    BY <2>1 DEF Types, UsersOK
  <2>. QED
    BY <2>2, RowIsKept
<1>. QED
  BY <1>1 DEF SessionsAreCurrent, Current

\* No session is of an account that is not there.
LEMMA NoneOfTheAbsent ==
  ASSUME SessionsAreCurrent, NEW a, users[a] = None
  PROVE  Of(a) = {}
BY DEF SessionsAreCurrent, Of

LEMMA Granted ==
  ASSUME Types, SessionsAreCurrent, NEW others, others \subseteq sessions,
         NEW b \in Browsers, NEW a \in Accounts, NEW row \in Account, NEW epoch \in Nat,
         NEW flow \in 0 .. MaxFlows, NEW late \in BOOLEAN,
         users' = [users EXCEPT ![a] = row], Grant(others, b, a, epoch, flow, late),
         flow # 0 => ~ row.recheck,
         ~ late => ~ row.disabled /\ epoch = row.epoch,
         \A s \in others : s.account = a => Current(s)'
  PROVE  SessionsAreCurrent'
<1>0. PICK id \in SessionIds :
        sessions' = others \cup {[id |-> id, browser |-> b, account |-> a, epoch |-> epoch,
                                 flow |-> flow, late |-> late]}
  BY DEF Grant
<1>. DEFINE new == [id |-> id, browser |-> b, account |-> a, epoch |-> epoch,
                    flow |-> flow, late |-> late]
<1>1. sessions' = others \cup {new}
  BY <1>0
<1>2. users'[a] = row /\ row # None
  BY SignInAssumption DEF Types, UsersOK
<1>3. Current(new)'
  BY <1>2 DEF Current
<1>. QED
  BY <1>1, <1>3, OthersStayCurrent DEF Of

LEMMA SignInKeepsCurrent ==
  ASSUME Types, SessionsAreCurrent, SignInStep
  PROVE  SessionsAreCurrent'
<1>1. ASSUME users' = users, sessions' \subseteq sessions
      PROVE  SessionsAreCurrent'
  BY <1>1, SessionsEnd
<1>2. ASSUME Status \/ BootstrapFails \/ RequestIsLost \/ \E a \in Accounts : RequestBegins(a)
      PROVE  SessionsAreCurrent'
  BY <1>1, <1>2 DEF Status, BootstrapFails, RequestIsLost, RequestBegins
<1>3. ASSUME NEW b \in Browsers, NEW a \in Locals, Bootstrap(b, a)
      PROVE  SessionsAreCurrent'
  <2>1. a \in Accounts /\ "admin" \in Roles
    BY DEF Accounts, Roles
  <2>. DEFINE row == NewAccount(a, "admin", FALSE)
  <2>2. row \in Account
    BY <2>1, NewAccountIsOne
  <2>3. row.disabled = FALSE /\ row.epoch = 1
    BY DEF NewAccount
  <2>4. \A s \in sessions : s.account # a
    BY <1>3, NoneOfTheAbsent DEF Bootstrap, Of
  <2>5. users' = [users EXCEPT ![a] = row] /\ Grant(sessions, b, a, 1, 0, FALSE)
    BY <1>3 DEF Bootstrap
  <2>. HIDE DEF row
  <2>. QED
    BY <2>1, <2>2, <2>3, <2>4, <2>5, FlowNumbers, Granted
<1>4. ASSUME NEW b \in Browsers, NEW a \in Accounts, Login(b, a)
      PROVE  SessionsAreCurrent'
  <2>1. users[a] \in Account /\ users[a].epoch \in Nat
    BY <1>4 DEF Login, MaySignIn, Types, UsersOK, Account
  <2>2. users' = users /\ users' = [users EXCEPT ![a] = users[a]]
    BY <1>4 DEF Login, Types, UsersOK
  <2>3. ~ users[a].disabled /\ Grant(sessions, b, a, users[a].epoch, 0, FALSE)
    BY <1>4 DEF Login, MaySignIn
  <2>4. \A s \in sessions : Current(s)'
    BY <2>2, RowIsKept
  <2>. QED
    BY <2>1, <2>2, <2>3, <2>4, FlowNumbers, Granted
<1>5. ASSUME NEW b \in Browsers, NEW q \in pending, Refused(b, q) \/ CompletionFails(b, q)
      PROVE  SessionsAreCurrent'
  BY <1>1, <1>5 DEF Refused, CompletionFails
<1>6. ASSUME NEW b \in Browsers, NEW q \in pending, NEW claimed \in Roles,
             Completes(b, q, claimed)
      PROVE  SessionsAreCurrent'
  <2>. DEFINE a == q.person
              old == IF users[a] = None THEN NewAccount(a, claimed, FALSE) ELSE users[a]
              row == [old EXCEPT !.role = RolesFor(a, claimed), !.recheck = FALSE]
  <2>1. a \in Accounts /\ q.flow \in 0 .. MaxFlows
    BY FlowNumbers DEF Types, FlowTypes, Code, Accounts
  <2>2. old \in Account
    BY <2>1, NewAccountIsOne DEF Types, UsersOK
  <2>3. RolesFor(a, claimed) \in Roles
    BY <2>1 DEF RolesFor, Roles, Types, UsersOK, Account
  <2>4. /\ row \in Account /\ ~ row.recheck /\ row.epoch = old.epoch
        /\ row.disabled = old.disabled /\ old.epoch \in Nat
    BY <2>2, <2>3 DEF Account
  <2>5. /\ users' = [users EXCEPT ![a] = row] /\ ~ old.disabled
        /\ Grant(sessions, b, a, old.epoch, q.flow, FALSE)
    BY <1>6 DEF Completes
  <2>6. users'[a] = row /\ row # None
    BY <2>1, <2>4, <2>5, SignInAssumption DEF Types, UsersOK
  <2>7. ASSUME NEW s \in sessions, s.account = a
        PROVE  Current(s)'
    <3>1. old = users[a]
      BY <2>7 DEF SessionsAreCurrent
    <3>. HIDE DEF row, old
    <3>. QED
      BY <2>4, <2>6, <2>7, <3>1 DEF SessionsAreCurrent, Current
  <2>. HIDE DEF row, old, a
  <2>. QED
    BY <2>1, <2>4, <2>5, <2>7, Granted
<1>7. ASSUME NEW s \in sessions, SessionEnds(s)
      PROVE  SessionsAreCurrent'
  BY <1>1, <1>7 DEF SessionEnds
<1>. QED
  BY <1>2, <1>3, <1>4, <1>5, <1>6, <1>7, Zenon DEF SignInStep

LEMMA AdminKeepsCurrent ==
  ASSUME Types, SessionsAreCurrent, AdminStep
  PROVE  SessionsAreCurrent'
<1>1. ASSUME NEW a \in Locals, NEW role \in Roles, NEW disabled \in BOOLEAN,
             CreateUser(a, role, disabled)
      PROVE  SessionsAreCurrent'
  <2>1. a \in Accounts /\ Of(a) = {}
    BY <1>1, NoneOfTheAbsent DEF CreateUser, Accounts
  <2>. QED
    BY <1>1, <2>1, OthersStayCurrent DEF CreateUser
<1>2. ASSUME NEW a \in Accounts, NEW role \in Roles, NEW disabled \in BOOLEAN \cup {None},
             NEW rotate \in BOOLEAN, PatchUser(a, role, disabled, rotate)
      PROVE  SessionsAreCurrent'
  <2>. DEFINE row == Patched(a, role, disabled, rotate)
  <2>1. /\ users' = [users EXCEPT ![a] = row] /\ users[a] # None
        /\ sessions' = IF EndsSessions(disabled, rotate) THEN sessions \ Of(a) ELSE sessions
    BY <1>2 DEF PatchUser, Patch
  <2>2. CASE EndsSessions(disabled, rotate)
    <3>. HIDE DEF row
    <3>. QED
      BY <2>1, <2>2, OthersStayCurrent
  <2>3. CASE ~ EndsSessions(disabled, rotate)
    <3>1. users[a] \in Account
      BY <2>1 DEF Types, UsersOK
    <3>2. ~ rotate /\ disabled # TRUE
      BY <2>3, Zenon DEF EndsSessions
    <3>3. /\ row.recheck = users[a].recheck
          /\ row.epoch = users[a].epoch
          /\ ~ users[a].disabled => ~ row.disabled
      BY <3>1, <3>2 DEF Patched, Account
    <3>4. users'[a] = row /\ row # None
      BY <2>1, PatchedIsOne DEF Types, UsersOK
    <3>. HIDE DEF row
    <3>5. ASSUME NEW s \in sessions, s.account = a
          PROVE  Current(s)'
      BY <3>3, <3>4, <3>5 DEF SessionsAreCurrent, Current
    <3>6. sessions' = sessions
      BY <2>1, <2>3
    <3>. QED
      BY <2>1, <3>5, <3>6, OthersStayCurrent DEF Of
  <2>. QED
    BY <2>2, <2>3
<1>3. ASSUME NEW a \in Accounts, NEW role \in Roles, NEW disabled \in BOOLEAN \cup {None},
             NEW rotate \in BOOLEAN, DiesBeforeRevoking(a, role, disabled, rotate)
      PROVE  SessionsAreCurrent'
  <2>. DEFINE row == Patched(a, role, disabled, rotate)
  <2>1. /\ users' = [users EXCEPT ![a] = row] /\ users[a] # None
        /\ sessions' = {IF s.account = a THEN [s EXCEPT !.late = TRUE] ELSE s : s \in sessions}
    BY <1>3 DEF DiesBeforeRevoking
  <2>2. users[a] \in Account
    BY <2>1 DEF Types, UsersOK
  <2>3. row.recheck = users[a].recheck
    BY <2>2 DEF Patched, Account
  <2>4. users'[a] = row /\ row # None
    BY <2>1, PatchedIsOne DEF Types, UsersOK
  <2>. HIDE DEF row
  <2>5. ASSUME NEW s \in sessions, s.account = a
        PROVE  Current([s EXCEPT !.late = TRUE])'
    <3>1. s \in Session
      BY DEF Types
    <3>. DEFINE marked == [s EXCEPT !.late = TRUE]
    <3>2. marked.account = a /\ marked.flow = s.flow /\ marked.late
      BY <2>5, <3>1 DEF Session
    <3>. HIDE DEF marked
    <3>3. Current(marked)'
      BY <2>3, <2>4, <2>5, <3>2 DEF SessionsAreCurrent, Current
    <3>. QED
      BY <3>3 DEF marked
  <2>6. \A t \in sessions' : t \in sessions \ Of(a) \/ Current(t)'
    BY <2>1, <2>5 DEF Of
  <2>. QED
    BY <2>1, <2>6, OthersStayCurrent
<1>4. ASSUME NEW actor \in Accounts, NEW a \in Accounts, DeleteUser(actor, a)
      PROVE  SessionsAreCurrent'
  BY <1>4, OthersStayCurrent DEF DeleteUser
<1>5. ASSUME NEW table \in Backups, NEW legacy \in BOOLEAN, Restore(table, legacy)
      PROVE  SessionsAreCurrent'
  BY <1>5 DEF Restore, SessionsAreCurrent
<1>6. ASSUME NEW a \in Locals, ResetPassword(a)
      PROVE  SessionsAreCurrent'
  <2>1. a \in Accounts
    BY DEF Accounts
  <2>2. users' = [users EXCEPT ![a] = [users[a] EXCEPT !.epoch = users[a].epoch + 1]]
    BY <1>6 DEF ResetPassword, Reset
  <2>. QED
    BY <1>6, <2>1, <2>2, OthersStayCurrent DEF ResetPassword
<1>7. ASSUME NEW a \in Locals, NEW b \in Browsers, ResetAmidLogin(b, a)
      PROVE  SessionsAreCurrent'
  <2>. DEFINE row == [users[a] EXCEPT !.epoch = users[a].epoch + 1]
  <2>1. a \in Accounts
    BY DEF Accounts
  <2>2. users[a] \in Account
    BY <1>7, <2>1 DEF ResetAmidLogin, MaySignIn, Types, UsersOK
  <2>3. row \in Account /\ users[a].epoch \in Nat
    BY <2>2 DEF Account
  <2>4. users' = [users EXCEPT ![a] = row]
    BY <1>7 DEF ResetAmidLogin, Reset
  <2>5. Grant(sessions \ Of(a), b, a, users[a].epoch, 0, TRUE)
    BY <1>7 DEF ResetAmidLogin
  <2>6. \A s \in sessions \ Of(a) : s.account # a
    BY DEF Of
  <2>. HIDE DEF row
  <2>. QED
    BY <2>1, <2>3, <2>4, <2>5, <2>6, FlowNumbers, Granted
<1>. QED
  BY <1>1, <1>2, <1>3, <1>4, <1>5, <1>6, <1>7, Zenon DEF AdminStep

\* No session outlives its account, the disabling of it or a change of its
\* password (PATCH and DELETE /users/:id, resetLocalUserPassword, /admin/restore),
\* but where the process died before it removed them or a reset came amid the
\* check of the password.
THEOREM RevokedSessionsAreGone == Spec => []SessionsAreCurrent
<1>1. Init => Types /\ SessionsAreCurrent
  BY InitTypes DEF Init, SessionsAreCurrent
<1>2. ASSUME Types, SessionsAreCurrent, [Next]_vars
      PROVE  SessionsAreCurrent'
  <2>1. CASE UNCHANGED <<users, sessions>>
    BY <1>2, <2>1, SessionsEnd
  <2>2. CASE SignInStep
    BY <1>2, <2>2, SignInKeepsCurrent
  <2>3. CASE AdminStep
    BY <1>2, <2>3, AdminKeepsCurrent
  <2>. QED
    BY <1>2, <2>1, <2>2, <2>3 DEF Next, Restart, vars, accounts
<1>3. Types /\ SessionsAreCurrent /\ [Next]_vars => (Types /\ SessionsAreCurrent)'
  BY <1>2, StepTypes
<1>. QED
  BY <1>1, <1>3, PTL DEF Spec
-----------------------------------------------------------------------------
(***************************************************************************)
(* Flows.  Cookies, and the answers that set them, are of the browser that *)
(* started the flow, and a flow is in one place: at its start, among the   *)
(* states, with the provider or its code outstanding, or in a session.     *)
(***************************************************************************)
Bindings ==
  /\ \A b \in Browsers : cookie[b] # 0 => started[cookie[b]] = b
  /\ \A r \in replies : r.cookie # 0 => started[r.cookie] = r.browser
  /\ \A r \in starting : started[r.flow] = r.browser
  /\ \A f \in states : started[f] # None

Homes ==
  \A q \in verifying \cup pending : started[q.flow] # None /\ returned[q.flow] = started[q.flow]

OnePlace ==
  /\ verifying \cap pending = {}
  /\ \A p, q \in verifying \cup pending : p.flow = q.flow => p = q
  /\ \A r, t \in starting : r.flow = t.flow => r = t
  /\ \A r \in starting : r.flow \notin states
  /\ \A q \in verifying \cup pending :
       q.flow \notin states /\ \A r \in starting : r.flow # q.flow

\* A flow comes back once, and not while it waits for that.
Counted ==
  /\ \A f \in Flows : callbacks[f] <= 1 /\ grants[f] <= callbacks[f]
  /\ \A f \in Flows : started[f] = None \/ f \in states => callbacks[f] = 0
  /\ \A r \in starting : callbacks[r.flow] = 0
  /\ \A q \in verifying \cup pending : callbacks[q.flow] = 1 /\ grants[q.flow] = 0

\* A session stems from a grant of its flow, in the browser that began it.
Granting(s) ==
  s.flow # 0 =>
    /\ grants[s.flow] = 1
    /\ started[s.flow] = s.browser /\ returned[s.flow] = s.browser
    /\ \A t \in sessions : t.flow = s.flow => t = s

FlowInv == Bindings /\ Homes /\ OnePlace /\ Counted /\ (\A s \in sessions : Granting(s))

LEMMA FlowInvImplies == FlowInv => FlowsStayInTheirBrowser
BY DEF FlowInv, Counted, Granting, FlowsStayInTheirBrowser

\* Sessions are as before, and so is what they say of their flows.
LEMMA GrantingStays ==
  ASSUME Types, FlowInv, sessions' = sessions, grants' = grants,
         \A s \in sessions : s.flow # 0 =>
           started'[s.flow] = started[s.flow] /\ returned'[s.flow] = returned[s.flow]
  PROVE  (\A s \in sessions : Granting(s))'
BY DEF FlowInv, Granting

LEMMA SessionFlows ==
  ASSUME Types, FlowInv, NEW s \in sessions, s.flow # 0
  PROVE  s.flow \in Flows /\ grants[s.flow] = 1 /\ callbacks[s.flow] = 1
<1>1. s.flow \in Flows
  BY DEF Types, Session, Flows
<1>2. grants[s.flow] = 1
  BY DEF FlowInv, Granting
<1>. QED
  BY <1>1, <1>2 DEF FlowInv, Counted, Types, FlowTypes

LEMMA StartKeepsFlows ==
  ASSUME Types, FlowInv, NEW b \in Browsers, NEW f \in Flows, Start(b, f),
         sessions' = sessions
  PROVE  FlowInv'
<1>1. /\ started[f] = None /\ None \notin Browsers
      /\ started' = [started EXCEPT ![f] = b]
      /\ \A g \in Flows : started'[g] = IF g = f THEN b ELSE started[g]
  BY SignInAssumption DEF Start, Types, FlowTypes
<1>. DEFINE new == [browser |-> b, flow |-> f, previous |-> cookie[b]]
<1>2. starting' = starting \cup {new} /\ new.flow = f /\ new.browser = b
  BY DEF Start
<1>. HIDE DEF new
<1>3. UNCHANGED <<states, verifying, pending, replies, cookie, returned, callbacks, grants>>
  BY DEF Start
<1>4. Bindings'
  <2>1. \A c \in Browsers : cookie'[c] # 0 => started'[cookie'[c]] = c
    BY <1>1, <1>3 DEF FlowInv, Bindings, Types, FlowTypes, Flows
  <2>2. \A r \in replies' : r.cookie # 0 => started'[r.cookie] = r.browser
    BY <1>1, <1>3 DEF FlowInv, Bindings, Types, FlowTypes, Flows
  <2>3. \A r \in starting' : started'[r.flow] = r.browser
    BY <1>1, <1>2 DEF FlowInv, Bindings, Types, FlowTypes
  <2>4. \A g \in states' : started'[g] # None
    BY <1>1, <1>3 DEF FlowInv, Bindings, Types, FlowTypes
  <2>. QED
    BY <2>1, <2>2, <2>3, <2>4 DEF Bindings
<1>5. Homes'
  BY <1>1, <1>3 DEF FlowInv, Homes, Types, FlowTypes
<1>6. /\ f \notin states /\ callbacks[f] = 0
      /\ \A q \in verifying \cup pending : q.flow # f
      /\ \A r \in starting : r.flow # f
  BY <1>1 DEF FlowInv, Bindings, Homes, Counted, Types, FlowTypes
<1>7. OnePlace'
  BY <1>2, <1>3, <1>6 DEF FlowInv, OnePlace
<1>8. Counted'
  BY <1>1, <1>2, <1>3, <1>6 DEF FlowInv, Counted
<1>9. (\A s \in sessions : Granting(s))'
  <2>1. \A s \in sessions : s.flow # 0 => s.flow \in Flows /\ s.flow # f
    BY <1>6, SessionFlows
  <2>. QED
    BY <1>1, <1>3, <2>1, GrantingStays
<1>. QED
  BY <1>4, <1>5, <1>7, <1>8, <1>9 DEF FlowInv

LEMMA CallbackKeepsFlows ==
  ASSUME Types, FlowInv, NEW b \in Browsers, NEW f \in Flows, NEW person \in Persons,
         Callback(b, f, person), sessions' = sessions
  PROVE  FlowInv'
<1>. DEFINE v == [flow |-> f, person |-> person, nth |-> callbacks[f] + 1]
<1>1. /\ f \in states /\ states' = states \ {f}
      /\ verifying' = verifying \cup {v} /\ v.flow = f
  BY DEF Callback, Consumed
<1>2. /\ \A g \in Flows : returned'[g] = IF g = f THEN b ELSE returned[g]
      /\ \A g \in Flows : callbacks'[g] = IF g = f THEN callbacks[f] + 1 ELSE callbacks[g]
  BY DEF Callback, Types, FlowTypes
<1>3. UNCHANGED <<starting, pending, replies, cookie, started, grants>>
  BY DEF Callback
<1>4. started[f] = b /\ started[f] # None
  BY FlowNumbers DEF Callback, Bound, FlowInv, Bindings
<1>. HIDE DEF v
<1>5. Bindings'
  BY <1>1, <1>3 DEF FlowInv, Bindings
<1>6. \A q \in verifying \cup pending : q.flow \in Flows /\ q.flow # f
  BY <1>1 DEF FlowInv, OnePlace, Types, FlowTypes, Code
<1>7. Homes'
  BY <1>1, <1>2, <1>3, <1>4, <1>6 DEF FlowInv, Homes
<1>8. OnePlace'
  BY <1>1, <1>3, <1>6 DEF FlowInv, OnePlace
<1>9. Counted'
  <2>1. /\ callbacks[f] = 0 /\ grants[f] = 0
        /\ \A r \in starting : r.flow \in Flows /\ r.flow # f
    BY <1>1 DEF FlowInv, Counted, OnePlace, Types, FlowTypes
  <2>2. \A g \in Flows : callbacks[g] \in Nat /\ grants[g] \in Nat
    BY DEF Types, FlowTypes
  <2>. QED
    BY <1>1, <1>2, <1>3, <1>4, <1>6, <2>1, <2>2 DEF FlowInv, Counted
<1>10. (\A s \in sessions : Granting(s))'
  <2>1. \A s \in sessions : s.flow # 0 => s.flow \in Flows /\ s.flow # f
    BY <1>1, SessionFlows DEF FlowInv, Counted
  <2>. QED
    BY <1>2, <1>3, <2>1, GrantingStays
<1>. QED
  BY <1>5, <1>7, <1>8, <1>9, <1>10 DEF FlowInv

LEMMA StartedKeepsFlows ==
  ASSUME Types, FlowInv, NEW r \in starting, Started(r), sessions' = sessions
  PROVE  FlowInv'
<1>. DEFINE reply == [browser |-> r.browser, cookie |-> r.flow]
<1>1. /\ starting' = starting \ {r} /\ states' \subseteq states \cup {r.flow}
      /\ pending' \subseteq pending
      /\ replies' = replies \cup {reply} /\ reply.browser = r.browser /\ reply.cookie = r.flow
      /\ UNCHANGED <<verifying, cookie, started, returned, callbacks, grants>>
  BY DEF Started
<1>. HIDE DEF reply
<1>2. started[r.flow] = r.browser /\ r.browser # None
  BY SignInAssumption DEF FlowInv, Bindings, Types, FlowTypes
<1>3. Bindings'
  BY <1>1, <1>2 DEF FlowInv, Bindings
<1>4. Homes'
  BY <1>1 DEF FlowInv, Homes
<1>5. OnePlace'
  BY <1>1 DEF FlowInv, OnePlace
<1>6. Counted'
  BY <1>1 DEF FlowInv, Counted
<1>7. (\A s \in sessions : Granting(s))'
  BY <1>1, GrantingStays
<1>. QED
  BY <1>3, <1>4, <1>5, <1>6, <1>7 DEF FlowInv

LEMMA FlowStepKeepsFlows ==
  ASSUME Types, FlowInv, FlowStep, sessions' = sessions
  PROVE  FlowInv'
<1>1. ASSUME NEW r \in starting, StartFails(r)
      PROVE  FlowInv'
  <2>1. (\A s \in sessions : Granting(s))'
    BY <1>1, GrantingStays DEF StartFails
  <2>. QED
    BY <1>1, <2>1 DEF StartFails, FlowInv, Bindings, Homes, OnePlace, Counted
<1>2. ASSUME NEW r \in replies, ReplyArrives(r)
      PROVE  FlowInv'
  <2>1. \A b \in Browsers : cookie'[b] = IF b = r.browser THEN r.cookie ELSE cookie[b]
    BY <1>2 DEF ReplyArrives, Types, FlowTypes
  <2>2. Bindings'
    BY <1>2, <2>1 DEF ReplyArrives, FlowInv, Bindings
  <2>3. (\A s \in sessions : Granting(s))'
    BY <1>2, GrantingStays DEF ReplyArrives
  <2>. QED
    BY <1>2, <2>2, <2>3 DEF ReplyArrives, FlowInv, Homes, OnePlace, Counted
<1>3. ASSUME NEW v \in verifying, NEW succeeds \in BOOLEAN, Verified(v, succeeds)
      PROVE  FlowInv'
  <2>1. /\ verifying' = verifying \ {v}
        /\ pending' = pending \/ pending' = pending \cup {v}
        /\ UNCHANGED <<starting, states, replies, cookie, started, returned, callbacks, grants>>
    BY <1>3 DEF Verified
  <2>2. Homes' /\ OnePlace'
    BY <2>1 DEF FlowInv, Homes, OnePlace
  <2>3. (\A s \in sessions : Granting(s))'
    BY <2>1, GrantingStays
  <2>. QED
    BY <2>1, <2>2, <2>3 DEF FlowInv, Bindings, Counted
<1>. QED
  BY <1>1, <1>2, <1>3, StartKeepsFlows, CallbackKeepsFlows, StartedKeepsFlows DEF FlowStep

\* Sessions end, and begin by passwords; flows are left alone.
LEMMA PasswordsKeepFlows ==
  ASSUME Types, FlowInv, UNCHANGED flows,
         \A s \in sessions' : s.flow = 0 \/ s \in sessions
  PROVE  FlowInv'
<1>1. Bindings' /\ Homes' /\ OnePlace' /\ Counted'
  BY DEF FlowInv, Bindings, Homes, OnePlace, Counted, flows
<1>2. (\A s \in sessions : Granting(s))'
  BY DEF FlowInv, Granting, flows
<1>. QED
  BY <1>1, <1>2 DEF FlowInv

\* One session more, by a password.
LEMMA PasswordSession ==
  ASSUME NEW others, others \subseteq sessions, NEW b, NEW a, NEW epoch, NEW late,
         Grant(others, b, a, epoch, 0, late)
  PROVE  \A s \in sessions' : s.flow = 0 \/ s \in sessions
BY DEF Grant

\* A code is used up.
LEMMA TakesKeepsFlows ==
  ASSUME Types, FlowInv, NEW b \in Browsers, NEW q \in pending, Takes(b, q),
         replies' = replies, sessions' = sessions, grants' = grants
  PROVE  FlowInv'
<1>1. (\A s \in sessions : Granting(s))'
  BY GrantingStays DEF Takes
<1>. QED
  BY <1>1 DEF Takes, FlowInv, Bindings, Homes, OnePlace, Counted

LEMMA CompletesKeepsFlows ==
  ASSUME Types, FlowInv, NEW b \in Browsers, NEW q \in pending, NEW claimed \in Roles,
         Completes(b, q, claimed)
  PROVE  FlowInv'
<1>0. PICK old : Grant(sessions, b, q.person, old.epoch, q.flow, FALSE)
  BY DEF Completes
<1>. DEFINE reply == [browser |-> b, cookie |-> 0]
<1>1. PICK new : /\ sessions' = sessions \cup {new}
                 /\ new.flow = q.flow /\ new.browser = b
  <2>1. PICK id \in SessionIds :
          sessions' = sessions \cup {[id |-> id, browser |-> b, account |-> q.person,
                                     epoch |-> old.epoch, flow |-> q.flow, late |-> FALSE]}
    BY <1>0 DEF Grant
  <2>2. PICK row : row = [id |-> id, browser |-> b, account |-> q.person,
                          epoch |-> old.epoch, flow |-> q.flow, late |-> FALSE]
    OBVIOUS
  <2>3. row.flow = q.flow /\ row.browser = b /\ sessions' = sessions \cup {row}
    BY <2>1, <2>2, SMT
  <2>. QED
    BY <2>3, Zenon
<1>2. /\ cookie[b] = q.flow /\ pending' = pending \ {q}
      /\ replies' = replies \cup {reply} /\ reply.cookie = 0
      /\ grants' = [grants EXCEPT ![q.flow] = grants[q.flow] + 1]
      /\ UNCHANGED <<starting, states, verifying, cookie, started, returned, callbacks>>
  BY DEF Completes, Takes, Bound
<1>. HIDE DEF reply
<1>3. /\ q.flow \in Flows /\ q.flow # 0 /\ started[q.flow] = b /\ returned[q.flow] = b
      /\ callbacks[q.flow] = 1 /\ grants[q.flow] = 0
  BY <1>2, FlowNumbers DEF Types, FlowTypes, Code, FlowInv, Bindings, Homes, Counted
<1>4. Bindings'
  BY <1>2 DEF FlowInv, Bindings
<1>5. Homes' /\ OnePlace'
  BY <1>2 DEF FlowInv, Homes, OnePlace
<1>6. \A f \in Flows : grants'[f] = IF f = q.flow THEN 1 ELSE grants[f]
  BY <1>2, <1>3 DEF Types, FlowTypes
<1>7. \A p \in verifying' \cup pending' : p.flow \in Flows /\ p.flow # q.flow
  BY <1>2 DEF FlowInv, OnePlace, Types, FlowTypes, Code
<1>8. Counted'
  BY <1>2, <1>3, <1>6, <1>7 DEF FlowInv, Counted
<1>9. (\A s \in sessions : Granting(s))'
  <2>1. \A s \in sessions : s.flow # 0 => s.flow \in Flows /\ s.flow # q.flow
    BY <1>3, SessionFlows
  <2>. QED
    BY <1>1, <1>2, <1>3, <1>6, <2>1 DEF FlowInv, Granting
<1>. QED
  BY <1>4, <1>5, <1>8, <1>9 DEF FlowInv

LEMMA SignInKeepsFlows ==
  ASSUME Types, FlowInv, SignInStep
  PROVE  FlowInv'
<1>1. ASSUME Status \/ BootstrapFails \/ RequestIsLost \/ \E a \in Accounts : RequestBegins(a)
      PROVE  FlowInv'
  BY <1>1, PasswordsKeepFlows DEF Status, BootstrapFails, RequestIsLost, RequestEnds, RequestBegins
<1>2. ASSUME NEW b \in Browsers, NEW a \in Locals, Bootstrap(b, a)
      PROVE  FlowInv'
  BY <1>2, PasswordSession, PasswordsKeepFlows DEF Bootstrap
<1>3. ASSUME NEW b \in Browsers, NEW a \in Accounts, Login(b, a)
      PROVE  FlowInv'
  BY <1>3, PasswordSession, PasswordsKeepFlows DEF Login
<1>4. ASSUME NEW b \in Browsers, NEW q \in pending, Refused(b, q) \/ CompletionFails(b, q)
      PROVE  FlowInv'
  BY <1>4, TakesKeepsFlows DEF Refused, CompletionFails
<1>5. ASSUME NEW s \in sessions, SessionEnds(s)
      PROVE  FlowInv'
  BY <1>5, PasswordsKeepFlows DEF SessionEnds
<1>. QED
  BY <1>1, <1>2, <1>3, <1>4, <1>5, CompletesKeepsFlows DEF SignInStep

\* What a restart leaves: cookies, and the sessions but for a mark.
LEMMA MemoryLossKeepsFlows ==
  ASSUME Types, FlowInv, MemoryIsLost, (\A s \in sessions : Granting(s))'
  PROVE  FlowInv'
BY DEF MemoryIsLost, FlowInv, Bindings, Homes, OnePlace, Counted

LEMMA MarkedSessionsStay ==
  ASSUME Types, FlowInv, NEW a, UNCHANGED <<started, returned, grants>>,
         sessions' = {IF s.account = a THEN [s EXCEPT !.late = TRUE] ELSE s : s \in sessions}
  PROVE  (\A s \in sessions : Granting(s))'
<1>. DEFINE marked(s) == IF s.account = a THEN [s EXCEPT !.late = TRUE] ELSE s
<1>1. \A s \in sessions : marked(s).flow = s.flow /\ marked(s).browser = s.browser
  BY DEF Types, Session
<1>2. \A t \in sessions' : \E s \in sessions : t = marked(s)
  OBVIOUS
<1>. HIDE DEF marked
<1>. QED
  BY <1>1, <1>2 DEF FlowInv, Granting

LEMMA AdminKeepsFlows ==
  ASSUME Types, FlowInv, AdminStep
  PROVE  FlowInv'
<1>1. ASSUME NEW a \in Locals, NEW role \in Roles, NEW disabled \in BOOLEAN,
             CreateUser(a, role, disabled)
      PROVE  FlowInv'
  BY <1>1, PasswordsKeepFlows DEF CreateUser, RequestEnds
<1>2. ASSUME NEW a \in Accounts, NEW role \in Roles, NEW disabled \in BOOLEAN \cup {None},
             NEW rotate \in BOOLEAN, PatchUser(a, role, disabled, rotate)
      PROVE  FlowInv'
  <2>1. UNCHANGED flows /\ sessions' \subseteq sessions
    BY <1>2 DEF PatchUser, Patch, RequestEnds
  <2>. QED
    BY <2>1, PasswordsKeepFlows
<1>3. ASSUME NEW a \in Accounts, NEW role \in Roles, NEW disabled \in BOOLEAN \cup {None},
             NEW rotate \in BOOLEAN, DiesBeforeRevoking(a, role, disabled, rotate)
      PROVE  FlowInv'
  <2>1. MemoryIsLost /\ UNCHANGED <<started, returned, grants>>
    BY <1>3 DEF DiesBeforeRevoking, MemoryIsLost
  <2>2. sessions' = {IF s.account = a THEN [s EXCEPT !.late = TRUE] ELSE s : s \in sessions}
    BY <1>3 DEF DiesBeforeRevoking
  <2>3. (\A s \in sessions : Granting(s))'
    BY <2>1, <2>2, MarkedSessionsStay
  <2>. QED
    BY <2>1, <2>3, MemoryLossKeepsFlows
<1>4. ASSUME NEW actor \in Accounts, NEW a \in Accounts, DeleteUser(actor, a)
      PROVE  FlowInv'
  BY <1>4, PasswordsKeepFlows DEF DeleteUser
<1>5. ASSUME NEW table \in Backups, NEW legacy \in BOOLEAN, Restore(table, legacy)
      PROVE  FlowInv'
  BY <1>5, PasswordsKeepFlows DEF Restore, RequestEnds
<1>6. ASSUME NEW a \in Locals, ResetPassword(a)
      PROVE  FlowInv'
  BY <1>6, PasswordsKeepFlows DEF ResetPassword
<1>7. ASSUME NEW a \in Locals, NEW b \in Browsers, ResetAmidLogin(b, a)
      PROVE  FlowInv'
  <2>1. sessions \ Of(a) \subseteq sessions
    OBVIOUS
  <2>. QED
    BY <1>7, <2>1, PasswordSession, PasswordsKeepFlows DEF ResetAmidLogin
<1>. QED
  BY <1>1, <1>2, <1>3, <1>4, <1>5, <1>6, <1>7, Zenon DEF AdminStep

\* However many browsers, flows and answers cross, a session that came by OIDC
\* is in the browser that began its flow; a flow comes back once, and gives one
\* session at most over its life, sessions and codes being told apart by their ids
\* (/oidc/start, /oidc/callback and /oidc/session, assertBrowserBinding).
THEOREM FlowsEndWhereTheyBegan == Spec => []FlowsStayInTheirBrowser
<1>1. Init => Types /\ FlowInv
  BY InitTypes DEF Init, FlowInv, Bindings, Homes, OnePlace, Counted
<1>2. ASSUME Types, FlowInv, [Next]_vars
      PROVE  FlowInv'
  <2>1. CASE FlowStep /\ UNCHANGED accounts
    BY <1>2, <2>1, FlowStepKeepsFlows DEF accounts
  <2>2. CASE SignInStep
    BY <1>2, <2>2, SignInKeepsFlows
  <2>3. CASE AdminStep
    BY <1>2, <2>3, AdminKeepsFlows
  <2>4. CASE Restart
    <3>1. (\A s \in sessions : Granting(s))'
      BY <1>2, <2>4, GrantingStays DEF Restart, MemoryIsLost
    <3>. QED
      BY <1>2, <2>4, <3>1, MemoryLossKeepsFlows DEF Restart
  <2>5. CASE UNCHANGED vars
    BY <1>2, <2>5, PasswordsKeepFlows DEF vars, accounts
  <2>. QED
    BY <1>2, <2>1, <2>2, <2>3, <2>4, <2>5 DEF Next
<1>3. Types /\ FlowInv /\ [Next]_vars => (Types /\ FlowInv)'
  BY <1>2, StepTypes
<1>. QED
  BY <1>1, <1>3, FlowInvImplies, PTL DEF Spec
=============================================================================
