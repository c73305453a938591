------------------------ MODULE IntegrationReviewProofs ------------------------
(***************************************************************************)
(* What holds of what an administrator reviews of an integration before it *)
(* is applied: the previews of a connection, for any users, connections    *)
(* and configurations, which implement ReviewedApply (IntegrationPreviews),*)
(* and the device pass they apply, for any inventories and device tables   *)
(* (DeviceImport).                                                         *)
(***************************************************************************)
EXTENDS IntegrationPreviews, DeviceImport, TLAPS, FiniteSetTheorems

-----------------------------------------------------------------------------
(***************************************************************************)
(* The reviews of a connection.                                            *)
(***************************************************************************)

\* What a connection is to its reviews: its revision, if it has a row.
Version == [c \in Connections |-> IF c \in Live THEN Revision(connection[c]) ELSE Gone]

\* Rows have revisions, and a status is no part of them.
LEMMA RevisionFacts ==
  \A row \in Row : /\ Revision(row) \in Revisions
                   /\ \A status \in STATUSES :
                        /\ [row EXCEPT !.status = status] \in Row
                        /\ Revision([row EXCEPT !.status = status]) = Revision(row)
  BY DEF Row, Revisions, Revision

\* Live connections are those with a row.
LEMMA LiveRows ==
  ASSUME TypeOK
  PROVE  /\ \A c \in Connections : c \in Live <=> connection[c] \in Row
         /\ Version \in [Connections -> Revisions \cup {Gone}]
<1>1. \A c \in Connections : c \in Live <=> connection[c] \in Row
  BY RowAssumption DEF TypeOK, Live
<1>2. \A c \in Live : Revision(connection[c]) \in Revisions
  BY <1>1, RevisionFacts DEF Live
<1>. QED
  BY <1>1, <1>2 DEF Version

\* Recording a status leaves rows, live connections and revisions alone.
LEMMA StatusIsNoRevision ==
  ASSUME TypeOK, NEW c \in Connections, NEW status \in STATUSES,
         RecordStatus(c, status)
  PROVE  /\ connection' \in [Connections -> Row \cup {Unborn, Gone}]
         /\ Live' = Live
         /\ \A d \in Live : Revision(connection'[d]) = Revision(connection[d])
<1>1. CASE c \notin Live
  BY <1>1 DEF TypeOK, RecordStatus, Live
<1>2. CASE c \in Live
  <2>1. /\ connection[c] \in Row
        /\ connection' = [connection EXCEPT ![c] = [connection[c] EXCEPT !.status = status]]
    BY <1>2, LiveRows DEF RecordStatus
  <2>2. /\ [connection[c] EXCEPT !.status = status] \in Row
        /\ Revision([connection[c] EXCEPT !.status = status]) = Revision(connection[c])
    BY <2>1, RevisionFacts
  <2>. HIDE DEF Row, Revision
  <2>3. connection' \in [Connections -> Row \cup {Unborn, Gone}]
    BY <2>1, <2>2 DEF TypeOK
  <2>4. Live' = Live
    BY <1>2, <2>1, <2>2, RowAssumption DEF TypeOK, Live
  <2>5. \A d \in Live : Revision(connection'[d]) = Revision(connection[d])
    BY <2>1, <2>2 DEF TypeOK, Live
  <2>. QED
    BY <2>3, <2>4, <2>5
<1>. QED
  BY <1>1, <1>2

-----------------------------------------------------------------------------
Token == [id : PullIds, kind : KINDS, user : Users, of : Connections,
          revision : Revisions]

\* A pull gives tokens of its own.
LEMMA TokensOfPull ==
  ASSUME NEW p \in Pull
  PROVE  /\ TokensOf(p) \subseteq Token
         /\ \A t \in TokensOf(p) : /\ t.id = p.id /\ t.of = p.of /\ t.user = p.user
                                   /\ t.revision = Revision(p.row)
<1>1. /\ p.id \in PullIds /\ p.user \in Users /\ p.of \in Connections
      /\ Revision(p.row) \in Revisions
  BY RevisionFacts DEF Pull
<1>. QED
  BY <1>1 DEF TokensOf, Token

\* A secret that is entered has the next number.
LEMMA EnteredIsNumbered ==
  ASSUME TypeOK, NEW n \in Secrets, EnterSecret(n)
  PROVE  entered' \in Secrets
  BY DEF TypeOK, EnterSecret

\* An edit of a row makes a row.
LEMMA EditedRow ==
  ASSUME TypeOK, NEW c \in Connections, NEW config \in Configs, NEW secret \in Secrets,
         NEW enabled \in BOOLEAN, UpdateConnection(c, config, secret, enabled)
  PROVE  /\ connection'[c] \in Row
         /\ \A d \in Connections \ {c} : connection'[d] = connection[d]
         /\ connection' \in [Connections -> Row \cup {Unborn, Gone}]
<1>1. connection[c] \in Row
  BY LiveRows DEF UpdateConnection
<1>2. connection' = [connection EXCEPT ![c] =
        [[[connection[c] EXCEPT !.config = config] EXCEPT !.secret = secret]
           EXCEPT !.enabled = enabled]]
  BY DEF UpdateConnection, TypeOK
<1>3. \A row \in Row :
        [[[row EXCEPT !.config = config] EXCEPT !.secret = secret]
           EXCEPT !.enabled = enabled] \in Row
  BY DEF Row
<1>. QED
  BY <1>1, <1>2, <1>3 DEF TypeOK

\* What an edit disturbs are pulls.
LEMMA DisturbedPulls ==
  ASSUME TypeOK, NEW c \in Connections, Disturb(c)
  PROVE  disturbed' \subseteq PullIds
  BY DEF TypeOK, Disturb, Pull

\* Every state has the declared types.
THEOREM TypeCorrect == Spec => []TypeOK
<1>1. Init => TypeOK
  BY BoundAssumption DEF Init, TypeOK, Secrets, NoSecret
<1>2. TypeOK /\ [Next]_vars => TypeOK'
  <2>. SUFFICES ASSUME TypeOK, [Next]_vars PROVE TypeOK'
    OBVIOUS
  <2>1. CASE UNCHANGED vars
    BY <2>1 DEF vars, TypeOK
  <2>2. ASSUME NEW c \in Connections, ConnectionStep(c) PROVE TypeOK'
    <3>1. ASSUME NEW config \in Configs, NEW secret \in Secrets,
                 CreateConnection(c, config, secret)
          PROVE  TypeOK'
      <4>1. [config |-> config, secret |-> secret, enabled |-> TRUE,
             status |-> "unknown"] \in Row
        BY DEF Row, STATUSES
      <4>. QED
        BY <3>1, <4>1, EnteredIsNumbered DEF CreateConnection, TypeOK
    <3>2. ASSUME NEW config \in Configs, NEW secret \in Secrets, NEW enabled \in BOOLEAN,
                 UpdateConnection(c, config, secret, enabled)
          PROVE  TypeOK'
      <4>1. entered' \in Secrets
        BY <3>2, EnteredIsNumbered DEF UpdateConnection, TypeOK
      <4>. QED
        BY <3>2, <4>1, EditedRow, DisturbedPulls DEF UpdateConnection, TypeOK
    <3>3. CASE DeleteConnection(c)
      BY <3>3, DisturbedPulls DEF DeleteConnection, TypeOK
    <3>4. ASSUME NEW status \in {"ok", "error"}, TestEnds(c, status) PROVE TypeOK'
      BY <3>4, StatusIsNoRevision DEF TestEnds, TypeOK, STATUSES
    <3>5. ASSUME NEW u \in Users, BeginPull(u, c) PROVE TypeOK'
      <4>1. begun' \in 0 .. MaxPulls /\ begun' \in PullIds
        BY <3>5, BoundAssumption DEF BeginPull, TypeOK, PullIds
      <4>2. connection[c] \in Row
        BY <3>5, LiveRows DEF BeginPull
      <4>3. [id |-> begun', user |-> u, of |-> c, row |-> connection[c]] \in Pull
        BY <4>1, <4>2 DEF Pull
      <4>. QED
        BY <3>5, <4>1, <4>3 DEF BeginPull, TypeOK
    <3>6. CASE RunStarts(c) \/ RunEnds(c)
      BY <3>6 DEF RunStarts, RunEnds, TypeOK
    <3>. QED
      BY <2>2, <3>1, <3>2, <3>3, <3>4, <3>5, <3>6 DEF ConnectionStep
  <2>3. ASSUME NEW p \in pulls, PullEnds(p) \/ PullFails(p) PROVE TypeOK'
    <3>1. p \in Pull /\ p.of \in Connections
      BY DEF TypeOK, Pull
    <3>2. connection' \in [Connections -> Row \cup {Unborn, Gone}]
      BY <2>3, <3>1, StatusIsNoRevision DEF PullEnds, PullFails, STATUSES
    <3>. QED
      BY <2>3, <3>1, <3>2, TokensOfPull DEF PullEnds, PullFails, TypeOK, Token
  <2>4. ASSUME NEW t \in tokens, TokenStep(t) PROVE TypeOK'
    <3>1. ASSUME NEW u \in Users, NEW c \in Connections, Apply(t, u, c) PROVE TypeOK'
      <4>1. Revision(connection[c]) \in Revisions
        BY <3>1, LiveRows, RevisionFacts DEF Apply, Consume
      <4>2. [id |-> t.id, kind |-> t.kind, of |-> c, by |-> u,
             version |-> Revision(connection[c])] \in
              [id : PullIds, kind : KINDS, of : Connections, by : Admins,
               version : Revisions]
        BY <3>1, <4>1 DEF Apply, Consume, TypeOK
      <4>. QED
        BY <3>1, <4>2 DEF Apply, Consume, TypeOK
    <3>2. ASSUME NEW u \in Users, NEW c \in Connections, ApplyThrows(t, u, c)
          PROVE  TypeOK'
      BY <3>2 DEF ApplyThrows, Consume, TypeOK
    <3>3. CASE Expire(t)
      BY <3>3 DEF Expire, TypeOK
    <3>. QED
      BY <2>4, <3>1, <3>2, <3>3 DEF TokenStep
  <2>5. CASE Restart
    BY <2>5 DEF Restart, TypeOK
  <2>. QED
    BY <2>1, <2>2, <2>3, <2>4, <2>5 DEF Next
<1>. QED
  BY <1>1, <1>2, PTL DEF Spec

-----------------------------------------------------------------------------
\* The connection c is still as it was at the given revision.
Unchanged(c, revision) == c \in Live /\ revision = Revision(connection[c])

\* A review is bound to the row its pull read: UndisturbedReviewsStand holds
\* of a token because it held of the pull that it comes from.
PullsStand == \A p \in pulls : p.id \notin disturbed => Unchanged(p.of, Revision(p.row))
TokensStand == \A t \in tokens : t.id \notin disturbed => Unchanged(t.of, t.revision)

\* Pulls are numbered as they begin.
PullsNumbered ==
  /\ \A p \in pulls : p.id <= begun
  /\ \A p, q \in pulls : p.id = q.id => p = q

ReviewInv == PullsStand /\ TokensStand /\ PullsNumbered

\* A step that begins no review, and disturbs those of the connections whose
\* revision it changes.
LEMMA ReviewsKept ==
  ASSUME ReviewInv, pulls' \subseteq pulls, tokens' \subseteq tokens,
         begun' = begun, disturbed \subseteq disturbed',
         \A c \in Live :
           \/ c \in Live' /\ Revision(connection'[c]) = Revision(connection[c])
           \/ /\ \A p \in pulls : p.of = c => p.id \in disturbed'
              /\ \A t \in tokens : t.of = c => t.id \in disturbed'
  PROVE  ReviewInv'
<1>1. PullsStand'
  BY DEF ReviewInv, PullsStand, Unchanged
<1>2. TokensStand'
  BY DEF ReviewInv, TokensStand, Unchanged
<1>3. PullsNumbered'
  BY DEF ReviewInv, PullsNumbered
<1>. QED
  BY <1>1, <1>2, <1>3 DEF ReviewInv

\* What an edit of a connection disturbs.
LEMMA DisturbsAll ==
  ASSUME NEW c \in Connections, Disturb(c)
  PROVE  /\ disturbed \subseteq disturbed'
         /\ \A p \in pulls : p.of = c => p.id \in disturbed'
         /\ \A t \in tokens : t.of = c => t.id \in disturbed'
  BY DEF Disturb

\* Every step keeps reviews bound to what their pull read.
LEMMA ReviewsAreBound == Spec => []ReviewInv
<1>1. Init => ReviewInv
  BY DEF Init, ReviewInv, PullsStand, TokensStand, PullsNumbered
<1>2. TypeOK /\ TypeOK' /\ ReviewInv /\ [Next]_vars => ReviewInv'
  <2>. SUFFICES ASSUME TypeOK, TypeOK', ReviewInv, [Next]_vars PROVE ReviewInv'
    OBVIOUS
  <2>1. CASE /\ pulls' \subseteq pulls /\ tokens' \subseteq tokens
             /\ UNCHANGED <<connection, begun, disturbed>>
    BY <2>1, ReviewsKept DEF Live
  <2>2. ASSUME NEW c \in Connections, ConnectionStep(c) PROVE ReviewInv'
    <3>1. ASSUME NEW config \in Configs, NEW secret \in Secrets,
                 CreateConnection(c, config, secret)
          PROVE  ReviewInv'
      <4>1. \A d \in Live : d # c /\ d \in Connections
        BY <3>1 DEF CreateConnection, Live
      <4>2. \A d \in Live : connection'[d] = connection[d]
        BY <3>1, <4>1 DEF CreateConnection, TypeOK
      <4>3. \A d \in Live : d \in Live'
        BY <4>1, <4>2 DEF Live
      <4>. QED
        BY <3>1, <4>2, <4>3, ReviewsKept DEF CreateConnection
    <3>2. ASSUME NEW config \in Configs, NEW secret \in Secrets, NEW enabled \in BOOLEAN,
                 UpdateConnection(c, config, secret, enabled)
          PROVE  ReviewInv'
      <4>1. Disturb(c)
        BY <3>2 DEF UpdateConnection
      <4>2. \A d \in Live \ {c} : connection'[d] = connection[d] /\ d \in Live'
        BY <3>2, EditedRow DEF Live
      <4>. QED
        BY <3>2, <4>1, <4>2, DisturbsAll, ReviewsKept DEF UpdateConnection
    <3>3. CASE DeleteConnection(c)
      <4>1. Disturb(c)
        BY <3>3 DEF DeleteConnection
      <4>2. \A d \in Live \ {c} : connection'[d] = connection[d] /\ d \in Live'
        BY <3>3 DEF DeleteConnection, Live, TypeOK
      <4>. QED
        BY <3>3, <4>1, <4>2, DisturbsAll, ReviewsKept DEF DeleteConnection
    <3>4. ASSUME NEW status \in {"ok", "error"}, TestEnds(c, status) PROVE ReviewInv'
      BY <3>4, StatusIsNoRevision, ReviewsKept DEF TestEnds, STATUSES
    <3>5. ASSUME NEW u \in Users, BeginPull(u, c) PROVE ReviewInv'
      <4>. DEFINE new == [id |-> begun', user |-> u, of |-> c, row |-> connection[c]]
      <4>1. new.id = begun' /\ new.of = c /\ new.row = connection[c]
        OBVIOUS
      <4>2. /\ pulls' = pulls \cup {new} /\ c \in Live /\ begun' = begun + 1
            /\ UNCHANGED <<connection, tokens, disturbed>> /\ begun \in Nat
        BY <3>5 DEF BeginPull, TypeOK
      <4>3. \A p \in pulls : p.id \in Nat
        BY DEF TypeOK, Pull, PullIds
      <4>. HIDE DEF new
      <4>4. PullsStand'
        BY <4>1, <4>2 DEF ReviewInv, PullsStand, Unchanged, Live
      <4>5. TokensStand'
        BY <4>2 DEF ReviewInv, TokensStand, Unchanged, Live
      <4>6. \A p \in pulls : p.id <= begun /\ p.id <= begun' /\ p.id # new.id
        BY <4>1, <4>2, <4>3 DEF ReviewInv, PullsNumbered
      <4>7. PullsNumbered'
        BY <4>1, <4>2, <4>6 DEF ReviewInv, PullsNumbered
      <4>. QED
        BY <4>4, <4>5, <4>7 DEF ReviewInv
    <3>6. CASE RunStarts(c) \/ RunEnds(c)
      BY <2>1, <3>6 DEF RunStarts, RunEnds
    <3>. QED
      BY <2>2, <3>1, <3>2, <3>3, <3>4, <3>5, <3>6 DEF ConnectionStep
  <2>3. ASSUME NEW p \in pulls, PullEnds(p) \/ PullFails(p) PROVE ReviewInv'
    <3>1. p \in Pull /\ p.of \in Connections
      BY DEF TypeOK, Pull
    <3>2. /\ Live' = Live
          /\ \A d \in Live : Revision(connection'[d]) = Revision(connection[d])
      BY <2>3, <3>1, StatusIsNoRevision DEF PullEnds, PullFails, STATUSES
    <3>3. CASE PullFails(p)
      BY <3>2, <3>3, ReviewsKept DEF PullFails
    <3>4. CASE PullEnds(p)
      <4>1. /\ pulls' \subseteq pulls /\ tokens' = tokens \cup TokensOf(p)
            /\ UNCHANGED <<begun, disturbed>>
        BY <3>4 DEF PullEnds
      <4>2. PullsStand'
        BY <3>2, <4>1 DEF ReviewInv, PullsStand, Unchanged
      <4>3. PullsNumbered'
        BY <4>1 DEF ReviewInv, PullsNumbered
      <4>4. \A t \in TokensOf(p) : t.id \notin disturbed => Unchanged(t.of, t.revision)
        BY <3>1, TokensOfPull DEF ReviewInv, PullsStand
      <4>5. TokensStand'
        BY <3>2, <4>1, <4>4 DEF ReviewInv, TokensStand, Unchanged
      <4>. QED
        BY <4>2, <4>3, <4>5 DEF ReviewInv
    <3>. QED
      BY <2>3, <3>3, <3>4
  <2>4. ASSUME NEW t \in tokens, TokenStep(t) PROVE ReviewInv'
    BY <2>1, <2>4 DEF TokenStep, Expire, Apply, ApplyThrows, Consume
  <2>5. CASE Restart
    BY <2>1, <2>5 DEF Restart
  <2>6. CASE UNCHANGED vars
    BY <2>1, <2>6 DEF vars
  <2>. QED
    BY <2>2, <2>3, <2>4, <2>5, <2>6 DEF Next
<1>. QED
  BY <1>1, <1>2, TypeCorrect, PTL DEF Spec

\* A review that nobody disturbed can be applied, whatever the pull itself,
\* tests, other reviews and their applies write.
THEOREM ReviewsStand == Spec => []UndisturbedReviewsStand
<1>1. TypeOK /\ ReviewInv => UndisturbedReviewsStand
  BY DEF ReviewInv, TokensStand, Unchanged, UndisturbedReviewsStand, ScopeMatches
<1>. QED
  BY <1>1, TypeCorrect, ReviewsAreBound, PTL

-----------------------------------------------------------------------------
\* IntegrationPreviews implements ReviewedApply.  A pull under way is a review
\* of each kind that is not offered yet, a token is one that is.
PullReviews(p) ==
  [id : {p.id}, user : {p.user}, of : {p.of}, base : {Revision(p.row)},
   offered : {FALSE}, kind : KINDS]

TokenReview(t) ==
  [id |-> t.id, user |-> t.user, of |-> t.of, base |-> t.revision, offered |-> TRUE,
   kind |-> t.kind]

\* The open reviews are those of the pulls and of the tokens.
LEMMA OpenReviews ==
  \A r : r \in Open <=> \/ \E p \in pulls : r \in PullReviews(p)
                        \/ \E t \in tokens : r = TokenReview(t)
  BY DEF Open, PullReviews, TokenReview

\* A pull is one review of each kind.
LEMMA PullReviewFields ==
  ASSUME NEW p
  PROVE  /\ \A r \in PullReviews(p) : \E kind \in KINDS :
              r = [id |-> p.id, user |-> p.user, of |-> p.of,
                   base |-> Revision(p.row), offered |-> FALSE, kind |-> kind]
         /\ \A r \in PullReviews(p) : r.id = p.id /\ r.offered = FALSE
<1>1. \A r \in PullReviews(p) :
        /\ r.kind \in KINDS
        /\ r = [id |-> p.id, user |-> p.user, of |-> p.of,
                base |-> Revision(p.row), offered |-> FALSE, kind |-> r.kind]
  <2>. SUFFICES ASSUME NEW r \in PullReviews(p)
                PROVE  /\ r.kind \in KINDS
                       /\ r = [id |-> p.id, user |-> p.user, of |-> p.of,
                               base |-> Revision(p.row), offered |-> FALSE,
                               kind |-> r.kind]
    OBVIOUS
  <2>1. r = [id |-> r.id, user |-> r.user, of |-> r.of, base |-> r.base,
             offered |-> r.offered, kind |-> r.kind]
    BY DEF PullReviews
  <2>2. /\ r.id = p.id /\ r.user = p.user /\ r.of = p.of
        /\ r.base = Revision(p.row) /\ r.kind \in KINDS
    BY DEF PullReviews
  <2>3. r.offered = FALSE
    BY DEF PullReviews
  <2>. QED
    BY <2>1, <2>2, <2>3, Zenon
<1>2. \A r \in PullReviews(p) : r.id = p.id /\ r.offered = FALSE
  BY DEF PullReviews
<1>. QED
  BY <1>1, <1>2

\* Different tokens are different reviews.
LEMMA TokenReviewFields ==
  /\ \A t : LET r == TokenReview(t) IN
       /\ r.id = t.id /\ r.user = t.user /\ r.of = t.of
       /\ r.base = t.revision /\ r.offered = TRUE /\ r.kind = t.kind
  /\ \A t, u \in Token : TokenReview(t) = TokenReview(u) => t = u
<1>1. \A t : LET r == TokenReview(t) IN
       /\ r.id = t.id /\ r.user = t.user /\ r.of = t.of
       /\ r.base = t.revision /\ r.offered = TRUE /\ r.kind = t.kind
  BY DEF TokenReview
<1>2. \A t \in Token : t = [id |-> t.id, kind |-> t.kind, user |-> t.user, of |-> t.of,
                            revision |-> t.revision]
  BY DEF Token
<1>. QED
  BY <1>1, <1>2

\* Reviews that are forgotten.
LEMMA ReviewsForgotten ==
  ASSUME pulls' \subseteq pulls, tokens' \subseteq tokens
  PROVE  Open' \subseteq Open
<1>1. \A r : r \in Open' <=> \/ \E p \in pulls' : r \in PullReviews(p)
                             \/ \E t \in tokens' : r = TokenReview(t)
  BY DEF Open, PullReviews, TokenReview
<1>. QED
  BY <1>1, OpenReviews

\* A pull that begins is a review of each kind under the revision it read.
LEMMA ReviewBegins ==
  ASSUME TypeOK, NEW c \in Connections, NEW u \in Users, BeginPull(u, c)
  PROVE  Reviewed!Begin(begun + 1, u, c)
<1>. DEFINE p == [id |-> begun + 1, user |-> u, of |-> c, row |-> connection[c]]
<1>1. /\ begun \in Nat /\ begun' = begun + 1 /\ c \in Live
      /\ pulls' = pulls \cup {p}
      /\ UNCHANGED <<connection, tokens, running, applied>>
  BY DEF BeginPull, TypeOK
<1>2. Version[c] = Revision(connection[c]) /\ Version[c] # Gone /\ Version' = Version
  BY <1>1, LiveRows, RevisionFacts, RowAssumption DEF Version, Live
<1>3. PullReviews(p) = [id : {begun + 1}, user : {u}, of : {c}, base : {Version[c]},
                        offered : {FALSE}, kind : KINDS]
  <2>1. /\ p.id = begun + 1 /\ p.user = u /\ p.of = c
        /\ Revision(p.row) = Version[c]
    BY <1>2
  <2>. HIDE DEF p
  <2>. QED
    BY <2>1 DEF PullReviews
<1>. HIDE DEF p
<1>4. \A r : r \in Open' <=> \/ \E q \in pulls' : r \in PullReviews(q)
                             \/ \E t \in tokens' : r = TokenReview(t)
  BY DEF Open, PullReviews, TokenReview
<1>5. Open' = Open \cup PullReviews(p)
  BY <1>1, <1>4, OpenReviews
<1>6. begun + 1 \notin 1 .. begun /\ 1 .. begun' = (1 .. begun) \cup {begun + 1}
  BY <1>1
<1>. QED
  BY <1>1, <1>2, <1>3, <1>5, <1>6 DEF Reviewed!Begin, Version

\* A pull that ends offers its reviews: its tokens are bound to what it read.
LEMMA ReviewOffered ==
  ASSUME TypeOK, ReviewInv, NEW p \in pulls, PullEnds(p)
  PROVE  Reviewed!Offer(p.id)
<1>. DEFINE Offered(r) == IF r.id = p.id THEN [r EXCEPT !.offered = TRUE] ELSE r
<1>1. /\ pulls' = pulls \ {p} /\ tokens' = tokens \cup TokensOf(p)
      /\ UNCHANGED <<begun, running, applied>>
  BY DEF PullEnds
<1>2. p \in Pull /\ p.of \in Connections
  BY DEF TypeOK, Pull
<1>3. Version' = Version
  BY <1>2, StatusIsNoRevision DEF PullEnds, STATUSES, Version
<1>4. \A r : r \in Open' <=> \/ \E q \in pulls' : r \in PullReviews(q)
                             \/ \E t \in tokens' : r = TokenReview(t)
  BY DEF Open, PullReviews, TokenReview
<1>5. \A q \in pulls' : \A r \in PullReviews(q) : Offered(r) = r
  <2>1. \A q \in pulls' : q.id # p.id
    BY <1>1 DEF ReviewInv, PullsNumbered
  <2>2. \A q : \A r \in PullReviews(q) : r.id = q.id
    BY PullReviewFields
  <2>3. \A r : r.id # p.id => Offered(r) = r
    OBVIOUS
  <2>. HIDE DEF Offered
  <2>. QED
    BY <2>1, <2>2, <2>3
<1>6. \A t : Offered(TokenReview(t)) = TokenReview(t)
  BY DEF TokenReview
<1>7. \A r \in PullReviews(p) : \E t \in TokensOf(p) : Offered(r) = TokenReview(t)
  <2>. SUFFICES ASSUME NEW r \in PullReviews(p)
                PROVE  \E t \in TokensOf(p) : Offered(r) = TokenReview(t)
    OBVIOUS
  <2>1. PICK kind \in KINDS :
          r = [id |-> p.id, user |-> p.user, of |-> p.of, base |-> Revision(p.row),
               offered |-> FALSE, kind |-> kind]
    BY PullReviewFields
  <2>. DEFINE t == [id |-> p.id, kind |-> kind, user |-> p.user, of |-> p.of,
                    revision |-> Revision(p.row)]
  <2>2. t \in TokensOf(p)
    BY DEF TokensOf
  <2>3. Offered(r) = TokenReview(t)
    BY <2>1 DEF TokenReview
  <2>. QED
    BY <2>2, <2>3
<1>8. \A t \in TokensOf(p) : \E r \in PullReviews(p) : Offered(r) = TokenReview(t)
  <2>. SUFFICES ASSUME NEW t \in TokensOf(p)
                PROVE  \E r \in PullReviews(p) : Offered(r) = TokenReview(t)
    OBVIOUS
  <2>. DEFINE r == [id |-> p.id, user |-> p.user, of |-> p.of,
                    base |-> Revision(p.row), offered |-> FALSE, kind |-> t.kind]
  <2>1. /\ t.id = p.id /\ t.user = p.user /\ t.of = p.of
        /\ t.revision = Revision(p.row) /\ t.kind \in KINDS
    BY DEF TokensOf
  <2>2. r \in PullReviews(p)
    BY <2>1 DEF PullReviews
  <2>3. Offered(r) = TokenReview(t)
    BY <2>1 DEF TokenReview
  <2>. QED
    BY <2>2, <2>3
<1>. HIDE DEF Offered
<1>9. Open' = {Offered(r) : r \in Open}
  <2>1. \A r \in Open' : \E s \in Open : r = Offered(s)
    <3>. SUFFICES ASSUME NEW r \in Open' PROVE \E s \in Open : r = Offered(s)
      OBVIOUS
    <3>1. CASE \E q \in pulls' : r \in PullReviews(q)
      BY <1>1, <1>5, <3>1, OpenReviews
    <3>2. CASE \E t \in tokens : r = TokenReview(t)
      BY <1>6, <3>2, OpenReviews
    <3>3. CASE \E t \in TokensOf(p) : r = TokenReview(t)
      BY <1>8, <3>3, OpenReviews
    <3>. QED
      BY <1>1, <1>4, <3>1, <3>2, <3>3
  <2>2. \A s \in Open : Offered(s) \in Open'
    <3>. SUFFICES ASSUME NEW s \in Open PROVE Offered(s) \in Open'
      OBVIOUS
    <3>1. CASE \E q \in pulls' : s \in PullReviews(q)
      BY <1>4, <1>5, <3>1
    <3>2. CASE \E t \in tokens : s = TokenReview(t)
      BY <1>1, <1>4, <1>6, <3>2
    <3>3. CASE s \in PullReviews(p)
      BY <1>1, <1>4, <1>7, <3>3
    <3>. QED
      BY <1>1, OpenReviews, <3>1, <3>2, <3>3
  <2>. QED
    BY <2>1, <2>2
<1>. QED
  BY <1>1, <1>3, <1>9 DEF Reviewed!Offer, Version, Offered

\* A token that is spent by an apply was a review that may be applied.
LEMMA ReviewApplied ==
  ASSUME TypeOK, NEW t \in tokens, NEW c \in Connections, NEW u \in Users, Apply(t, u, c)
  PROVE  \E r \in Open : Reviewed!Apply(r)
<1>. DEFINE r == TokenReview(t)
<1>1. /\ t.user = u /\ t.of = c /\ c \in Live /\ c \notin running
      /\ t.revision = Revision(connection[c])
      /\ tokens' = tokens \ {t}
      /\ UNCHANGED <<connection, pulls, begun, running>>
      /\ applied' = applied \cup {[id |-> t.id, kind |-> t.kind, of |-> c, by |-> u,
                                   version |-> Revision(connection[c])]}
  BY DEF Apply, Consume, ScopeMatches
<1>2. /\ r.id = t.id /\ r.user = u /\ r.of = c /\ r.base = Revision(connection[c])
      /\ r.offered = TRUE /\ r.kind = t.kind
  BY <1>1, TokenReviewFields
<1>3. r \in Open
  BY OpenReviews
<1>4. Version[c] = r.base /\ Version' = Version
  BY <1>1, <1>2 DEF Version, Live
<1>5. \A s : s \in Open' <=> \/ \E p \in pulls' : s \in PullReviews(p)
                             \/ \E v \in tokens' : s = TokenReview(v)
  BY DEF Open, PullReviews, TokenReview
<1>6. \A p : r \notin PullReviews(p)
  BY <1>2, PullReviewFields
<1>7. \A v \in tokens : TokenReview(v) = r => v = t
  BY TokenReviewFields DEF TypeOK, Token
<1>. HIDE DEF r
<1>8. r = TokenReview(t)
  BY DEF r
<1>9. Open' = Open \ {r}
  BY <1>1, <1>5, <1>6, <1>7, <1>8, OpenReviews
<1>10. Reviewed!Apply(r)
  BY <1>1, <1>2, <1>4, <1>9 DEF Reviewed!Apply, Version
<1>. QED
  BY <1>3, <1>10

\* Pulls, tokens, revisions, edits, tests, scheduled runs and restarts come to
\* no more than reviews that are begun, offered, applied once or forgotten.
THEOREM PreviewsImplementReview == Spec => ImplementsReview
<1>1. Init => Reviewed!Init
  BY DEF Init, Reviewed!Init, Open, Live
<1>2. TypeOK /\ TypeOK' /\ ReviewInv /\ [Next]_vars => [Reviewed!Next]_(Reviewed!vars)
  <2>. SUFFICES ASSUME TypeOK, TypeOK', ReviewInv, [Next]_vars
                PROVE  Reviewed!Next \/ UNCHANGED Reviewed!vars
    OBVIOUS
  <2>1. ASSUME UNCHANGED <<pulls, begun, tokens, running, applied>>
        PROVE  Reviewed!Reconfigure
    <3>1. Version' \in [Connections -> Revisions \cup {Gone}]
      <4>1. \A c \in Live' : connection'[c] \in Row
        BY DEF TypeOK, Live
      <4>. QED
        BY <4>1, RevisionFacts DEF Version, Live
    <3>. QED
      BY <2>1, <3>1 DEF Reviewed!Reconfigure, Version, Open
  <2>2. ASSUME pulls' \subseteq pulls, tokens' \subseteq tokens,
               Version' = Version, UNCHANGED <<begun, applied>>
        PROVE  Reviewed!Run
    BY <2>2, ReviewsForgotten DEF Reviewed!Run, Version, TypeOK
  <2>3. ASSUME NEW c \in Connections, ConnectionStep(c) PROVE Reviewed!Next
    <3>1. ASSUME NEW u \in Users, BeginPull(u, c) PROVE Reviewed!Next
      <4>1. begun + 1 \in PullIds
        BY <3>1, BoundAssumption DEF BeginPull, TypeOK, PullIds
      <4>. QED
        BY <3>1, <4>1, ReviewBegins DEF Reviewed!Next
    <3>2. CASE RunStarts(c) \/ RunEnds(c)
      <4>1. Version' = Version
        BY <3>2 DEF RunStarts, RunEnds, Version, Live
      <4>. QED
        BY <2>2, <3>2, <4>1 DEF RunStarts, RunEnds, Reviewed!Next
    <3>. QED
      BY <2>1, <2>3, <3>1, <3>2
      DEF ConnectionStep, CreateConnection, UpdateConnection, DeleteConnection,
          TestEnds, Reviewed!Next
  <2>4. ASSUME NEW p \in pulls, PullEnds(p) \/ PullFails(p) PROVE Reviewed!Next
    <3>1. p.of \in Connections /\ p.id \in PullIds
      BY DEF TypeOK, Pull
    <3>2. CASE PullEnds(p)
      BY <3>1, <3>2, ReviewOffered DEF Reviewed!Next
    <3>3. CASE PullFails(p)
      <4>1. Version' = Version
        BY <3>1, <3>3, StatusIsNoRevision DEF PullFails, STATUSES, Version
      <4>. QED
        BY <2>2, <3>3, <4>1 DEF PullFails, Reviewed!Next
    <3>. QED
      BY <2>4, <3>2, <3>3
  <2>5. ASSUME NEW t \in tokens, TokenStep(t) PROVE Reviewed!Next
    <3>1. ASSUME NEW u \in Users, NEW c \in Connections, Apply(t, u, c)
          PROVE  Reviewed!Next
      BY <3>1, ReviewApplied DEF Reviewed!Next
    <3>2. ASSUME UNCHANGED <<connection, pulls, begun, running, applied>>,
                 tokens' \subseteq tokens
          PROVE  Reviewed!Next
      BY <2>2, <3>2 DEF Reviewed!Next, Version, Live
    <3>. QED
      BY <2>5, <3>1, <3>2 DEF TokenStep, ApplyThrows, Consume, Expire
  <2>6. CASE Restart
    BY <2>2, <2>6 DEF Restart, Reviewed!Next, Version, Live
  <2>7. CASE UNCHANGED vars
    <3>1. Open' = Open /\ Version' = Version
      BY <2>7 DEF vars, Open, Version, Live
    <3>. QED
      BY <2>7, <3>1 DEF vars, Reviewed!vars, Version
  <2>. QED
    BY <2>3, <2>4, <2>5, <2>6, <2>7 DEF Next
<1>. QED
  BY <1>1, <1>2, TypeCorrect, ReviewsAreBound, PTL DEF Spec, ImplementsReview, Reviewed!Spec

-----------------------------------------------------------------------------
(***************************************************************************)
(* Matching, told of any device table x.                                   *)
(***************************************************************************)
RowsOf(x) == {d \in Ids : x[d] # None}
HostsOf(x) == {d \in RowsOf(x) : ~isGuestType(x[d])}
MacRowsOf(x, r) == {d \in RowsOf(x) : r.mac # None /\ x[d].mac = r.mac}
NameRowsOf(x, r, h) ==
  {d \in RowsOf(x) : /\ x[d].name = r.name
                     /\ IF isGuestType(r)
                        THEN x[d].type = r.type /\ h # None /\ x[d].parent = h
                        ELSE d \in HostsOf(x)}
ByNameOf(x, r, h) == {d \in NameRowsOf(x, r, h) : r.mac = None \/ x[d].mac = None}

NameIsUnclearOf(x, r, rows, devs) ==
  IF r.mac = None
  THEN ScopeMates(r, devs) # {} \/ Cardinality(rows) > 1
  ELSE LET macless == {d \in rows : x[d].mac = None}
       IN /\ macless # {}
          /\ Cardinality(rows) > 1 \/ ScopeMates(r, devs) # {}

VerdictOf(x, r, devs, h) ==
  LET byMac == MacRowsOf(x, r)
      byName == ByNameOf(x, r, h)
  IN IF SharesMac(r, devs) \/ Cardinality(byMac) > 1 THEN Conflict
     ELSE IF byMac # {} THEN Matched("exists", CHOOSE d \in byMac : TRUE)
     ELSE IF NameIsUnclearOf(x, r, NameRowsOf(x, r, h), devs) THEN Conflict
     ELSE IF byName # {} THEN Matched("exists", CHOOSE d \in byName : TRUE)
     ELSE Matched("create", None)

RecordsOf(name, devs) == {r \in devs : ~isGuestType(r) /\ r.name = name}
HostRowsOf(x, name) == {d \in HostsOf(x) : x[d].name = name}

HostOf(x, name, devs) ==
  LET records == RecordsOf(name, devs)
      rows == HostRowsOf(x, name)
      r == CHOOSE y \in records : TRUE
      found == VerdictOf(x, r, devs, None)
  IN IF Cardinality(records) > 1 THEN Host("ambiguous", None)
     ELSE IF records # {}
     THEN IF found.action = "conflict" THEN Host("ambiguous", None)
          ELSE IF found.action = "exists" THEN Host("existing", found.row)
          ELSE Host("planned", r)
     ELSE IF rows = {} THEN Host("missing", None)
     ELSE IF Cardinality(rows) = 1 THEN Host("existing", CHOOSE d \in rows : TRUE)
     ELSE Host("ambiguous", None)

GuestVerdictOf(x, r, devs) ==
  LET host == HostOf(x, r.parent, devs)
  IN VerdictOf(x, r, devs, IF host.kind = "existing" THEN host.which ELSE None)

ActionIn(x, r, devs) ==
  IF ~ isGuestType(r) THEN VerdictOf(x, r, devs, None).action
  ELSE IF \/ HostOf(x, r.parent, devs).kind \in {"existing", "planned"}
          \/ MacRowsOf(x, r) # {} \/ SharesMac(r, devs)
       THEN GuestVerdictOf(x, r, devs).action
       ELSE "conflict"

SwitchActionIn(x, bridges, s, devs, sws) ==
  LET host == HostOf(x, s.host, devs)
  IN IF \/ \E t \in sws \ {s} : t.host = s.host /\ t.name = s.name
        \/ host.kind \in {"missing", "ambiguous"}
     THEN "conflict"
     ELSE IF host.kind = "existing" /\ [host |-> host.which, name |-> s.name] \in bridges
     THEN "exists"
     ELSE "create"

LEMMA RowsAre ==
  /\ Rows = RowsOf(devices) /\ Rows' = RowsOf(devices')
  /\ Free = {d \in Ids : devices[d] = None}
  BY DEF Rows, RowsOf, Free

LEMMA ClassifyIs ==
  \A r, devs, h :
    /\ MacRows(r) = MacRowsOf(devices, r) /\ MacRows(r)' = MacRowsOf(devices', r)
    /\ Classify(r, devs, h) = VerdictOf(devices, r, devs, h)
    /\ Classify(r, devs, h)' = VerdictOf(devices', r, devs, h)
  BY DEF Classify, VerdictOf, MacRows, MacRowsOf, NameRows, NameRowsOf, ByNameOf, Hosts, HostsOf,
     Rows, RowsOf, NameIsUnclear, NameIsUnclearOf

LEMMA HostIs ==
  \A name, devs :
    /\ resolveHost(name, devs) = HostOf(devices, name, devs)
    /\ resolveHost(name, devs)' = HostOf(devices', name, devs)
  BY DEF resolveHost, HostOf, RecordsOf, HostRowsOf, Classify, VerdictOf, MacRows, MacRowsOf,
     NameRows, NameRowsOf, ByNameOf, Hosts, HostsOf, Rows, RowsOf, NameIsUnclear, NameIsUnclearOf

LEMMA ActionIs ==
  \A r, devs :
    /\ ActionOf(r, devs) = ActionIn(devices, r, devs)
    /\ ActionOf(r, devs)' = ActionIn(devices', r, devs)
  BY ClassifyIs, HostIs DEF ActionOf, ActionIn, GuestVerdictOf

LEMMA SwitchActionIs ==
  \A s, devs, sws :
    /\ SwitchActionOf(s, devs, sws) = SwitchActionIn(devices, switches, s, devs, sws)
    /\ SwitchActionOf(s, devs, sws)' = SwitchActionIn(devices', switches', s, devs, sws)
  BY HostIs DEF SwitchActionOf, SwitchActionIn

\* A record is to be created if nothing at all matches it.
LEMMA CreateMeans ==
  ASSUME NEW x, NEW r, NEW devs, NEW h
  PROVE  /\ VerdictOf(x, r, devs, h).action = "create" <=>
              /\ ~ SharesMac(r, devs) /\ MacRowsOf(x, r) = {}
              /\ r.mac = None => ScopeMates(r, devs) = {}
              /\ ByNameOf(x, r, h) = {}
         /\ VerdictOf(x, r, devs, h).action \in {"conflict", "exists", "create"}
<1>1. Cardinality({}) = 0
  BY FS_EmptySet
<1>2. r.mac = None => ByNameOf(x, r, h) = NameRowsOf(x, r, h)
  BY DEF ByNameOf
<1>3. /\ Conflict.action = "conflict" /\ Matched("create", None).action = "create"
      /\ \A d : Matched("exists", d).action = "exists"
  BY DEF Conflict, Matched
<1>. QED
  BY <1>1, <1>2, <1>3 DEF VerdictOf, NameIsUnclearOf, ByNameOf

-----------------------------------------------------------------------------
(***************************************************************************)
(* What an import does to matching: table x has become y, by a row at      *)
(* id[r] below up[r] for every record r of made.                           *)
(***************************************************************************)
Grown(x, y, devs, made, id, up) ==
  /\ made \subseteq devs
  /\ \A r \in made :
       /\ id[r] \in Ids /\ x[id[r]] = None /\ y[id[r]] # None
       /\ y[id[r]].name = r.name /\ y[id[r]].mac = r.mac
       /\ y[id[r]].type = r.type /\ y[id[r]].parent = up[r]
  /\ \A r, s \in made : id[r] = id[s] => r = s
  /\ \A d \in Ids : (\A r \in made : id[r] # d) => y[d] = x[d]

LEMMA RowsGrow ==
  ASSUME NEW x, NEW y, NEW devs, NEW made, NEW id, NEW up, Grown(x, y, devs, made, id, up)
  PROVE  /\ \A d \in Ids : x[d] # None => y[d] = x[d]
         /\ \A d \in Ids : y[d] # None /\ y[d] # x[d] => \E r \in made : d = id[r]
  BY DEF Grown

\* Rows that a record matches still match it, so nothing becomes new.
LEMMA MatchesStay ==
  ASSUME NEW x, NEW y, NEW devs, NEW made, NEW id, NEW up, Grown(x, y, devs, made, id, up),
         NEW r, NEW h
  PROVE  /\ MacRowsOf(x, r) \subseteq MacRowsOf(y, r)
         /\ NameRowsOf(x, r, h) \subseteq NameRowsOf(y, r, h)
         /\ ByNameOf(x, r, h) \subseteq ByNameOf(y, r, h)
         /\ VerdictOf(y, r, devs, h).action = "create" =>
              VerdictOf(x, r, devs, h).action = "create"
<1>1. \A d \in Ids : x[d] # None => y[d] # None /\ y[d] = x[d]
  BY RowsGrow
<1>2. MacRowsOf(x, r) \subseteq MacRowsOf(y, r)
  BY <1>1 DEF MacRowsOf, RowsOf
<1>3. NameRowsOf(x, r, h) \subseteq NameRowsOf(y, r, h)
  BY <1>1 DEF NameRowsOf, HostsOf, RowsOf
<1>4. ByNameOf(x, r, h) \subseteq ByNameOf(y, r, h)
  BY <1>1, <1>3 DEF ByNameOf, NameRowsOf, RowsOf
<1>. QED
  BY <1>2, <1>3, <1>4, CreateMeans

\* A record that has got a row is not new.
LEMMA MadeIsNotNew ==
  ASSUME NEW x, NEW y, NEW devs, NEW made, NEW id, NEW up, Grown(x, y, devs, made, id, up),
         NEW r \in made, NEW h, isGuestType(r) => h # None /\ up[r] = h
  PROVE  VerdictOf(y, r, devs, h).action # "create"
<1>1. /\ id[r] \in RowsOf(y) /\ y[id[r]].name = r.name /\ y[id[r]].mac = r.mac
      /\ y[id[r]].type = r.type
      /\ isGuestType(r) => y[id[r]].parent = h
  BY DEF Grown, RowsOf
<1>2. isGuestType(y[id[r]]) <=> isGuestType(r)
  BY <1>1 DEF isGuestType
<1>3. id[r] \in NameRowsOf(y, r, h)
  BY <1>1, <1>2 DEF NameRowsOf, HostsOf
<1>4. id[r] \in MacRowsOf(y, r) \/ id[r] \in ByNameOf(y, r, h)
  BY <1>1, <1>3 DEF MacRowsOf, ByNameOf
<1>. QED
  BY <1>4, CreateMeans

\* A name that one record of a host has matches no rows of other records, and
\* a MAC that one record has no row of another.
LEMMA OthersDoNotMatch ==
  ASSUME NEW x, NEW y, NEW devs, NEW made, NEW id, NEW up, Grown(x, y, devs, made, id, up),
         NEW r \in devs, ~ isGuestType(r), ~ SharesMac(r, devs),
         RecordsOf(r.name, devs) = {r}
  PROVE  /\ MacRowsOf(y, r) \subseteq MacRowsOf(x, r) \cup {id[s] : s \in made \cap {r}}
         /\ NameRowsOf(y, r, None) \subseteq
              NameRowsOf(x, r, None) \cup {id[s] : s \in made \cap {r}}
<1>1. ASSUME NEW d \in MacRowsOf(y, r), d \notin MacRowsOf(x, r)
      PROVE  r \in made /\ d = id[r]
  <2>1. d \in Ids /\ y[d] # None /\ r.mac # None /\ y[d].mac = r.mac /\ y[d] # x[d]
    BY <1>1 DEF MacRowsOf, RowsOf
  <2>2. PICK s \in made : d = id[s]
    BY <2>1, RowsGrow
  <2>3. s \in devs /\ s.mac = r.mac
    BY <2>1, <2>2 DEF Grown
  <2>4. s = r
    BY <2>1, <2>3 DEF SharesMac
  <2>. QED
    BY <2>2, <2>4
<1>2. ASSUME NEW d \in NameRowsOf(y, r, None), d \notin NameRowsOf(x, r, None)
      PROVE  r \in made /\ d = id[r]
  <2>1. /\ d \in Ids /\ y[d] # None /\ y[d] # x[d]
        /\ y[d].name = r.name /\ ~ isGuestType(y[d])
    BY <1>2 DEF NameRowsOf, HostsOf, RowsOf
  <2>2. PICK s \in made : d = id[s]
    BY <2>1, RowsGrow
  <2>3. s \in devs /\ s.name = r.name /\ ~ isGuestType(s)
    BY <2>1, <2>2 DEF Grown, isGuestType
  <2>4. s \in RecordsOf(r.name, devs)
    BY <2>3 DEF RecordsOf
  <2>. QED
    BY <2>2, <2>4
<1>. QED
  BY <1>1, <1>2

LEMMA OneRecord ==
  ASSUME NEW devs, IsFiniteSet(devs), NEW name, NEW r \in RecordsOf(name, devs),
         ~ (Cardinality(RecordsOf(name, devs)) > 1)
  PROVE  RecordsOf(name, devs) = {r}
<1>. DEFINE R == RecordsOf(name, devs)
<1>1. IsFiniteSet(R) /\ R \subseteq devs
  BY FS_Subset DEF RecordsOf
<1>2. Cardinality(R) \in Nat /\ Cardinality(R) # 0
  BY <1>1, FS_CardinalityType, FS_EmptySet
<1>3. Cardinality(R) = 1
  BY <1>2
<1>. QED
  BY <1>1, <1>3, FS_Singleton

\* The verdict on the one record of a host's name changes only if it gets a
\* row, and then to that row.
LEMMA HostVerdict ==
  ASSUME NEW x, NEW y, NEW devs, NEW made, NEW id, NEW up, Grown(x, y, devs, made, id, up),
         NEW r \in devs, ~ isGuestType(r), RecordsOf(r.name, devs) = {r}
  PROVE  /\ r \notin made => VerdictOf(y, r, devs, None) = VerdictOf(x, r, devs, None)
         /\ r \in made /\ VerdictOf(x, r, devs, None).action = "create" =>
              VerdictOf(y, r, devs, None) = Matched("exists", id[r])
<1>1. CASE SharesMac(r, devs)
  BY <1>1 DEF VerdictOf, Conflict, Matched
<1>2. CASE ~ SharesMac(r, devs)
  <2>1. ASSUME r \notin made
        PROVE  VerdictOf(y, r, devs, None) = VerdictOf(x, r, devs, None)
    <3>1. MacRowsOf(y, r) = MacRowsOf(x, r) /\ NameRowsOf(y, r, None) = NameRowsOf(x, r, None)
      <4>1. {id[s] : s \in made \cap {r}} = {}
        BY <2>1
      <4>2. MacRowsOf(x, r) \subseteq MacRowsOf(y, r)
            /\ NameRowsOf(x, r, None) \subseteq NameRowsOf(y, r, None)
        BY MatchesStay
      <4>3. /\ MacRowsOf(y, r) \subseteq MacRowsOf(x, r) \cup {id[s] : s \in made \cap {r}}
            /\ NameRowsOf(y, r, None) \subseteq
                 NameRowsOf(x, r, None) \cup {id[s] : s \in made \cap {r}}
        BY <1>2, OthersDoNotMatch
      <4>. QED
        BY <4>1, <4>2, <4>3
    <3>2. \A d \in NameRowsOf(x, r, None) : y[d] = x[d]
      BY RowsGrow DEF NameRowsOf, RowsOf
    <3>3. ByNameOf(y, r, None) = ByNameOf(x, r, None)
      BY <3>1, <3>2 DEF ByNameOf
    <3>4. {d \in NameRowsOf(y, r, None) : y[d].mac = None}
            = {d \in NameRowsOf(x, r, None) : x[d].mac = None}
      BY <3>1, <3>2
    <3>5. NameIsUnclearOf(y, r, NameRowsOf(y, r, None), devs)
            = NameIsUnclearOf(x, r, NameRowsOf(x, r, None), devs)
      BY <3>1, <3>4 DEF NameIsUnclearOf
    <3>. QED
      BY <3>1, <3>3, <3>5 DEF VerdictOf
  <2>2. ASSUME r \in made, VerdictOf(x, r, devs, None).action = "create"
        PROVE  VerdictOf(y, r, devs, None) = Matched("exists", id[r])
    <3>1. /\ MacRowsOf(x, r) = {} /\ ByNameOf(x, r, None) = {}
          /\ r.mac = None => ScopeMates(r, devs) = {}
      BY <2>2, CreateMeans
    <3>2. /\ id[r] \in RowsOf(y) /\ y[id[r]].name = r.name /\ y[id[r]].mac = r.mac
          /\ ~ isGuestType(y[id[r]])
      BY <2>2 DEF Grown, RowsOf, isGuestType
    <3>3. \A S : S # {} /\ S \subseteq {id[r]} => S = {id[r]} /\ (CHOOSE d \in S : TRUE) = id[r]
      OBVIOUS
    <3>4. Cardinality({id[r]}) = 1
      BY FS_Singleton
    <3>5. CASE r.mac # None
      <4>1. MacRowsOf(y, r) = {id[r]}
        BY <1>2, <2>2, <3>1, <3>2, <3>5, OthersDoNotMatch DEF MacRowsOf
      <4>. QED
        BY <1>2, <3>3, <3>4, <4>1 DEF VerdictOf
    <3>6. CASE r.mac = None
      <4>1. MacRowsOf(y, r) = {}
        BY <3>6 DEF MacRowsOf
      <4>2. NameRowsOf(x, r, None) = {}
        BY <3>1, <3>6 DEF ByNameOf
      <4>3. id[r] \in NameRowsOf(y, r, None)
        BY <3>2 DEF NameRowsOf, HostsOf
      <4>4. NameRowsOf(y, r, None) = {id[r]}
        BY <1>2, <2>2, <4>2, <4>3, OthersDoNotMatch
      <4>5. ByNameOf(y, r, None) = {id[r]}
        BY <3>6, <4>4 DEF ByNameOf
      <4>6. ~ NameIsUnclearOf(y, r, NameRowsOf(y, r, None), devs)
        BY <3>1, <3>4, <3>6, <4>4 DEF NameIsUnclearOf
      <4>7. Cardinality({}) = 0
        BY FS_EmptySet
      <4>. QED
        BY <1>2, <3>3, <4>1, <4>5, <4>6, <4>7 DEF VerdictOf
    <3>. QED
      BY <3>5, <3>6
  <2>. QED
    BY <2>1, <2>2
<1>. QED
  BY <1>1, <1>2

LEMMA NotMany == ~ (Cardinality({}) > 1) /\ \A r : ~ (Cardinality({r}) > 1)
  BY FS_EmptySet, FS_Singleton

LEMMA HostFields ==
  \A kind, which : Host(kind, which).kind = kind /\ Host(kind, which).which = which
  BY DEF Host

LEMMA HostOfMany ==
  ASSUME NEW x, NEW name, NEW devs, Cardinality(RecordsOf(name, devs)) > 1
  PROVE  HostOf(x, name, devs) = Host("ambiguous", None)
  BY DEF HostOf

HostOfVerdict(r, verdict) ==
  IF verdict.action = "conflict" THEN Host("ambiguous", None)
  ELSE IF verdict.action = "exists" THEN Host("existing", verdict.row)
  ELSE Host("planned", r)

LEMMA HostOfRecord ==
  ASSUME NEW x, NEW name, NEW devs, NEW r, RecordsOf(name, devs) = {r}
  PROVE  HostOf(x, name, devs) = HostOfVerdict(r, VerdictOf(x, r, devs, None))
<1>1. (CHOOSE z \in RecordsOf(name, devs) : TRUE) = r
  OBVIOUS
<1>2. ~ (Cardinality(RecordsOf(name, devs)) > 1) /\ RecordsOf(name, devs) # {}
  BY NotMany
<1>. QED
  BY <1>1, <1>2, Zenon DEF HostOf, HostOfVerdict

HostOfRows(rows) ==
  IF rows = {} THEN Host("missing", None)
  ELSE IF Cardinality(rows) = 1 THEN Host("existing", CHOOSE d \in rows : TRUE)
  ELSE Host("ambiguous", None)

LEMMA HostOfNoRecord ==
  ASSUME NEW x, NEW name, NEW devs, RecordsOf(name, devs) = {}
  PROVE  /\ HostOf(x, name, devs) = HostOfRows(HostRowsOf(x, name))
         /\ HostOf(x, name, devs).kind # "planned"
<1>1. ~ (Cardinality(RecordsOf(name, devs)) > 1)
  BY NotMany
<1>2. HostOf(x, name, devs) = HostOfRows(HostRowsOf(x, name))
  BY <1>1 DEF HostOf, HostOfRows
<1>3. HostOfRows(HostRowsOf(x, name)).kind # "planned"
  BY HostFields DEF HostOfRows
<1>. QED
  BY <1>2, <1>3

\* The host of a name is a row there is, or a record that is not one yet.
LEMMA HostIsThere ==
  ASSUME NEW x, NEW name, NEW devs, IsFiniteSet(devs)
  PROVE  /\ HostOf(x, name, devs).kind = "existing" =>
              HostOf(x, name, devs).which \in RowsOf(x)
         /\ HostOf(x, name, devs).kind = "planned" =>
              LET r == HostOf(x, name, devs).which IN
              /\ r \in devs /\ ~ isGuestType(r) /\ r.name = name
              /\ RecordsOf(name, devs) = {r}
              /\ VerdictOf(x, r, devs, None).action = "create"
         /\ HostOf(x, name, devs).kind \in {"missing", "ambiguous"} =>
              HostOf(x, name, devs).which = None
         /\ HostOf(x, name, devs).kind \in {"existing", "planned", "missing", "ambiguous"}
<1>1. CASE Cardinality(RecordsOf(name, devs)) > 1
  BY <1>1, HostOfMany, HostFields
<1>2. ASSUME ~ (Cardinality(RecordsOf(name, devs)) > 1), NEW r \in RecordsOf(name, devs)
      PROVE  /\ HostOf(x, name, devs).kind = "existing" =>
                  HostOf(x, name, devs).which \in RowsOf(x)
             /\ HostOf(x, name, devs).kind = "planned" =>
                  /\ HostOf(x, name, devs).which = r
                  /\ VerdictOf(x, r, devs, None).action = "create"
             /\ HostOf(x, name, devs).kind \in {"missing", "ambiguous"} =>
                  HostOf(x, name, devs).which = None
             /\ HostOf(x, name, devs).kind \in {"existing", "planned", "missing", "ambiguous"}
             /\ RecordsOf(name, devs) = {r}
  <2>1. RecordsOf(name, devs) = {r}
    BY <1>2, OneRecord
  <2>2. HostOf(x, name, devs) = HostOfVerdict(r, VerdictOf(x, r, devs, None))
    BY <2>1, HostOfRecord
  <2>3. VerdictOf(x, r, devs, None).action = "exists" =>
          VerdictOf(x, r, devs, None).row \in RowsOf(x)
    <3>1. /\ MacRowsOf(x, r) \subseteq RowsOf(x) /\ ByNameOf(x, r, None) \subseteq RowsOf(x)
      BY DEF MacRowsOf, ByNameOf, NameRowsOf
    <3>2. \A S : S # {} => (CHOOSE d \in S : TRUE) \in S
      OBVIOUS
    <3>3. /\ Conflict.action # "exists" /\ Matched("create", None).action # "exists"
          /\ \A d : Matched("exists", d).row = d
      BY DEF Conflict, Matched
    <3>. QED
      BY <3>1, <3>2, <3>3 DEF VerdictOf
  <2>. QED
    BY <2>1, <2>2, <2>3, HostFields, CreateMeans DEF HostOfVerdict
<1>3. CASE RecordsOf(name, devs) = {}
  <2>1. HostRowsOf(x, name) \subseteq RowsOf(x)
    BY DEF HostRowsOf, HostsOf
  <2>2. \A S : S # {} => (CHOOSE d \in S : TRUE) \in S
    OBVIOUS
  <2>. QED
    BY <1>3, <2>1, <2>2, HostOfNoRecord, HostFields DEF HostOfRows
<1>4. CASE ~ (Cardinality(RecordsOf(name, devs)) > 1) /\ RecordsOf(name, devs) # {}
  <2>1. PICK r : r \in RecordsOf(name, devs)
    BY <1>4
  <2>2. r \in devs /\ ~ isGuestType(r) /\ r.name = name
    BY <2>1 DEF RecordsOf
  <2>. QED
    BY <1>2, <1>4, <2>1, <2>2
<1>. QED
  BY <1>1, <1>3, <1>4

\* An import changes the host of a name only from a record to its row.
LEMMA HostAfter ==
  ASSUME NEW x, NEW y, NEW devs, NEW made, NEW id, NEW up, Grown(x, y, devs, made, id, up),
         IsFiniteSet(devs), NEW name,
         \A r \in made : ~ isGuestType(r) => VerdictOf(x, r, devs, None).action = "create"
  PROVE  LET old == HostOf(x, name, devs) new == HostOf(y, name, devs) IN
         /\ old.kind # "planned" => new = old
         /\ old.kind = "planned" /\ old.which \notin made => new = old
         /\ old.kind = "planned" /\ old.which \in made => new = Host("existing", id[old.which])
<1>1. CASE Cardinality(RecordsOf(name, devs)) > 1
  BY <1>1, HostOfMany, HostFields
<1>2. CASE RecordsOf(name, devs) = {}
  <2>1. ASSUME NEW d \in Ids, y[d] # None, y[d] # x[d], y[d].name = name
        PROVE  isGuestType(y[d])
    <3>1. PICK s \in made : d = id[s]
      BY <2>1, RowsGrow
    <3>2. s \in devs /\ s.name = name /\ s.type = y[d].type
      BY <2>1, <3>1 DEF Grown
    <3>3. isGuestType(s)
      BY <1>2, <3>2 DEF RecordsOf
    <3>. QED
      BY <3>2, <3>3 DEF isGuestType
  <2>2. \A d \in Ids : x[d] # None => y[d] = x[d]
    BY RowsGrow
  <2>3. HostRowsOf(y, name) = HostRowsOf(x, name)
    BY <2>1, <2>2 DEF HostRowsOf, HostsOf, RowsOf
  <2>4. HostOf(y, name, devs) = HostOf(x, name, devs)
    BY <1>2, <2>3, HostOfNoRecord
  <2>5. HostOf(x, name, devs).kind # "planned"
    BY <1>2, HostOfNoRecord
  <2>. QED
    BY <2>4, <2>5
<1>3. ASSUME ~ (Cardinality(RecordsOf(name, devs)) > 1), NEW r \in RecordsOf(name, devs)
      PROVE  LET old == HostOf(x, name, devs) new == HostOf(y, name, devs) IN
             /\ old.kind # "planned" => new = old
             /\ old.kind = "planned" /\ old.which \notin made => new = old
             /\ old.kind = "planned" /\ old.which \in made =>
                  new = Host("existing", id[old.which])
  <2>1. /\ RecordsOf(name, devs) = {r} /\ r \in devs /\ ~ isGuestType(r) /\ r.name = name
    BY <1>3, OneRecord DEF RecordsOf
  <2>2. /\ r \notin made => VerdictOf(y, r, devs, None) = VerdictOf(x, r, devs, None)
        /\ r \in made => VerdictOf(y, r, devs, None) = Matched("exists", id[r])
    BY <2>1, HostVerdict
  <2>3. ASSUME NEW z
        PROVE  HostOf(z, name, devs) = HostOfVerdict(r, VerdictOf(z, r, devs, None))
    BY <2>1, HostOfRecord
  <2>4. CASE r \notin made
    <3>1. HostOf(y, name, devs) = HostOf(x, name, devs)
      BY <2>2, <2>3, <2>4
    <3>2. HostOf(x, name, devs).kind = "planned" => HostOf(x, name, devs).which = r
      BY <2>3, HostFields DEF HostOfVerdict
    <3>. QED
      BY <2>4, <3>1, <3>2
  <2>5. CASE r \in made
    <3>1. HostOf(x, name, devs) = Host("planned", r)
      BY <2>1, <2>3, <2>5 DEF HostOfVerdict
    <3>2. HostOf(y, name, devs) = Host("existing", id[r])
      BY <2>2, <2>3, <2>5 DEF HostOfVerdict, Matched
    <3>. QED
      BY <2>5, <3>1, <3>2, HostFields
  <2>. QED
    BY <2>4, <2>5
<1>. QED
  BY <1>1, <1>2, <1>3

\* The id that an import gives a name: that of a row there is, or a new one.
HostId(x, name, devs, made, id, h) ==
  LET host == HostOf(x, name, devs)
  IN \/ host.kind = "existing" /\ h = host.which
     \/ host.kind = "planned" /\ host.which \in made /\ h = id[host.which]

\* All that an import of the selected records does to devices and switches.
Effect(x, y, bridges, after, devs, sws, selected, made, id, up) ==
  /\ Grown(x, y, devs, made, id, up)
  /\ \A r \in made : r.id \in selected /\ ActionIn(x, r, devs) = "create"
  /\ \A r \in made : IF isGuestType(r) THEN HostId(x, r.parent, devs, made, id, up[r])
                                       ELSE up[r] = None
  /\ \A r \in devs :
       /\ r.id \in selected /\ ActionIn(x, r, devs) = "create"
       /\ isGuestType(r) => \E h : HostId(x, r.parent, devs, made, id, h)
       => r \in made
  /\ bridges \subseteq after
  /\ \A s \in sws : \A h :
       /\ s.id \in selected /\ SwitchActionIn(x, bridges, s, devs, sws) = "create"
       /\ HostId(x, s.host, devs, made, id, h)
       => [host |-> h, name |-> s.name] \in after
  /\ \A b \in after \ bridges :
       \E s \in sws : \E h : HostId(x, s.host, devs, made, id, h) /\ b = [host |-> h, name |-> s.name]

LEMMA MadeHosts ==
  ASSUME NEW x, NEW y, NEW bridges, NEW after, NEW devs, NEW sws, NEW selected, NEW made,
         NEW id, NEW up, Effect(x, y, bridges, after, devs, sws, selected, made, id, up)
  PROVE  \A r \in made : ~ isGuestType(r) => VerdictOf(x, r, devs, None).action = "create"
  BY DEF Effect, ActionIn

\* After the import the host of a name is the id it had in the import; a record
\* that was left out stays a record.
LEMMA HostIdAfter ==
  ASSUME NEW x, NEW y, NEW bridges, NEW after, NEW devs, NEW sws, NEW selected, NEW made,
         NEW id, NEW up, Effect(x, y, bridges, after, devs, sws, selected, made, id, up),
         IsFiniteSet(devs), NEW name
  PROVE  /\ HostOf(y, name, devs).kind = "existing" =>
              /\ HostId(x, name, devs, made, id, HostOf(y, name, devs).which)
              /\ HostOf(y, name, devs).which \in Ids
         /\ HostOf(x, name, devs).kind \in {"existing", "planned"} \/
              HostOf(y, name, devs) = HostOf(x, name, devs)
<1>1. Grown(x, y, devs, made, id, up)
  BY DEF Effect
<1>2. \A r \in made : ~ isGuestType(r) => VerdictOf(x, r, devs, None).action = "create"
  BY MadeHosts
<1>3. LET old == HostOf(x, name, devs) new == HostOf(y, name, devs) IN
         /\ old.kind # "planned" => new = old
         /\ old.kind = "planned" /\ old.which \notin made => new = old
         /\ old.kind = "planned" /\ old.which \in made => new = Host("existing", id[old.which])
  BY <1>1, <1>2, HostAfter
<1>4. HostOf(y, name, devs).kind = "existing" => HostOf(y, name, devs).which \in Ids
  BY HostIsThere DEF RowsOf
<1>. QED
  BY <1>3, <1>4, HostFields DEF HostId

LEMMA PhysicalIsNotNew ==
  ASSUME NEW x, NEW y, NEW bridges, NEW after, NEW devs, NEW sws, NEW selected, NEW made,
         NEW id, NEW up, Effect(x, y, bridges, after, devs, sws, selected, made, id, up),
         NEW r \in devs, r.id \in selected, ~ isGuestType(r)
  PROVE  VerdictOf(y, r, devs, None).action # "create"
<1>1. Grown(x, y, devs, made, id, up)
  BY DEF Effect
<1>2. CASE r \in made
  BY <1>1, <1>2, MadeIsNotNew
<1>3. CASE r \notin made
  <2>1. VerdictOf(x, r, devs, None).action # "create"
    BY <1>3 DEF Effect, ActionIn
  <2>. QED
    BY <1>1, <2>1, MatchesStay
<1>. QED
  BY <1>2, <1>3

\* A selected record is no more to be created, but for a guest whose host was
\* not selected with it.
LEMMA SelectedIsNotNew ==
  ASSUME NEW x, NEW y, NEW bridges, NEW after, NEW devs, NEW sws, NEW selected, NEW made,
         NEW id, NEW up, Effect(x, y, bridges, after, devs, sws, selected, made, id, up),
         IsFiniteSet(devs), NEW r \in devs, r.id \in selected
  PROVE  \/ ActionIn(y, r, devs) # "create"
         \/ isGuestType(r) /\ HostOf(y, r.parent, devs).kind = "planned"
<1>1. Grown(x, y, devs, made, id, up)
  BY DEF Effect
<1>2. CASE ~ isGuestType(r)
  BY <1>2, PhysicalIsNotNew DEF ActionIn
<1>3. CASE isGuestType(r)
  <2>. SUFFICES ASSUME ActionIn(y, r, devs) = "create",
                       HostOf(y, r.parent, devs).kind # "planned"
                PROVE  FALSE
    BY <1>3
  <2>0. PICK h : h = HostOf(y, r.parent, devs).which
    OBVIOUS
  <2>1. GuestVerdictOf(y, r, devs).action = "create"
    BY <1>3 DEF ActionIn
  <2>2. MacRowsOf(y, r) = {} /\ ~ SharesMac(r, devs) /\ (r.mac = None => ScopeMates(r, devs) = {})
    BY <2>1, CreateMeans DEF GuestVerdictOf
  <2>3. HostOf(y, r.parent, devs).kind = "existing"
    BY <1>3, <2>2 DEF ActionIn
  <2>4. VerdictOf(y, r, devs, h).action = "create"
    BY <2>0, <2>1, <2>3 DEF GuestVerdictOf
  <2>5. HostId(x, r.parent, devs, made, id, h) /\ h \in Ids /\ h # None
    BY <2>0, <2>3, HostIdAfter, NoneAssumption
  <2>6. ActionIn(x, r, devs) = "create"
    <3>1. CASE HostOf(x, r.parent, devs).kind = "existing"
      <4>1. h = HostOf(x, r.parent, devs).which
        BY <2>5, <3>1 DEF HostId
      <4>2. VerdictOf(x, r, devs, h).action = "create"
        BY <1>1, <2>4, MatchesStay
      <4>. QED
        BY <1>3, <3>1, <4>1, <4>2 DEF ActionIn, GuestVerdictOf
    <3>2. CASE HostOf(x, r.parent, devs).kind = "planned"
      <4>1. MacRowsOf(x, r) = {}
        BY <1>1, <2>2, MatchesStay
      <4>2. ByNameOf(x, r, None) = {}
        BY <1>3 DEF ByNameOf, NameRowsOf
      <4>3. VerdictOf(x, r, devs, None).action = "create"
        BY <2>2, <4>1, <4>2, CreateMeans
      <4>. QED
        BY <1>3, <3>2, <4>3 DEF ActionIn, GuestVerdictOf
    <3>. QED
      BY <2>5, <3>1, <3>2 DEF HostId
  <2>7. r \in made /\ up[r] = h
    <3>1. r \in made
      BY <2>5, <2>6 DEF Effect
    <3>2. HostId(x, r.parent, devs, made, id, up[r])
      BY <1>3, <3>1 DEF Effect
    <3>. QED
      BY <2>5, <3>1, <3>2 DEF HostId
  <2>. QED
    BY <1>1, <2>4, <2>5, <2>7, MadeIsNotNew
<1>. QED
  BY <1>2, <1>3

\* When all is selected, no host stays a record, and no switch is left over.
LEMMA NothingIsPlanned ==
  ASSUME NEW x, NEW y, NEW bridges, NEW after, NEW devs, NEW sws, NEW selected, NEW made,
         NEW id, NEW up, Effect(x, y, bridges, after, devs, sws, selected, made, id, up),
         IsFiniteSet(devs), \A r \in devs : r.id \in selected, NEW name
  PROVE  HostOf(y, name, devs).kind # "planned"
<1>. SUFFICES ASSUME HostOf(y, name, devs).kind = "planned" PROVE FALSE
  OBVIOUS
<1>1. PICK r \in devs : ~ isGuestType(r) /\ VerdictOf(y, r, devs, None).action = "create"
  BY HostIsThere
<1>. QED
  BY <1>1, PhysicalIsNotNew

LEMMA SwitchIsNotNew ==
  ASSUME NEW x, NEW y, NEW bridges, NEW after, NEW devs, NEW sws, NEW selected, NEW made,
         NEW id, NEW up, Effect(x, y, bridges, after, devs, sws, selected, made, id, up),
         IsFiniteSet(devs), \A r \in devs : r.id \in selected, NEW s \in sws, s.id \in selected
  PROVE  SwitchActionIn(y, after, s, devs, sws) # "create"
<1>. SUFFICES ASSUME SwitchActionIn(y, after, s, devs, sws) = "create" PROVE FALSE
  OBVIOUS
<1>0. PICK h : h = HostOf(y, s.host, devs).which
  OBVIOUS
<1>1. /\ ~ \E t \in sws \ {s} : t.host = s.host /\ t.name = s.name
      /\ HostOf(y, s.host, devs).kind \notin {"missing", "ambiguous"}
      /\ HostOf(y, s.host, devs).kind = "existing" => [host |-> h, name |-> s.name] \notin after
  BY <1>0 DEF SwitchActionIn
<1>2. HostOf(y, s.host, devs).kind = "existing"
  BY <1>1, HostIsThere, NothingIsPlanned
<1>3. HostId(x, s.host, devs, made, id, h)
  BY <1>0, <1>2, HostIdAfter
<1>4. SwitchActionIn(x, bridges, s, devs, sws) # "create"
  BY <1>1, <1>2, <1>3 DEF Effect
<1>5. HostOf(x, s.host, devs).kind = "existing" /\ [host |-> h, name |-> s.name] \in bridges
  BY <1>1, <1>3, <1>4 DEF SwitchActionIn, HostId
<1>. QED
  BY <1>1, <1>2, <1>5 DEF Effect

-----------------------------------------------------------------------------
(***************************************************************************)
(* The import has that effect.                                             *)
(***************************************************************************)
Records(devs) ==
  /\ IsFiniteSet(devs) /\ None \notin devs
  /\ \A r \in devs : r.name \in Names /\ r.mac \in Macs /\ r.type \in TYPES

LEMMA ImportedAreRecords ==
  ASSUME NEW inv \in Inventories, NEW kinds
  PROVE  Records(Imported(inv, kinds)) /\ Imported(inv, kinds) \subseteq inv.devices
<1>1. Imported(inv, kinds) \subseteq inv.devices
  BY DEF Imported
<1>2. IsFiniteSet(Imported(inv, kinds))
  BY <1>1, InventoryAssumption, FS_Subset
<1>3. \A r \in inv.devices : r.name \in Names /\ r.mac \in Macs
  BY DEF Names, Macs
<1>. QED
  BY <1>1, <1>2, <1>3, InventoryAssumption, NoneAssumption DEF Records

LEMMA HostIdsAre ==
  ASSUME NEW devs, IsFiniteSet(devs), NEW name, NEW physical, NEW made, NEW id, NEW h,
         \A r \in devs : ~ isGuestType(r) => (r \in made <=> r \in physical)
  PROVE  h \in HostIds(name, devs, physical, id) <=> HostId(devices, name, devs, made, id, h)
<1>0. PICK host : host = HostOf(devices, name, devs)
  OBVIOUS
<1>1. resolveHost(name, devs) = host
  BY <1>0, HostIs
<1>2. host.kind = "planned" => (host.which \in made <=> host.which \in physical)
  BY <1>0, HostIsThere
<1>3. HostId(devices, name, devs, made, id, h) <=>
        \/ host.kind = "existing" /\ h = host.which
        \/ host.kind = "planned" /\ host.which \in physical /\ h = id[host.which]
  BY <1>0, <1>2 DEF HostId
<1>4. HostIds(name, devs, physical, id) =
        IF host.kind = "existing" THEN {host.which}
        ELSE {id[r] : r \in {x \in physical : host.kind = "planned" /\ x = host.which}}
  BY <1>1 DEF HostIds
<1>5. CASE host.kind = "existing"
  BY <1>3, <1>4, <1>5
<1>6. CASE host.kind # "existing"
  BY <1>3, <1>4, <1>6
<1>. QED
  BY <1>5, <1>6

LEMMA ImportHasEffect ==
  ASSUME NEW devs, NEW sws, NEW selected, Records(devs), Import(devs, sws, selected)
  PROVE  \E made, id, up :
           /\ Effect(devices, devices', switches, switches', devs, sws, selected, made, id, up)
           /\ devices' = [d \in Ids |-> devices'[d]]
           /\ \A r \in made : devices'[id[r]] \in DeviceRow
<1>. DEFINE chosen == {r \in devs : r.id \in selected /\ Creates(r, devs)}
            physical == {r \in chosen : ~isGuestType(r)}
            guests == {r \in chosen :
                        /\ isGuestType(r)
                        /\ LET host == resolveHost(r.parent, devs)
                           IN host.kind = "existing" \/ host.which \in physical}
            newSwitches == {s \in sws : /\ s.id \in selected
                                        /\ SwitchActionOf(s, devs, sws) = "create"}
            made == physical \cup guests
<1>. DEFINE Parent(idOf, r) ==
              IF isGuestType(r) THEN CHOOSE h \in HostIds(r.parent, devs, physical, idOf) : TRUE
                                ELSE None
            RecordAt(idOf, d) == CHOOSE x \in DOMAIN idOf : idOf[x] = d
<1>1. PICK idOf \in Injections(made, Free) :
        /\ devices' = [d \in Ids |->
             IF \E r \in DOMAIN idOf : idOf[r] = d
             THEN ImportedRow(RecordAt(idOf, d), Parent(idOf, RecordAt(idOf, d)))
             ELSE devices[d]]
        /\ switches' = switches \cup UNION
             {{[host |-> h, name |-> s.name] : h \in HostIds(s.host, devs, physical, idOf)}
               : s \in newSwitches}
  BY DEF Import
<1>. DEFINE up == [r \in made |-> Parent(idOf, r)]
<1>2. /\ made \subseteq devs
      /\ \A r \in devs : ~ isGuestType(r) => (r \in made <=> r \in physical)
      /\ \A r \in made : r.id \in selected /\ ActionIn(devices, r, devs) = "create"
  BY ActionIs DEF Creates
<1>3. /\ idOf \in [made -> Ids] /\ \A r \in made : devices[idOf[r]] = None
      /\ \A r, s \in made : idOf[r] = idOf[s] => r = s
  BY <1>1, RowsAre DEF Injections
<1>4. \A name, h :
        h \in HostIds(name, devs, physical, idOf) <=> HostId(devices, name, devs, made, idOf, h)
  BY <1>2, HostIdsAre DEF Records
<1>5. ASSUME NEW r \in made
      PROVE  /\ IF isGuestType(r) THEN HostId(devices, r.parent, devs, made, idOf, up[r])
                                  ELSE up[r] = None
             /\ up[r] \in Ids \cup {None}
  <2>1. CASE isGuestType(r)
    <3>1. r \in guests
      BY <2>1
    <3>0. PICK host : host = HostOf(devices, r.parent, devs)
      OBVIOUS
    <3>2. host.kind = "existing" \/ host.which \in physical
      BY <3>0, <3>1, HostIs
    <3>3. /\ host.kind = "existing" => host.which \in Ids
          /\ host.kind \in {"missing", "ambiguous"} => host.which = None
          /\ host.kind \in {"existing", "planned", "missing", "ambiguous"}
      BY <3>0, HostIsThere DEF Records, RowsOf
    <3>4. host.kind = "existing" \/ (host.kind = "planned" /\ host.which \in made)
      BY <1>2, <3>2, <3>3 DEF Records
    <3>5. \E h : HostId(devices, r.parent, devs, made, idOf, h)
      BY <3>0, <3>4 DEF HostId
    <3>6. ASSUME NEW h, HostId(devices, r.parent, devs, made, idOf, h) PROVE h \in Ids
      <4>1. \/ host.kind = "existing" /\ h = host.which
            \/ host.which \in made /\ h = idOf[host.which]
        BY <3>0, <3>6 DEF HostId
      <4>2. CASE host.kind = "existing" /\ h = host.which
        BY <3>3, <4>2
      <4>3. CASE host.which \in made /\ h = idOf[host.which]
        BY <1>3, <4>3
      <4>. QED
        BY <4>1, <4>2, <4>3
    <3>7. up[r] \in HostIds(r.parent, devs, physical, idOf)
      BY <1>4, <2>1, <3>5
    <3>. QED
      BY <1>4, <2>1, <3>6, <3>7
  <2>2. CASE ~ isGuestType(r)
    BY <2>2
  <2>. QED
    BY <2>1, <2>2
<1>6. ASSUME NEW r \in made
      PROVE  /\ devices'[idOf[r]] = ImportedRow(r, up[r])
             /\ devices'[idOf[r]] \in DeviceRow
  <2>1. idOf[r] \in Ids /\ r \in DOMAIN idOf
    BY <1>3
  <2>2. RecordAt(idOf, idOf[r]) = r
    BY <1>3
  <2>3. up[r] = Parent(idOf, r)
    OBVIOUS
  <2>4. devices'[idOf[r]] = ImportedRow(r, up[r])
    <3>. HIDE DEF made, physical, newSwitches, RecordAt, Parent, up
    <3>. QED
      BY <1>1, <2>1, <2>2, <2>3
  <2>5. r.name \in Names /\ r.mac \in Macs /\ r.type \in TYPES
    BY <1>2 DEF Records
  <2>. QED
    <3>1. up[r] \in Ids \cup {None}
      BY <1>5
    <3>. HIDE DEF made, up
    <3>2. ImportedRow(r, up[r]) \in DeviceRow
      BY <2>5, <3>1 DEF ImportedRow, DeviceRow
    <3>. QED
      BY <2>4, <3>2
<1>7. \A d \in Ids : (\A r \in made : idOf[r] # d) => devices'[d] = devices[d]
  BY <1>1, <1>3
<1>. HIDE DEF up
<1>8. Grown(devices, devices', devs, made, idOf, up)
  <2>1. \A r \in made : devices'[idOf[r]] # None
    BY <1>6, NoneAssumption
  <2>2. \A r \in made :
          /\ idOf[r] \in Ids /\ devices[idOf[r]] = None
          /\ devices'[idOf[r]].name = r.name /\ devices'[idOf[r]].mac = r.mac
          /\ devices'[idOf[r]].type = r.type /\ devices'[idOf[r]].parent = up[r]
    <3>. SUFFICES ASSUME NEW r \in made
                  PROVE  /\ idOf[r] \in Ids /\ devices[idOf[r]] = None
                         /\ devices'[idOf[r]].name = r.name /\ devices'[idOf[r]].mac = r.mac
                         /\ devices'[idOf[r]].type = r.type /\ devices'[idOf[r]].parent = up[r]
      OBVIOUS
    <3>1. devices'[idOf[r]] = ImportedRow(r, up[r])
      BY <1>6
    <3>2. idOf[r] \in Ids /\ devices[idOf[r]] = None
      BY <1>3
    <3>. HIDE DEF made
    <3>. QED
      BY <3>1, <3>2 DEF ImportedRow
  <2>3. made \subseteq devs
    BY <1>2
  <2>. HIDE DEF made
  <2>. QED
    BY <1>3, <1>7, <2>1, <2>2, <2>3 DEF Grown
<1>9. \A r \in devs :
        /\ r.id \in selected /\ ActionIn(devices, r, devs) = "create"
        /\ isGuestType(r) => \E h : HostId(devices, r.parent, devs, made, idOf, h)
        => r \in made
  <2>. SUFFICES ASSUME NEW r \in devs, r.id \in selected, ActionIn(devices, r, devs) = "create",
                       isGuestType(r) => \E h : HostId(devices, r.parent, devs, made, idOf, h)
                PROVE  r \in made
    OBVIOUS
  <2>1. r \in chosen
    BY ActionIs DEF Creates
  <2>2. CASE isGuestType(r)
    <3>1. LET host == resolveHost(r.parent, devs)
          IN host.kind = "existing" \/ host.which \in physical
      BY <1>2, <2>2, HostIs, HostIsThere DEF HostId, Records
    <3>. QED
      BY <2>1, <2>2, <3>1
  <2>. QED
    BY <2>1, <2>2
<1>10. /\ switches \subseteq switches'
       /\ \A s \in sws : \A h :
            /\ s.id \in selected /\ SwitchActionIn(devices, switches, s, devs, sws) = "create"
            /\ HostId(devices, s.host, devs, made, idOf, h)
            => [host |-> h, name |-> s.name] \in switches'
       /\ \A b \in switches' \ switches : \E s \in sws : \E h :
            HostId(devices, s.host, devs, made, idOf, h) /\ b = [host |-> h, name |-> s.name]
  <2>1. \A b : b \in switches' <=>
          \/ b \in switches
          \/ \E s \in newSwitches : \E h :
               HostId(devices, s.host, devs, made, idOf, h) /\ b = [host |-> h, name |-> s.name]
    <3>. HIDE DEF newSwitches, made, physical
    <3>. QED
      BY <1>1, <1>4
  <2>2. \A s : s \in newSwitches <=>
          /\ s \in sws /\ s.id \in selected
          /\ SwitchActionIn(devices, switches, s, devs, sws) = "create"
    BY SwitchActionIs
  <2>. HIDE DEF newSwitches, made
  <2>. QED
    BY <2>1, <2>2
<1>11. Effect(devices, devices', switches, switches', devs, sws, selected, made, idOf, up)
  <2>1. \A r \in made : IF isGuestType(r) THEN HostId(devices, r.parent, devs, made, idOf, up[r])
                                          ELSE up[r] = None
    BY <1>5
  <2>. HIDE DEF made
  <2>. QED
    BY <1>2, <1>8, <1>9, <1>10, <2>1 DEF Effect
<1>12. devices' = [d \in Ids |-> devices'[d]]
  BY <1>1
<1>. HIDE DEF made
<1>. QED
  BY <1>6, <1>11, <1>12

-----------------------------------------------------------------------------
(***************************************************************************)
(* No row points at a device that is gone.                                 *)
(***************************************************************************)
LEMMA SnapshotIs ==
  ASSUME snapshot \in Snapshots, snapshot # None
  PROVE  \E inv \in Inventories, kinds \in Toggles :
           /\ snapshot.devices = Imported(inv, kinds) /\ snapshot.switches = inv.switches
           /\ snapshot.selectable \subseteq {r.id : r \in inv.devices \cup inv.switches}
<1>1. PICK inv \in Inventories, kinds \in Toggles :
        snapshot \in SnapshotsOf(inv, kinds)
  BY DEF Snapshots
<1>. QED
  BY <1>1 DEF SnapshotsOf

LEMMA SwitchesAreNamed ==
  ASSUME NEW inv \in Inventories
  PROVE  \A s \in inv.switches : s.name \in SwitchNames
  BY DEF SwitchNames

\* Whoever imports, it is an import of records of an inventory.
LEMMA ImportsAreOfRecords ==
  ASSUME ImportTypeOK, Imports
  PROVE  \E devs, sws, selected :
           /\ Records(devs) /\ Import(devs, sws, selected)
           /\ \A s \in sws : s.name \in SwitchNames
<1>1. ASSUME NEW inv \in Inventories, NEW kinds \in Toggles, RunSchedule(inv, kinds)
      PROVE  \E devs, sws, selected :
               /\ Records(devs) /\ Import(devs, sws, selected)
               /\ \A s \in sws : s.name \in SwitchNames
  BY <1>1, ImportedAreRecords, SwitchesAreNamed DEF RunSchedule
<1>2. ASSUME snapshot # None, NEW selected \in SUBSET snapshot.selectable, ApplySnapshot(selected)
      PROVE  \E devs, sws, sel :
               /\ Records(devs) /\ Import(devs, sws, sel)
               /\ \A s \in sws : s.name \in SwitchNames
  <2>1. PICK inv \in Inventories, kinds \in Toggles :
          snapshot.devices = Imported(inv, kinds) /\ snapshot.switches = inv.switches
    BY <1>2, SnapshotIs DEF ImportTypeOK
  <2>2. Records(snapshot.devices) /\ \A s \in snapshot.switches : s.name \in SwitchNames
    BY <2>1, ImportedAreRecords, SwitchesAreNamed
  <2>. QED
    BY <1>2, <2>2 DEF ApplySnapshot
<1>. QED
  BY <1>1, <1>2 DEF Imports

Linked(x, bridges) ==
  /\ x \in [Ids -> DeviceRow \cup {None}]
  /\ bridges \subseteq [host : Ids, name : SwitchNames]
  /\ \A d \in RowsOf(x) : x[d].parent \in (RowsOf(x) \ {d}) \cup {None}
  /\ \A s \in bridges : s.host \in RowsOf(x)

LEMMA LinksAre ==
  /\ LinksAreLive <=> Linked(devices, switches) /\ snapshot \in Snapshots
  /\ LinksAreLive' <=> Linked(devices', switches') /\ snapshot' \in Snapshots
  BY DEF LinksAreLive, ImportTypeOK, Linked, Rows, RowsOf

LEMMA HostIdIsRow ==
  ASSUME NEW x, NEW y, NEW devs, NEW made, NEW id, NEW up, Grown(x, y, devs, made, id, up),
         IsFiniteSet(devs), NEW name, NEW h, HostId(x, name, devs, made, id, h)
  PROVE  /\ h \in RowsOf(y)
         /\ \A r \in made : isGuestType(r) => h # id[r]
<1>1. CASE HostOf(x, name, devs).kind = "existing"
  <2>1. h \in RowsOf(x)
    BY <1>1, HostIsThere DEF HostId
  <2>. QED
    BY <2>1, RowsGrow DEF RowsOf, Grown
<1>2. CASE HostOf(x, name, devs).kind = "planned"
  <2>0. PICK w : w = HostOf(x, name, devs).which
    OBVIOUS
  <2>1. w \in made /\ h = id[w] /\ ~ isGuestType(w)
    BY <1>2, <2>0, HostIsThere DEF HostId
  <2>. QED
    BY <2>1 DEF RowsOf, Grown
<1>. QED
  BY <1>1, <1>2 DEF HostId

LEMMA ImportKeepsLinks ==
  ASSUME Linked(devices, switches), NEW devs, NEW sws, NEW selected, Records(devs),
         Import(devs, sws, selected), \A s \in sws : s.name \in SwitchNames
  PROVE  Linked(devices', switches')
<1>1. PICK made, id, up :
        /\ Effect(devices, devices', switches, switches', devs, sws, selected, made, id, up)
        /\ devices' = [d \in Ids |-> devices'[d]]
        /\ \A r \in made : devices'[id[r]] \in DeviceRow
  BY ImportHasEffect
<1>2. Grown(devices, devices', devs, made, id, up) /\ IsFiniteSet(devs)
  BY <1>1 DEF Effect, Records
<1>3. \A name, h : HostId(devices, name, devs, made, id, h) =>
        h \in RowsOf(devices') /\ \A r \in made : isGuestType(r) => h # id[r]
  BY <1>2, HostIdIsRow
<1>4. \A d \in Ids : (\E r \in made : d = id[r]) \/ devices'[d] = devices[d]
  BY <1>2 DEF Grown
<1>5. devices' \in [Ids -> DeviceRow \cup {None}]
  <2>1. \A d \in Ids : devices'[d] \in DeviceRow \cup {None}
    BY <1>1, <1>4 DEF Linked
  <2>2. PICK y : y = devices'
    OBVIOUS
  <2>3. y = [d \in Ids |-> y[d]] /\ \A d \in Ids : y[d] \in DeviceRow \cup {None}
    BY <1>1, <2>1, <2>2
  <2>. QED
    BY <2>2, <2>3
<1>6. RowsOf(devices) \subseteq RowsOf(devices')
  BY <1>2, RowsGrow DEF RowsOf
<1>7. ASSUME NEW d \in RowsOf(devices')
      PROVE  devices'[d].parent \in (RowsOf(devices') \ {d}) \cup {None}
  <2>1. CASE devices'[d] = devices[d]
    BY <1>6, <1>7, <2>1 DEF Linked, RowsOf
  <2>2. ASSUME NEW r \in made, d = id[r]
        PROVE  devices'[d].parent \in (RowsOf(devices') \ {d}) \cup {None}
    <3>1. devices'[d].parent = up[r]
      BY <1>2, <2>2 DEF Grown
    <3>2. IF isGuestType(r) THEN HostId(devices, r.parent, devs, made, id, up[r])
                            ELSE up[r] = None
      BY <1>1 DEF Effect
    <3>. QED
      BY <1>3, <2>2, <3>1, <3>2
  <2>. QED
    BY <1>4, <2>1, <2>2 DEF RowsOf
<1>8. ASSUME NEW b \in switches'
      PROVE  b \in [host : Ids, name : SwitchNames] /\ b.host \in RowsOf(devices')
  <2>1. CASE b \in switches
    BY <1>6, <2>1 DEF Linked
  <2>2. CASE b \notin switches
    <3>1. PICK s \in sws : \E h : HostId(devices, s.host, devs, made, id, h)
                                   /\ b = [host |-> h, name |-> s.name]
      BY <1>1, <2>2 DEF Effect
    <3>2. PICK h : HostId(devices, s.host, devs, made, id, h)
                     /\ b = [host |-> h, name |-> s.name]
      BY <3>1
    <3>3. h \in RowsOf(devices') /\ h \in Ids
      BY <1>3, <3>2 DEF RowsOf
    <3>. QED
      BY <3>2, <3>3
  <2>. QED
    BY <2>1, <2>2
<1>. QED
  BY <1>5, <1>7, <1>8 DEF Linked

LEMMA ImportSnapshotKept ==
  ASSUME LinksAreLive, ImportNext
  PROVE  snapshot' \in Snapshots
<1>1. ASSUME NEW inv \in Inventories, NEW kinds \in Toggles, PullInventory(inv, kinds)
      PROVE  snapshot' \in Snapshots
  <2>1. Selectable(Imported(inv, kinds), inv.switches)
          \subseteq {r.id : r \in inv.devices \cup inv.switches}
    BY DEF Selectable, Imported
  <2>2. snapshot' \in SnapshotsOf(inv, kinds)
    BY <1>1, <2>1 DEF PullInventory, SnapshotsOf
  <2>. QED
    BY <2>2 DEF Snapshots
<1>2. CASE snapshot' = snapshot \/ snapshot' = None
  BY <1>2 DEF LinksAreLive, ImportTypeOK, Snapshots
<1>3. \/ \E inv \in Inventories, kinds \in Toggles : PullInventory(inv, kinds)
      \/ snapshot' = snapshot \/ snapshot' = None
  BY DEF ImportNext, RunSchedule, ApplySnapshot, CreateDevice, EditDevice, MoveDevice,
     DeleteDevice, CreateSwitch, DeleteSwitch
<1>. QED
  BY <1>1, <1>2, <1>3

LEMMA HandEditsKeepLinks ==
  ASSUME Linked(devices, switches), NEW d \in Ids,
         \/ \E row \in HandRows : CreateDevice(d, row)
         \/ \E name \in HandNames, mac \in HandMacs \cup {None}, type \in TYPES :
              EditDevice(d, name, mac, type)
         \/ \E parent \in Ids \cup {None} : MoveDevice(d, parent)
         \/ DeleteDevice(d)
         \/ \E name \in SwitchNames : CreateSwitch(d, name)
  PROVE  Linked(devices', switches')
<1>0. /\ devices \in [Ids -> DeviceRow \cup {None}]
      /\ Rows = RowsOf(devices)
  BY RowsAre DEF Linked
<1>1. ASSUME NEW row \in DeviceRow, devices' = [devices EXCEPT ![d] = row],
             row.parent \in (Rows \ {d}) \cup {None}, UNCHANGED switches
      PROVE  Linked(devices', switches')
  <2>1. /\ devices' \in [Ids -> DeviceRow \cup {None}] /\ devices'[d] = row
        /\ \A e \in Ids : e # d => devices'[e] = devices[e]
    BY <1>0, <1>1
  <2>2. row # None
    BY NoneAssumption
  <2>3. RowsOf(devices') = RowsOf(devices) \cup {d}
    BY <2>1, <2>2 DEF RowsOf
  <2>4. ASSUME NEW e \in RowsOf(devices')
        PROVE  devices'[e].parent \in (RowsOf(devices') \ {e}) \cup {None}
    <3>1. CASE e = d
      BY <1>0, <1>1, <2>1, <2>3, <3>1
    <3>2. CASE e # d
      <4>1. e \in RowsOf(devices) /\ devices'[e] = devices[e]
        BY <2>1, <2>3, <3>2 DEF RowsOf
      <4>. QED
        BY <2>3, <4>1 DEF Linked
    <3>. QED
      BY <3>1, <3>2
  <2>5. switches' = switches
    BY <1>1
  <2>6. switches \subseteq [host : Ids, name : SwitchNames]
        /\ \A s \in switches : s.host \in RowsOf(devices)
    BY DEF Linked
  <2>. QED
    BY <2>1, <2>3, <2>4, <2>5, <2>6 DEF Linked
<1>2. ASSUME NEW row \in HandRows, CreateDevice(d, row)
      PROVE  Linked(devices', switches')
  <2>1. row \in DeviceRow
    BY HandAssumption DEF HandRows, DeviceRow, Names, Macs
  <2>2. d \notin Rows
    BY <1>2 DEF CreateDevice, Rows
  <2>3. /\ devices' = [devices EXCEPT ![d] = row] /\ UNCHANGED switches
        /\ row.parent \in (Rows \ {d}) \cup {None}
    BY <1>2, <2>2 DEF CreateDevice
  <2>. QED
    BY <1>1, <2>1, <2>3
<1>3. ASSUME NEW name \in HandNames, NEW mac \in HandMacs \cup {None}, NEW type \in TYPES,
             EditDevice(d, name, mac, type)
      PROVE  Linked(devices', switches')
  <2>0. PICK row : row = [devices[d] EXCEPT !.name = name, !.mac = mac, !.type = type]
    OBVIOUS
  <2>1. d \in Rows /\ devices[d] \in DeviceRow
    BY <1>0, <1>3 DEF EditDevice, RowsOf
  <2>2. name \in Names /\ mac \in Macs \cup {None}
    BY DEF Names, Macs
  <2>3. row \in DeviceRow /\ row.parent = devices[d].parent
    BY <2>0, <2>1, <2>2 DEF DeviceRow
  <2>4. devices' = [devices EXCEPT ![d] = row] /\ UNCHANGED switches
    BY <1>0, <1>3, <2>0 DEF EditDevice
  <2>. QED
    BY <1>0, <1>1, <2>1, <2>3, <2>4 DEF Linked
<1>4. ASSUME NEW parent \in Ids \cup {None}, MoveDevice(d, parent)
      PROVE  Linked(devices', switches')
  <2>0. PICK row : row = [devices[d] EXCEPT !.parent = parent]
    OBVIOUS
  <2>1. d \in Rows /\ devices[d] \in DeviceRow
    BY <1>0, <1>4 DEF MoveDevice, RowsOf
  <2>2. row \in DeviceRow /\ row.parent = parent
    BY <2>0, <2>1 DEF DeviceRow
  <2>3. devices' = [devices EXCEPT ![d] = row] /\ UNCHANGED switches
    BY <1>0, <1>4, <2>0 DEF MoveDevice
  <2>. QED
    BY <1>1, <1>4, <2>2, <2>3 DEF MoveDevice
<1>5. CASE DeleteDevice(d)
  <2>1. ASSUME NEW e \in Ids
        PROVE  /\ devices'[e] \in DeviceRow \cup {None}
               /\ devices'[e] # None <=> e # d /\ devices[e] # None
               /\ devices'[e] # None =>
                    devices'[e].parent \in {devices[e].parent, None} \ {d}
    <3>1. CASE e = d
      BY <1>5, <3>1 DEF DeleteDevice
    <3>2. CASE e # d /\ e \in Rows /\ devices[e].parent = d
      <4>1. devices'[e] = [devices[e] EXCEPT !.parent = None] /\ devices[e] \in DeviceRow
        BY <1>0, <1>5, <3>2 DEF DeleteDevice, RowsOf
      <4>2. devices'[e] \in DeviceRow /\ devices'[e].parent = None
        BY <4>1 DEF DeviceRow
      <4>. QED
        BY <1>0, <3>2, <4>2, NoneAssumption DEF RowsOf
    <3>3. CASE e # d /\ ~ (e \in Rows /\ devices[e].parent = d)
      <4>1. devices'[e] = devices[e]
        BY <1>5, <3>3 DEF DeleteDevice
      <4>. QED
        BY <1>0, <3>3, <4>1 DEF RowsOf
    <3>. QED
      BY <3>1, <3>2, <3>3
  <2>2. devices' \in [Ids -> DeviceRow \cup {None}]
    BY <1>5, <2>1 DEF DeleteDevice
  <2>3. RowsOf(devices') = RowsOf(devices) \ {d}
    BY <2>1 DEF RowsOf
  <2>4. switches' = {s \in switches : s.host # d}
    BY <1>5 DEF DeleteDevice
  <2>5. \A e \in RowsOf(devices') : devices'[e].parent \in (RowsOf(devices') \ {e}) \cup {None}
    BY <2>1, <2>3 DEF Linked, RowsOf
  <2>. QED
    BY <2>2, <2>3, <2>4, <2>5 DEF Linked
<1>6. ASSUME NEW name \in SwitchNames, CreateSwitch(d, name)
      PROVE  Linked(devices', switches')
  BY <1>0, <1>6 DEF CreateSwitch, Hosts, Linked
<1>. QED
  BY <1>2, <1>3, <1>4, <1>5, <1>6

LEMMA ImportInitially == ImportInit => LinksAreLive
  BY DEF ImportInit, LinksAreLive, ImportTypeOK, Rows, Snapshots

LEMMA ImportInductive == LinksAreLive /\ [ImportNext]_importVars => LinksAreLive'
<1>. SUFFICES ASSUME LinksAreLive, [ImportNext]_importVars PROVE LinksAreLive'
  OBVIOUS
<1>1. Linked(devices, switches)
  BY LinksAre
<1>2. CASE UNCHANGED importVars
  <2>1. Linked(devices', switches') /\ snapshot' = snapshot
    BY <1>1, <1>2 DEF importVars
  <2>. QED
    BY <2>1, LinksAre
<1>3. CASE ImportNext
  <2>1. Imports => Linked(devices', switches')
    <3>1. Imports => \E devs, sws, selected :
            /\ Records(devs) /\ Import(devs, sws, selected)
            /\ \A s \in sws : s.name \in SwitchNames
      BY ImportsAreOfRecords DEF LinksAreLive
    <3>. QED
      BY <1>1, <3>1, ImportKeepsLinks
  <2>2. (\E d \in Ids :
           \/ \E row \in HandRows : CreateDevice(d, row)
           \/ \E name \in HandNames, mac \in HandMacs \cup {None}, type \in TYPES :
                EditDevice(d, name, mac, type)
           \/ \E parent \in Ids \cup {None} : MoveDevice(d, parent)
           \/ DeleteDevice(d)
           \/ \E name \in SwitchNames : CreateSwitch(d, name)) => Linked(devices', switches')
    BY <1>1, HandEditsKeepLinks
  <2>3. (\/ \E inv \in Inventories, kinds \in Toggles : PullInventory(inv, kinds)
         \/ \E s \in switches : DeleteSwitch(s)) => Linked(devices', switches')
    BY <1>1 DEF PullInventory, DeleteSwitch, Linked
  <2>4. Linked(devices', switches')
    BY <1>3, <2>1, <2>2, <2>3 DEF ImportNext, Imports
  <2>. QED
    BY <1>3, <2>4, ImportSnapshotKept, LinksAre
<1>. QED
  BY <1>2, <1>3

\* The code behaviour: the parent of a device and the host of a virtual switch
\* are rows there are, whatever was deleted between a pull and its import.
THEOREM LinksStayLive == ImportSpec => []LinksAreLive
  BY ImportInitially, ImportInductive, PTL DEF ImportSpec

-----------------------------------------------------------------------------
(***************************************************************************)
(* Nothing is imported twice.                                              *)
(***************************************************************************)
HostArg(x, r, devs) ==
  IF isGuestType(r) /\ HostOf(x, r.parent, devs).kind = "existing"
    THEN HostOf(x, r.parent, devs).which ELSE None

LEMMA CreatedMatchesNothing ==
  ASSUME NEW x, NEW r, NEW devs, ActionIn(x, r, devs) = "create"
  PROVE  /\ MacRowsOf(x, r) = {} /\ ~ SharesMac(r, devs)
         /\ ByNameOf(x, r, HostArg(x, r, devs)) = {}
<1>1. VerdictOf(x, r, devs, HostArg(x, r, devs)).action = "create"
  BY DEF ActionIn, GuestVerdictOf, HostArg
<1>. QED
  BY <1>1, CreateMeans

LEMMA NoTwinOfARow ==
  ASSUME NEW x, NEW y, NEW bridges, NEW after, NEW devs, NEW sws, NEW selected, NEW made,
         NEW id, NEW up, Effect(x, y, bridges, after, devs, sws, selected, made, id, up),
         IsFiniteSet(devs), Linked(x, bridges), NEW r \in made, NEW e \in RowsOf(x)
  PROVE  ~ Twins(y[id[r]], x[e])
<1>. SUFFICES ASSUME Twins(y[id[r]], x[e]) PROVE FALSE
  OBVIOUS
<1>1. /\ y[id[r]].name = r.name /\ y[id[r]].mac = r.mac
      /\ y[id[r]].type = r.type /\ y[id[r]].parent = up[r]
      /\ isGuestType(y[id[r]]) <=> isGuestType(r)
      /\ r \in devs
      /\ \A s \in made : id[s] \in Ids /\ x[id[s]] = None
  BY DEF Effect, Grown, isGuestType
<1>2. ActionIn(x, r, devs) = "create"
  BY DEF Effect
<1>3. MacRowsOf(x, r) = {} /\ ByNameOf(x, r, HostArg(x, r, devs)) = {}
  BY <1>2, CreatedMatchesNothing
<1>4. ~ (r.mac # None /\ r.mac = x[e].mac)
  BY <1>3 DEF MacRowsOf
<1>5. /\ r.mac = None \/ x[e].mac = None
      /\ x[e].name = r.name /\ (isGuestType(x[e]) <=> isGuestType(r))
      /\ isGuestType(r) => x[e].type = r.type /\ x[e].parent = up[r]
  BY <1>1, <1>4 DEF Twins
<1>6. CASE ~ isGuestType(r)
  <2>1. e \in ByNameOf(x, r, HostArg(x, r, devs))
    BY <1>5, <1>6 DEF ByNameOf, NameRowsOf, HostsOf
  <2>. QED
    BY <1>3, <2>1
<1>7. CASE isGuestType(r)
  <2>0. PICK host : host = HostOf(x, r.parent, devs)
    OBVIOUS
  <2>1. \/ host.kind = "existing" /\ up[r] = host.which
        \/ host.kind = "planned" /\ host.which \in made /\ up[r] = id[host.which]
    BY <1>7, <2>0 DEF Effect, HostId
  <2>2. CASE host.kind = "existing" /\ up[r] = host.which
    <3>1. up[r] \in Ids /\ up[r] # None
      BY <2>0, <2>2, HostIsThere, NoneAssumption DEF RowsOf
    <3>2. HostArg(x, r, devs) = up[r]
      BY <1>7, <2>0, <2>2 DEF HostArg
    <3>3. e \in ByNameOf(x, r, up[r])
      BY <1>5, <1>7, <3>1 DEF ByNameOf, NameRowsOf
    <3>. QED
      BY <1>3, <3>2, <3>3
  <2>3. CASE host.kind = "planned" /\ host.which \in made /\ up[r] = id[host.which]
    <3>1. up[r] \in Ids /\ x[up[r]] = None
      BY <1>1, <2>3
    <3>2. x[e].parent \in RowsOf(x) \cup {None}
      BY DEF Linked
    <3>. QED
      BY <1>5, <1>7, <3>1, <3>2, NoneAssumption DEF RowsOf
  <2>. QED
    BY <2>1, <2>2, <2>3
<1>. QED
  BY <1>6, <1>7

\* The code behaviour: applyIntegrationDeviceSync classifies again before it
\* inserts, so that no import, whatever users did since its pull, adds a device
\* beside a row with its MAC or, where one has no MAC, with its name and host,
\* or two devices with one MAC, or touches a row there is.
THEOREM ImportsAddNoTwins == ImportSpec => NothingIsImportedTwice
<1>. DEFINE Fresh(d) ==
       devices'[d] # devices[d] =>
         /\ d \in Free
         /\ \A e \in Rows : ~Twins(devices'[d], devices[e])
         /\ \A e \in Free \ {d} :
              devices'[e] # None /\ devices'[d].mac # None
                => devices'[d].mac # devices'[e].mac
<1>1. ASSUME LinksAreLive, Imports, NEW d \in Ids, devices'[d] # devices[d]
      PROVE  /\ d \in Free
             /\ \A e \in Rows : ~Twins(devices'[d], devices[e])
             /\ \A e \in Free \ {d} :
                  devices'[e] # None /\ devices'[d].mac # None
                    => devices'[d].mac # devices'[e].mac
  <2>1. PICK devs, sws, selected : Records(devs) /\ Import(devs, sws, selected)
    BY <1>1, ImportsAreOfRecords DEF LinksAreLive
  <2>2. PICK made, id, up :
          Effect(devices, devices', switches, switches', devs, sws, selected, made, id, up)
    BY <2>1, ImportHasEffect
  <2>3. /\ Grown(devices, devices', devs, made, id, up) /\ IsFiniteSet(devs)
        /\ Linked(devices, switches)
    BY <1>1, <2>1, <2>2, LinksAre DEF Effect, Records
  <2>4. PICK r \in made : d = id[r]
    BY <1>1, <2>3 DEF Grown
  <2>5. d \in Free
    BY <2>3, <2>4, RowsAre DEF Grown
  <2>6. \A e \in Rows : ~ Twins(devices'[d], devices[e])
    BY <2>2, <2>3, <2>4, NoTwinOfARow, RowsAre
  <2>7. ASSUME NEW e \in Free \ {d}, devices'[e] # None, devices'[d].mac # None
        PROVE  devices'[d].mac # devices'[e].mac
    <3>1. e \in Ids /\ devices[e] = None
      BY <2>7, RowsAre
    <3>2. PICK s \in made : e = id[s]
      BY <2>3, <2>7, <3>1 DEF Grown
    <3>3. /\ r \in devs /\ s \in devs /\ s # r
          /\ devices'[d].mac = r.mac /\ devices'[e].mac = s.mac
      BY <2>3, <2>4, <2>7, <3>2 DEF Grown
    <3>4. ~ SharesMac(r, devs)
      BY <2>2, CreatedMatchesNothing DEF Effect
    <3>. QED
      BY <2>7, <3>3, <3>4 DEF SharesMac
  <2>. QED
    BY <2>5, <2>6, <2>7
<1>2. LinksAreLive /\ [ImportNext]_importVars =>
        [devices' # devices /\ Imports => \A d \in Ids : Fresh(d)]_importVars
  BY <1>1
<1>. QED
  BY <1>2, LinksStayLive, PTL DEF ImportSpec, NothingIsImportedTwice

-----------------------------------------------------------------------------
(***************************************************************************)
(* What was imported is not offered again.                                 *)
(***************************************************************************)
LEMMA ScheduleLeavesNothing ==
  ASSUME NEW inv \in Inventories, NEW kinds, RunSchedule(inv, kinds)
  PROVE  Selectable(Imported(inv, kinds), inv.switches)' = {}
<1>0. PICK devs, sws : devs = Imported(inv, kinds) /\ sws = inv.switches
  OBVIOUS
<1>1. PICK selected : selected = {r.id : r \in devs \cup sws}
  OBVIOUS
<1>2. Records(devs) /\ Import(devs, sws, selected)
  BY <1>0, <1>1, ImportedAreRecords DEF RunSchedule
<1>3. PICK made, id, up :
        Effect(devices, devices', switches, switches', devs, sws, selected, made, id, up)
  BY <1>2, ImportHasEffect
<1>4. /\ IsFiniteSet(devs)
      /\ \A r \in devs : r.id \in selected
      /\ \A s \in sws : s.id \in selected
  BY <1>1, <1>2 DEF Records
<1>5. \A r \in devs : ActionIn(devices', r, devs) # "create"
  BY <1>3, <1>4, SelectedIsNotNew, NothingIsPlanned
<1>6. \A s \in sws : SwitchActionIn(devices', switches', s, devs, sws) # "create"
  BY <1>3, <1>4, SwitchIsNotNew
<1>7. /\ \A r \in devs : ActionOf(r, devs)' # "create"
      /\ \A s \in sws : SwitchActionOf(s, devs, sws)' # "create"
  BY <1>5, <1>6, ActionIs, SwitchActionIs
<1>8. /\ \A r \in Imported(inv, kinds) : ActionOf(r, Imported(inv, kinds))' # "create"
      /\ \A s \in inv.switches :
           SwitchActionOf(s, Imported(inv, kinds), inv.switches)' # "create"
  BY <1>0, <1>7
<1>. QED
  BY <1>8 DEF Selectable

LEMMA ApplyLeavesOnlyHostless ==
  ASSUME ImportTypeOK, snapshot # None, NEW selected, ApplySnapshot(selected),
         NEW devs, devs = snapshot.devices, NEW r \in devs, r.id \in selected
  PROVE  \/ ActionOf(r, devs)' # "create"
         \/ isGuestType(r) /\ resolveHost(r.parent, devs)'.kind = "planned"
<1>1. PICK sws : sws = snapshot.switches
  OBVIOUS
<1>2. Records(devs) /\ Import(devs, sws, selected)
  BY <1>1, SnapshotIs, ImportedAreRecords DEF ApplySnapshot, ImportTypeOK
<1>3. PICK made, id, up :
        Effect(devices, devices', switches, switches', devs, sws, selected, made, id, up)
  BY <1>2, ImportHasEffect
<1>4. \/ ActionIn(devices', r, devs) # "create"
      \/ isGuestType(r) /\ HostOf(devices', r.parent, devs).kind = "planned"
  BY <1>2, <1>3, SelectedIsNotNew DEF Records
<1>. QED
  BY <1>4, ActionIs, HostIs

\* The code behaviour: of the records a scheduled run or a reviewed import was
\* to create, none is "create" in the plan that follows; only a guest whose
\* host was not selected with it is.
THEOREM ImportsAreIdempotent == ImportSpec => ImportIsIdempotent
<1>. DEFINE Done ==
       /\ \A inv \in Inventories, kinds \in Toggles :
            RunSchedule(inv, kinds) => Selectable(Imported(inv, kinds), inv.switches)' = {}
       /\ snapshot # None =>
            \A selected \in SUBSET snapshot.selectable, devs \in {snapshot.devices} :
              ApplySnapshot(selected) =>
                \A r \in {x \in devs : x.id \in selected} :
                  \/ ActionOf(r, devs)' # "create"
                  \/ isGuestType(r) /\ resolveHost(r.parent, devs)'.kind = "planned"
<1>1. LinksAreLive => Done
  <2>1. ASSUME LinksAreLive, snapshot # None, NEW selected \in SUBSET snapshot.selectable,
               NEW devs \in {snapshot.devices}, ApplySnapshot(selected),
               NEW r \in {x \in devs : x.id \in selected}
        PROVE  \/ ActionOf(r, devs)' # "create"
               \/ isGuestType(r) /\ resolveHost(r.parent, devs)'.kind = "planned"
    BY <2>1, ApplyLeavesOnlyHostless DEF LinksAreLive
  <2>. QED
    BY <2>1, ScheduleLeavesNothing
<1>2. LinksAreLive /\ [ImportNext]_importVars => [OnlyAdds => Done]_importVars
  BY <1>1
<1>. QED
  BY <1>2, LinksStayLive, PTL DEF ImportSpec, ImportIsIdempotent

=============================================================================
