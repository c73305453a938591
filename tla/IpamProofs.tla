----------------------------- MODULE IpamProofs -----------------------------
(***************************************************************************)
(* What holds of Ipam for any blocks, ranges, labs and number of rows.     *)
(***************************************************************************)
EXTENDS Ipam, TLAPS, WellFoundedInduction

-----------------------------------------------------------------------------
(***************************************************************************)
(* BackupIsRestorable row by row: a row beside the row of its subnet.      *)
(***************************************************************************)
SubnetFits(s) == GatewayFits(s.cidr, s.gateway)

ScopeFits(row, s) ==
  s # None /\ row.range \subseteq Hosts(s.cidr) /\ GatewayFits(s.cidr, row.gateway)

ZoneFits(row, s) == s # None /\ row.range \subseteq Hosts(s.cidr)

AssignmentFits(row, s, D, P) ==
  /\ s # None /\ row.ip \in Hosts(s.cidr)
  /\ row.device # None => row.device \in D /\ LabOf[row.device] = s.lab
  /\ row.port # None => /\ row.port \in P /\ LabOf[row.port] = s.lab
                        /\ row.device \in {None, row.port}

\* A scope that an assignment names is there, in the subnet of the assignment.
Owned(row, scopes) ==
  row.scope # None => scopes[row.scope] # None /\ scopes[row.scope].subnet = row.subnet

SubnetsFit == \A s \in SubnetIds : subnet[s] # None => SubnetFits(subnet[s])
ScopesFit ==
  \A c \in ScopeIds : scope[c] # None => ScopeFits(scope[c], subnet[scope[c].subnet])
ZonesFit ==
  \A z \in ZoneIds : zone[z] # None => ZoneFits(zone[z], subnet[zone[z].subnet])
AssignmentsFit ==
  \A a \in AssignmentIds : assignment[a] # None =>
    AssignmentFits(assignment[a], subnet[assignment[a].subnet], devices, ports)

ScopesOwned == \A a \in AssignmentIds : assignment[a] # None => Owned(assignment[a], scope)

RowsFit == TypeOK /\ SubnetsFit /\ ScopesFit /\ ZonesFit /\ AssignmentsFit
Inv == TypeOK /\ SubnetsFit /\ ScopesFit /\ ZonesFit /\ AssignmentsFit /\ ScopesOwned

LEMMA TableRows ==
  ASSUME TypeOK
  PROVE  /\ Rows(subnet) = {s \in SubnetIds : subnet[s] # None}
         /\ Rows(scope) = {c \in ScopeIds : scope[c] # None}
         /\ Rows(zone) = {z \in ZoneIds : zone[z] # None}
         /\ Rows(assignment) = {a \in AssignmentIds : assignment[a] # None}
  BY DEF TypeOK, Rows

LEMMA TypedRows ==
  ASSUME TypeOK
  PROVE  /\ \A s \in SubnetIds : subnet[s] # None => subnet[s] \in SubnetRow
         /\ \A c \in ScopeIds : scope[c] # None =>
              scope[c] \in ScopeRow /\ scope[c].subnet \in SubnetIds
         /\ \A z \in ZoneIds : zone[z] # None =>
              zone[z] \in ZoneRow /\ zone[z].subnet \in SubnetIds
         /\ \A a \in AssignmentIds : assignment[a] # None =>
              assignment[a] \in AssignmentRow /\ assignment[a].subnet \in SubnetIds
  BY DEF TypeOK, ScopeRow, ZoneRow, AssignmentRow

LEMMA RestorableByRow == BackupIsRestorable <=> Inv
<1>. SUFFICES ASSUME TypeOK PROVE BackupIsRestorable <=> Inv
  BY DEF BackupIsRestorable, Inv
<1>1. ValidRanges <=> SubnetsFit /\ ScopesFit /\ ZonesFit
  BY TableRows DEF ValidRanges, SubnetsFit, ScopesFit, ZonesFit, SubnetFits, ScopeFits, ZoneFits
<1>2. (\A a \in Rows(assignment) : LET r == assignment[a] IN
         ValidAddress(r) /\ ValidReferences(r) /\ ScopeIsOwn(r))
        <=> AssignmentsFit /\ ScopesOwned
  BY TableRows DEF AssignmentsFit, AssignmentFits, ValidAddress, ValidReferences, ScopesOwned,
     Owned, ScopeIsOwn
<1>. QED
  BY <1>1, <1>2 DEF BackupIsRestorable, Inv

-----------------------------------------------------------------------------
(***************************************************************************)
(* Every request keeps the tables restorable.                              *)
(***************************************************************************)
\* A subnet is inserted, or moved to a block that takes in what lies in it.
LEMMA SubnetWritten ==
  ASSUME RowsFit, NEW s \in SubnetIds, NEW row \in SubnetRow, SubnetFits(row),
         subnet' = [subnet EXCEPT ![s] = row],
         subnet[s] # None => row.lab = subnet[s].lab,
         \A c \in ScopeIds : scope[c] # None /\ scope[c].subnet = s => ScopeFits(scope[c], row),
         \A z \in ZoneIds : zone[z] # None /\ zone[z].subnet = s => ZoneFits(zone[z], row),
         \A a \in AssignmentIds : assignment[a] # None /\ assignment[a].subnet = s =>
           assignment[a].ip \in Hosts(row.cidr)
  PROVE  /\ subnet' \in [SubnetIds -> SubnetRow \cup {None}] /\ SubnetsFit'
         /\ \A c \in ScopeIds : scope[c] # None => ScopeFits(scope[c], subnet'[scope[c].subnet])
         /\ \A z \in ZoneIds : zone[z] # None => ZoneFits(zone[z], subnet'[zone[z].subnet])
         /\ \A a \in AssignmentIds : assignment[a] # None =>
              AssignmentFits(assignment[a], subnet'[assignment[a].subnet], devices, ports)
<1>1. /\ subnet' \in [SubnetIds -> SubnetRow \cup {None}] /\ subnet'[s] = row
      /\ \A t \in SubnetIds : t # s => subnet'[t] = subnet[t]
  BY DEF RowsFit, TypeOK
<1>2. row # None
  BY NoneAssumption
<1>3. SubnetsFit'
  BY <1>1 DEF RowsFit, SubnetsFit
<1>4. ASSUME NEW c \in ScopeIds, scope[c] # None
      PROVE  ScopeFits(scope[c], subnet'[scope[c].subnet])
  BY <1>1, <1>4, TypedRows DEF RowsFit, ScopesFit
<1>5. ASSUME NEW z \in ZoneIds, zone[z] # None
      PROVE  ZoneFits(zone[z], subnet'[zone[z].subnet])
  BY <1>1, <1>5, TypedRows DEF RowsFit, ZonesFit
<1>6. ASSUME NEW a \in AssignmentIds, assignment[a] # None
      PROVE  AssignmentFits(assignment[a], subnet'[assignment[a].subnet], devices, ports)
  <2>1. AssignmentFits(assignment[a], subnet[assignment[a].subnet], devices, ports)
    BY <1>6 DEF RowsFit, AssignmentsFit
  <2>2. CASE assignment[a].subnet = s
    BY <1>1, <1>2, <1>6, <2>1, <2>2 DEF AssignmentFits
  <2>3. CASE assignment[a].subnet # s
    BY <1>1, <1>6, <2>1, <2>3, TypedRows DEF RowsFit
  <2>. QED
    BY <2>2, <2>3
<1>. QED
  BY <1>1, <1>3, <1>4, <1>5, <1>6

LEMMA CreateSubnetKeeps ==
  ASSUME RowsFit, NEW s \in SubnetIds, NEW lab \in Labs, NEW k \in Cidrs,
         NEW g \in Gateways \cup {None}, CreateSubnet(s, lab, k, g)
  PROVE  RowsFit'
<1>0. PICK row : row = [lab |-> lab, cidr |-> k, gateway |-> g]
  OBVIOUS
<1>1. row \in SubnetRow /\ SubnetFits(row) /\ subnet' = [subnet EXCEPT ![s] = row]
  BY <1>0 DEF CreateSubnet, NewSubnet, SubnetRow, SubnetFits
<1>2. /\ subnet[s] = None
      /\ \A c \in ScopeIds : scope[c] # None => scope[c].subnet # s
      /\ \A z \in ZoneIds : zone[z] # None => zone[z].subnet # s
      /\ \A a \in AssignmentIds : assignment[a] # None => assignment[a].subnet # s
  BY DEF RowsFit, CreateSubnet, ScopesFit, ScopeFits, ZonesFit, ZoneFits, AssignmentsFit,
     AssignmentFits
<1>3. UNCHANGED <<scope, zone, assignment, devices, ports>>
  BY DEF CreateSubnet
<1>4. /\ subnet' \in [SubnetIds -> SubnetRow \cup {None}] /\ SubnetsFit'
      /\ \A c \in ScopeIds : scope[c] # None => ScopeFits(scope[c], subnet'[scope[c].subnet])
      /\ \A z \in ZoneIds : zone[z] # None => ZoneFits(zone[z], subnet'[zone[z].subnet])
      /\ \A a \in AssignmentIds : assignment[a] # None =>
           AssignmentFits(assignment[a], subnet'[assignment[a].subnet], devices, ports)
  BY <1>1, <1>2, SubnetWritten
<1>. QED
  BY <1>3, <1>4 DEF RowsFit, TypeOK, ScopesFit, ZonesFit, AssignmentsFit

LEMMA PatchSubnetKeeps ==
  ASSUME RowsFit, NEW s \in SubnetIds, NEW k \in Cidrs, NEW g \in Gateways \cup {None},
         PatchSubnet(s, k, g)
  PROVE  RowsFit'
<1>0. PICK row : row = [subnet[s] EXCEPT !.cidr = k, !.gateway = g]
  OBVIOUS
<1>1. subnet[s] \in SubnetRow /\ subnet[s] # None
  BY DEF RowsFit, TypeOK, PatchSubnet
<1>2. /\ row \in SubnetRow /\ row.cidr = k /\ row.gateway = g /\ row.lab = subnet[s].lab
      /\ subnet' = [subnet EXCEPT ![s] = row]
  BY <1>0, <1>1 DEF PatchSubnet, SubnetRow, RowsFit, TypeOK
<1>3. SubnetFits(row)
  BY <1>2 DEF PatchSubnet, SubnetFits
<1>4. /\ \A c \in ScopeIds : scope[c] # None /\ scope[c].subnet = s => ScopeFits(scope[c], row)
      /\ \A z \in ZoneIds : zone[z] # None /\ zone[z].subnet = s => ZoneFits(zone[z], row)
      /\ \A a \in AssignmentIds : assignment[a] # None /\ assignment[a].subnet = s =>
           assignment[a].ip \in Hosts(row.cidr)
  <2>1. row # None
    BY <1>2, NoneAssumption
  <2>2. CASE k = subnet[s].cidr
    BY <1>2, <2>1, <2>2 DEF RowsFit, ScopesFit, ScopeFits, ZonesFit, ZoneFits, AssignmentsFit,
       AssignmentFits
  <2>3. CASE k # subnet[s].cidr
    <3>1. ChildrenFit(s, k)
      BY <2>3 DEF PatchSubnet
    <3>. QED
      BY <1>2, <2>1, <3>1, TableRows DEF ChildrenFit, In, RowsFit, ScopeFits, ZoneFits
  <2>. QED
    BY <2>2, <2>3
<1>5. UNCHANGED <<scope, zone, assignment, devices, ports>>
  BY DEF PatchSubnet
<1>6. /\ subnet' \in [SubnetIds -> SubnetRow \cup {None}] /\ SubnetsFit'
      /\ \A c \in ScopeIds : scope[c] # None => ScopeFits(scope[c], subnet'[scope[c].subnet])
      /\ \A z \in ZoneIds : zone[z] # None => ZoneFits(zone[z], subnet'[zone[z].subnet])
      /\ \A a \in AssignmentIds : assignment[a] # None =>
           AssignmentFits(assignment[a], subnet'[assignment[a].subnet], devices, ports)
  BY <1>2, <1>3, <1>4, SubnetWritten
<1>. QED
  BY <1>5, <1>6 DEF RowsFit, TypeOK, ScopesFit, ZonesFit, AssignmentsFit

LEMMA CreateNetworkKeeps ==
  ASSUME RowsFit, NEW s \in SubnetIds, NEW lab \in Labs, NEW k \in Cidrs,
         NEW g \in Gateways \cup {None}, NEW c \in ScopeIds, NEW rc \in Ranges,
         NEW gc \in Gateways \cup {None}, NEW z \in ZoneIds, NEW kind \in IP_ZONE_KINDS,
         NEW rz \in Ranges, CreateNetwork(s, lab, k, g, c, rc, gc, z, kind, rz)
  PROVE  RowsFit'
<1>0. PICK row : row = [lab |-> lab, cidr |-> k, gateway |-> g]
  OBVIOUS
<1>1. /\ row \in SubnetRow /\ SubnetFits(row) /\ subnet' = [subnet EXCEPT ![s] = row]
      /\ row.cidr = k
  BY <1>0 DEF CreateNetwork, NewSubnet, SubnetRow, SubnetFits
<1>2. /\ subnet[s] = None
      /\ \A x \in ScopeIds : scope[x] # None => scope[x].subnet # s
      /\ \A x \in ZoneIds : zone[x] # None => zone[x].subnet # s
      /\ \A x \in AssignmentIds : assignment[x] # None => assignment[x].subnet # s
  BY DEF RowsFit, CreateNetwork, ScopesFit, ScopeFits, ZonesFit, ZoneFits, AssignmentsFit,
     AssignmentFits
<1>3. UNCHANGED <<assignment, devices, ports>>
  BY DEF CreateNetwork
<1>4. /\ subnet' \in [SubnetIds -> SubnetRow \cup {None}] /\ SubnetsFit'
      /\ \A x \in ScopeIds : scope[x] # None => ScopeFits(scope[x], subnet'[scope[x].subnet])
      /\ \A x \in ZoneIds : zone[x] # None => ZoneFits(zone[x], subnet'[zone[x].subnet])
      /\ \A x \in AssignmentIds : assignment[x] # None =>
           AssignmentFits(assignment[x], subnet'[assignment[x].subnet], devices, ports)
  BY <1>1, <1>2, SubnetWritten
<1>5. subnet'[s] = row /\ row # None
  BY <1>1, NoneAssumption DEF RowsFit, TypeOK
<1>6. PICK made : made = [subnet |-> s, range |-> rc, gateway |-> gc]
  OBVIOUS
<1>7. made \in ScopeRow /\ made.subnet = s /\ ScopeFits(made, row)
  BY <1>1, <1>5, <1>6 DEF CreateNetwork, ScopeRow, ScopeFits
<1>8. scope' \in [ScopeIds -> ScopeRow \cup {None}] /\ ScopesFit'
  <2>1. scope' = [scope EXCEPT ![c] = made]
    BY <1>6 DEF CreateNetwork
  <2>. QED
    BY <1>4, <1>5, <1>7, <2>1 DEF RowsFit, TypeOK, ScopesFit
<1>9. PICK area : area = [subnet |-> s, kind |-> kind, range |-> rz]
  OBVIOUS
<1>10. area \in ZoneRow /\ area.subnet = s /\ ZoneFits(area, row)
  BY <1>1, <1>5, <1>9 DEF CreateNetwork, ZoneRow, ZoneFits
<1>11. zone' \in [ZoneIds -> ZoneRow \cup {None}] /\ ZonesFit'
  <2>1. zone' = [zone EXCEPT ![z] = area]
    BY <1>9 DEF CreateNetwork
  <2>. QED
    BY <1>4, <1>5, <1>10, <2>1 DEF RowsFit, TypeOK, ZonesFit
<1>. QED
  BY <1>3, <1>4, <1>8, <1>11 DEF RowsFit, TypeOK, AssignmentsFit

\* A cascade takes rows away, and the scopes from the assignments it leaves.
LEMMA Removed ==
  ASSUME NEW table, NEW gone
  PROVE  /\ DOMAIN Without(table, gone) = DOMAIN table
         /\ \A id \in DOMAIN table :
              /\ id \in gone => Without(table, gone)[id] = None
              /\ id \notin gone => Without(table, gone)[id] = table[id]
  BY DEF Without

LEMMA Unscoped ==
  ASSUME NEW table \in [AssignmentIds -> AssignmentRow \cup {None}], NEW gone
  PROVE  /\ WithoutScopes(table, gone) \in [AssignmentIds -> AssignmentRow \cup {None}]
         /\ \A a \in AssignmentIds :
              LET old == table[a] new == WithoutScopes(table, gone)[a] IN
              /\ new = None <=> old = None
              /\ old # None =>
                   /\ new.subnet = old.subnet /\ new.ip = old.ip /\ new.type = old.type
                   /\ new.mode = old.mode /\ new.device = old.device /\ new.port = old.port
                   /\ old.scope \notin gone => new = old
                   /\ old.scope \in gone => new.scope = None
<1>. DEFINE T == WithoutScopes(table, gone)
<1>1. ASSUME NEW a \in AssignmentIds
      PROVE  /\ T[a] \in AssignmentRow \cup {None}
             /\ T[a] = None <=> table[a] = None
             /\ table[a] # None =>
                  /\ T[a].subnet = table[a].subnet /\ T[a].ip = table[a].ip
                  /\ T[a].type = table[a].type /\ T[a].mode = table[a].mode
                  /\ T[a].device = table[a].device /\ T[a].port = table[a].port
                  /\ table[a].scope \notin gone => T[a] = table[a]
                  /\ table[a].scope \in gone => T[a].scope = None
  <2>1. CASE table[a] # None /\ table[a].scope \in gone
    <3>1. table[a] \in AssignmentRow
      BY <2>1
    <3>2. T[a] = [table[a] EXCEPT !.scope = None]
      BY <2>1 DEF WithoutScopes
    <3>3. T[a] \in AssignmentRow
      BY <3>1, <3>2 DEF AssignmentRow
    <3>4. T[a] # None
      BY <3>3, NoneAssumption
    <3>. QED
      BY <2>1, <3>1, <3>2, <3>3, <3>4 DEF AssignmentRow
  <2>2. CASE ~ (table[a] # None /\ table[a].scope \in gone)
    <3>1. T[a] = table[a]
      BY <2>2 DEF WithoutScopes
    <3>. QED
      BY <2>2, <3>1
  <2>. QED
    BY <2>1, <2>2
<1>2. T \in [AssignmentIds -> AssignmentRow \cup {None}]
  BY <1>1 DEF WithoutScopes
<1>. QED
  BY <1>1, <1>2

LEMMA DeleteSubnetKeeps ==
  ASSUME RowsFit, NEW s \in SubnetIds, DeleteSubnet(s)
  PROVE  RowsFit'
<1>1. /\ subnet' = Without(subnet, {s})
      /\ scope' = Without(scope, In(scope, s)) /\ zone' = Without(zone, In(zone, s))
      /\ UNCHANGED <<devices, ports>>
  BY DEF DeleteSubnet
<1>2. /\ subnet' \in [SubnetIds -> SubnetRow \cup {None}] /\ subnet'[s] = None
      /\ \A t \in SubnetIds : t # s => subnet'[t] = subnet[t]
  BY <1>1 DEF Without, RowsFit, TypeOK
<1>3. SubnetsFit'
  BY <1>2 DEF RowsFit, SubnetsFit
<1>4. scope' \in [ScopeIds -> ScopeRow \cup {None}] /\ ScopesFit'
  <2>1. \A c \in ScopeIds : scope'[c] # None =>
          scope'[c] = scope[c] /\ scope[c].subnet # s
    BY <1>1, TableRows DEF Without, In, RowsFit, TypeOK
  <2>2. scope' \in [ScopeIds -> ScopeRow \cup {None}]
    BY <1>1 DEF Without, RowsFit, TypeOK
  <2>. QED
    BY <1>2, <2>1, <2>2, TypedRows DEF RowsFit, ScopesFit
<1>5. zone' \in [ZoneIds -> ZoneRow \cup {None}] /\ ZonesFit'
  <2>1. \A z \in ZoneIds : zone'[z] # None => zone'[z] = zone[z] /\ zone[z].subnet # s
    BY <1>1, TableRows DEF Without, In, RowsFit, TypeOK
  <2>2. zone' \in [ZoneIds -> ZoneRow \cup {None}]
    BY <1>1 DEF Without, RowsFit, TypeOK
  <2>. QED
    BY <1>2, <2>1, <2>2, TypedRows DEF RowsFit, ZonesFit
<1>6. assignment' \in [AssignmentIds -> AssignmentRow \cup {None}] /\ AssignmentsFit'
  <2>0. PICK left : left = Without(assignment, In(assignment, s))
    OBVIOUS
  <2>1. /\ left \in [AssignmentIds -> AssignmentRow \cup {None}]
        /\ \A a \in AssignmentIds : left[a] # None =>
             left[a] = assignment[a] /\ assignment[a].subnet # s
    BY <2>0, TableRows DEF Without, In, RowsFit, TypeOK
  <2>2. assignment' = WithoutScopes(left, In(scope, s))
    BY <2>0 DEF DeleteSubnet
  <2>3. \A a \in AssignmentIds : assignment'[a] # None =>
          /\ left[a] # None
          /\ assignment'[a].subnet = left[a].subnet /\ assignment'[a].ip = left[a].ip
          /\ assignment'[a].mode = left[a].mode /\ assignment'[a].device = left[a].device
          /\ assignment'[a].port = left[a].port
          /\ assignment'[a].scope \in {left[a].scope, None}
    BY <2>1, <2>2, Unscoped
  <2>4. assignment' \in [AssignmentIds -> AssignmentRow \cup {None}]
    BY <2>1, <2>2, Unscoped
  <2>5. ASSUME NEW a \in AssignmentIds, assignment'[a] # None
        PROVE  AssignmentFits(assignment'[a], subnet'[assignment'[a].subnet], devices, ports)
    <3>1. AssignmentFits(assignment[a], subnet[assignment[a].subnet], devices, ports)
      BY <2>1, <2>3, <2>5 DEF RowsFit, AssignmentsFit
    <3>2. /\ left[a] = assignment[a] /\ left[a] # None /\ assignment[a].subnet # s
          /\ assignment[a].subnet \in SubnetIds
      BY <2>1, <2>3, <2>5, TypedRows DEF RowsFit
    <3>3. subnet'[assignment'[a].subnet] = subnet[assignment[a].subnet]
      BY <1>2, <2>3, <2>5, <3>2
    <3>. QED
      BY <2>3, <2>5, <3>1, <3>2, <3>3 DEF AssignmentFits
  <2>. QED
    BY <1>1, <2>4, <2>5 DEF AssignmentsFit
<1>. QED
  BY <1>1, <1>2, <1>3, <1>4, <1>5, <1>6 DEF RowsFit, TypeOK

LEMMA ScopeRequestsKeep ==
  ASSUME RowsFit, NEW c \in ScopeIds,
         \/ \E s \in SubnetIds, r \in Ranges, g \in Gateways \cup {None} :
              CreateScope(c, s, r, g) \/ SyncScope(c, s, r)
         \/ \E r \in Ranges, g \in Gateways \cup {None} : PatchScope(c, r, g)
  PROVE  RowsFit'
<1>1. UNCHANGED <<subnet, zone, assignment, devices, ports>>
  BY DEF CreateScope, SyncScope, PatchScope
<1>2. ASSUME NEW row \in ScopeRow, scope' = [scope EXCEPT ![c] = row],
             ScopeFits(row, subnet[row.subnet])
      PROVE  scope' \in [ScopeIds -> ScopeRow \cup {None}] /\ ScopesFit'
  BY <1>1, <1>2 DEF RowsFit, TypeOK, ScopesFit
<1>3. ASSUME NEW s \in SubnetIds, NEW r \in Ranges, NEW g \in Gateways \cup {None},
             CreateScope(c, s, r, g)
      PROVE  scope' \in [ScopeIds -> ScopeRow \cup {None}] /\ ScopesFit'
  <2>0. PICK row : row = [subnet |-> s, range |-> r, gateway |-> g]
    OBVIOUS
  <2>1. row \in ScopeRow /\ ScopeFits(row, subnet[row.subnet])
    BY <1>3, <2>0 DEF CreateScope, ScopeRow, ScopeFits
  <2>2. scope' = [scope EXCEPT ![c] = row]
    BY <1>3, <2>0 DEF CreateScope
  <2>. QED
    BY <1>2, <2>1, <2>2
<1>6. ASSUME NEW s \in SubnetIds, NEW r \in Ranges, SyncScope(c, s, r)
      PROVE  scope' \in [ScopeIds -> ScopeRow \cup {None}] /\ ScopesFit'
  <2>0. PICK row : row = [subnet |-> s, range |-> r, gateway |-> None]
    OBVIOUS
  <2>1. row \in ScopeRow /\ ScopeFits(row, subnet[row.subnet])
    BY <1>6, <2>0 DEF SyncScope, ScopeRow, ScopeFits, GatewayFits
  <2>2. scope' = [scope EXCEPT ![c] = row]
    BY <1>6, <2>0 DEF SyncScope
  <2>. QED
    BY <1>2, <2>1, <2>2
<1>4. ASSUME NEW r \in Ranges, NEW g \in Gateways \cup {None}, PatchScope(c, r, g)
      PROVE  scope' \in [ScopeIds -> ScopeRow \cup {None}] /\ ScopesFit'
  <2>0. PICK row : row = [scope[c] EXCEPT !.range = r, !.gateway = g]
    OBVIOUS
  <2>1. scope[c] # None /\ scope[c] \in ScopeRow /\ ScopeFits(scope[c], subnet[scope[c].subnet])
    BY <1>4, TypedRows DEF PatchScope, RowsFit, ScopesFit
  <2>2. row \in ScopeRow /\ row.subnet = scope[c].subnet /\ row.range = r /\ row.gateway = g
    BY <2>0, <2>1 DEF ScopeRow
  <2>3. ScopeFits(row, subnet[row.subnet])
    BY <1>4, <2>1, <2>2 DEF PatchScope, ScopeFits
  <2>4. scope' = [scope EXCEPT ![c] = row]
    BY <1>4, <2>0 DEF PatchScope, RowsFit, TypeOK
  <2>. QED
    BY <1>2, <2>2, <2>3, <2>4
<1>5. scope' \in [ScopeIds -> ScopeRow \cup {None}] /\ ScopesFit'
  BY <1>3, <1>4, <1>6
<1>. QED
  BY <1>1, <1>5 DEF RowsFit, TypeOK, SubnetsFit, ZonesFit, AssignmentsFit

LEMMA DeleteScopeKeeps ==
  ASSUME RowsFit, NEW c \in ScopeIds, DeleteScope(c)
  PROVE  RowsFit'
<1>1. UNCHANGED <<subnet, zone, devices, ports>>
  BY DEF DeleteScope
<1>2. scope' \in [ScopeIds -> ScopeRow \cup {None}] /\ ScopesFit'
  BY <1>1 DEF DeleteScope, Without, RowsFit, TypeOK, ScopesFit
<1>3. assignment' \in [AssignmentIds -> AssignmentRow \cup {None}] /\ AssignmentsFit'
  <2>0. PICK left : left = assignment
    OBVIOUS
  <2>1. left \in [AssignmentIds -> AssignmentRow \cup {None}] /\ assignment' = WithoutScopes(left, {c})
    BY <2>0 DEF DeleteScope, RowsFit, TypeOK
  <2>2. \A a \in AssignmentIds : assignment'[a] # None =>
          /\ assignment[a] # None
          /\ assignment'[a].subnet = assignment[a].subnet /\ assignment'[a].ip = assignment[a].ip
          /\ assignment'[a].mode = assignment[a].mode
          /\ assignment'[a].device = assignment[a].device
          /\ assignment'[a].port = assignment[a].port
          /\ assignment'[a].scope \in {assignment[a].scope, None}
    BY <2>0, <2>1, Unscoped
  <2>3. assignment' \in [AssignmentIds -> AssignmentRow \cup {None}]
    BY <2>1, Unscoped
  <2>4. ASSUME NEW a \in AssignmentIds, assignment'[a] # None
        PROVE  AssignmentFits(assignment'[a], subnet[assignment'[a].subnet], devices, ports)
    <3>1. AssignmentFits(assignment[a], subnet[assignment[a].subnet], devices, ports)
      BY <2>2, <2>4 DEF RowsFit, AssignmentsFit
    <3>. QED
      BY <2>2, <2>4, <3>1 DEF AssignmentFits
  <2>. QED
    BY <1>1, <2>3, <2>4 DEF AssignmentsFit
<1>. QED
  BY <1>1, <1>2, <1>3 DEF RowsFit, TypeOK, SubnetsFit, ZonesFit

LEMMA ZoneRequestsKeep ==
  ASSUME RowsFit, NEW z \in ZoneIds,
         \/ \E s \in SubnetIds, kind \in IP_ZONE_KINDS, r \in Ranges : CreateZone(z, s, kind, r)
         \/ \E kind \in IP_ZONE_KINDS, r \in Ranges : PatchZone(z, kind, r)
         \/ DeleteZone(z)
  PROVE  RowsFit'
<1>1. UNCHANGED <<subnet, scope, assignment, devices, ports>>
  BY DEF CreateZone, PatchZone, DeleteZone
<1>2. ASSUME NEW row \in ZoneRow, zone' = [zone EXCEPT ![z] = row],
             ZoneFits(row, subnet[row.subnet])
      PROVE  zone' \in [ZoneIds -> ZoneRow \cup {None}] /\ ZonesFit'
  BY <1>1, <1>2 DEF RowsFit, TypeOK, ZonesFit
<1>3. ASSUME NEW s \in SubnetIds, NEW kind \in IP_ZONE_KINDS, NEW r \in Ranges,
             CreateZone(z, s, kind, r)
      PROVE  zone' \in [ZoneIds -> ZoneRow \cup {None}] /\ ZonesFit'
  <2>0. PICK row : row = [subnet |-> s, kind |-> kind, range |-> r]
    OBVIOUS
  <2>1. row \in ZoneRow /\ ZoneFits(row, subnet[row.subnet])
    BY <1>3, <2>0 DEF CreateZone, ZoneRow, ZoneFits
  <2>2. zone' = [zone EXCEPT ![z] = row]
    BY <1>3, <2>0 DEF CreateZone
  <2>. QED
    BY <1>2, <2>1, <2>2
<1>4. ASSUME NEW kind \in IP_ZONE_KINDS, NEW r \in Ranges, PatchZone(z, kind, r)
      PROVE  zone' \in [ZoneIds -> ZoneRow \cup {None}] /\ ZonesFit'
  <2>0. PICK row : row = [zone[z] EXCEPT !.kind = kind, !.range = r]
    OBVIOUS
  <2>1. zone[z] # None /\ zone[z] \in ZoneRow /\ ZoneFits(zone[z], subnet[zone[z].subnet])
    BY <1>4, TypedRows DEF PatchZone, RowsFit, ZonesFit
  <2>2. row \in ZoneRow /\ row.subnet = zone[z].subnet /\ row.range = r
    BY <2>0, <2>1 DEF ZoneRow
  <2>3. ZoneFits(row, subnet[row.subnet])
    BY <1>4, <2>1, <2>2 DEF PatchZone, ZoneFits
  <2>4. zone' = [zone EXCEPT ![z] = row]
    BY <1>4, <2>0 DEF PatchZone, RowsFit, TypeOK
  <2>. QED
    BY <1>2, <2>2, <2>3, <2>4
<1>5. CASE DeleteZone(z)
  BY <1>1, <1>5 DEF DeleteZone, Without, RowsFit, TypeOK, SubnetsFit, ScopesFit, ZonesFit,
     AssignmentsFit
<1>6. zone' \in [ZoneIds -> ZoneRow \cup {None}] /\ ZonesFit'
  BY <1>3, <1>4, <1>5 DEF RowsFit, TypeOK
<1>. QED
  BY <1>1, <1>6 DEF RowsFit, TypeOK, SubnetsFit, ScopesFit, AssignmentsFit

\* What is written for an assignment fits its subnet, and so do the rows left.
LEMMA AssignmentWritten ==
  ASSUME RowsFit, NEW a \in AssignmentIds, NEW row \in AssignmentRow,
         UNCHANGED <<subnet, scope, zone>>,
         devices \subseteq devices', ports \subseteq ports',
         ports' \subseteq devices', devices' \subseteq Devices,
         assignment' = [assignment EXCEPT ![a] = row],
         AssignmentFits(row, subnet[row.subnet], devices', ports')
  PROVE  RowsFit'
<1>1. /\ assignment' \in [AssignmentIds -> AssignmentRow \cup {None}] /\ assignment'[a] = row
      /\ \A b \in AssignmentIds : b # a => assignment'[b] = assignment[b]
  BY DEF RowsFit, TypeOK
<1>2. ASSUME NEW b \in AssignmentIds, assignment'[b] # None
      PROVE  AssignmentFits(assignment'[b], subnet[assignment'[b].subnet], devices', ports')
  <2>1. CASE b = a
    BY <1>1, <2>1
  <2>2. CASE b # a
    <3>1. AssignmentFits(assignment[b], subnet[assignment[b].subnet], devices, ports)
      BY <1>1, <1>2, <2>2 DEF RowsFit, AssignmentsFit
    <3>. QED
      BY <1>1, <2>2, <3>1 DEF AssignmentFits
  <2>. QED
    BY <2>1, <2>2
<1>3. AssignmentsFit'
  BY <1>2 DEF AssignmentsFit
<1>. QED
  BY <1>1, <1>3 DEF RowsFit, TypeOK, SubnetsFit, ScopesFit, ZonesFit

LEMMA CreateAssignmentKeeps ==
  ASSUME RowsFit, NEW a \in AssignmentIds, NEW r \in AssignmentRow, CreateAssignment(a, r)
  PROVE  RowsFit'
<1>1. AssignmentFits(r, subnet[r.subnet], devices, ports)
  BY DEF CreateAssignment, Semantics, References, AssignmentFits
<1>2. /\ UNCHANGED <<subnet, scope, zone, devices, ports>>
      /\ assignment' = [assignment EXCEPT ![a] = r]
  BY DEF CreateAssignment
<1>3. ports \subseteq devices /\ devices \subseteq Devices
  BY DEF RowsFit, TypeOK
<1>4. AssignmentFits(r, subnet[r.subnet], devices', ports')
  BY <1>1, <1>2
<1>. QED
  BY <1>2, <1>3, <1>4, AssignmentWritten

LEMMA PatchAssignmentKeeps ==
  ASSUME RowsFit, NEW a \in AssignmentIds, NEW r \in AssignmentRow,
         NEW checked \in ALLOCATION_MODES, PatchAssignment(a, r, checked)
  PROVE  RowsFit'
<1>0. PICK old : old = assignment[a]
  OBVIOUS
<1>1. old \in AssignmentRow /\ AssignmentFits(old, subnet[old.subnet], devices, ports)
  BY <1>0, TypedRows DEF PatchAssignment, RowsFit, AssignmentsFit
<1>2. /\ \/ Semantics(a, [r EXCEPT !.mode = checked])
         \/ r.subnet = old.subnet /\ r.ip = old.ip
      /\ \/ References(r)
         \/ r.subnet = old.subnet /\ r.device = old.device /\ r.port = old.port
  BY <1>0, Zenon DEF PatchAssignment
<1>3. AssignmentFits(r, subnet[r.subnet], devices, ports)
  <2>1. subnet[r.subnet] # None /\ r.ip \in Hosts(subnet[r.subnet].cidr)
    <3>1. CASE Semantics(a, [r EXCEPT !.mode = checked])
      <4>1. PICK judged : judged = [r EXCEPT !.mode = checked]
        OBVIOUS
      <4>2. judged.subnet = r.subnet /\ judged.ip = r.ip /\ Semantics(a, judged)
        BY <3>1, <4>1 DEF AssignmentRow
      <4>. QED
        BY <4>2 DEF Semantics
    <3>. QED
      BY <1>1, <1>2, <3>1 DEF AssignmentFits
  <2>3. /\ r.device # None => r.device \in devices /\ LabOf[r.device] = subnet[r.subnet].lab
        /\ r.port # None => /\ r.port \in ports /\ LabOf[r.port] = subnet[r.subnet].lab
                            /\ r.device \in {None, r.port}
    BY <1>1, <1>2 DEF References, AssignmentFits
  <2>. QED
    BY <2>1, <2>3 DEF AssignmentFits
<1>4. /\ UNCHANGED <<subnet, scope, zone, devices, ports>>
      /\ assignment' = [assignment EXCEPT ![a] = r]
  BY DEF PatchAssignment
<1>5. ports \subseteq devices /\ devices \subseteq Devices
  BY DEF RowsFit, TypeOK
<1>6. AssignmentFits(r, subnet[r.subnet], devices', ports')
  BY <1>3, <1>4
<1>. QED
  BY <1>4, <1>5, <1>6, AssignmentWritten

LEMMA ImportDeviceKeeps ==
  ASSUME RowsFit, NEW d \in Devices, NEW s \in SubnetIds, NEW a \in AssignmentIds,
         NEW ip \in Ips, ImportDevice(d, s, a, ip)
  PROVE  RowsFit'
<1>1. PICK port \in {None, d} :
        assignment' = [assignment EXCEPT ![a] =
          [subnet |-> s, ip |-> ip, type |-> "device", mode |-> "static",
           scope |-> None, device |-> d, port |-> port]]
  BY DEF ImportDevice
<1>2. PICK row : row = [subnet |-> s, ip |-> ip, type |-> "device", mode |-> "static",
                        scope |-> None, device |-> d, port |-> port]
  OBVIOUS
<1>3. /\ row \in AssignmentRow /\ row.subnet = s /\ row.ip = ip /\ row.mode = "static"
      /\ row.scope = None /\ row.device = d /\ row.port \in {None, d}
      /\ assignment' = [assignment EXCEPT ![a] = row]
  BY <1>1, <1>2 DEF AssignmentRow, ASSIGNMENT_TYPES, ALLOCATION_MODES
<1>4. /\ UNCHANGED <<subnet, scope, zone>>
      /\ devices' = devices \cup {d} /\ ports' = ports \cup {d}
      /\ subnet[s] # None /\ subnet[s].lab = LabOf[d] /\ ip \in Hosts(subnet[s].cidr)
  BY DEF ImportDevice
<1>5. AssignmentFits(row, subnet[row.subnet], devices', ports')
  BY <1>3, <1>4 DEF AssignmentFits
<1>6. /\ devices \subseteq devices' /\ ports \subseteq ports'
      /\ ports' \subseteq devices' /\ devices' \subseteq Devices
  BY <1>4 DEF RowsFit, TypeOK
<1>. QED
  BY <1>3, <1>4, <1>5, <1>6, AssignmentWritten

\* Devices and ports come without touching a row, and what referred to one
\* that goes, goes with it or forgets it.
LEMMA DevicesComeKeep ==
  ASSUME RowsFit, NEW d \in Devices, CreateDevice(d) \/ CreatePort(d)
  PROVE  RowsFit'
<1>1. /\ UNCHANGED <<subnet, scope, zone, assignment>>
      /\ devices \subseteq devices' /\ ports \subseteq ports'
      /\ ports' \subseteq devices' /\ devices' \subseteq Devices
  BY DEF CreateDevice, CreatePort, RowsFit, TypeOK
<1>2. ASSUME NEW a \in AssignmentIds, assignment[a] # None
      PROVE  AssignmentFits(assignment[a], subnet[assignment[a].subnet], devices', ports')
  <2>1. AssignmentFits(assignment[a], subnet[assignment[a].subnet], devices, ports)
    BY <1>2 DEF RowsFit, AssignmentsFit
  <2>. QED
    BY <1>1, <2>1 DEF AssignmentFits
<1>. QED
  BY <1>1, <1>2 DEF RowsFit, TypeOK, SubnetsFit, ScopesFit, ZonesFit, AssignmentsFit

LEMMA DeleteAssignmentKeeps ==
  ASSUME RowsFit, NEW a \in AssignmentIds, DeleteAssignment(a)
  PROVE  RowsFit'
  BY DEF DeleteAssignment, Without, RowsFit, TypeOK, SubnetsFit, ScopesFit, ZonesFit, AssignmentsFit

LEMMA DeleteDeviceKeeps ==
  ASSUME RowsFit, NEW d \in Devices, DeleteDevice(d)
  PROVE  RowsFit'
<1>0. PICK gone : gone = {a \in Rows(assignment) : d \in {assignment[a].device, assignment[a].port}}
  OBVIOUS
<1>1. /\ UNCHANGED <<subnet, scope, zone>>
      /\ devices' = devices \ {d} /\ ports' = ports \ {d}
      /\ assignment' = Without(assignment, gone)
  BY <1>0 DEF DeleteDevice
<1>2. /\ assignment' \in [AssignmentIds -> AssignmentRow \cup {None}]
      /\ \A a \in AssignmentIds : assignment'[a] # None =>
           assignment'[a] = assignment[a] /\ a \notin gone
  BY <1>1 DEF Without, RowsFit, TypeOK
<1>3. ASSUME NEW a \in AssignmentIds, assignment'[a] # None
      PROVE  AssignmentFits(assignment'[a], subnet[assignment'[a].subnet], devices', ports')
  <2>1. /\ assignment'[a] = assignment[a]
        /\ assignment[a].device # d /\ assignment[a].port # d
    BY <1>0, <1>2, <1>3, TableRows DEF RowsFit
  <2>2. AssignmentFits(assignment[a], subnet[assignment[a].subnet], devices, ports)
    BY <1>3, <2>1 DEF RowsFit, AssignmentsFit
  <2>. QED
    BY <1>1, <2>1, <2>2 DEF AssignmentFits
<1>. QED
  BY <1>1, <1>2, <1>3 DEF RowsFit, TypeOK, SubnetsFit, ScopesFit, ZonesFit, AssignmentsFit

LEMMA DeletePortKeeps ==
  ASSUME RowsFit, NEW d \in Devices, DeletePort(d)
  PROVE  RowsFit'
<1>1. UNCHANGED <<subnet, scope, zone, devices>> /\ ports' = ports \ {d}
  BY DEF DeletePort
<1>2. ASSUME NEW a \in AssignmentIds
      PROVE  /\ assignment'[a] \in AssignmentRow \cup {None}
             /\ assignment'[a] # None =>
                  AssignmentFits(assignment'[a], subnet[assignment'[a].subnet], devices, ports')
  <2>1. assignment[a] # None =>
          /\ assignment[a] \in AssignmentRow
          /\ AssignmentFits(assignment[a], subnet[assignment[a].subnet], devices, ports)
    BY TypedRows DEF RowsFit, AssignmentsFit
  <2>2. CASE assignment[a] # None /\ assignment[a].port = d
    <3>0. PICK row : row = [assignment[a] EXCEPT !.port = None]
      OBVIOUS
    <3>1. assignment'[a] = row
      BY <2>2, <3>0 DEF DeletePort
    <3>2. /\ row \in AssignmentRow /\ row.port = None /\ row.subnet = assignment[a].subnet
          /\ row.ip = assignment[a].ip /\ row.mode = assignment[a].mode
          /\ row.scope = assignment[a].scope /\ row.device = assignment[a].device
      BY <2>1, <2>2, <3>0 DEF AssignmentRow
    <3>. QED
      BY <2>1, <2>2, <3>1, <3>2 DEF AssignmentFits
  <2>3. CASE ~ (assignment[a] # None /\ assignment[a].port = d)
    <3>1. assignment'[a] = assignment[a]
      BY <2>3 DEF DeletePort
    <3>. QED
      BY <1>1, <2>1, <2>3, <3>1 DEF AssignmentFits
  <2>. QED
    BY <2>2, <2>3
<1>3. assignment' \in [AssignmentIds -> AssignmentRow \cup {None}]
  BY <1>2 DEF DeletePort
<1>. QED
  BY <1>1, <1>2, <1>3 DEF RowsFit, TypeOK, SubnetsFit, ScopesFit, ZonesFit, AssignmentsFit

-----------------------------------------------------------------------------
(***************************************************************************)
(* Every request keeps each named scope with its subnet.                   *)
(***************************************************************************)
\* What a step may do to an assignment and to the scope it names.
SameOwner(old, new) == old # None /\ new.scope \in {old.scope, None} /\ new.subnet = old.subnet

LEMMA SameOwnerSameScopes ==
  ASSUME Inv, NEW a \in AssignmentIds, SameOwner(assignment[a], assignment'[a]),
         assignment'[a].scope # None =>
           /\ scope[assignment'[a].scope] # None => scope'[assignment'[a].scope] # None
           /\ scope[assignment'[a].scope] # None =>
                scope'[assignment'[a].scope].subnet = scope[assignment'[a].scope].subnet
  PROVE  Owned(assignment'[a], scope')
  BY DEF Inv, ScopesOwned, Owned, SameOwner

LEMMA JudgedIsOwned ==
  ASSUME NEW a, NEW r \in AssignmentRow, NEW checked,
         Semantics(a, [r EXCEPT !.mode = checked])
  PROVE  /\ Owned(r, scope)
         /\ checked = "dhcp-reservation" => r.scope # None
<1>1. PICK judged : judged = [r EXCEPT !.mode = checked]
  OBVIOUS
<1>2. /\ judged.subnet = r.subnet /\ judged.scope = r.scope /\ judged.mode = checked
      /\ Semantics(a, judged)
  BY <1>1 DEF AssignmentRow
<1>. QED
  BY <1>2 DEF Semantics, ReservationAllowed, StaticAllowed, Owned

LEMMA ScopeRequestsKeepOwners ==
  ASSUME Inv, ScopeStep, NEW a \in AssignmentIds, assignment'[a] # None
  PROVE  Owned(assignment'[a], scope')
<1>1. PICK c \in ScopeIds, r \in Ranges, g \in Gateways \cup {None} :
        \/ \E s \in SubnetIds : CreateScope(c, s, r, g) \/ SyncScope(c, s, r)
        \/ PatchScope(c, r, g)
  BY DEF ScopeStep
<1>2. SameOwner(assignment[a], assignment'[a])
  BY <1>1 DEF CreateScope, SyncScope, PatchScope, SameOwner
<1>3. \A x \in ScopeIds : scope[x] # None =>
        scope'[x] # None /\ scope'[x].subnet = scope[x].subnet
  <2>1. CASE \E s \in SubnetIds : CreateScope(c, s, r, g) \/ SyncScope(c, s, r)
    BY <2>1 DEF CreateScope, SyncScope, Inv, TypeOK
  <2>2. CASE PatchScope(c, r, g)
    <3>1. PICK row : row = [scope[c] EXCEPT !.range = r, !.gateway = g]
      OBVIOUS
    <3>2. scope[c] # None /\ scope[c] \in ScopeRow
      BY <2>2 DEF PatchScope, Inv, TypeOK
    <3>3. row \in ScopeRow /\ row.subnet = scope[c].subnet
      BY <3>1, <3>2 DEF ScopeRow
    <3>4. scope' = [scope EXCEPT ![c] = row]
      BY <2>2, <3>1 DEF PatchScope, Inv, TypeOK
    <3>. QED
      BY <3>3, <3>4, NoneAssumption DEF Inv, TypeOK
  <2>. QED
    BY <1>1, <2>1, <2>2
<1>4. assignment'[a].scope # None => assignment'[a].scope \in ScopeIds
  BY <1>1, TypedRows DEF CreateScope, SyncScope, PatchScope, RowsFit, Inv, TypeOK, AssignmentRow
<1>. QED
  BY <1>2, <1>3, <1>4, SameOwnerSameScopes

\* A deleted scope is forgotten by those that named it.
LEMMA DeletionsKeepOwners ==
  ASSUME Inv, NEW gone, scope' = Without(scope, gone),
         NEW left \in [AssignmentIds -> AssignmentRow \cup {None}],
         \A x \in AssignmentIds : left[x] # None => left[x] = assignment[x],
         assignment' = WithoutScopes(left, gone),
         NEW a \in AssignmentIds, assignment'[a] # None
  PROVE  Owned(assignment'[a], scope')
<1>1. /\ left[a] # None
      /\ assignment'[a].subnet = left[a].subnet
      /\ left[a].scope \notin gone => assignment'[a] = left[a]
      /\ left[a].scope \in gone => assignment'[a].scope = None
  BY Unscoped
<1>2. left[a] = assignment[a] /\ assignment[a] \in AssignmentRow
  BY <1>1, TypedRows DEF RowsFit, Inv
<1>3. CASE left[a].scope \in gone
  BY <1>1, <1>3 DEF Owned
<1>4. CASE left[a].scope \notin gone
  <2>1. assignment'[a] = assignment[a] /\ Owned(assignment[a], scope)
    BY <1>1, <1>2, <1>4 DEF Inv, ScopesOwned
  <2>2. assignment[a].scope # None => scope'[assignment[a].scope] = scope[assignment[a].scope]
    BY <1>2, <1>4 DEF Without, Inv, TypeOK, AssignmentRow
  <2>. QED
    BY <2>1, <2>2 DEF Owned
<1>. QED
  BY <1>3, <1>4

LEMMA AssignmentRequestsKeepOwners ==
  ASSUME Inv, AssignmentStep, NEW a \in AssignmentIds, assignment'[a] # None
  PROVE  Owned(assignment'[a], scope')
<1>1. PICK x \in AssignmentIds, r \in AssignmentRow :
        CreateAssignment(x, r) \/ \E checked \in ALLOCATION_MODES : PatchAssignment(x, r, checked)
  BY DEF AssignmentStep
<1>2. /\ assignment' = [assignment EXCEPT ![x] = r] /\ scope' = scope
      /\ assignment \in [AssignmentIds -> AssignmentRow \cup {None}]
  BY <1>1 DEF CreateAssignment, PatchAssignment, Inv, TypeOK
<1>3. Owned(r, scope)
  <2>1. CASE CreateAssignment(x, r)
    BY <2>1 DEF CreateAssignment, Semantics, ReservationAllowed, StaticAllowed, Owned
  <2>2. ASSUME NEW checked \in ALLOCATION_MODES, PatchAssignment(x, r, checked)
        PROVE  Owned(r, scope)
    <3>1. \/ Semantics(x, [r EXCEPT !.mode = checked])
          \/ r.subnet = assignment[x].subnet /\ r.scope = assignment[x].scope
      BY <2>2, Zenon DEF PatchAssignment
    <3>2. assignment[x] # None
      BY <2>2 DEF PatchAssignment
    <3>3. Owned(assignment[x], scope)
      BY <3>2 DEF Inv, ScopesOwned
    <3>. QED
      BY <3>1, <3>3, JudgedIsOwned DEF Owned
  <2>. QED
    BY <1>1, <2>1, <2>2
<1>. QED
  BY <1>2, <1>3 DEF Inv, ScopesOwned

LEMMA PortDeletionKeepsOwners ==
  ASSUME Inv, NEW d \in Devices, DeletePort(d), NEW a \in AssignmentIds, assignment'[a] # None
  PROVE  Owned(assignment'[a], scope')
<1>1. scope' = scope
  BY DEF DeletePort
<1>2. CASE assignment[a] # None /\ assignment[a].port = d
  <2>1. assignment'[a] = [assignment[a] EXCEPT !.port = None] /\ assignment[a] \in AssignmentRow
    BY <1>2 DEF DeletePort, Inv, TypeOK
  <2>2. assignment'[a].scope = assignment[a].scope /\ assignment'[a].subnet = assignment[a].subnet
    BY <2>1 DEF AssignmentRow
  <2>. QED
    BY <1>1, <1>2, <2>2 DEF Inv, ScopesOwned, Owned
<1>3. CASE ~ (assignment[a] # None /\ assignment[a].port = d)
  <2>1. assignment'[a] = assignment[a]
    BY <1>3 DEF DeletePort
  <2>. QED
    BY <1>1, <2>1 DEF Inv, ScopesOwned
<1>. QED
  BY <1>2, <1>3

LEMMA NetworksKeepOwners ==
  ASSUME Inv, SubnetStep, NEW a \in AssignmentIds, assignment'[a] # None
  PROVE  Owned(assignment'[a], scope')
<1>1. PICK u \in SubnetIds, k \in Cidrs, g \in Gateways \cup {None} :
        \/ \E lab \in Labs : CreateSubnet(u, lab, k, g)
        \/ PatchSubnet(u, k, g)
        \/ \E lab \in Labs, c \in ScopeIds, rc, rz \in Ranges, gc \in Gateways \cup {None},
              z \in ZoneIds, kind \in IP_ZONE_KINDS :
             CreateNetwork(u, lab, k, g, c, rc, gc, z, kind, rz)
  BY DEF SubnetStep
<1>2. /\ UNCHANGED assignment
      /\ \/ UNCHANGED scope
         \/ \E c \in ScopeIds : \E row : scope[c] = None /\ scope' = [scope EXCEPT ![c] = row]
  BY <1>1 DEF CreateSubnet, PatchSubnet, CreateNetwork
<1>3. \A x \in ScopeIds : scope[x] # None => scope'[x] = scope[x]
  BY <1>2 DEF Inv, TypeOK
<1>4. Owned(assignment[a], scope) /\ assignment[a] \in AssignmentRow
  BY <1>2, TypedRows DEF RowsFit, Inv, ScopesOwned
<1>. QED
  BY <1>2, <1>3, <1>4 DEF Owned, AssignmentRow

LEMMA ScopesStayOwned == Inv /\ [Next]_vars => ScopesOwned'
<1>. SUFFICES ASSUME Inv, [Next]_vars, NEW a \in AssignmentIds, assignment'[a] # None
              PROVE  Owned(assignment'[a], scope')
  BY DEF ScopesOwned
<1>0. PICK left : left = assignment
  OBVIOUS
<1>1. ASSUME assignment'[a] = assignment[a], scope' = scope
      PROVE  Owned(assignment'[a], scope')
  BY <1>1 DEF Inv, ScopesOwned
<1>2. CASE SubnetStep \/ ScopeStep \/ AssignmentStep
  BY <1>2, NetworksKeepOwners, ScopeRequestsKeepOwners, AssignmentRequestsKeepOwners
<1>3. ASSUME NEW u \in SubnetIds, DeleteSubnet(u)
      PROVE  Owned(assignment'[a], scope')
  <2>0. PICK kept : kept = Without(assignment, In(assignment, u))
    OBVIOUS
  <2>1. /\ kept \in [AssignmentIds -> AssignmentRow \cup {None}]
        /\ \A x \in AssignmentIds : kept[x] # None => kept[x] = assignment[x]
    BY <2>0 DEF Without, Inv, TypeOK
  <2>2. PICK gone : gone = In(scope, u)
    OBVIOUS
  <2>3. assignment' = WithoutScopes(kept, gone) /\ scope' = Without(scope, gone)
    BY <1>3, <2>0, <2>2 DEF DeleteSubnet
  <2>. QED
    BY <2>1, <2>3, DeletionsKeepOwners
<1>4. ASSUME NEW c \in ScopeIds, DeleteScope(c)
      PROVE  Owned(assignment'[a], scope')
  <2>1. assignment' = WithoutScopes(left, {c}) /\ scope' = Without(scope, {c})
    BY <1>0, <1>4 DEF DeleteScope
  <2>2. left \in [AssignmentIds -> AssignmentRow \cup {None}]
    BY <1>0 DEF Inv, TypeOK
  <2>. QED
    BY <1>0, <2>1, <2>2, DeletionsKeepOwners
<1>5. CASE \/ ZoneStep \/ UNCHANGED vars
           \/ \E z \in ZoneIds : DeleteZone(z)
           \/ \E d \in Devices : CreateDevice(d) \/ CreatePort(d)
  BY <1>1, <1>5 DEF ZoneStep, CreateZone, PatchZone, DeleteZone, CreateDevice, CreatePort, vars
<1>6. CASE \/ \E x \in AssignmentIds : DeleteAssignment(x)
           \/ \E d \in Devices : DeleteDevice(d)
  BY <1>1, <1>6 DEF DeleteAssignment, DeleteDevice, Without, Inv, TypeOK
<1>7. CASE \E d \in Devices : DeletePort(d)
  BY <1>7, PortDeletionKeepsOwners
<1>8. ASSUME NEW d \in Devices, NEW s \in SubnetIds, NEW x \in AssignmentIds, NEW ip \in Ips,
             ImportDevice(d, s, x, ip)
      PROVE  Owned(assignment'[a], scope')
  <2>1. scope' = scope /\ \E port :
          assignment' = [assignment EXCEPT ![x] =
            [subnet |-> s, ip |-> ip, type |-> "device", mode |-> "static",
             scope |-> None, device |-> d, port |-> port]]
    BY <1>8 DEF ImportDevice
  <2>2. CASE a = x
    BY <2>1, <2>2 DEF Inv, TypeOK, Owned
  <2>3. CASE a # x
    BY <1>1, <2>1, <2>3 DEF Inv, TypeOK
  <2>. QED
    BY <2>2, <2>3
<1>. QED
  BY <1>2, <1>3, <1>4, <1>5, <1>6, <1>7, <1>8 DEF Next

LEMMA Initially == Init => Inv
<1>. SUFFICES ASSUME Init PROVE Inv
  OBVIOUS
<1>1. /\ scope = [c \in ScopeIds |-> None] /\ zone = [z \in ZoneIds |-> None]
      /\ assignment = [a \in AssignmentIds |-> None] /\ devices = Devices /\ ports = Devices
  BY DEF Init
<1>2. ASSUME NEW s \in SubnetIds
      PROVE  /\ subnet[s] \in SubnetRow \cup {None}
             /\ subnet[s] # None => subnet[s].gateway = None
  <2>1. CASE subnet = [t \in SubnetIds |-> None]
    BY <2>1
  <2>2. CASE subnet \in LegacySubnets
    BY <2>2 DEF LegacySubnets, LegacyRow, SubnetRow
  <2>. QED
    BY <2>1, <2>2 DEF Init
<1>3. subnet \in [SubnetIds -> SubnetRow \cup {None}]
  <2>1. CASE subnet = [t \in SubnetIds |-> None]
    BY <2>1
  <2>2. CASE subnet \in LegacySubnets
    <3>1. subnet \in [SubnetIds -> LegacyRow \cup {None}]
      BY <2>2 DEF LegacySubnets
    <3>. QED
      BY <1>2, <3>1
  <2>. QED
    BY <2>1, <2>2 DEF Init
<1>. QED
  BY <1>1, <1>2, <1>3 DEF Inv, TypeOK, SubnetsFit, SubnetFits, GatewayFits, ScopesFit, ZonesFit,
     AssignmentsFit, ScopesOwned

LEMMA RowsStayFit == Inv /\ [Next]_vars => RowsFit'
<1>. SUFFICES ASSUME Inv, [Next]_vars PROVE RowsFit'
  OBVIOUS
<1>0. RowsFit
  BY DEF Inv, RowsFit
<1>1. CASE SubnetStep
  <2>1. PICK s \in SubnetIds, k \in Cidrs, g \in Gateways \cup {None} :
          \/ \E lab \in Labs : CreateSubnet(s, lab, k, g)
          \/ PatchSubnet(s, k, g)
          \/ \E lab \in Labs, c \in ScopeIds, rc, rz \in Ranges, gc \in Gateways \cup {None},
                z \in ZoneIds, kind \in IP_ZONE_KINDS :
               CreateNetwork(s, lab, k, g, c, rc, gc, z, kind, rz)
    BY <1>1 DEF SubnetStep
  <2>2. CASE \E lab \in Labs : CreateSubnet(s, lab, k, g)
    BY <1>0, <2>2, CreateSubnetKeeps
  <2>3. CASE PatchSubnet(s, k, g)
    BY <1>0, <2>3, PatchSubnetKeeps
  <2>4. CASE \E lab \in Labs, c \in ScopeIds, rc, rz \in Ranges, gc \in Gateways \cup {None},
               z \in ZoneIds, kind \in IP_ZONE_KINDS :
              CreateNetwork(s, lab, k, g, c, rc, gc, z, kind, rz)
    BY <1>0, <2>4, CreateNetworkKeeps
  <2>. QED
    BY <2>1, <2>2, <2>3, <2>4
<1>2. CASE ScopeStep
  BY <1>0, <1>2, ScopeRequestsKeep DEF ScopeStep
<1>3. CASE ZoneStep
  BY <1>0, <1>3, ZoneRequestsKeep DEF ZoneStep
<1>4. CASE AssignmentStep
  BY <1>0, <1>4, CreateAssignmentKeeps, PatchAssignmentKeeps DEF AssignmentStep
<1>5. CASE \/ \E s \in SubnetIds : DeleteSubnet(s)
           \/ \E c \in ScopeIds : DeleteScope(c)
           \/ \E z \in ZoneIds : DeleteZone(z)
           \/ \E a \in AssignmentIds : DeleteAssignment(a)
  BY <1>0, <1>5, DeleteSubnetKeeps, DeleteScopeKeeps, ZoneRequestsKeep, DeleteAssignmentKeeps
<1>6. CASE \E d \in Devices :
             CreateDevice(d) \/ CreatePort(d) \/ DeletePort(d) \/ DeleteDevice(d)
  BY <1>0, <1>6, DevicesComeKeep, DeletePortKeeps, DeleteDeviceKeeps
<1>7. CASE \E d \in Devices, s \in SubnetIds, a \in AssignmentIds, ip \in Ips :
             ImportDevice(d, s, a, ip)
  BY <1>0, <1>7, ImportDeviceKeeps
<1>8. CASE UNCHANGED vars
  BY <1>0, <1>8 DEF vars, RowsFit, TypeOK, SubnetsFit, ScopesFit, ZonesFit, AssignmentsFit
<1>. QED
  BY <1>1, <1>2, <1>3, <1>4, <1>5, <1>6, <1>7, <1>8 DEF Next

LEMMA Inductive == Inv /\ [Next]_vars => Inv'
  BY RowsStayFit, ScopesStayOwned DEF Inv, RowsFit

LEMMA Invariance == Spec => []Inv
  BY Initially, Inductive, PTL DEF Spec

\* The code behaviour: whatever requests the routes of ipam.ts, devices.ts and
\* the imports serve, validateBackupNetworkIntegrity finds every block, range,
\* gateway, address and reference of the tables in order, the scope of an assignment
\* too; of its demands only those on overlaps, on what a reservation's scope holds
\* and on static assignments that name a scope may fail.
THEOREM TablesStayRestorable == Spec => []BackupIsRestorable
  BY Invariance, RestorableByRow, PTL
-----------------------------------------------------------------------------
(***************************************************************************)
(* Overlaps only shrink.                                                   *)
(***************************************************************************)
\* Which tables a request never writes.
LEMMA TablesLeftAlone ==
  /\ SubnetStep => UNCHANGED assignment
  /\ ScopeStep => UNCHANGED <<subnet, zone, assignment>>
  /\ ZoneStep => UNCHANGED <<subnet, scope, assignment>>
  /\ AssignmentStep => UNCHANGED <<subnet, scope, zone>>
  /\ \A c \in ScopeIds : DeleteScope(c) => UNCHANGED <<subnet, zone>>
  /\ \A z \in ZoneIds : DeleteZone(z) => UNCHANGED <<subnet, scope, assignment>>
  /\ \A a \in AssignmentIds : DeleteAssignment(a) => UNCHANGED <<subnet, scope, zone>>
  /\ \A d \in Devices : CreateDevice(d) \/ CreatePort(d)
                         => UNCHANGED <<subnet, scope, zone, assignment>>
  /\ \A d \in Devices : DeletePort(d) \/ DeleteDevice(d) => UNCHANGED <<subnet, scope, zone>>
  /\ \A d \in Devices, s \in SubnetIds, a \in AssignmentIds, ip \in Ips :
       ImportDevice(d, s, a, ip) => UNCHANGED <<subnet, scope, zone>>
<1>1. SubnetStep => UNCHANGED assignment
  <2>1. SUFFICES ASSUME SubnetStep PROVE UNCHANGED assignment
    OBVIOUS
  <2>2. PICK u \in SubnetIds, k \in Cidrs, g \in Gateways \cup {None} :
          \/ \E lab \in Labs : CreateSubnet(u, lab, k, g)
          \/ PatchSubnet(u, k, g)
          \/ \E lab \in Labs, c \in ScopeIds, rc, rz \in Ranges, gc \in Gateways \cup {None},
                z \in ZoneIds, kind \in IP_ZONE_KINDS :
               CreateNetwork(u, lab, k, g, c, rc, gc, z, kind, rz)
    BY <2>1 DEF SubnetStep
  <2>. QED
    BY <2>2 DEF CreateSubnet, PatchSubnet, CreateNetwork
<1>2. ScopeStep => UNCHANGED <<subnet, zone, assignment>>
  BY DEF ScopeStep, CreateScope, SyncScope, PatchScope
<1>3. ZoneStep => UNCHANGED <<subnet, scope, assignment>>
  BY DEF ZoneStep, CreateZone, PatchZone
<1>4. AssignmentStep => UNCHANGED <<subnet, scope, zone>>
  BY DEF AssignmentStep, CreateAssignment, PatchAssignment
<1>5. \A c \in ScopeIds : DeleteScope(c) => UNCHANGED <<subnet, zone>>
  BY DEF DeleteScope
<1>6. \A z \in ZoneIds : DeleteZone(z) => UNCHANGED <<subnet, scope, assignment>>
  BY DEF DeleteZone
<1>7. \A a \in AssignmentIds : DeleteAssignment(a) => UNCHANGED <<subnet, scope, zone>>
  BY DEF DeleteAssignment
<1>8. \A d \in Devices : CreateDevice(d) \/ CreatePort(d)
                         => UNCHANGED <<subnet, scope, zone, assignment>>
  BY DEF CreateDevice, CreatePort
<1>9. \A d \in Devices : DeletePort(d) \/ DeleteDevice(d) => UNCHANGED <<subnet, scope, zone>>
  BY DEF DeletePort, DeleteDevice
<1>10. \A d \in Devices, s \in SubnetIds, a \in AssignmentIds, ip \in Ips :
         ImportDevice(d, s, a, ip) => UNCHANGED <<subnet, scope, zone>>
  BY DEF ImportDevice
<1>. QED
  BY <1>1, <1>2, <1>3, <1>4, <1>5, <1>6, <1>7, <1>8, <1>9, <1>10

Overlap(x, s, t) ==
  /\ s # t /\ x[s] # None /\ x[t] # None
  /\ x[s].lab = x[t].lab /\ x[s].cidr \cap x[t].cidr # {}

LEMMA HealthyMeans ==
  ASSUME TypeOK, NEW s \in SubnetIds, subnet[s] # None
  PROVE  Healthy(s) <=> \A t \in SubnetIds : ~ Overlap(subnet, s, t)
<1>1. Conflicts(s, subnet[s].lab, subnet[s].cidr) =
        {t \in SubnetIds : Overlap(subnet, s, t)}
  BY TableRows DEF Conflicts, Overlap
<1>. QED
  BY <1>1 DEF Healthy

LEMMA NoConflict ==
  ASSUME TypeOK, NEW s \in SubnetIds, NEW lab, NEW k, Conflicts(s, lab, k) = {}
  PROVE  \A t \in SubnetIds \ {s} :
           subnet[t] # None => subnet[t].lab # lab \/ subnet[t].cidr \cap k = {}
  BY TableRows DEF Conflicts

\* A block is written where it overlaps none, or not written.
LEMMA OverlapsStay ==
  ASSUME Inv, Next, NEW s \in SubnetIds, NEW t \in SubnetIds, Overlap(subnet', s, t)
  PROVE  Overlap(subnet, s, t)
<1>. SUFFICES ASSUME subnet' # subnet PROVE Overlap(subnet, s, t)
  OBVIOUS
<1>1. ASSUME NEW u \in SubnetIds, NEW lab, NEW k, NEW row,
             row.lab = lab, row.cidr = k, row # None, Conflicts(u, lab, k) = {},
             subnet' = [subnet EXCEPT ![u] = row]
      PROVE  Overlap(subnet, s, t)
  <2>1. \A v \in SubnetIds \ {u} :
          subnet[v] # None => subnet[v].lab # lab \/ subnet[v].cidr \cap k = {}
    BY <1>1, NoConflict DEF Inv
  <2>2. subnet'[u] = row /\ \A v \in SubnetIds : v # u => subnet'[v] = subnet[v]
    BY <1>1 DEF Inv, TypeOK
  <2>3. ASSUME NEW v \in SubnetIds \ {u}, subnet[v] # None, subnet[v].lab = lab
        PROVE  subnet[v].cidr \cap k = {} /\ k \cap subnet[v].cidr = {}
    BY <2>1, <2>3
  <2>. QED
    BY <1>1, <2>2, <2>3 DEF Overlap
<1>2. ASSUME NEW u \in SubnetIds, NEW lab \in Labs, NEW k \in Cidrs,
             NEW g \in Gateways \cup {None},
             Conflicts(u, lab, k) = {}, subnet' = NewSubnet(u, lab, k, g)
      PROVE  Overlap(subnet, s, t)
  <2>0. PICK row : row = [lab |-> lab, cidr |-> k, gateway |-> g]
    OBVIOUS
  <2>1. /\ row \in SubnetRow /\ row.lab = lab /\ row.cidr = k
        /\ subnet' = [subnet EXCEPT ![u] = row]
    BY <1>2, <2>0 DEF NewSubnet, SubnetRow
  <2>2. row # None
    BY <2>1, NoneAssumption
  <2>. QED
    BY <1>1, <1>2, <2>1, <2>2
<1>3. ASSUME NEW u \in SubnetIds, NEW k \in Cidrs, NEW g \in Gateways \cup {None},
             PatchSubnet(u, k, g)
      PROVE  Overlap(subnet, s, t)
  <2>0. PICK row : row = [subnet[u] EXCEPT !.cidr = k, !.gateway = g]
    OBVIOUS
  <2>1. subnet[u] \in SubnetRow /\ subnet[u] # None
    BY <1>3 DEF Inv, TypeOK, PatchSubnet
  <2>2. /\ row \in SubnetRow /\ row.lab = subnet[u].lab /\ row.cidr = k
        /\ subnet' = [subnet EXCEPT ![u] = row]
    BY <1>3, <2>0, <2>1 DEF PatchSubnet, SubnetRow, Inv, TypeOK
  <2>3. row # None
    BY <2>2, NoneAssumption
  <2>4. CASE k = subnet[u].cidr
    <3>1. subnet'[u] = row /\ \A v \in SubnetIds : v # u => subnet'[v] = subnet[v]
      BY <2>2 DEF Inv, TypeOK
    <3>. QED
      BY <2>1, <2>2, <2>4, <3>1 DEF Overlap
  <2>5. CASE k # subnet[u].cidr
    <3>1. Conflicts(u, subnet[u].lab, k) = {}
      BY <1>3, <2>5 DEF PatchSubnet
    <3>2. PICK lab : lab = subnet[u].lab
      OBVIOUS
    <3>. QED
      BY <1>1, <2>2, <2>3, <3>1, <3>2
  <2>. QED
    BY <2>4, <2>5
<1>4. CASE SubnetStep
  BY <1>2, <1>3, <1>4 DEF SubnetStep, CreateSubnet, CreateNetwork
<1>5. ASSUME NEW u \in SubnetIds, DeleteSubnet(u)
      PROVE  Overlap(subnet, s, t)
  <2>1. \A v \in SubnetIds : subnet'[v] # None => subnet'[v] = subnet[v]
    BY <1>5 DEF DeleteSubnet, Without, Inv, TypeOK
  <2>. QED
    BY <2>1 DEF Overlap
<1>6. SubnetStep \/ \E u \in SubnetIds : DeleteSubnet(u)
  BY TablesLeftAlone DEF Next
<1>. QED
  BY <1>4, <1>5, <1>6

\* What a step does to a row of a table: it leaves it in its subnet, unless the
\* row is put into a subnet that overlaps no other or did not exist.
Settled(old, new, s) == new # None /\ new.subnet = s => old # None /\ old.subnet = s

LEMMA ScopesSettled ==
  ASSUME Inv, Next, NEW s \in SubnetIds, subnet[s] # None, ~ Healthy(s), NEW c \in ScopeIds,
         ~ \E x \in ScopeIds, r \in Ranges : SyncScope(x, s, r)
  PROVE  Settled(scope[c], scope'[c], s)
<1>. SUFFICES ASSUME scope' # scope PROVE Settled(scope[c], scope'[c], s)
  BY DEF Settled
<1>0. scope \in [ScopeIds -> ScopeRow \cup {None}] /\ DOMAIN scope = ScopeIds
  BY DEF Inv, TypeOK
<1>1. ASSUME NEW u \in SubnetIds, NEW x \in ScopeIds, NEW r, NEW g, u # s,
             scope' = [scope EXCEPT ![x] = [subnet |-> u, range |-> r, gateway |-> g]]
      PROVE  Settled(scope[c], scope'[c], s)
  BY <1>0, <1>1 DEF Settled
<1>2. CASE SubnetStep
  BY <1>1, <1>2 DEF SubnetStep, CreateSubnet, PatchSubnet, CreateNetwork
<1>3. CASE ScopeStep
  <2>1. PICK x \in ScopeIds, r \in Ranges, g \in Gateways \cup {None} :
          \/ \E u \in SubnetIds : CreateScope(x, u, r, g) \/ SyncScope(x, u, r)
          \/ PatchScope(x, r, g)
    BY <1>3 DEF ScopeStep
  <2>2. ASSUME NEW u \in SubnetIds, CreateScope(x, u, r, g) \/ SyncScope(x, u, r)
        PROVE  Settled(scope[c], scope'[c], s)
    BY <1>1, <2>2 DEF CreateScope, SyncScope
  <2>3. CASE PatchScope(x, r, g)
    <3>0. PICK row : row = [scope[x] EXCEPT !.range = r, !.gateway = g]
      OBVIOUS
    <3>1. scope[x] # None /\ scope[x] \in ScopeRow
      BY <1>0, <2>3 DEF PatchScope
    <3>2. row.subnet = scope[x].subnet
      BY <3>0, <3>1 DEF ScopeRow
    <3>3. scope' = [scope EXCEPT ![x] = row]
      BY <1>0, <2>3, <3>0 DEF PatchScope
    <3>. QED
      BY <1>0, <3>1, <3>2, <3>3 DEF Settled
  <2>. QED
    BY <2>1, <2>2, <2>3
<1>4. CASE \E u \in SubnetIds : DeleteSubnet(u)
  BY <1>0, <1>4 DEF DeleteSubnet, Without, Settled
<1>5. CASE \E x \in ScopeIds : DeleteScope(x)
  BY <1>0, <1>5 DEF DeleteScope, Without, Settled
<1>6. \/ SubnetStep \/ ScopeStep
      \/ \E u \in SubnetIds : DeleteSubnet(u)
      \/ \E x \in ScopeIds : DeleteScope(x)
  BY TablesLeftAlone DEF Next
<1>. QED
  BY <1>2, <1>3, <1>4, <1>5, <1>6

LEMMA ZonesSettled ==
  ASSUME Inv, Next, NEW s \in SubnetIds, subnet[s] # None, ~ Healthy(s), NEW z \in ZoneIds
  PROVE  Settled(zone[z], zone'[z], s)
<1>. SUFFICES ASSUME zone' # zone PROVE Settled(zone[z], zone'[z], s)
  BY DEF Settled
<1>0. zone \in [ZoneIds -> ZoneRow \cup {None}] /\ DOMAIN zone = ZoneIds
  BY DEF Inv, TypeOK
<1>1. ASSUME NEW u \in SubnetIds, NEW x \in ZoneIds, NEW kind, NEW r, u # s,
             zone' = [zone EXCEPT ![x] = [subnet |-> u, kind |-> kind, range |-> r]]
      PROVE  Settled(zone[z], zone'[z], s)
  BY <1>0, <1>1 DEF Settled
<1>2. CASE SubnetStep
  BY <1>1, <1>2 DEF SubnetStep, CreateSubnet, PatchSubnet, CreateNetwork
<1>3. CASE ZoneStep
  <2>1. PICK x \in ZoneIds, kind \in IP_ZONE_KINDS, r \in Ranges :
          (\E u \in SubnetIds : CreateZone(x, u, kind, r)) \/ PatchZone(x, kind, r)
    BY <1>3 DEF ZoneStep
  <2>2. ASSUME NEW u \in SubnetIds, CreateZone(x, u, kind, r)
        PROVE  Settled(zone[z], zone'[z], s)
    BY <1>1, <2>2 DEF CreateZone
  <2>3. CASE PatchZone(x, kind, r)
    <3>0. PICK row : row = [zone[x] EXCEPT !.kind = kind, !.range = r]
      OBVIOUS
    <3>1. zone[x] # None /\ zone[x] \in ZoneRow
      BY <1>0, <2>3 DEF PatchZone
    <3>2. row.subnet = zone[x].subnet
      BY <3>0, <3>1 DEF ZoneRow
    <3>3. zone' = [zone EXCEPT ![x] = row]
      BY <1>0, <2>3, <3>0 DEF PatchZone
    <3>. QED
      BY <1>0, <3>1, <3>2, <3>3 DEF Settled
  <2>. QED
    BY <2>1, <2>2, <2>3
<1>4. CASE \E u \in SubnetIds : DeleteSubnet(u)
  BY <1>0, <1>4 DEF DeleteSubnet, Without, Settled
<1>5. CASE \E x \in ZoneIds : DeleteZone(x)
  BY <1>0, <1>5 DEF DeleteZone, Without, Settled
<1>6. \/ SubnetStep \/ ZoneStep
      \/ \E u \in SubnetIds : DeleteSubnet(u)
      \/ \E x \in ZoneIds : DeleteZone(x)
  BY TablesLeftAlone DEF Next
<1>. QED
  BY <1>2, <1>3, <1>4, <1>5, <1>6

LEMMA AssignmentsSettled ==
  ASSUME Inv, Next, NEW s \in SubnetIds, subnet[s] # None, ~ Healthy(s),
         NEW a \in AssignmentIds,
         ~ \E d \in Devices, x \in AssignmentIds, ip \in Ips : ImportDevice(d, s, x, ip)
  PROVE  Settled(assignment[a], assignment'[a], s)
<1>. SUFFICES ASSUME assignment' # assignment PROVE Settled(assignment[a], assignment'[a], s)
  BY DEF Settled
<1>0. /\ assignment \in [AssignmentIds -> AssignmentRow \cup {None}]
      /\ DOMAIN assignment = AssignmentIds
  BY DEF Inv, TypeOK
<1>1. ASSUME NEW x \in AssignmentIds, NEW r \in AssignmentRow,
             \/ CreateAssignment(x, r)
             \/ \E checked \in ALLOCATION_MODES : PatchAssignment(x, r, checked)
      PROVE  Settled(assignment[a], assignment'[a], s)
  <2>1. assignment' = [assignment EXCEPT ![x] = r]
    BY <1>1 DEF CreateAssignment, PatchAssignment
  <2>2. r.subnet = s => assignment[x] # None /\ assignment[x].subnet = s
    BY <1>1, Zenon DEF CreateAssignment, PatchAssignment
  <2>. QED
    BY <1>0, <2>1, <2>2 DEF Settled
<1>2. CASE AssignmentStep
  BY <1>1, <1>2 DEF AssignmentStep
<1>3. ASSUME NEW u \in SubnetIds, DeleteSubnet(u)
      PROVE  Settled(assignment[a], assignment'[a], s)
  <2>0. PICK left : left = Without(assignment, In(assignment, u))
    OBVIOUS
  <2>1. /\ left \in [AssignmentIds -> AssignmentRow \cup {None}]
        /\ \A x \in AssignmentIds : left[x] # None => left[x] = assignment[x]
    BY <1>0, <2>0 DEF Without
  <2>2. assignment' = WithoutScopes(left, In(scope, u))
    BY <1>3, <2>0 DEF DeleteSubnet
  <2>3. assignment'[a] # None => left[a] # None /\ assignment'[a].subnet = left[a].subnet
    BY <2>1, <2>2, Unscoped
  <2>. QED
    BY <2>1, <2>3 DEF Settled
<1>4. ASSUME NEW c \in ScopeIds, DeleteScope(c)
      PROVE  Settled(assignment[a], assignment'[a], s)
  <2>0. PICK left : left = assignment
    OBVIOUS
  <2>1. /\ left \in [AssignmentIds -> AssignmentRow \cup {None}]
        /\ assignment' = WithoutScopes(left, {c})
    BY <1>0, <1>4, <2>0 DEF DeleteScope
  <2>2. assignment'[a] # None => left[a] # None /\ assignment'[a].subnet = left[a].subnet
    BY <2>1, Unscoped
  <2>. QED
    BY <2>0, <2>2 DEF Settled
<1>5. CASE \E x \in AssignmentIds : DeleteAssignment(x)
  BY <1>0, <1>5 DEF DeleteAssignment, Without, Settled
<1>6. ASSUME NEW d \in Devices, DeletePort(d)
      PROVE  Settled(assignment[a], assignment'[a], s)
  <2>1. CASE assignment[a] # None /\ assignment[a].port = d
    <3>1. assignment'[a] = [assignment[a] EXCEPT !.port = None] /\ assignment[a] \in AssignmentRow
      BY <1>0, <1>6, <2>1 DEF DeletePort
    <3>2. assignment'[a].subnet = assignment[a].subnet
      BY <3>1 DEF AssignmentRow
    <3>. QED
      BY <2>1, <3>2 DEF Settled
  <2>2. CASE ~ (assignment[a] # None /\ assignment[a].port = d)
    <3>1. assignment'[a] = assignment[a]
      BY <1>6, <2>2 DEF DeletePort
    <3>. QED
      BY <3>1 DEF Settled
  <2>. QED
    BY <2>1, <2>2
<1>7. CASE \E d \in Devices : DeleteDevice(d)
  BY <1>0, <1>7 DEF DeleteDevice, Without, Settled
<1>8. ASSUME NEW d \in Devices, NEW u \in SubnetIds, NEW x \in AssignmentIds, NEW ip \in Ips,
             ImportDevice(d, u, x, ip)
      PROVE  Settled(assignment[a], assignment'[a], s)
  <2>1. u # s
    BY <1>8
  <2>2. \E port : assignment' = [assignment EXCEPT ![x] =
          [subnet |-> u, ip |-> ip, type |-> "device", mode |-> "static",
           scope |-> None, device |-> d, port |-> port]]
    BY <1>8 DEF ImportDevice
  <2>. QED
    BY <1>0, <2>1, <2>2 DEF Settled
<1>9. \/ AssignmentStep
      \/ \E u \in SubnetIds : DeleteSubnet(u)
      \/ \E c \in ScopeIds : DeleteScope(c)
      \/ \E x \in AssignmentIds : DeleteAssignment(x)
      \/ \E d \in Devices : DeletePort(d) \/ DeleteDevice(d)
      \/ \E d \in Devices, u \in SubnetIds, x \in AssignmentIds, ip \in Ips :
           ImportDevice(d, u, x, ip)
  BY TablesLeftAlone DEF Next
<1>. QED
  BY <1>2, <1>3, <1>4, <1>5, <1>6, <1>7, <1>8, <1>9

\* The code behaviour: assertSubnetCidrAvailable and assertSubnetWritable see to
\* it that no request makes two subnets of a lab overlap, and that nothing is added
\* to one that overlaps another since long ago but by the two writers that do not
\* ask them: the import of a device and the DHCP ranges of a sync.
THEOREM LegacyOverlapsOnlyShrink == Spec => OverlapsOnlyShrink
<1>. DEFINE Shrinks(s) ==
       /\ subnet'[s] # None /\ ~ Healthy(s)' => subnet[s] # None /\ ~ Healthy(s)
       /\ subnet[s] # None /\ ~ Healthy(s) =>
            /\ \/ In(scope, s)' \subseteq In(scope, s)
               \/ \E c \in ScopeIds, r \in Ranges : SyncScope(c, s, r)
            /\ In(zone, s)' \subseteq In(zone, s)
            /\ \/ In(assignment, s)' \subseteq In(assignment, s)
               \/ \E d \in Devices, a \in AssignmentIds, ip \in Ips : ImportDevice(d, s, a, ip)
<1>1. ASSUME Inv, Inv', Next, NEW s \in SubnetIds
      PROVE  Shrinks(s)
  <2>1. ASSUME subnet'[s] # None, ~ Healthy(s)'
        PROVE  subnet[s] # None /\ ~ Healthy(s)
    <3>1. Conflicts(s, subnet[s].lab, subnet[s].cidr)' # {}
      BY <2>1 DEF Healthy
    <3>2. PICK t \in SubnetIds : Overlap(subnet', s, t)
      BY <1>1, <2>1, <3>1 DEF Conflicts, Rows, Overlap, Inv, TypeOK
    <3>3. Overlap(subnet, s, t)
      BY <1>1, <3>2, OverlapsStay
    <3>. QED
      BY <1>1, <3>3, HealthyMeans DEF Overlap, Inv
  <2>2. ASSUME subnet[s] # None, ~ Healthy(s)
        PROVE  /\ \/ In(scope, s)' \subseteq In(scope, s)
                  \/ \E c \in ScopeIds, r \in Ranges : SyncScope(c, s, r)
               /\ In(zone, s)' \subseteq In(zone, s)
               /\ \/ In(assignment, s)' \subseteq In(assignment, s)
                  \/ \E d \in Devices, a \in AssignmentIds, ip \in Ips : ImportDevice(d, s, a, ip)
    <3>1. ASSUME ~ \E c \in ScopeIds, r \in Ranges : SyncScope(c, s, r)
          PROVE  In(scope, s)' \subseteq In(scope, s)
      <4>1. \A c \in ScopeIds : Settled(scope[c], scope'[c], s)
        BY <1>1, <2>2, <3>1, ScopesSettled
      <4>. QED
        BY <1>1, <4>1 DEF Settled, In, Rows, Inv, TypeOK
    <3>2. In(zone, s)' \subseteq In(zone, s)
      <4>1. \A z \in ZoneIds : Settled(zone[z], zone'[z], s)
        BY <1>1, <2>2, ZonesSettled
      <4>. QED
        BY <1>1, <4>1 DEF Settled, In, Rows, Inv, TypeOK
    <3>3. ASSUME ~ \E d \in Devices, a \in AssignmentIds, ip \in Ips : ImportDevice(d, s, a, ip)
          PROVE  In(assignment, s)' \subseteq In(assignment, s)
      <4>1. \A a \in AssignmentIds : Settled(assignment[a], assignment'[a], s)
        BY <1>1, <2>2, <3>3, AssignmentsSettled
      <4>. QED
        BY <1>1, <4>1 DEF Settled, In, Rows, Inv, TypeOK
    <3>. QED
      BY <3>1, <3>2, <3>3
  <2>. QED
    BY <2>1, <2>2
<1>2. Inv /\ Inv' /\ [Next]_vars => [\A s \in SubnetIds : Shrinks(s)]_vars
  BY <1>1
<1>. QED
  BY <1>2, Invariance, PTL DEF Spec, OverlapsOnlyShrink

-----------------------------------------------------------------------------
(***************************************************************************)
(* A reservation leaves its scope by two kinds of edit alone.              *)
(***************************************************************************)
Reserved(r, scopes) ==
  IF r.mode = "dhcp-reservation"
    THEN /\ r.scope # None /\ scopes[r.scope] # None
         /\ scopes[r.scope].subnet = r.subnet
         /\ r.ip \in scopes[r.scope].range
    ELSE r.scope = None

SameReservation(r, new) ==
  r.mode = new.mode /\ r.scope = new.scope /\ r.subnet = new.subnet /\ r.ip = new.ip

Stranded(a) ==
  /\ assignment[a] # None /\ Reserved(assignment[a], scope)
  /\ assignment'[a] # None /\ ~ Reserved(assignment'[a], scope')

ScopeEdited(a) ==
  /\ assignment[a].scope # None
  /\ scope'[assignment[a].scope] # scope[assignment[a].scope]
  /\ subnet' = subnet

OwnModeCleared(a) ==
  ModeCleared(assignment[a], assignment'[a]) /\ UNCHANGED <<subnet, scope, zone, devices, ports>>

LEMMA SameRowSameScopes ==
  ASSUME NEW a, SameReservation(assignment[a], assignment'[a]),
         assignment[a].scope # None => scope'[assignment[a].scope] = scope[assignment[a].scope]
  PROVE  ~ Stranded(a)
  BY DEF SameReservation, Stranded, Reserved

\* A scope that did not exist takes no reservation's scope away.
LEMMA ScopeAddedStrandsNobody ==
  ASSUME Inv, NEW a \in AssignmentIds, NEW c \in ScopeIds, scope[c] = None,
         NEW row, scope' = [scope EXCEPT ![c] = row], UNCHANGED assignment
  PROVE  ~ Stranded(a)
<1>. SUFFICES ASSUME Stranded(a) PROVE FALSE
  OBVIOUS
<1>1. assignment[a] \in AssignmentRow /\ assignment[a] # None /\ Reserved(assignment[a], scope)
  BY TypedRows DEF Stranded, Inv
<1>2. assignment[a].scope # None =>
        assignment[a].scope \in ScopeIds /\ scope[assignment[a].scope] # None
  BY <1>1 DEF Reserved, AssignmentRow
<1>3. assignment[a].scope # None => scope'[assignment[a].scope] = scope[assignment[a].scope]
  BY <1>2 DEF Inv, TypeOK
<1>4. SameReservation(assignment[a], assignment'[a])
  BY DEF SameReservation
<1>. QED
  BY <1>3, <1>4, SameRowSameScopes

LEMMA SubnetDeletionStrandsNobody ==
  ASSUME Inv, NEW a \in AssignmentIds, NEW u \in SubnetIds, DeleteSubnet(u)
  PROVE  ~ Stranded(a)
<1>. SUFFICES ASSUME Stranded(a) PROVE FALSE
  OBVIOUS
<1>0. PICK left : left = Without(assignment, In(assignment, u))
  OBVIOUS
<1>1. /\ left \in [AssignmentIds -> AssignmentRow \cup {None}]
      /\ \A x \in AssignmentIds : left[x] # None =>
           left[x] = assignment[x] /\ assignment[x].subnet # u
  BY <1>0, TableRows DEF Without, In, Inv, TypeOK
<1>2. assignment' = WithoutScopes(left, In(scope, u)) /\ scope' = Without(scope, In(scope, u))
  BY <1>0 DEF DeleteSubnet
<1>3. left[a] # None /\ (left[a].scope \notin In(scope, u) => assignment'[a] = left[a])
  BY <1>1, <1>2, Unscoped DEF Stranded
<1>4. /\ left[a] = assignment[a] /\ assignment[a].subnet # u
      /\ assignment[a] # None /\ assignment[a] \in AssignmentRow
      /\ Reserved(assignment[a], scope)
  BY <1>1, <1>3, TypedRows DEF Stranded, Inv
<1>5. /\ In(scope, u) = {c \in ScopeIds : scope[c] # None /\ scope[c].subnet = u}
      /\ DOMAIN scope = ScopeIds
  BY TableRows DEF In, Inv, TypeOK
<1>6. assignment[a].scope \notin In(scope, u)
  BY <1>4, <1>5, NoneAssumption DEF Reserved
<1>7. assignment[a].scope # None => scope'[assignment[a].scope] = scope[assignment[a].scope]
  BY <1>2, <1>4, <1>5, <1>6 DEF Without, AssignmentRow
<1>8. SameReservation(assignment[a], assignment'[a])
  BY <1>3, <1>4, <1>6 DEF SameReservation
<1>. QED
  BY <1>7, <1>8, SameRowSameScopes

LEMMA ScopeEditStrandsItsOwn ==
  ASSUME Inv, NEW a \in AssignmentIds, Stranded(a), NEW c \in ScopeIds,
         DeleteScope(c) \/ \E r \in Ranges, g \in Gateways \cup {None} : PatchScope(c, r, g)
  PROVE  ScopeEdited(a)
<1>1. /\ assignment[a] \in AssignmentRow /\ assignment[a] # None
      /\ Reserved(assignment[a], scope)
      /\ assignment[a].scope \in ScopeIds \cup {None}
  BY TypedRows DEF Stranded, Inv, AssignmentRow
<1>2. /\ subnet' = subnet /\ scope[c] # None
      /\ \A x \in ScopeIds : x # c => scope'[x] = scope[x]
  BY DEF DeleteScope, PatchScope, Without, Inv, TypeOK
<1>3. scope'[c] # scope[c]
  <2>1. CASE DeleteScope(c)
    BY <2>1 DEF DeleteScope, Without, Inv, TypeOK
  <2>2. ASSUME NEW r \in Ranges, NEW g \in Gateways \cup {None}, PatchScope(c, r, g)
        PROVE  scope'[c] # scope[c]
    <3>1. scope'[c] = [scope[c] EXCEPT !.range = r, !.gateway = g] /\ scope[c] \in ScopeRow
      BY <1>2, <2>2 DEF PatchScope, Inv, TypeOK
    <3>2. scope'[c].range = r /\ scope'[c].gateway = g
      BY <3>1 DEF ScopeRow
    <3>. QED
      BY <2>2, <3>2 DEF PatchScope
  <2>. QED
    BY <2>1, <2>2
<1>4. CASE assignment[a].scope = c
  BY <1>2, <1>3, <1>4, NoneAssumption DEF ScopeEdited
<1>5. CASE assignment[a].scope # c
  <2>1. SameReservation(assignment[a], assignment'[a])
    <3>1. CASE DeleteScope(c)
      <4>0. PICK left : left = assignment
        OBVIOUS
      <4>1. /\ left \in [AssignmentIds -> AssignmentRow \cup {None}]
            /\ assignment' = WithoutScopes(left, {c})
        BY <3>1, <4>0 DEF DeleteScope, Inv, TypeOK
      <4>2. assignment'[a] = left[a]
        BY <1>1, <1>5, <4>0, <4>1, Unscoped
      <4>. QED
        BY <4>0, <4>2 DEF SameReservation
    <3>2. CASE \E r \in Ranges, g \in Gateways \cup {None} : PatchScope(c, r, g)
      BY <3>2 DEF PatchScope, SameReservation
    <3>. QED
      BY <3>1, <3>2
  <2>2. assignment[a].scope # None => scope'[assignment[a].scope] = scope[assignment[a].scope]
    BY <1>1, <1>2, <1>5
  <2>. QED
    BY <2>1, <2>2, SameRowSameScopes
<1>. QED
  BY <1>4, <1>5

LEMMA AssignmentRequestsStrandByMode ==
  ASSUME Inv, NEW a \in AssignmentIds, UNCHANGED scope,
         \/ AssignmentStep
         \/ \E x \in AssignmentIds : DeleteAssignment(x)
         \/ \E d \in Devices : DeletePort(d) \/ DeleteDevice(d)
         \/ \E d \in Devices, s \in SubnetIds, x \in AssignmentIds, ip \in Ips :
              ImportDevice(d, s, x, ip)
  PROVE  Stranded(a) => OwnModeCleared(a)
<1>0. /\ assignment \in [AssignmentIds -> AssignmentRow \cup {None}]
      /\ DOMAIN assignment = AssignmentIds
  BY DEF Inv, TypeOK
<1>1. ASSUME assignment[a] # None /\ assignment'[a] # None =>
               \/ assignment'[a] = assignment[a]
               \/ SameReservation(assignment[a], assignment'[a])
               \/ Reserved(assignment'[a], scope)
      PROVE  ~ Stranded(a)
  BY <1>1 DEF Stranded, SameReservation, Reserved
<1>2. ASSUME NEW x \in AssignmentIds, NEW r \in AssignmentRow, CreateAssignment(x, r)
      PROVE  ~ Stranded(a)
  <2>1. assignment' = [assignment EXCEPT ![x] = r] /\ Semantics(x, r)
    BY <1>2 DEF CreateAssignment
  <2>2. Reserved(r, scope)
    BY <2>1 DEF Semantics, ReservationAllowed, StaticAllowed, Reserved
  <2>. QED
    BY <1>0, <1>1, <2>1, <2>2
<1>8. ASSUME NEW x \in AssignmentIds, NEW r \in AssignmentRow,
             NEW checked \in ALLOCATION_MODES, PatchAssignment(x, r, checked)
      PROVE  Stranded(a) => OwnModeCleared(a)
  <2>1. /\ assignment' = [assignment EXCEPT ![x] = r] /\ assignment[x] # None
        /\ UNCHANGED <<subnet, scope, zone, devices, ports>>
    BY <1>8 DEF PatchAssignment
  <2>2. CASE a # x
    BY <1>0, <1>1, <2>1, <2>2
  <2>3. CASE a = x /\ SameReservation(assignment[x], r)
    BY <1>0, <1>1, <2>1, <2>3
  <2>4. CASE a = x /\ Semantics(x, [r EXCEPT !.mode = checked])
    <3>1. CASE checked = r.mode
      <4>1. Semantics(x, r)
        <5>1. [r EXCEPT !.mode = checked] = r
          BY <3>1 DEF AssignmentRow
        <5>. QED
          BY <2>4, <5>1
      <4>2. Reserved(r, scope)
        BY <4>1 DEF Semantics, ReservationAllowed, StaticAllowed, Reserved
      <4>. QED
        BY <1>0, <1>1, <2>1, <2>4, <4>2
    <3>2. CASE checked # r.mode
      <4>1. r.mode = "static" /\ checked = assignment[x].mode
        BY <1>8, <3>2 DEF PatchAssignment
      <4>2. checked = "dhcp-reservation"
        BY <3>2, <4>1 DEF ALLOCATION_MODES
      <4>3. r.scope # None
        BY <2>4, <4>2, JudgedIsOwned
      <4>4. assignment'[a] = r
        BY <1>0, <2>1, <2>4
      <4>. QED
        BY <2>1, <2>4, <4>1, <4>2, <4>3, <4>4 DEF OwnModeCleared, ModeCleared
    <3>. QED
      BY <3>1, <3>2
  <2>5. SameReservation(assignment[x], r) \/ Semantics(x, [r EXCEPT !.mode = checked])
    <3>1. \/ Semantics(x, [r EXCEPT !.mode = checked])
          \/ /\ r.subnet = assignment[x].subnet /\ r.ip = assignment[x].ip
             /\ r.mode = assignment[x].mode /\ r.scope = assignment[x].scope
      BY <1>8, Zenon DEF PatchAssignment
    <3>. QED
      BY <3>1 DEF SameReservation
  <2>. QED
    BY <2>2, <2>3, <2>4, <2>5
<1>3. CASE AssignmentStep
  BY <1>2, <1>3, <1>8 DEF AssignmentStep
<1>4. CASE \E x \in AssignmentIds : DeleteAssignment(x)
  BY <1>0, <1>1, <1>4 DEF DeleteAssignment, Without
<1>5. ASSUME NEW d \in Devices, DeletePort(d)
      PROVE  ~ Stranded(a)
  <2>1. CASE assignment[a] # None /\ assignment[a].port = d
    <3>1. assignment'[a] = [assignment[a] EXCEPT !.port = None] /\ assignment[a] \in AssignmentRow
      BY <1>0, <1>5, <2>1 DEF DeletePort
    <3>2. SameReservation(assignment[a], assignment'[a])
      BY <3>1 DEF AssignmentRow, SameReservation
    <3>. QED
      BY <1>1, <3>2
  <2>2. CASE ~ (assignment[a] # None /\ assignment[a].port = d)
    <3>1. assignment'[a] = assignment[a]
      BY <1>5, <2>2 DEF DeletePort
    <3>. QED
      BY <1>1, <3>1
  <2>. QED
    BY <2>1, <2>2
<1>6. CASE \E d \in Devices : DeleteDevice(d)
  BY <1>0, <1>1, <1>6 DEF DeleteDevice, Without
<1>7. ASSUME NEW d \in Devices, NEW s \in SubnetIds, NEW x \in AssignmentIds, NEW ip \in Ips,
             ImportDevice(d, s, x, ip)
      PROVE  ~ Stranded(a)
  <2>1. assignment[x] = None
        /\ \A y \in AssignmentIds : y # x => assignment'[y] = assignment[y]
    BY <1>0, <1>7 DEF ImportDevice
  <2>. QED
    BY <1>1, <2>1
<1>. QED
  BY <1>3, <1>4, <1>5, <1>6, <1>7

\* The code behaviour: a request that touches subnets, zones, devices or other
\* assignments leaves a reservation in the scope it names, and a static assignment
\* without one.  PATCH and DELETE of the scope, which do not look at the reservations,
\* and a PATCH that clears the assignment's mode are the only causes.
THEOREM ReservationsAreStrandedByTwoEdits == Spec => OnlyTwoEditsStrand
<1>. DEFINE Kept(a) ==
       LET r == assignment[a] IN
         /\ ValidReservation(r)
         /\ assignment'[a] # None /\ ~ ValidReservation(assignment[a])'
         => \/ /\ r.scope # None /\ scope'[r.scope] # scope[r.scope]
               /\ subnet' = subnet
            \/ /\ ModeCleared(r, assignment'[a])
               /\ UNCHANGED <<subnet, scope, zone, devices, ports>>
<1>1. ASSUME Inv, Next, NEW a \in AssignmentIds, Stranded(a)
      PROVE  ScopeEdited(a) \/ OwnModeCleared(a)
  <2>1. CASE UNCHANGED <<scope, assignment>>
    <3>1. SameReservation(assignment[a], assignment'[a])
      BY <2>1 DEF SameReservation
    <3>. QED
      BY <1>1, <2>1, <3>1, SameRowSameScopes
  <2>2. CASE SubnetStep
    <3>1. PICK u \in SubnetIds, k \in Cidrs, g \in Gateways \cup {None} :
            \/ \E lab \in Labs : CreateSubnet(u, lab, k, g)
            \/ PatchSubnet(u, k, g)
            \/ \E lab \in Labs, c \in ScopeIds, rc, rz \in Ranges, gc \in Gateways \cup {None},
                  z \in ZoneIds, kind \in IP_ZONE_KINDS :
                 CreateNetwork(u, lab, k, g, c, rc, gc, z, kind, rz)
      BY <2>2 DEF SubnetStep
    <3>2. \/ UNCHANGED <<scope, assignment>>
          \/ /\ UNCHANGED assignment
             /\ \E c \in ScopeIds : \E row : scope[c] = None /\ scope' = [scope EXCEPT ![c] = row]
      BY <3>1 DEF CreateSubnet, PatchSubnet, CreateNetwork
    <3>. QED
      BY <1>1, <2>1, <3>2, ScopeAddedStrandsNobody
  <2>3. CASE ScopeStep
    <3>1. PICK c \in ScopeIds, r \in Ranges, g \in Gateways \cup {None} :
            \/ \E s \in SubnetIds : CreateScope(c, s, r, g) \/ SyncScope(c, s, r)
            \/ PatchScope(c, r, g)
      BY <2>3 DEF ScopeStep
    <3>2. CASE \E s \in SubnetIds : CreateScope(c, s, r, g) \/ SyncScope(c, s, r)
      BY <1>1, <3>2, ScopeAddedStrandsNobody DEF CreateScope, SyncScope
    <3>. QED
      BY <1>1, <3>1, <3>2, ScopeEditStrandsItsOwn
  <2>4. CASE \E u \in SubnetIds : DeleteSubnet(u)
    BY <1>1, <2>4, SubnetDeletionStrandsNobody
  <2>5. CASE \E c \in ScopeIds : DeleteScope(c)
    BY <1>1, <2>5, ScopeEditStrandsItsOwn
  <2>6. CASE ZoneStep \/ \E z \in ZoneIds : DeleteZone(z)
    BY <2>1, <2>6 DEF ZoneStep, CreateZone, PatchZone, DeleteZone
  <2>7. CASE \E d \in Devices : CreateDevice(d) \/ CreatePort(d)
    BY <2>1, <2>7 DEF CreateDevice, CreatePort
  <2>8. CASE \/ AssignmentStep
             \/ \E x \in AssignmentIds : DeleteAssignment(x)
             \/ \E d \in Devices : DeletePort(d) \/ DeleteDevice(d)
             \/ \E d \in Devices, s \in SubnetIds, x \in AssignmentIds, ip \in Ips :
                  ImportDevice(d, s, x, ip)
    <3>1. UNCHANGED scope
      BY <2>8 DEF AssignmentStep, CreateAssignment, PatchAssignment, DeleteAssignment,
         DeletePort, DeleteDevice, ImportDevice
    <3>. QED
      BY <1>1, <2>8, <3>1, AssignmentRequestsStrandByMode
  <2>. QED
    BY <1>1, <2>2, <2>3, <2>4, <2>5, <2>6, <2>7, <2>8 DEF Next
<1>2. ASSUME Inv, Next, NEW a \in Rows(assignment)
      PROVE  Kept(a)
  <2>1. a \in AssignmentIds /\ assignment[a] # None
    BY <1>2, TableRows DEF Inv
  <2>2. Stranded(a) => ScopeEdited(a) \/ OwnModeCleared(a)
    BY <1>1, <1>2, <2>1
  <2>. QED
    BY <2>1, <2>2 DEF Stranded, ScopeEdited, OwnModeCleared, Reserved, ValidReservation
<1>3. Inv /\ [Next]_vars => [\A a \in Rows(assignment) : Kept(a)]_vars
  BY <1>2
<1>. QED
  BY <1>3, Invariance, PTL DEF Spec, OnlyTwoEditsStrand

-----------------------------------------------------------------------------
(***************************************************************************)
(* The address the client proposes is one the server takes.                *)
(***************************************************************************)
LEMMA LowestIsOne ==
  ASSUME NEW S, S # {}, S \subseteq Nat
  PROVE  Lowest(S) \in S
<1>1. PICK x \in S : \A y \in S : <<y, x>> \notin OpToRel(<, Nat)
  BY WFMin, NatLessThanWellFounded
<1>2. \A y \in S : y < x => <<y, x>> \in OpToRel(<, Nat)
  BY DEF OpToRel
<1>3. \A y \in S : ~ (y < x)
  BY <1>1, <1>2, Zenon
<1>4. \A y \in S : x <= y
  BY <1>3
<1>. QED
  BY <1>4 DEF Lowest

LEMMA TableMembers ==
  ASSUME TypeOK, NEW s
  PROVE  /\ In(scope, s) = {c \in ScopeIds : scope[c] # None /\ scope[c].subnet = s}
         /\ In(zone, s) = {z \in ZoneIds : zone[z] # None /\ zone[z].subnet = s}
         /\ In(assignment, s) =
              {a \in AssignmentIds : assignment[a] # None /\ assignment[a].subnet = s}
  BY TableRows DEF In

LEMMA CoveredIsInZone ==
  ASSUME NEW s, NEW ip, NEW kinds
  PROVE  ip \in Covered(s, kinds) <=> InZone(s, ip, kinds)
  BY DEF Covered, InZone

LEMMA PooledIsInScope ==
  ASSUME NEW s, NEW ip
  PROVE  ip \in Pooled(s) <=> InScope(s, ip)
  BY DEF Pooled, InScope

\* All that a proposal may be taken from are host addresses of the subnet.
LEMMA CandidatesAreHosts ==
  ASSUME Inv, NEW s \in SubnetIds, subnet[s] # None, NEW ip
  PROVE  /\ ip \in Interior(subnet[s].cidr) => ip \in Hosts(subnet[s].cidr) /\ ip \in Nat
         /\ \A kinds : ip \in Covered(s, kinds) => ip \in Hosts(subnet[s].cidr) /\ ip \in Nat
<1>1. subnet[s].cidr \in Cidrs
  BY TypedRows DEF Inv, SubnetRow
<1>2. subnet[s].cidr \subseteq Nat /\ Hosts(subnet[s].cidr) \subseteq subnet[s].cidr
  BY <1>1, CidrAssumption DEF Hosts, Interior
<1>3. ip \in Interior(subnet[s].cidr) => ip \in Hosts(subnet[s].cidr)
  BY DEF Hosts, Interior
<1>4. ASSUME NEW kinds, ip \in Covered(s, kinds)
      PROVE  ip \in Hosts(subnet[s].cidr)
  <2>1. PICK z \in ZoneIds : zone[z] # None /\ zone[z].subnet = s /\ ip \in zone[z].range
    BY <1>4, TableMembers DEF Covered, Inv
  <2>. QED
    BY <2>1 DEF Inv, ZonesFit, ZoneFits
<1>. QED
  BY <1>2, <1>3, <1>4

\* A row of a host type at an address that is neither taken nor the gateway.
LEMMA FreeAddressIsAccepted ==
  ASSUME Inv, NEW s \in SubnetIds, subnet[s] # None, NEW r,
         r.subnet = s, r.ip \in Nat, r.ip \in Hosts(subnet[s].cidr), r.ip \notin Taken(s),
         r.ip # subnet[s].gateway,
         IF r.mode = "dhcp-reservation" THEN ReservationAllowed(r) ELSE StaticAllowed(r),
         NEW a \in AssignmentIds
  PROVE  Semantics(a, r) /\ UniqueAddress(a, r)
<1>1. \A b \in In(assignment, s) : assignment[b].ip # r.ip
  BY DEF Taken
<1>2. \A c \in In(scope, s) : scope[c].gateway # r.ip
  BY GatewayAssumption DEF Taken
<1>3. ~ Technical(s, r.ip)
  BY <1>2 DEF Technical
<1>. QED
  BY <1>1, <1>3 DEF Semantics, UniqueAddress

LEMMA StaticProposalIsAccepted ==
  ASSUME Inv, NEW s \in SubnetIds, subnet[s] # None, NEW r,
         StaticCandidates(s) # {}, r.ip = Lowest(StaticCandidates(s)),
         r.subnet = s, r.mode = "static", r.scope = None
  PROVE  \/ \A a \in AssignmentIds : Semantics(a, r) /\ UniqueAddress(a, r)
         \/ r.ip = subnet[s].gateway
<1>1. \A ip \in StaticCandidates(s) :
        \/ ip \in Covered(s, {"static"}) \ Taken(s)
        \/ ip \in Interior(subnet[s].cidr) \ (Taken(s) \cup Pooled(s))
  BY DEF StaticCandidates
<1>2. \A ip \in StaticCandidates(s) :
        ip \in Nat /\ ip \in Hosts(subnet[s].cidr) /\ ip \notin Taken(s)
  BY <1>1, CandidatesAreHosts
<1>3. r.ip \in StaticCandidates(s)
  BY <1>2, LowestIsOne
<1>4. StaticAllowed(r)
  BY <1>1, <1>3, CoveredIsInZone, PooledIsInScope DEF StaticAllowed
<1>. QED
  BY <1>2, <1>3, <1>4, FreeAddressIsAccepted

LEMMA ReservationProposalIsAccepted ==
  ASSUME Inv, NEW s \in SubnetIds, subnet[s] # None, NEW r,
         NEW pool \in In(scope, s), ReservationCandidates(s, pool) # {},
         r.ip = Lowest(ReservationCandidates(s, pool)),
         NEW c \in In(scope, s), r.ip \in scope[c].range,
         r.subnet = s, r.mode = "dhcp-reservation", r.scope = c
  PROVE  \/ \A a \in AssignmentIds : Semantics(a, r) /\ UniqueAddress(a, r)
         \/ r.ip = subnet[s].gateway
         \/ InZone(s, r.ip, {"static"})
<1>1. \A ip \in ReservationCandidates(s, pool) :
        /\ ip \in Interior(subnet[s].cidr)
        /\ ip \notin Taken(s) /\ ip \notin Covered(s, {"reserved"})
        /\ {z \in In(zone, s) : zone[z].kind = "dhcp"} = {} \/ ip \in Covered(s, {"dhcp"})
  BY DEF ReservationCandidates
<1>2. \A ip \in ReservationCandidates(s, pool) : ip \in Nat /\ ip \in Hosts(subnet[s].cidr)
  BY <1>1, CandidatesAreHosts
<1>3. r.ip \in ReservationCandidates(s, pool)
  BY <1>2, LowestIsOne
<1>4. c # None /\ scope[c] # None /\ scope[c].subnet = s
  BY TableMembers, NoneAssumption DEF Inv
<1>5. SUFFICES ASSUME ~ InZone(s, r.ip, {"static"}), r.ip # subnet[s].gateway
               PROVE  \A a \in AssignmentIds : Semantics(a, r) /\ UniqueAddress(a, r)
  OBVIOUS
<1>6. CASE InZone(s, r.ip, {"dhcp"})
  <2>1. ReservationAllowed(r)
    BY <1>4, <1>6 DEF ReservationAllowed
  <2>. QED
    BY <1>1, <1>2, <1>3, <1>5, <2>1, FreeAddressIsAccepted
<1>7. CASE ~ InZone(s, r.ip, {"dhcp"})
  <2>1. ~ InZone(s, r.ip, {"reserved"})
    BY <1>1, <1>3, CoveredIsInZone
  <2>2. ~ InZone(s, r.ip, IP_ZONE_KINDS)
    BY <1>5, <1>7, <2>1 DEF InZone, IP_ZONE_KINDS
  <2>3. \A z \in In(zone, s) : zone[z].kind # "dhcp"
    BY <1>1, <1>3, <1>7, CoveredIsInZone
  <2>4. ReservationAllowed(r)
    BY <1>4, <2>2, <2>3 DEF ReservationAllowed
  <2>. QED
    BY <1>1, <1>2, <1>3, <1>5, <2>4, FreeAddressIsAccepted
<1>. QED
  BY <1>6, <1>7

\* The code behaviour: what previewNextIpAllocation proposes to a client with
\* up-to-date tables, validateAssignmentSemantics and the unique index accept,
\* unless it is the subnet's gateway or a reservation in a static zone.
THEOREM ProposalsAreAccepted == Spec => []ProposalIsAccepted
<1>1. ASSUME Inv, NEW s \in Rows(subnet), NEW type \in HOST_ASSIGNMENT_TYPES,
             NEW r \in Proposals(s, type)
      PROVE  \/ \A a \in AssignmentIds : Semantics(a, r) /\ UniqueAddress(a, r)
             \/ r.ip = subnet[s].gateway
             \/ r.mode = "dhcp-reservation" /\ InZone(s, r.ip, {"static"})
  <2>0. s \in SubnetIds /\ subnet[s] # None
    BY <1>1, TableRows DEF Inv
  <2>1. CASE r \in {Proposal(s, type, Lowest(S), "static", None) :
                      S \in {StaticCandidates(s)} \ {{}}}
    <3>1. /\ StaticCandidates(s) # {}
          /\ r = Proposal(s, type, Lowest(StaticCandidates(s)), "static", None)
      BY <2>1
    <3>2. /\ r.ip = Lowest(StaticCandidates(s)) /\ r.subnet = s
          /\ r.mode = "static" /\ r.scope = None
      BY <3>1 DEF Proposal
    <3>. QED
      BY <1>1, <2>0, <3>1, <3>2, StaticProposalIsAccepted
  <2>2. CASE r \in UNION {{Proposal(s, type, ip, "dhcp-reservation", c) :
                             c \in {c \in In(scope, s) : ip \in scope[c].range}} :
                          ip \in {Lowest(S) : S \in
                            {ReservationCandidates(s, c) : c \in In(scope, s)} \ {{}}}}
    <3>1. PICK ip \in {Lowest(S) : S \in
                         {ReservationCandidates(s, c) : c \in In(scope, s)} \ {{}}} :
            \E c \in In(scope, s) :
              ip \in scope[c].range /\ r = Proposal(s, type, ip, "dhcp-reservation", c)
      BY <2>2
    <3>2. PICK c \in In(scope, s) :
            ip \in scope[c].range /\ r = Proposal(s, type, ip, "dhcp-reservation", c)
      BY <3>1
    <3>3. PICK pool \in In(scope, s) :
            /\ ReservationCandidates(s, pool) # {}
            /\ ip = Lowest(ReservationCandidates(s, pool))
      BY <3>1
    <3>4. /\ r.ip = ip /\ r.subnet = s /\ r.mode = "dhcp-reservation" /\ r.scope = c
      BY <3>2 DEF Proposal
    <3>. QED
      BY <1>1, <2>0, <3>2, <3>3, <3>4, ReservationProposalIsAccepted
  <2>. QED
    BY <1>1, <2>1, <2>2 DEF Proposals
<1>2. Inv => ProposalIsAccepted
  BY <1>1 DEF ProposalIsAccepted
<1>. QED
  BY <1>2, Invariance, PTL

=============================================================================
