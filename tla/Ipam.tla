--------------------------------- MODULE Ipam ---------------------------------
(***************************************************************************)
(* Subnets, DHCP scopes, IP zones and IP assignments as the routes of      *)
(* server/routes/ipam.ts leave them, what the web client proposes as the   *)
(* next free address (src/lib/store.ts), and what the restore of a JSON    *)
(* backup demands of the same tables (server/routes/admin.ts).             *)
(*                                                                         *)
(* Every route is one synchronous handler, so a step is a request.  The    *)
(* interesting states are those a long sequence of legal requests leads    *)
(* to, and those that databases from before the overlap check start in.    *)
(*                                                                         *)
(* A CIDR and a range are the sets of their addresses.  Of the technical   *)
(* addresses only gateways are kept: dhcpTechnicalRole treats a DNS server *)
(* as it treats a gateway.  An infrastructure zone or assignment is        *)
(* treated as a reserved one, a VM or a container as a device.  Names,     *)
(* VLANs and the free-text vmId and containerId are left out.  Of a sync   *)
(* of a switch or a controller, which NetworkSync has as a whole, there is *)
(* the one write that no route here makes.                                 *)
(***************************************************************************)
EXTENDS Integers, FiniteSets

CONSTANTS
  SubnetIds, ScopeIds, ZoneIds, AssignmentIds,  \* row ids
  None,            \* a null column, and an id without a row
  Labs,
  Cidrs, Ranges,   \* blocks and ranges that requests name: sets of addresses
  Gateways,        \* gateways that requests name
  Ips,             \* addresses that requests assign
  Devices, LabOf   \* devices and their labs; the port of a device has its id

VARIABLES subnet, scope, zone, assignment,  \* tables: id -> row or None
          devices, ports                    \* devices there are, those with their port

vars == <<subnet, scope, zone, assignment, devices, ports>>

IP_ZONE_KINDS == {"static", "dhcp", "reserved"}
ASSIGNMENT_TYPES == {"device", "interface", "reserved"}
ALLOCATION_MODES == {"static", "dhcp-reservation"}
TECHNICAL_ASSIGNMENT_TYPES == {"reserved"}
TECHNICAL_OVERLAY_ASSIGNMENT_TYPES == {"interface", "reserved"}
HOST_ASSIGNMENT_TYPES == {"device", "interface"}

SubnetRow == [lab : Labs, cidr : Cidrs, gateway : Gateways \cup {None}]
ScopeRow == [subnet : SubnetIds, range : Ranges, gateway : Gateways \cup {None}]
ZoneRow == [subnet : SubnetIds, kind : IP_ZONE_KINDS, range : Ranges]
AssignmentRow ==
  [subnet : SubnetIds, ip : Ips, type : ASSIGNMENT_TYPES,
   mode : ALLOCATION_MODES, scope : ScopeIds \cup {None},
   device : Devices \cup {None}, port : Devices \cup {None}]

ASSUME NoneAssumption ==
  /\ None \notin SubnetIds \cup ScopeIds \cup ZoneIds \cup AssignmentIds \cup Devices
  /\ None \notin SubnetRow \cup ScopeRow \cup ZoneRow \cup AssignmentRow
ASSUME CidrAssumption ==
  \A k \in Cidrs : k # {} /\ k \subseteq Nat /\ IsFiniteSet(k)
ASSUME RangeAssumption == \A r \in Ranges : r # {} /\ r \subseteq Nat
ASSUME GatewayAssumption == Gateways \cup Ips \subseteq Nat /\ None \notin Nat
ASSUME LabAssumption == LabOf \in [Devices -> Labs]

Rows(table) == {id \in DOMAIN table : table[id] # None}
In(table, s) == {id \in Rows(table) : table[id].subnet = s}

Lowest(S) == CHOOSE x \in S : \A y \in S : x <= y
Highest(S) == CHOOSE x \in S : \A y \in S : x >= y

\* The block without its network and broadcast address.
Interior(k) == k \ {Lowest(k), Highest(k)}

\* cidrHostBounds: a /31 or /32 has no such addresses to leave out.
Hosts(k) == IF Cardinality(k) <= 2 THEN k ELSE Interior(k)

\* getSubnetIntegrity: the other subnets of the lab that a block overlaps.
Conflicts(s, lab, k) ==
  {t \in Rows(subnet) \ {s} : subnet[t].lab = lab /\ subnet[t].cidr \cap k # {}}

Healthy(s) == Conflicts(s, subnet[s].lab, subnet[s].cidr) = {}

\* ensureGatewayBelongsToSubnet
GatewayFits(k, g) == g = None \/ g \in Hosts(k)

\* Mutant: the scopes and zones of the subnet are forgotten.
AddressesFit(s, k) == \A a \in In(assignment, s) : assignment[a].ip \in Hosts(k)

\* validateSubnetChildrenForCidr: all that lies in the subnet lies in a block.
ChildrenFit(s, k) ==
  /\ \A a \in In(assignment, s) : assignment[a].ip \in Hosts(k)
  /\ \A c \in In(scope, s) : scope[c].range \subseteq Hosts(k) /\ GatewayFits(k, scope[c].gateway)
  /\ \A z \in In(zone, s) : zone[z].range \subseteq Hosts(k)

-----------------------------------------------------------------------------
(* What an assignment may be.                                              *)

\* dhcpTechnicalRole: the address is a gateway of the subnet or of a scope.
Technical(s, ip) ==
  ip = subnet[s].gateway \/ \E c \in In(scope, s) : scope[c].gateway = ip

InZone(s, ip, kinds) ==
  \E z \in In(zone, s) : zone[z].kind \in kinds /\ ip \in zone[z].range

InScope(s, ip) == \E c \in In(scope, s) : ip \in scope[c].range

\* Mutant: a reservation may lie outside of its scope.
ReservationAnywhere(r) ==
  /\ r.scope # None /\ scope[r.scope] # None
  /\ scope[r.scope].subnet = r.subnet

\* A reservation lies in the scope it names and, once the subnet has zones
\* for it, in a DHCP zone.
ReservationAllowed(r) ==
  /\ r.scope # None /\ scope[r.scope] # None
  /\ scope[r.scope].subnet = r.subnet
  /\ r.ip \in scope[r.scope].range
  /\ \/ InZone(r.subnet, r.ip, {"dhcp"})
     \/ /\ \A z \in In(zone, r.subnet) : zone[z].kind # "dhcp"
        /\ ~ InZone(r.subnet, r.ip, IP_ZONE_KINDS)

StaticAllowed(r) ==
  /\ r.scope = None
  /\ \/ ~ InScope(r.subnet, r.ip)
     \/ InZone(r.subnet, r.ip, {"static"})
     \/ r.type \notin HOST_ASSIGNMENT_TYPES

\* validateAssignmentSemantics, for row a (or a new one).
Semantics(a, r) ==
  /\ subnet[r.subnet] # None
  /\ r.ip \in Hosts(subnet[r.subnet].cidr)
  /\ Technical(r.subnet, r.ip) => r.type \in TECHNICAL_OVERLAY_ASSIGNMENT_TYPES
  /\ (\E b \in In(assignment, r.subnet) \ {a} :
        assignment[b].ip = r.ip /\ assignment[b].type \in TECHNICAL_ASSIGNMENT_TYPES)
       => r.type \in TECHNICAL_ASSIGNMENT_TYPES
  /\ IF r.mode = "dhcp-reservation" THEN ReservationAllowed(r) ELSE StaticAllowed(r)

\* validateAssignmentReferences
References(r) ==
  /\ subnet[r.subnet] # None
  /\ r.device # None => r.device \in devices /\ LabOf[r.device] = subnet[r.subnet].lab
  /\ r.port # None => r.port \in ports /\ LabOf[r.port] = subnet[r.subnet].lab
  /\ r.port # None /\ r.device # None => r.port = r.device

\* idx_ip_assignments_subnet_ip
UniqueAddress(a, r) ==
  \A b \in In(assignment, r.subnet) \ {a} : assignment[b].ip # r.ip

-----------------------------------------------------------------------------
(* The routes.  A lab editor may do all of this on a healthy subnet; on one *)
(* that overlaps another, an administrator may still change and delete what *)
(* there is, and nobody may add to it.                                      *)

NewSubnet(s, lab, k, g) == [subnet EXCEPT ![s] = [lab |-> lab, cidr |-> k, gateway |-> g]]

\* POST /subnets
CreateSubnet(s, lab, k, g) ==
  /\ subnet[s] = None
  /\ Conflicts(s, lab, k) = {}
  /\ GatewayFits(k, g)
  /\ subnet' = NewSubnet(s, lab, k, g)
  /\ UNCHANGED <<scope, zone, assignment, devices, ports>>

\* POST /networks: a subnet with its scope and its zones in one transaction.
CreateNetwork(s, lab, k, g, c, rc, gc, z, kind, rz) ==
  /\ subnet[s] = None /\ scope[c] = None /\ zone[z] = None
  /\ Conflicts(s, lab, k) = {}
  /\ GatewayFits(k, g) /\ GatewayFits(k, gc)
  /\ rc \subseteq Hosts(k) /\ rz \subseteq Hosts(k)
  /\ subnet' = NewSubnet(s, lab, k, g)
  /\ scope' = [scope EXCEPT ![c] = [subnet |-> s, range |-> rc, gateway |-> gc]]
  /\ zone' = [zone EXCEPT ![z] = [subnet |-> s, kind |-> kind, range |-> rz]]
  /\ UNCHANGED <<assignment, devices, ports>>

\* PATCH /subnets/:id.  The block is checked when it is given, against all
\* that lies in the subnet; a gateway must lie in the block the row ends with.
PatchSubnet(s, k, g) ==
  /\ subnet[s] # None
  /\ k # subnet[s].cidr \/ g # subnet[s].gateway
  /\ k # subnet[s].cidr => Conflicts(s, subnet[s].lab, k) = {} /\ ChildrenFit(s, k)
  /\ GatewayFits(k, g)
  /\ subnet' = [subnet EXCEPT ![s].cidr = k, ![s].gateway = g]
  /\ UNCHANGED <<scope, zone, assignment, devices, ports>>

\* A deleted scope is set to null in the assignments that name it.
WithoutScopes(table, gone) ==
  [a \in AssignmentIds |->
     IF table[a] # None /\ table[a].scope \in gone
       THEN [table[a] EXCEPT !.scope = None] ELSE table[a]]

Without(table, gone) == [id \in DOMAIN table |-> IF id \in gone THEN None ELSE table[id]]

\* DELETE /subnets/:id, with the cascade of the foreign keys.
DeleteSubnet(s) ==
  /\ subnet[s] # None
  /\ subnet' = Without(subnet, {s})
  /\ scope' = Without(scope, In(scope, s))
  /\ zone' = Without(zone, In(zone, s))
  /\ assignment' =
       WithoutScopes(Without(assignment, In(assignment, s)), In(scope, s))
  /\ UNCHANGED <<devices, ports>>

\* POST /dhcp-scopes
CreateScope(c, s, r, g) ==
  /\ scope[c] = None /\ subnet[s] # None
  /\ Healthy(s)
  /\ r \subseteq Hosts(subnet[s].cidr) /\ GatewayFits(subnet[s].cidr, g)
  /\ scope' = [scope EXCEPT ![c] = [subnet |-> s, range |-> r, gateway |-> g]]
  /\ UNCHANGED <<subnet, zone, assignment, devices, ports>>

\* applySnmpSyncPreview adds a reported range to the subnet with its block, unless it
\* is there: the preview looked at the block, and neither looks at its overlaps.
SyncScope(c, s, r) ==
  /\ scope[c] = None /\ subnet[s] # None
  /\ r \subseteq Hosts(subnet[s].cidr)
  /\ \A b \in In(scope, s) : scope[b].range # r
  /\ scope' = [scope EXCEPT ![c] = [subnet |-> s, range |-> r, gateway |-> None]]
  /\ UNCHANGED <<subnet, zone, assignment, devices, ports>>

\* PATCH /dhcp-scopes/:id looks at the subnet, not at the reservations.
PatchScope(c, r, g) ==
  /\ scope[c] # None
  /\ r # scope[c].range \/ g # scope[c].gateway
  /\ LET k == subnet[scope[c].subnet].cidr IN
       /\ r # scope[c].range => r \subseteq Hosts(k)
       /\ g # scope[c].gateway => GatewayFits(k, g)
  /\ scope' = [scope EXCEPT ![c].range = r, ![c].gateway = g]
  /\ UNCHANGED <<subnet, zone, assignment, devices, ports>>

\* DELETE /dhcp-scopes/:id
DeleteScope(c) ==
  /\ scope[c] # None
  /\ scope' = Without(scope, {c})
  /\ assignment' = WithoutScopes(assignment, {c})
  /\ UNCHANGED <<subnet, zone, devices, ports>>

\* Mutant: a zone is added to a subnet that overlaps another.
CreateZoneAnyway(z, s, kind, r) ==
  /\ zone[z] = None /\ subnet[s] # None
  /\ r \subseteq Hosts(subnet[s].cidr)
  /\ zone' = [zone EXCEPT ![z] = [subnet |-> s, kind |-> kind, range |-> r]]
  /\ UNCHANGED <<subnet, scope, assignment, devices, ports>>

\* POST /ip-zones
CreateZone(z, s, kind, r) ==
  /\ zone[z] = None /\ subnet[s] # None
  /\ Healthy(s)
  /\ r \subseteq Hosts(subnet[s].cidr)
  /\ zone' = [zone EXCEPT ![z] = [subnet |-> s, kind |-> kind, range |-> r]]
  /\ UNCHANGED <<subnet, scope, assignment, devices, ports>>

\* PATCH /ip-zones/:id
PatchZone(z, kind, r) ==
  /\ zone[z] # None
  /\ kind # zone[z].kind \/ r # zone[z].range
  /\ r # zone[z].range => r \subseteq Hosts(subnet[zone[z].subnet].cidr)
  /\ zone' = [zone EXCEPT ![z].kind = kind, ![z].range = r]
  /\ UNCHANGED <<subnet, scope, assignment, devices, ports>>

\* DELETE /ip-zones/:id
DeleteZone(z) ==
  /\ zone[z] # None
  /\ zone' = Without(zone, {z})
  /\ UNCHANGED <<subnet, scope, assignment, devices, ports>>

\* POST /ip-assignments
CreateAssignment(a, r) ==
  /\ assignment[a] = None
  /\ subnet[r.subnet] # None /\ Healthy(r.subnet)
  /\ Semantics(a, r) /\ References(r) /\ UniqueAddress(a, r)
  /\ assignment' = [assignment EXCEPT ![a] = r]
  /\ UNCHANGED <<subnet, scope, zone, devices, ports>>

\* PATCH /ip-assignments/:id: what is not given is taken from the row, and
\* only the checks that a given field calls for are made.  They judge the row under
\* the mode `checked`: the one that is stored, but allocationMode null is checked as
\* the mode the row has, and stored as static.
PatchAssignment(a, r, checked) ==
  /\ assignment[a] # None /\ r # assignment[a]
  /\ LET old == assignment[a] IN
       /\ checked = r.mode \/ (r.mode = "static" /\ checked = old.mode)
       /\ r.subnet # old.subnet => subnet[r.subnet] # None /\ Healthy(r.subnet)
       /\ <<r.subnet, r.ip, r.type, r.mode, r.scope>>
            # <<old.subnet, old.ip, old.type, old.mode, old.scope>>
            => Semantics(a, [r EXCEPT !.mode = checked])
       /\ <<r.subnet, r.device, r.port>> # <<old.subnet, old.device, old.port>>
            => References(r)
  /\ UniqueAddress(a, r)
  /\ assignment' = [assignment EXCEPT ![a] = r]
  /\ UNCHANGED <<subnet, scope, zone, devices, ports>>

\* DELETE /ip-assignments/:id
DeleteAssignment(a) ==
  /\ assignment[a] # None
  /\ assignment' = Without(assignment, {a})
  /\ UNCHANGED <<subnet, scope, zone, devices, ports>>

\* POST /devices and POST /ports
CreateDevice(d) ==
  /\ d \notin devices
  /\ devices' = devices \cup {d}
  /\ ports' = ports \cup {d}
  /\ UNCHANGED <<subnet, scope, zone, assignment>>

CreatePort(d) ==
  /\ d \in devices \ ports
  /\ ports' = ports \cup {d}
  /\ UNCHANGED <<subnet, scope, zone, assignment, devices>>

\* The import of a controller's device links its address to a subnet of the
\* lab that has it, unless it is assigned, and asks nothing else.
ImportDevice(d, s, a, ip) ==
  /\ d \notin devices /\ assignment[a] = None
  /\ subnet[s] # None /\ subnet[s].lab = LabOf[d] /\ ip \in Hosts(subnet[s].cidr)
  /\ \A b \in In(assignment, s) : assignment[b].ip # ip
  /\ devices' = devices \cup {d}
  /\ ports' = ports \cup {d}
  /\ \E port \in {None, d} :
       assignment' = [assignment EXCEPT ![a] =
         [subnet |-> s, ip |-> ip, type |-> "device", mode |-> "static",
          scope |-> None, device |-> d, port |-> port]]
  /\ UNCHANGED <<subnet, scope, zone>>

\* DELETE /ports/:id: an assignment forgets its port.
DeletePort(d) ==
  /\ d \in ports
  /\ ports' = ports \ {d}
  /\ assignment' = [a \in AssignmentIds |->
       IF assignment[a] # None /\ assignment[a].port = d
         THEN [assignment[a] EXCEPT !.port = None] ELSE assignment[a]]
  /\ UNCHANGED <<subnet, scope, zone, devices>>

\* DELETE /devices/:id: the assignments of the device and of its ports go.
DeleteDevice(d) ==
  /\ d \in devices
  /\ devices' = devices \ {d}
  /\ ports' = ports \ {d}
  /\ assignment' =
       Without(assignment, {a \in Rows(assignment) : d \in {assignment[a].device, assignment[a].port}})
  /\ UNCHANGED <<subnet, scope, zone>>

\* Empty tables, or those of a database from before overlaps were rejected.
LegacyRow == [lab : Labs, cidr : Cidrs, gateway : {None}]
LegacySubnets ==
  {rows \in [SubnetIds -> LegacyRow \cup {None}] :
     \E s, t \in SubnetIds : /\ s # t /\ None \notin {rows[s], rows[t]}
                             /\ rows[s].lab = rows[t].lab
                             /\ rows[s].cidr \cap rows[t].cidr # {}}

Init ==
  /\ subnet \in {[s \in SubnetIds |-> None]} \cup LegacySubnets
  /\ scope = [c \in ScopeIds |-> None]
  /\ zone = [z \in ZoneIds |-> None]
  /\ assignment = [a \in AssignmentIds |-> None]
  /\ devices = Devices
  /\ ports = Devices

SubnetStep ==
  \E s \in SubnetIds, k \in Cidrs, g \in Gateways \cup {None} :
    \/ \E lab \in Labs : CreateSubnet(s, lab, k, g)
    \/ PatchSubnet(s, k, g)
    \/ \E lab \in Labs, c \in ScopeIds, rc, rz \in Ranges, gc \in Gateways \cup {None},
          z \in ZoneIds, kind \in IP_ZONE_KINDS :
         CreateNetwork(s, lab, k, g, c, rc, gc, z, kind, rz)

ScopeStep ==
  \E c \in ScopeIds, r \in Ranges, g \in Gateways \cup {None} :
    \/ \E s \in SubnetIds : CreateScope(c, s, r, g) \/ SyncScope(c, s, r)
    \/ PatchScope(c, r, g)

ZoneStep ==
  \E z \in ZoneIds, kind \in IP_ZONE_KINDS, r \in Ranges :
    \/ \E s \in SubnetIds : CreateZone(z, s, kind, r)
    \/ PatchZone(z, kind, r)

AssignmentStep ==
  \E a \in AssignmentIds, r \in AssignmentRow :
    \/ CreateAssignment(a, r)
    \/ \E checked \in ALLOCATION_MODES : PatchAssignment(a, r, checked)

Next ==
  \/ SubnetStep \/ ScopeStep \/ ZoneStep \/ AssignmentStep
  \/ \E s \in SubnetIds : DeleteSubnet(s)
  \/ \E c \in ScopeIds : DeleteScope(c)
  \/ \E z \in ZoneIds : DeleteZone(z)
  \/ \E a \in AssignmentIds : DeleteAssignment(a)
  \/ \E d \in Devices : CreateDevice(d) \/ CreatePort(d) \/ DeletePort(d) \/ DeleteDevice(d)
  \/ \E d \in Devices, s \in SubnetIds, a \in AssignmentIds, ip \in Ips : ImportDevice(d, s, a, ip)

Spec == Init /\ [][Next]_vars

-----------------------------------------------------------------------------
(* The web client's proposal of the next free address, from a copy of the   *)
(* tables that is up to date.                                               *)

\* previewNextIpAllocation: assigned addresses, and the gateways of scopes.
Taken(s) ==
  {assignment[a].ip : a \in In(assignment, s)}
    \cup ({scope[c].gateway : c \in In(scope, s)} \ {None})

Covered(s, kinds) ==
  UNION {zone[z].range : z \in {z \in In(zone, s) : zone[z].kind \in kinds}}
Pooled(s) == UNION {scope[c].range : c \in In(scope, s)}

\* The lowest free address of the static zones, else (nextFreeStaticIp) the
\* lowest free one outside of the scopes.
StaticCandidates(s) ==
  LET zoned == Covered(s, {"static"}) \ Taken(s)
  IN IF zoned # {} THEN zoned
     ELSE Interior(subnet[s].cidr) \ (Taken(s) \cup Pooled(s))

\* Mutant: the DHCP zones of the subnet are not looked at.
PoolCandidates(s, c) ==
  (scope[c].range \cap Interior(subnet[s].cidr)) \ (Taken(s) \cup Covered(s, {"reserved"}))

\* nextFreeDhcpReservationIp: in the scope, and in the DHCP zones if any.
ReservationCandidates(s, c) ==
  LET pool == scope[c].range \cap Interior(subnet[s].cidr)
      zones == {z \in In(zone, s) : zone[z].kind = "dhcp"}
      zoned == IF zones = {} THEN pool ELSE pool \cap Covered(s, {"dhcp"})
  IN zoned \ (Taken(s) \cup Covered(s, {"reserved"}))

Proposal(s, type, ip, mode, c) ==
  [subnet |-> s, ip |-> ip, type |-> type, mode |-> mode, scope |-> c,
   device |-> None, port |-> None]

\* The row is filed under the first scope of the subnet that holds the address.
Proposals(s, type) ==
  {Proposal(s, type, Lowest(S), "static", None) : S \in {StaticCandidates(s)} \ {{}}}
    \cup UNION {{Proposal(s, type, ip, "dhcp-reservation", c) :
                   c \in {c \in In(scope, s) : ip \in scope[c].range}} :
                ip \in {Lowest(S) : S \in {ReservationCandidates(s, c) : c \in In(scope, s)} \ {{}}}}

-----------------------------------------------------------------------------
(* What the restore of a backup demands (validateBackupNetworkIntegrity).   *)

ValidRanges ==
  /\ \A s \in Rows(subnet) : GatewayFits(subnet[s].cidr, subnet[s].gateway)
  /\ \A c \in Rows(scope) :
       /\ subnet[scope[c].subnet] # None
       /\ scope[c].range \subseteq Hosts(subnet[scope[c].subnet].cidr)
       /\ GatewayFits(subnet[scope[c].subnet].cidr, scope[c].gateway)
  /\ \A z \in Rows(zone) :
       /\ subnet[zone[z].subnet] # None
       /\ zone[z].range \subseteq Hosts(subnet[zone[z].subnet].cidr)

ValidReservation(r) ==
  IF r.mode = "dhcp-reservation"
    THEN /\ r.scope # None /\ scope[r.scope] # None
         /\ scope[r.scope].subnet = r.subnet
         /\ r.ip \in scope[r.scope].range
    ELSE r.scope = None

\* What is left of that: a scope that is named is there, in the subnet of the row.
ScopeIsOwn(r) ==
  r.scope # None => scope[r.scope] # None /\ scope[r.scope].subnet = r.subnet

ValidAddress(r) == subnet[r.subnet] # None /\ r.ip \in Hosts(subnet[r.subnet].cidr)

ValidReferences(r) ==
  /\ r.device # None => r.device \in devices /\ LabOf[r.device] = subnet[r.subnet].lab
  /\ r.port # None => /\ r.port \in ports /\ LabOf[r.port] = subnet[r.subnet].lab
                      /\ r.device \in {None, r.port}

-----------------------------------------------------------------------------
(* Correctness                                                             *)

TypeOK ==
  /\ subnet \in [SubnetIds -> SubnetRow \cup {None}]
  /\ scope \in [ScopeIds -> ScopeRow \cup {None}]
  /\ zone \in [ZoneIds -> ZoneRow \cup {None}]
  /\ assignment \in [AssignmentIds -> AssignmentRow \cup {None}]
  /\ ports \subseteq devices /\ devices \subseteq Devices

\* Whatever requests are made, a backup of the tables is refused by the restore for
\* three reasons only: overlaps that were there from the start, a reservation that
\* its scope does not hold or that lost it, and a static assignment that names a
\* scope.  Blocks that shrink or move (PATCH /subnets), assignments that move
\* between subnets and labs, syncs and cascades leave the rest in order, down to
\* the scope of such an assignment, which is always one of its own subnet.
BackupIsRestorable ==
  /\ TypeOK
  /\ ValidRanges
  /\ \A a \in Rows(assignment) :
       LET r == assignment[a] IN ValidAddress(r) /\ ValidReferences(r) /\ ScopeIsOwn(r)

\* A reservation's mode was cleared, and the scope it named was kept.
ModeCleared(old, new) ==
  old.mode = "dhcp-reservation" /\ new.mode = "static" /\ new.scope # None

\* An assignment whose mode and scope agree goes on so but for two causes: its scope
\* was edited or deleted, or it was a reservation and its own mode was cleared
\* (PATCH with allocationMode null).  No other request takes a reservation out of
\* its scope or gives a scope to a static assignment.
OnlyTwoEditsStrand ==
  [][\A a \in Rows(assignment) :
       LET r == assignment[a] IN
         /\ ValidReservation(r)
         /\ assignment'[a] # None /\ ~ ValidReservation(assignment[a])'
         => \/ /\ r.scope # None /\ scope'[r.scope] # scope[r.scope]
               /\ subnet' = subnet
            \/ /\ ModeCleared(r, assignment'[a])
               /\ UNCHANGED <<subnet, scope, zone, devices, ports>>]_vars

\* "Legacy overlaps are preserved, marked read-only": no two subnets of a lab come
\* to overlap that did not, and no request adds to one that overlaps.  Two writers
\* do not look and still add to it: the import of a device its address, and a sync
\* a DHCP range.
OverlapsOnlyShrink ==
  [][\A s \in SubnetIds :
       /\ subnet'[s] # None /\ ~ Healthy(s)' => subnet[s] # None /\ ~ Healthy(s)
       /\ subnet[s] # None /\ ~ Healthy(s) =>
            /\ \/ In(scope, s)' \subseteq In(scope, s)
               \/ \E c \in ScopeIds, r \in Ranges : SyncScope(c, s, r)
            /\ In(zone, s)' \subseteq In(zone, s)
            /\ \/ In(assignment, s)' \subseteq In(assignment, s)
               \/ \E d \in Devices, a \in AssignmentIds, ip \in Ips :
                    ImportDevice(d, s, a, ip)]_vars

\* The server takes the address the client proposes, but in two cases the
\* client does not look at: it is the subnet's own gateway, or a reservation
\* in a static zone of a subnet without DHCP zones.
ProposalIsAccepted ==
  \A s \in Rows(subnet), type \in HOST_ASSIGNMENT_TYPES :
    Healthy(s) => \A r \in Proposals(s, type) :
      \/ \A a \in AssignmentIds : Semantics(a, r) /\ UniqueAddress(a, r)
      \/ r.ip = subnet[s].gateway
      \/ r.mode = "dhcp-reservation" /\ InZone(s, r.ip, {"static"})
=============================================================================
