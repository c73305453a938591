----------------------------- MODULE NetworkSync -----------------------------
(***************************************************************************)
(* VLANs and subnets of one lab, edited through their routes and           *)
(* reconciled with what SNMP devices and integration controllers report    *)
(* (server/lib/snmp-sync.ts, server/lib/integrations/network-sync.ts,      *)
(* server/routes/snmp-sync.ts, vlans.ts and ipam.ts).                      *)
(*                                                                         *)
(* A preview is computed from the tables in one go, after the collection   *)
(* was awaited, and then leaves the server: by the time it is applied the  *)
(* tables may say something else.  An apply is one transaction; when a     *)
(* check or a constraint in it fails nothing changes, so a failed apply is *)
(* no step.                                                                *)
(*                                                                         *)
(* A CIDR is the set of its addresses, a DHCP range too.  A collection is  *)
(* what one device reports: VLAN names by number, subnets by CIDR with     *)
(* their name and VLAN number, and DHCP ranges by CIDR.                    *)
(***************************************************************************)
EXTENDS Integers, FiniteSets

CONSTANTS
  VlanIds, SubnetIds,  \* row ids (createId never returns one twice)
  NoVlan,              \* a null subnets.vlanId
  Numbers,             \* 802.1Q VLAN numbers
  Names,               \* names of VLANs and subnets
  Cidrs,               \* CIDR blocks, each the set of its addresses
  Ranges,              \* DHCP ranges, each the set of its addresses
  Collections,         \* what profile.collect or fetchInventory can report
  MaxEdits,            \* bound: edits through the routes, but for taking an
                       \* assignment or a DHCP range away
  MaxPreviews          \* bound: previews that clients hold

NoNumber == 0  \* no VLAN number reported

PartialFunctions(S, T) == UNION {[D -> T] : D \in SUBSET S}

Reported == [name : Names, number : Numbers \cup {NoNumber}]

\* What is collected is well formed: no VLAN number or CIDR comes twice.
CollectionOK(c) ==
  /\ c.vlans \in PartialFunctions(Numbers, Names)
  /\ c.subnets \in PartialFunctions(Cidrs, Reported)
  /\ c.scopes \subseteq [cidr : Cidrs, range : Ranges]

ASSUME CollectionAssumption == \A c \in Collections : CollectionOK(c)
ASSUME IdAssumption == NoVlan \notin VlanIds
ASSUME NumberAssumption == NoNumber \notin Numbers
ASSUME CidrAssumption == \A k \in Cidrs : k # {}
ASSUME BoundAssumption == MaxEdits \in Nat /\ MaxPreviews \in Nat

VARIABLES
  vlan,      \* table vlans, with whether a port references the row
  subnet,    \* table subnets, with its ipAssignments and dhcpScopes
  previews,  \* previews that clients, or the token store, hold
  edits      \* bound: edits so far

networkVars == <<vlan, subnet, previews, edits>>

Addresses == UNION Cidrs
Policies == {"merge", "mirror"}
Unborn == [state |-> "unborn"]
Gone == [state |-> "gone"]

VlanRow ==
  [state : {"live"}, number : Numbers, name : Names, ported : BOOLEAN]

SubnetRow ==
  [state : {"live"}, cidr : Cidrs, name : Names, vlan : VlanIds \cup {NoVlan},
   hosts : SUBSET Addresses, scopes : SUBSET Ranges]

NewVlan(n, name) ==
  [state |-> "live", number |-> n, name |-> name, ported |-> FALSE]

NewSubnet(k, name, v, scopes) ==
  [state |-> "live", cidr |-> k, name |-> name, vlan |-> v,
   hosts |-> {}, scopes |-> scopes]

LiveVlans == {v \in VlanIds : vlan[v].state = "live"}
LiveSubnets == {s \in SubnetIds : subnet[s].state = "live"}
UnbornVlans == {v \in VlanIds : vlan[v].state = "unborn"}
UnbornSubnets == {s \in SubnetIds : subnet[s].state = "unborn"}

VlanOf(n) == {v \in LiveVlans : vlan[v].number = n}
SubnetOf(k) == {s \in LiveSubnets : subnet[s].cidr = k}

Overlap(a, b) == a \cap b # {}

\* assertSubnetCidrAvailable: no other subnet of the lab overlaps.
CidrAvailable(k, others) == \A s \in others : ~ Overlap(k, subnet[s].cidr)

NetworkInit ==
  /\ vlan = [v \in VlanIds |-> Unborn]
  /\ subnet = [s \in SubnetIds |-> Unborn]
  /\ previews = {}
  /\ edits = 0

(***************************************************************************)
(* buildSnmpSyncPreview: what differs between a collection and the tables. *)
(* Rows absent from the collection are listed for deletion by a mirror,    *)
(* and the ones nothing depends on at this moment are not blocked.         *)
(***************************************************************************)
VlanBlocked(v) ==
  vlan[v].ported \/ \E s \in LiveSubnets : subnet[s].vlan = v

SubnetBlocked(s) == subnet[s].hosts # {} \/ subnet[s].scopes # {}

Absent(c) ==
  [vlans |-> {v \in LiveVlans : /\ vlan[v].number \notin DOMAIN c.vlans
                                /\ ~ VlanBlocked(v)},
   subnets |-> {s \in LiveSubnets : /\ subnet[s].cidr \notin DOMAIN c.subnets
                                    /\ ~ SubnetBlocked(s)}]

AbsentExists(c) ==
  \/ \E v \in LiveVlans : vlan[v].number \notin DOMAIN c.vlans
  \/ \E s \in LiveSubnets : subnet[s].cidr \notin DOMAIN c.subnets

\* A collected subnet differs in its name, or in a VLAN the lab already has.
SubnetDiffers(s, reported) ==
  \/ subnet[s].name # reported.name
  \/ \E v \in VlanOf(reported.number) : subnet[s].vlan # v

ScopeConflicts(c, x) ==
  \/ x.cidr \notin DOMAIN c.subnets
  \/ ~ (x.range \subseteq x.cidr)
  \/ \E s \in SubnetOf(x.cidr) : \E r \in subnet[s].scopes :
       r # x.range /\ Overlap(r, x.range)

Preview(policy, c) ==
  LET mirror == policy = "mirror"
      renamed == {v \in LiveVlans :
        /\ vlan[v].number \in DOMAIN c.vlans
        /\ vlan[v].name # c.vlans[vlan[v].number]}
      changed == {s \in LiveSubnets :
        /\ subnet[s].cidr \in DOMAIN c.subnets
        /\ SubnetDiffers(s, c.subnets[subnet[s].cidr])}
  IN [source |-> "snmp",
      policy |-> policy,
      newVlans |-> [n \in {n \in DOMAIN c.vlans : VlanOf(n) = {}} |->
                      c.vlans[n]],
      vlanNames |-> [v \in IF mirror THEN renamed ELSE {} |->
                      c.vlans[vlan[v].number]],
      newSubnets |-> [k \in {k \in DOMAIN c.subnets : SubnetOf(k) = {}} |->
                      c.subnets[k]],
      changes |-> [s \in IF mirror THEN changed ELSE {} |->
                      c.subnets[subnet[s].cidr]],
      hasDeletes |-> mirror /\ AbsentExists(c),
      deletable |-> IF mirror THEN Absent(c) ELSE [vlans |-> {}, subnets |-> {}],
      linkOnly |-> [s \in {} |-> NoNumber],
      scopes |-> {x \in c.scopes : ~ ScopeConflicts(c, x)}]

(***************************************************************************)
(* buildIntegrationNetworkPreview: only the kinds the connection pulls, no *)
(* deletions and no DHCP scopes; a merge offers a VLAN link to subnets     *)
(* that have none.                                                         *)
(***************************************************************************)
Pulled(c, kinds) ==
  [vlans |-> [n \in IF "vlans" \in kinds THEN DOMAIN c.vlans ELSE {} |-> c.vlans[n]],
   subnets |-> [k \in IF "subnets" \in kinds THEN DOMAIN c.subnets ELSE {} |->
                  c.subnets[k]],
   scopes |-> {}]

LinkOffered(c, s) ==
  LET n == c.subnets[subnet[s].cidr].number IN
  /\ subnet[s].vlan = NoVlan
  /\ n \in DOMAIN c.vlans \/ VlanOf(n) # {}

IntegrationPreview(policy, c) ==
  LET offered == {s \in LiveSubnets : /\ policy = "merge"
                                      /\ subnet[s].cidr \in DOMAIN c.subnets
                                      /\ LinkOffered(c, s)}
  IN [Preview(policy, c) EXCEPT
        !.source = "integration",
        !.hasDeletes = FALSE,
        !.deletable = [vlans |-> {}, subnets |-> {}],
        !.linkOnly = [s \in offered |-> c.subnets[subnet[s].cidr].number]]

(***************************************************************************)
(* applySnmpSyncPreview.  `doomed` are the rows it deletes, and mintV and  *)
(* mintS the ids createId gives to the rows it inserts.  The rows it       *)
(* creates come before the ones it deletes, so a new subnet must not       *)
(* overlap a doomed one either, and may not link to a doomed VLAN.         *)
(***************************************************************************)
\* Mutant: nobody has to confirm a deletion.
DoomedUnconfirmed(p, policy, allowDeletes) ==
  IF policy = "mirror"
  THEN [vlans |-> p.deletable.vlans \cap LiveVlans,
        subnets |-> p.deletable.subnets \cap LiveSubnets]
  ELSE [vlans |-> {}, subnets |-> {}]

Doomed(p, policy, allowDeletes) ==
  IF policy = "mirror" /\ allowDeletes
  THEN [vlans |-> p.deletable.vlans \cap LiveVlans,
        subnets |-> p.deletable.subnets \cap LiveSubnets]
  ELSE [vlans |-> {}, subnets |-> {}]

\* Mutant: the numbers of the VLANs the transaction inserts are not added.
LinkToStored(n, mintV) == VlanOf(n)

\* vlanIdByNumber: the id of the VLAN with a number, in a set of at most one.
LinkTo(n, mintV) ==
  VlanOf(n) \cup {mintV[m] : m \in {m \in DOMAIN mintV : m = n}}

TheLink(links, otherwise) ==
  IF links = {} THEN otherwise ELSE CHOOSE v \in links : TRUE

\* Mutant: the preview is trusted to still be right about the subnets.
TrustingInsertsSucceed(p, doomed, mintV) ==
  \A n \in DOMAIN p.newVlans : VlanOf(n) = {}

\* The unique index, assertSubnetCidrAvailable and the foreign key.
InsertsSucceed(p, doomed, mintV) ==
  /\ \A n \in DOMAIN p.newVlans : VlanOf(n) = {}
  /\ \A k \in DOMAIN p.newSubnets :
       /\ CidrAvailable(k, LiveSubnets)
       /\ \A l \in DOMAIN p.newSubnets : k = l \/ ~ Overlap(k, l)
       /\ LinkTo(p.newSubnets[k].number, mintV) \cap doomed.vlans = {}

UpdatesSucceed(p, policy, doomed, mintV) ==
  policy = "mirror" =>
    \A s \in DOMAIN p.changes \cap LiveSubnets :
      LinkTo(p.changes[s].number, mintV) \cap doomed.vlans = {}

ScopesFor(p, k) == {x.range : x \in {x \in p.scopes : x.cidr = k}}

\* Mutant: a link a user made since the preview is overwritten.
LinkOnlyOverwrites(p, s, row, mintV) ==
  IF s \in DOMAIN p.linkOnly
  THEN TheLink(LinkTo(p.linkOnly[s], mintV), row.vlan)
  ELSE row.vlan

\* applyLinkOnlySubnetUpdates: UPDATE ... WHERE vlanId IS NULL.
LinkOnly(p, s, row, mintV) ==
  IF s \in DOMAIN p.linkOnly /\ row.vlan = NoVlan
  THEN TheLink(LinkTo(p.linkOnly[s], mintV), NoVlan)
  ELSE row.vlan

VlanAfter(p, policy, doomed, mintV, v) ==
  IF \E n \in DOMAIN mintV : mintV[n] = v
  THEN LET n == CHOOSE n \in DOMAIN mintV : mintV[n] = v
       IN NewVlan(n, p.newVlans[n])
  ELSE IF v \in doomed.vlans THEN Gone
  ELSE IF policy = "mirror" /\ v \in DOMAIN p.vlanNames \cap LiveVlans
  THEN [vlan[v] EXCEPT !.name = p.vlanNames[v]]
  ELSE vlan[v]

\* A live subnet the transaction keeps.
KeptSubnet(p, policy, doomed, mintV, s) ==
  LET row == IF subnet[s].vlan \in doomed.vlans
             THEN [subnet[s] EXCEPT !.vlan = NoVlan]
             ELSE subnet[s]
      updated == IF policy = "mirror" /\ s \in DOMAIN p.changes
                 THEN [row EXCEPT !.name = p.changes[s].name,
                        !.vlan = TheLink(LinkTo(p.changes[s].number, mintV), @)]
                 ELSE row
  IN [updated EXCEPT !.vlan = LinkOnly(p, s, updated, mintV),
                     !.scopes = @ \cup ScopesFor(p, row.cidr)]

SubnetAfter(p, policy, doomed, mintV, mintS, s) ==
  IF \E k \in DOMAIN mintS : mintS[k] = s
  THEN LET k == CHOOSE k \in DOMAIN mintS : mintS[k] = s
       IN NewSubnet(k, p.newSubnets[k].name,
            TheLink(LinkTo(p.newSubnets[k].number, mintV), NoVlan),
            ScopesFor(p, k))
  ELSE IF s \in doomed.subnets THEN Gone
  ELSE IF s \in LiveSubnets THEN KeptSubnet(p, policy, doomed, mintV, s)
  ELSE subnet[s]

Mints(keys, ids) ==
  {f \in [keys -> ids] : \A k, l \in keys : f[k] = f[l] => k = l}

Apply(p, policy, allowDeletes) ==
  LET doomed == Doomed(p, policy, allowDeletes) IN
  \E mintV \in Mints(DOMAIN p.newVlans, UnbornVlans),
     mintS \in Mints(DOMAIN p.newSubnets, UnbornSubnets) :
    /\ InsertsSucceed(p, doomed, mintV)
    /\ UpdatesSucceed(p, policy, doomed, mintV)
    /\ vlan' = [v \in VlanIds |-> VlanAfter(p, policy, doomed, mintV, v)]
    /\ subnet' = [s \in SubnetIds |->
                    SubnetAfter(p, policy, doomed, mintV, mintS, s)]

(***************************************************************************)
(* POST /snmp-sync/preview and /apply.  The client sends the preview back  *)
(* as often as it likes, may turn a mirror preview into a merge, and must  *)
(* confirm deletions.                                                      *)
(***************************************************************************)
SnmpPreview(policy, c) ==
  /\ Cardinality(previews) < MaxPreviews
  /\ previews' = previews \cup {Preview(policy, c)}
  /\ UNCHANGED <<vlan, subnet, edits>>

Accepts(p, policy, allowDeletes) ==
  /\ policy = "mirror" => p.policy = "mirror"
  /\ policy = "mirror" /\ ~ allowDeletes => ~ p.hasDeletes

SnmpApply(p, policy, allowDeletes) ==
  /\ p \in previews /\ p.source = "snmp"
  /\ Accepts(p, policy, allowDeletes)
  /\ Apply(p, policy, allowDeletes)
  /\ UNCHANGED <<previews, edits>>

\* The client drops a preview; a token expires or is spent on an apply that
\* fails.
Discard(p) ==
  /\ previews' = previews \ {p}
  /\ UNCHANGED <<vlan, subnet, edits>>

\* runSnmpSyncSchedule, after profile.collect answered.
ScheduledSync(policy, c) ==
  /\ Apply(Preview(policy, c), policy, FALSE)
  /\ UNCHANGED <<previews, edits>>

(***************************************************************************)
(* The network half of an integration: a reviewed preview is kept by the   *)
(* server under a single-use token; a scheduled run applies it at once.    *)
(***************************************************************************)
FetchPreview(policy, c, kinds) ==
  /\ Cardinality(previews) < MaxPreviews
  /\ previews' = previews \cup {IntegrationPreview(policy, Pulled(c, kinds))}
  /\ UNCHANGED <<vlan, subnet, edits>>

IntegrationApply(p) ==
  /\ p \in previews /\ p.source = "integration"
  /\ Apply(p, p.policy, FALSE)
  /\ previews' = previews \ {p}
  /\ UNCHANGED edits

AutoSync(policy, c, kinds) ==
  /\ Apply(IntegrationPreview(policy, Pulled(c, kinds)), policy, FALSE)
  /\ UNCHANGED <<previews, edits>>

(***************************************************************************)
(* The routes of VLANs and subnets.                                        *)
(***************************************************************************)
Edit ==
  /\ edits < MaxEdits
  /\ edits' = edits + 1
  /\ UNCHANGED previews

AddVlan(v, n, name) ==
  /\ Edit
  /\ v \in UnbornVlans /\ VlanOf(n) = {}
  /\ vlan' = [vlan EXCEPT ![v] = NewVlan(n, name)]
  /\ UNCHANGED subnet

EditVlan(v, n, name) ==
  /\ Edit
  /\ v \in LiveVlans /\ VlanOf(n) \subseteq {v}
  /\ vlan' = [vlan EXCEPT ![v].number = n, ![v].name = name]
  /\ UNCHANGED subnet

\* subnets.vlanId is ON DELETE SET NULL.
RemoveVlan(v) ==
  /\ Edit
  /\ v \in LiveVlans
  /\ vlan' = [vlan EXCEPT ![v] = Gone]
  /\ subnet' = [s \in SubnetIds |->
       IF s \in LiveSubnets /\ subnet[s].vlan = v
       THEN [subnet[s] EXCEPT !.vlan = NoVlan]
       ELSE subnet[s]]

\* A port is assigned to the VLAN, or the last one leaves it.
SetPorted(v, ported) ==
  /\ Edit
  /\ v \in LiveVlans
  /\ vlan' = [vlan EXCEPT ![v].ported = ported]
  /\ UNCHANGED subnet

AddSubnet(s, k, name, v) ==
  /\ Edit
  /\ s \in UnbornSubnets /\ CidrAvailable(k, LiveSubnets)
  /\ v \in LiveVlans \cup {NoVlan}
  /\ subnet' = [subnet EXCEPT ![s] = NewSubnet(k, name, v, {})]
  /\ UNCHANGED vlan

\* validateSubnetChildrenForCidr
ChildrenFit(s, k) ==
  subnet[s].hosts \cup UNION subnet[s].scopes \subseteq k

EditSubnet(s, k, name, v) ==
  /\ Edit
  /\ s \in LiveSubnets
  /\ k # subnet[s].cidr => /\ CidrAvailable(k, LiveSubnets \ {s})
                           /\ ChildrenFit(s, k)
  /\ v \in LiveVlans \cup {NoVlan}
  /\ subnet' = [subnet EXCEPT ![s].cidr = k, ![s].name = name, ![s].vlan = v]
  /\ UNCHANGED vlan

RemoveSubnet(s) ==
  /\ Edit
  /\ s \in LiveSubnets
  /\ subnet' = [subnet EXCEPT ![s] = Gone]
  /\ UNCHANGED vlan

Assign(s, a) ==
  /\ Edit
  /\ s \in LiveSubnets /\ a \in subnet[s].cidr \ subnet[s].hosts
  /\ subnet' = [subnet EXCEPT ![s].hosts = @ \cup {a}]
  /\ UNCHANGED vlan

Unassign(s, a) ==
  /\ s \in LiveSubnets /\ a \in subnet[s].hosts
  /\ subnet' = [subnet EXCEPT ![s].hosts = @ \ {a}]
  /\ UNCHANGED <<vlan, previews, edits>>

AddScope(s, r) ==
  /\ Edit
  /\ s \in LiveSubnets /\ r \subseteq subnet[s].cidr
  /\ subnet' = [subnet EXCEPT ![s].scopes = @ \cup {r}]
  /\ UNCHANGED vlan

EditScope(s, r, to) ==
  /\ Edit
  /\ s \in LiveSubnets /\ r \in subnet[s].scopes /\ to \subseteq subnet[s].cidr
  /\ subnet' = [subnet EXCEPT ![s].scopes = (@ \ {r}) \cup {to}]
  /\ UNCHANGED vlan

RemoveScope(s, r) ==
  /\ s \in LiveSubnets /\ r \in subnet[s].scopes
  /\ subnet' = [subnet EXCEPT ![s].scopes = @ \ {r}]
  /\ UNCHANGED <<vlan, previews, edits>>

Kinds == SUBSET {"vlans", "subnets"}

UnattendedSync ==
  \/ \E policy \in Policies, c \in Collections : ScheduledSync(policy, c)
  \/ \E policy \in Policies, c \in Collections, kinds \in Kinds :
       AutoSync(policy, c, kinds)

ReviewedSync ==
  \E p \in previews :
    \/ \E policy \in Policies, allowDeletes \in BOOLEAN :
         SnmpApply(p, policy, allowDeletes)
    \/ IntegrationApply(p)

Previewing ==
  \/ \E policy \in Policies, c \in Collections : SnmpPreview(policy, c)
  \/ \E policy \in Policies, c \in Collections, kinds \in Kinds :
       FetchPreview(policy, c, kinds)
  \/ \E p \in previews : Discard(p)

VlanRoute ==
  \E v \in VlanIds :
    \/ \E n \in Numbers, name \in Names : AddVlan(v, n, name) \/ EditVlan(v, n, name)
    \/ RemoveVlan(v)
    \/ \E ported \in BOOLEAN : SetPorted(v, ported)

SubnetRoute ==
  \E s \in SubnetIds :
    \/ \E k \in Cidrs, name \in Names, v \in VlanIds \cup {NoVlan} :
         AddSubnet(s, k, name, v) \/ EditSubnet(s, k, name, v)
    \/ RemoveSubnet(s)
    \/ \E a \in Addresses : Assign(s, a) \/ Unassign(s, a)
    \/ \E r \in Ranges : AddScope(s, r) \/ RemoveScope(s, r)
    \/ \E r, to \in Ranges : EditScope(s, r, to)

NetworkNext == UnattendedSync \/ ReviewedSync \/ Previewing \/ VlanRoute \/ SubnetRoute

NetworkSpec == NetworkInit /\ [][NetworkNext]_networkVars

-----------------------------------------------------------------------------
PreviewOK(p) ==
  /\ p.source \in {"snmp", "integration"} /\ p.policy \in Policies
  /\ p.newVlans \in PartialFunctions(Numbers, Names)
  /\ p.vlanNames \in PartialFunctions(VlanIds, Names)
  /\ p.newSubnets \in PartialFunctions(Cidrs, Reported)
  /\ p.changes \in PartialFunctions(SubnetIds, Reported)
  /\ p.linkOnly \in PartialFunctions(SubnetIds, Numbers)

NetworkTypeOK ==
  /\ vlan \in [VlanIds -> VlanRow \cup {Unborn, Gone}]
  /\ subnet \in [SubnetIds -> SubnetRow \cup {Unborn, Gone}]
  /\ \A p \in previews : PreviewOK(p)
  /\ edits \in 0 .. MaxEdits

\* No two subnets of a lab overlap, whatever previews were computed before
\* the subnets of today existed and however they are applied.
SubnetsDisjoint ==
  \A s, t \in LiveSubnets : s # t => ~ Overlap(subnet[s].cidr, subnet[t].cidr)

\* The addresses and DHCP ranges of a subnet stay inside it when the subnet is
\* moved, when a range is changed, and when a sync adds the ranges of a CIDR
\* that by now belongs to another row than the one previewed.
ChildrenInside ==
  \A s \in LiveSubnets :
    subnet[s].hosts \cup UNION subnet[s].scopes \subseteq subnet[s].cidr

\* A subnet links to an existing VLAN or to none: the VLANs a mirror deletes
\* leave no link behind, not even from the subnets the same apply inserts.
LinksAreLive ==
  \A s \in LiveSubnets : subnet[s].vlan \in LiveVlans \cup {NoVlan}

\* The tables stay consistent, in all of these respects together: none of them
\* survives an apply without the others.
TablesConsistent == NetworkTypeOK /\ SubnetsDisjoint /\ ChildrenInside /\ LinksAreLive

MergeStep ==
  \/ \E c \in Collections : ScheduledSync("merge", c)
  \/ \E c \in Collections, kinds \in Kinds : AutoSync("merge", c, kinds)
  \/ \E p \in previews :
       \/ \E allowDeletes \in BOOLEAN : SnmpApply(p, "merge", allowDeletes)
       \/ p.policy = "merge" /\ IntegrationApply(p)

UnconfirmedSync ==
  \/ UnattendedSync
  \/ \E p \in previews :
       \/ \E policy \in Policies : SnmpApply(p, policy, FALSE)
       \/ IntegrationApply(p)

\* Only a mirror that was confirmed takes anything away.  A sync that nobody
\* confirmed deletions for, scheduled or reviewed, removes no VLAN and no
\* subnet, whatever its policy; and a merge renames, moves and removes nothing:
\* where a user has linked a subnet since the preview offered a link, the
\* user's link stays.
OnlyConfirmedMirrorsTake ==
  [][/\ UnconfirmedSync =>
          /\ \A v \in LiveVlans : vlan'[v].state = "live"
          /\ \A s \in LiveSubnets : subnet'[s].state = "live"
     /\ MergeStep =>
          /\ \A v \in LiveVlans : vlan'[v] = vlan[v]
          /\ \A s \in LiveSubnets :
               LET before == subnet[s] after == subnet'[s] IN
               /\ after.state = "live"
               /\ after.cidr = before.cidr /\ after.name = before.name
               /\ after.hosts = before.hosts /\ before.scopes \subseteq after.scopes
               /\ before.vlan \in {NoVlan, after.vlan}]_networkVars

\* The CIDR has a row, linked to the VLAN of the reported number if the lab
\* has that VLAN when the sync is over.
Arrives(k, reported) ==
  \E s \in SubnetIds :
    /\ subnet'[s].state = "live" /\ subnet'[s].cidr = k
    /\ \A v \in VlanIds :
         vlan'[v].state = "live" /\ vlan'[v].number = reported.number
           => subnet'[s].vlan = v

\* An apply that succeeds creates every subnet it previewed and links it, also
\* to a VLAN that the same apply creates; a scheduled run leaves every
\* reported VLAN and CIDR in the lab.
SyncDelivers ==
  [][/\ \A p \in previews :
          ((\E policy \in Policies, allowDeletes \in BOOLEAN :
              SnmpApply(p, policy, allowDeletes)) \/ IntegrationApply(p))
            => \A k \in DOMAIN p.newSubnets : Arrives(k, p.newSubnets[k])
     /\ \A policy \in Policies, c \in Collections :
          ScheduledSync(policy, c) =>
            /\ \A n \in DOMAIN c.vlans : \E v \in VlanIds :
                 vlan'[v].state = "live" /\ vlan'[v].number = n
            /\ \A k \in DOMAIN c.subnets :
                 \E s \in SubnetIds :
                   subnet'[s].state = "live" /\ subnet'[s].cidr = k]_networkVars
=============================================================================
