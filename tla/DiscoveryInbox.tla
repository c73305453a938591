---------------------------- MODULE DiscoveryInbox ----------------------------
(***************************************************************************)
(* The review inbox of a lab: what scans write into discoveredDevices and  *)
(* what users decide about its rows meanwhile (server/routes/discovery.ts, *)
(* DELETE /devices/:id in server/routes/devices.ts).  DiscoveryScans has   *)
(* the queue that starts the scans.                                        *)
(*                                                                         *)
(* There is one row per address.  Of a row the model keeps the decision,   *)
(* whether IPAM called the address technical (a gateway, a DNS server, a   *)
(* reserved or an infrastructure address) when it was last scanned, and    *)
(* whether a MAC address is known; names, types and vendors are left out.  *)
(* The addresses lie in different chunks of a scan, whose order is open.   *)
(***************************************************************************)
CONSTANTS
  Addresses,
  Devices,   \* ids of devices
  Scans,     \* bound: scans of the lab at a time
  Requests,  \* bound: links that wait for a vendor at a time
  None

VARIABLES
  rows,      \* discoveredDevices, by address
  devices,   \* devices of the lab: whether the MAC address is known, or None
  technical, \* addresses that IPAM calls technical
  scans,     \* runDiscoveryScan under way
  links      \* PATCH /:id requests that await lookupOuiVendor

vars == <<rows, devices, technical, scans, links>>

DISCOVERY_STATUSES == {"new", "imported", "dismissed"}

Row == [status : DISCOVERY_STATUSES, importedDevice : Devices \cup {None},
        technical : BOOLEAN, mac : BOOLEAN]

ASSUME NoneAssumption == None \notin BOOLEAN \cup Devices \cup Row

\* What a scan collected when it began, and the addresses it has still to reach.
Scan == [technical : SUBSET Addresses, left : SUBSET Addresses]

\* A link with what the request read before its await; `found` is whether the
\* row it read is still there.
Link == [at : Addresses, device : Devices, mac : BOOLEAN, found : BOOLEAN]

Init ==
  /\ rows = [a \in Addresses |-> None]
  /\ devices = [d \in Devices |-> None]
  /\ technical \in SUBSET Addresses
  /\ scans = [i \in Scans |-> None]
  /\ links = [r \in Requests |-> None]

Found(a) == rows[a] # None
Exists(d) == devices[d] # None

-----------------------------------------------------------------------------
(***************************************************************************)
(* Scans.                                                                  *)
(***************************************************************************)
\* resetStaleImportedDiscoveryRows: what is imported, but not linked to a device
\* that exists, is new again.
Stale(row) ==
  /\ row # None
  /\ \/ row.importedDevice # None /\ ~ Exists(row.importedDevice)
     \/ row.status = "imported" /\ row.importedDevice = None

Reset ==
  [a \in Addresses |->
     IF Stale(rows[a]) THEN [rows[a] EXCEPT !.status = "new", !.importedDevice = None]
                       ELSE rows[a]]

\* runDiscoveryScan up to its first await.
StartScan(i) ==
  /\ scans[i] = None
  /\ rows' = Reset
  /\ scans' = [scans EXCEPT ![i] = [technical |-> technical, left |-> Addresses]]
  /\ UNCHANGED <<devices, technical, links>>

\* The scan has reached address a, its last or not.
Reached(i, a) ==
  /\ scans[i] # None
  /\ a \in scans[i].left
  /\ scans' = [scans EXCEPT ![i] =
                 IF @.left = {a} THEN None
                 ELSE [technical |-> @.technical, left |-> @.left \ {a}]]
  /\ UNCHANGED <<devices, technical, links>>

HostIsSilent(i, a) == Reached(i, a) /\ UNCHANGED rows

NewRow(isTechnical, mac) ==
  [status |-> IF isTechnical THEN "dismissed" ELSE "new", importedDevice |-> None,
   technical |-> isTechnical, mac |-> mac]

\* Mutant: an imported row is left as it is, in its status and link too.
RefreshedUnlessLinked(row, isTechnical, mac) ==
  [row EXCEPT
     !.technical = isTechnical,
     !.status = IF isTechnical /\ row.importedDevice = None THEN "dismissed" ELSE @,
     !.mac = @ \/ mac]

\* Mutant: an imported host that answers is to be reviewed again, its link kept.
RefreshedForReview(row, isTechnical, mac) ==
  [status |-> IF isTechnical THEN "dismissed"
              ELSE IF row.status = "imported" THEN "new" ELSE row.status,
   importedDevice |-> IF isTechnical THEN None ELSE row.importedDevice,
   technical |-> isTechnical,
   mac |-> row.mac \/ (mac /\ row.importedDevice = None)]

\* ON CONFLICT(labId, ipAddress) DO UPDATE
Refreshed(row, isTechnical, mac) ==
  [status |-> IF isTechnical THEN "dismissed" ELSE row.status,
   importedDevice |-> IF isTechnical THEN None ELSE row.importedDevice,
   technical |-> isTechnical,
   mac |-> row.mac \/ (mac /\ row.importedDevice = None)]

\* The host answers: persistDiscoveredHosts at the end of its chunk.
HostAnswers(i, a, mac) ==
  /\ Reached(i, a)
  /\ LET isTechnical == a \in scans[i].technical IN
     rows' = [rows EXCEPT ![a] = IF Found(a) THEN Refreshed(@, isTechnical, mac)
                                             ELSE NewRow(isTechnical, mac)]

-----------------------------------------------------------------------------
(***************************************************************************)
(* The inbox.                                                              *)
(***************************************************************************)
\* GET /
List ==
  /\ rows' = Reset
  /\ UNCHANGED <<devices, technical, scans, links>>

\* Mutant: a technical address is not refused.
SetAnyStatus(a, status) ==
  /\ Found(a)
  /\ rows' = [rows EXCEPT ![a].status = status]
  /\ UNCHANGED <<devices, technical, scans, links>>

\* PATCH /:id with a status.
SetStatus(a, status) ==
  /\ Found(a)
  /\ rows[a].technical => status = rows[a].status
  /\ rows' = [rows EXCEPT ![a].status = status]
  /\ UNCHANGED <<devices, technical, scans, links>>

\* PATCH /:id with importedDeviceId null.
Unlink(a) ==
  /\ Found(a)
  /\ rows' = [rows EXCEPT ![a].importedDevice = None]
  /\ UNCHANGED <<devices, technical, scans, links>>

MayLink(a, d) == Found(a) /\ ~ rows[a].technical /\ Exists(d)

Linked(row, d, mac) ==
  [row EXCEPT !.status = "imported", !.importedDevice = d, !.mac = row.mac \/ mac]

\* PATCH /:id with a device, whose MAC address, if unknown, is taken from the row.
LinkNow(a, d) ==
  /\ MayLink(a, d)
  /\ ~ devices[d]
  /\ rows' = [rows EXCEPT ![a] = Linked(@, d, FALSE)]
  /\ devices' = [devices EXCEPT ![d] = rows[a].mac]
  /\ UNCHANGED <<technical, scans, links>>

\* The MAC address is known: its vendor is looked up, if need be at the IEEE.
LinkAwaits(r, a, d) ==
  /\ links[r] = None
  /\ MayLink(a, d)
  /\ devices[d]
  /\ links' = [links EXCEPT ![r] = [at |-> a, device |-> d, mac |-> rows[a].mac,
                                    found |-> TRUE]]
  /\ UNCHANGED <<rows, devices, technical, scans>>

\* Mutant: importedDeviceId without REFERENCES.
LinkEndsUnchecked(r) ==
  LET l == links[r] IN
  /\ l # None
  /\ links' = [links EXCEPT ![r] = None]
  /\ rows' = IF l.found THEN [rows EXCEPT ![l.at] = Linked(@, l.device, TRUE)] ELSE rows
  /\ UNCHANGED <<devices, technical, scans>>

(***************************************************************************)
(* The rest of the request.  Nothing is read again: a device deleted       *)
(* meanwhile fails the foreign key, a row deleted meanwhile is not found,  *)
(* and a row that a scan has made technical meanwhile is linked.           *)
(***************************************************************************)
LinkEnds(r) ==
  LET l == links[r] IN
  /\ l # None
  /\ links' = [links EXCEPT ![r] = None]
  /\ IF Exists(l.device)
     THEN /\ rows' = IF l.found THEN [rows EXCEPT ![l.at] = Linked(@, l.device, TRUE)]
                                ELSE rows
          /\ devices' = [devices EXCEPT ![l.device] = @ \/ l.mac]
     ELSE UNCHANGED <<rows, devices>>
  /\ UNCHANGED <<technical, scans>>

\* DELETE /:id
DeleteRow(a) ==
  /\ Found(a)
  /\ rows' = [rows EXCEPT ![a] = None]
  /\ links' = [r \in Requests |->
                 IF links[r] # None /\ links[r].at = a
                 THEN [links[r] EXCEPT !.found = FALSE] ELSE links[r]]
  /\ UNCHANGED <<devices, technical, scans>>

-----------------------------------------------------------------------------
(***************************************************************************)
(* The rest of the inventory.                                              *)
(***************************************************************************)
\* POST /devices; the id is new.
CreateDevice(d, mac) ==
  /\ ~ Exists(d)
  /\ \A r \in Requests : links[r] # None => links[r].device # d
  /\ devices' = [devices EXCEPT ![d] = mac]
  /\ UNCHANGED <<rows, technical, scans, links>>

\* PATCH /devices/:id
SetMac(d, mac) ==
  /\ Exists(d)
  /\ devices' = [devices EXCEPT ![d] = mac]
  /\ UNCHANGED <<rows, technical, scans, links>>

DeleteDevice(d) ==
  /\ Exists(d)
  /\ rows' = [a \in Addresses |->
                IF Found(a) /\ rows[a].importedDevice = d
                THEN [rows[a] EXCEPT !.status = "new", !.importedDevice = None]
                ELSE rows[a]]
  /\ devices' = [devices EXCEPT ![d] = None]
  /\ UNCHANGED <<technical, scans, links>>

\* A gateway, a DNS server, a reserved address or zone is entered, or removed.
EditIpam ==
  /\ technical' \in SUBSET Addresses
  /\ UNCHANGED <<rows, devices, scans, links>>

Restart ==
  /\ scans' = [i \in Scans |-> None]
  /\ links' = [r \in Requests |-> None]
  /\ UNCHANGED <<rows, devices, technical>>

AnswerFrom(a) == \E i \in Scans, mac \in BOOLEAN : HostAnswers(i, a, mac)

ScanGoesOn(i) ==
  \E a \in Addresses : HostIsSilent(i, a) \/ \E mac \in BOOLEAN : HostAnswers(i, a, mac)

Next ==
  \/ \E i \in Scans : StartScan(i) \/ ScanGoesOn(i)
  \/ List \/ EditIpam \/ Restart
  \/ \E a \in Addresses :
       \/ Unlink(a) \/ DeleteRow(a)
       \/ \E status \in DISCOVERY_STATUSES : SetStatus(a, status)
       \/ \E d \in Devices : LinkNow(a, d) \/ \E r \in Requests : LinkAwaits(r, a, d)
  \/ \E r \in Requests : LinkEnds(r)
  \/ \E d \in Devices :
       DeleteDevice(d) \/ \E mac \in BOOLEAN : CreateDevice(d, mac) \/ SetMac(d, mac)

Spec == Init /\ [][Next]_vars

(***************************************************************************)
(* A schedule scans the lab again and again, every scan ends, and a host   *)
(* that is up answers when it is asked often enough.  Nothing is assumed   *)
(* of users.                                                               *)
(***************************************************************************)
Fairness ==
  /\ WF_vars(\E i \in Scans : StartScan(i))
  /\ \A i \in Scans : WF_vars(ScanGoesOn(i))
  /\ \A a \in Addresses : SF_vars(AnswerFrom(a))

LiveSpec == Spec /\ Fairness

-----------------------------------------------------------------------------
TypeOK ==
  /\ rows \in [Addresses -> Row \cup {None}]
  /\ devices \in [Devices -> BOOLEAN \cup {None}]
  /\ technical \subseteq Addresses
  /\ scans \in [Scans -> Scan \cup {None}]
  /\ links \in [Requests -> Link \cup {None}]

\* The tables are well formed, and whatever was deleted while a link waited for
\* its vendor, no row is linked to a device that does not exist.
LinksAreLive ==
  /\ TypeOK
  /\ \A a \in Addresses :
       Found(a) /\ rows[a].importedDevice # None => Exists(rows[a].importedDevice)

Out(row) == row.technical /\ row.status = "dismissed" /\ row.importedDevice = None

\* What puts a row aside keeps it aside, but for a link that ends.
StaysOut ==
  \A a \in Addresses :
    rows[a] # None /\ rows'[a] # None /\ Out(rows[a]) /\ rows'[a].technical =>
      \/ Out(rows'[a])
      \/ \E r \in Requests : links[r] # None /\ links[r].at = a /\ links'[r] = None

\* A row that was put aside as technical stays aside until a scan finds that IPAM
\* has let go of the address.  Only a link that was asked for before can bring it
\* back; no request that begins later can.
TechnicalStaysOut == [][StaysOut]_vars

ImportedAsNothing(row) == row.status = "imported" /\ row.importedDevice = None

\* The link is as it was, and so is the status, but for an import that links nothing.
SameDecision(old, new) ==
  /\ new.importedDevice = old.importedDevice
  /\ new.status # old.status => ImportedAsNothing(old) /\ new.status = "new"

Undecided(row) == row.status = "new" /\ row.importedDevice = None

\* A scan that moved on had found the address technical when it began.
SeenAsTechnical(a) ==
  \E i \in Scans : scans[i] # None /\ scans'[i] # scans[i] /\ a \in scans[i].technical

ScanDecidesNothing ==
  scans' # scans =>
    /\ devices' = devices
    /\ \A a \in Addresses :
         /\ rows[a] # None => rows'[a] # None
         /\ rows'[a] # rows[a] =>
              \/ Out(rows'[a]) /\ SeenAsTechnical(a)
              \/ IF rows[a] = None THEN Undecided(rows'[a]) ELSE SameDecision(rows[a], rows'[a])

\* Scans "do not automatically import, link, or delete devices": a step of a scan
\* leaves every decision, that of a row imported as a live device first of all,
\* except that it puts aside what was technical when it began and returns what is
\* imported as nothing to the queue; and what it adds is to be decided.
ScansDecideNothing == [][ScanDecidesNothing]_vars

\* An address that stays technical is put aside again and again: also when it was
\* imported before, when a scan that began earlier wrote over it, or when a link
\* that came too late brought it back.
TechnicalGetsOut ==
  \A a \in Addresses :
    <>[](a \in technical) => []<>(rows[a] # None /\ Out(rows[a]))
=============================================================================
