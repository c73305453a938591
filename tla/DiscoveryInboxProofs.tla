-------------------------- MODULE DiscoveryInboxProofs --------------------------
(***************************************************************************)
(* The decisions of DiscoveryInbox for any addresses and devices, and any  *)
(* number of scans and waiting links.                                      *)
(***************************************************************************)
EXTENDS DiscoveryInbox, TLAPS

\* A row that a waiting link has read and that was not deleted is there.
FoundIsThere ==
  \A r \in Requests : links[r] # None /\ links[r].found => Found(links[r].at)

Inv == LinksAreLive /\ FoundIsThere

\* Returning stale rows to the queue keeps the table well formed, and of a table
\* whose links are live it only touches what is imported as nothing.
LEMMA ResetIsSafe ==
  ASSUME LinksAreLive
  PROVE  /\ Reset \in [Addresses -> Row \cup {None}]
         /\ \A a \in Addresses :
              \/ Reset[a] = rows[a]
              \/ /\ rows[a] # None /\ Reset[a] # None
                 /\ rows[a].status = "imported" /\ Reset[a].status = "new"
                 /\ Reset[a].importedDevice = rows[a].importedDevice
                 /\ rows[a].importedDevice = None
<1>1. \A a \in Addresses :
        /\ Reset[a] \in Row \cup {None}
        /\ \/ Reset[a] = rows[a]
           \/ /\ rows[a] # None /\ Reset[a] # None
              /\ rows[a].status = "imported" /\ Reset[a].status = "new"
              /\ Reset[a].importedDevice = rows[a].importedDevice
              /\ rows[a].importedDevice = None
  <2>. TAKE a \in Addresses
  <2>1. Reset[a] = IF Stale(rows[a])
                   THEN [rows[a] EXCEPT !.status = "new", !.importedDevice = None]
                   ELSE rows[a]
    BY DEF Reset
  <2>2. CASE ~ Stale(rows[a])
    BY <2>1, <2>2 DEF LinksAreLive, TypeOK
  <2>3. CASE Stale(rows[a])
    <3>1. rows[a] \in Row /\ rows[a] # None
      BY <2>3 DEF Stale, LinksAreLive, TypeOK
    <3>2. rows[a].status = "imported" /\ rows[a].importedDevice = None
      BY <2>3, <3>1 DEF Stale, LinksAreLive, Found
    <3>3. /\ Reset[a] \in Row
          /\ Reset[a].status = "new" /\ Reset[a].importedDevice = None
      BY <2>1, <2>3, <3>1 DEF Row, DISCOVERY_STATUSES
    <3>. QED
      BY <3>1, <3>2, <3>3, NoneAssumption
  <2>. QED
    BY <2>2, <2>3
<1>. QED
  BY <1>1 DEF Reset

\* One row changes, to one whose link is live.
LEMMA OneRow ==
  ASSUME LinksAreLive, NEW a \in Addresses, NEW row \in Row \cup {None},
         rows' = [rows EXCEPT ![a] = row],
         row # None /\ row.importedDevice # None => devices'[row.importedDevice] # None,
         \A d \in Devices : Exists(d) => devices'[d] # None
  PROVE  /\ rows' \in [Addresses -> Row \cup {None}]
         /\ \A b \in Addresses :
              rows'[b] # None /\ rows'[b].importedDevice # None =>
                devices'[rows'[b].importedDevice] # None
<1>1. rows \in [Addresses -> Row \cup {None}]
  BY DEF LinksAreLive, TypeOK
<1>2. \A b \in Addresses : rows'[b] = IF b = a THEN row ELSE rows[b]
  BY <1>1
<1>3. ASSUME NEW b \in Addresses, rows[b] # None, rows[b].importedDevice # None
      PROVE  devices'[rows[b].importedDevice] # None
  <2>1. rows[b].importedDevice \in Devices
    BY <1>1, <1>3 DEF Row
  <2>. QED
    BY <1>3, <2>1 DEF LinksAreLive, Found
<1>. QED
  BY <1>1, <1>2, <1>3

\* The rows stay, and so do the devices.
LEMMA SameRows ==
  ASSUME LinksAreLive, rows' = rows, \A d \in Devices : Exists(d) => devices'[d] # None
  PROVE  \A b \in Addresses :
           rows'[b] # None /\ rows'[b].importedDevice # None =>
             devices'[rows'[b].importedDevice] # None
BY DEF LinksAreLive, TypeOK, Found, Row

LEMMA ResetKeepsLinks ==
  ASSUME LinksAreLive, rows' = Reset, devices' = devices
  PROVE  /\ rows' \in [Addresses -> Row \cup {None}]
         /\ \A b \in Addresses :
              rows'[b] # None /\ rows'[b].importedDevice # None =>
                devices'[rows'[b].importedDevice] # None
BY ResetIsSafe DEF LinksAreLive, Found, Exists

-----------------------------------------------------------------------------
LEMMA StartScanKeepsLinks ==
  ASSUME LinksAreLive, NEW i \in Scans, StartScan(i)
  PROVE  LinksAreLive'
BY ResetKeepsLinks DEF LinksAreLive, TypeOK, StartScan, Scan, Found, Exists

LEMMA ReachedKeepsType ==
  ASSUME TypeOK, NEW i \in Scans, NEW a \in Addresses, Reached(i, a)
  PROVE  scans' \in [Scans -> Scan \cup {None}]
BY DEF TypeOK, Reached, Scan

LEMMA HostAnswersKeepsLinks ==
  ASSUME LinksAreLive, NEW i \in Scans, NEW a \in Addresses, NEW mac \in BOOLEAN,
         HostAnswers(i, a, mac)
  PROVE  LinksAreLive'
<1> DEFINE isTechnical == a \in scans[i].technical
           row == IF Found(a) THEN Refreshed(rows[a], isTechnical, mac)
                              ELSE NewRow(isTechnical, mac)
<1>1. devices' = devices /\ technical' = technical /\ links' = links
  BY DEF HostAnswers, Reached
<1>2. Found(a) => rows[a] \in Row
  BY DEF LinksAreLive, TypeOK, Found
<1>3. row \in Row
  BY <1>2 DEF Refreshed, NewRow, Row, DISCOVERY_STATUSES
<1>4. row.importedDevice # None => Found(a) /\ row.importedDevice = rows[a].importedDevice
  BY DEF Refreshed, NewRow
<1>5. row.importedDevice # None => devices'[row.importedDevice] # None
  BY <1>1, <1>4 DEF LinksAreLive, Exists
<1>6. rows' = [rows EXCEPT ![a] = row]
  BY DEF HostAnswers
<1> HIDE DEF row
<1>7. \A d \in Devices : Exists(d) => devices'[d] # None
  BY <1>1 DEF Exists
<1>. QED
  BY <1>1, <1>3, <1>5, <1>6, <1>7, OneRow, ReachedKeepsType
  DEF LinksAreLive, TypeOK, HostAnswers, Found, Exists

LEMMA LinkNowKeepsLinks ==
  ASSUME LinksAreLive, NEW a \in Addresses, NEW d \in Devices, LinkNow(a, d)
  PROVE  LinksAreLive'
<1> DEFINE row == Linked(rows[a], d, FALSE)
<1>1. rows[a] \in Row
  BY DEF LinksAreLive, TypeOK, LinkNow, MayLink, Found
<1>2. row \in Row /\ row.importedDevice = d
  BY <1>1 DEF Linked, Row, DISCOVERY_STATUSES
<1>3. rows' = [rows EXCEPT ![a] = row]
  BY DEF LinkNow
<1>4. /\ devices' \in [Devices -> BOOLEAN \cup {None}]
      /\ devices'[d] # None
      /\ \A e \in Devices : Exists(e) => devices'[e] # None
  BY <1>1, NoneAssumption DEF LinksAreLive, TypeOK, LinkNow, Exists, Row
<1> HIDE DEF row
<1>. QED
  BY <1>2, <1>3, <1>4, OneRow DEF LinksAreLive, TypeOK, LinkNow, Found, Exists

LEMMA LinkEndsKeepsLinks ==
  ASSUME Inv, NEW r \in Requests, LinkEnds(r)
  PROVE  LinksAreLive'
<1>. USE DEF Inv
<1> DEFINE l == links[r]
           row == Linked(rows[l.at], l.device, TRUE)
<1>1. l \in Link
  BY DEF LinksAreLive, TypeOK, LinkEnds
<1>2. links' \in [Requests -> Link \cup {None}]
  BY DEF LinksAreLive, TypeOK, LinkEnds
<1>3. CASE ~ Exists(l.device)
  BY <1>2, <1>3, SameRows DEF LinksAreLive, TypeOK, LinkEnds, Found, Exists
<1>4. CASE Exists(l.device)
  <2>1. /\ devices' \in [Devices -> BOOLEAN \cup {None}]
        /\ devices'[l.device] # None
        /\ \A e \in Devices : Exists(e) => devices'[e] # None
    BY <1>1, <1>4, NoneAssumption DEF LinksAreLive, TypeOK, LinkEnds, Exists, Link
  <2>2. CASE rows' = rows
    BY <1>2, <2>1, <2>2, SameRows DEF LinksAreLive, TypeOK, LinkEnds, Found, Exists
  <2>3. CASE rows[l.at] # None /\ rows' = [rows EXCEPT ![l.at] = row]
    <3>1. rows[l.at] \in Row
      BY <1>1, <2>3 DEF LinksAreLive, TypeOK, Link
    <3>2. row \in Row /\ row.importedDevice = l.device
      BY <1>1, <3>1 DEF Linked, Row, Link, DISCOVERY_STATUSES
    <3>3. l.at \in Addresses
      BY <1>1 DEF Link
    <3> HIDE DEF row
    <3>. QED
      BY <1>2, <2>1, <2>3, <3>2, <3>3, OneRow
      DEF LinksAreLive, TypeOK, LinkEnds, Found, Exists
  <2>4. l.found => rows[l.at] # None
    BY DEF FoundIsThere, LinkEnds, Found
  <2>. QED
    BY <1>4, <2>2, <2>3, <2>4 DEF LinkEnds
<1>. QED
  BY <1>3, <1>4

LEMMA DeleteDeviceKeepsLinks ==
  ASSUME LinksAreLive, NEW d \in Devices, DeleteDevice(d)
  PROVE  LinksAreLive'
<1>1. ASSUME NEW a \in Addresses
      PROVE  /\ rows'[a] \in Row \cup {None}
             /\ rows'[a] # None /\ rows'[a].importedDevice # None =>
                  devices'[rows'[a].importedDevice] # None
  <2>1. CASE Found(a) /\ rows[a].importedDevice = d
    <3>1. rows'[a] = [rows[a] EXCEPT !.status = "new", !.importedDevice = None]
      BY <2>1 DEF DeleteDevice
    <3>2. rows[a] \in Row
      BY <2>1 DEF LinksAreLive, TypeOK, Found
    <3>. QED
      BY <3>1, <3>2 DEF Row, DISCOVERY_STATUSES
  <2>2. CASE ~ (Found(a) /\ rows[a].importedDevice = d)
    <3>1. rows'[a] = rows[a]
      BY <2>2 DEF DeleteDevice
    <3>. QED
      BY <2>2, <3>1 DEF LinksAreLive, TypeOK, DeleteDevice, Found, Exists, Row
  <2>. QED
    BY <2>1, <2>2
<1>2. rows' \in [Addresses -> Row \cup {None}]
  BY <1>1 DEF DeleteDevice
<1>. QED
  BY <1>1, <1>2 DEF LinksAreLive, TypeOK, DeleteDevice, Found, Exists

LEMMA UserEditKeepsLinks ==
  ASSUME LinksAreLive, NEW a \in Addresses,
         \/ Unlink(a)
         \/ \E status \in DISCOVERY_STATUSES : SetStatus(a, status)
  PROVE  LinksAreLive'
<1>1. rows[a] \in Row
  BY DEF LinksAreLive, TypeOK, Unlink, SetStatus, Found
<1>2. UNCHANGED <<devices, technical, scans, links>>
  BY DEF Unlink, SetStatus
<1>3. PICK row \in Row :
        /\ rows' = [rows EXCEPT ![a] = row]
        /\ row.importedDevice \in {None, rows[a].importedDevice}
  <2>1. CASE Unlink(a)
    <3>1. [rows[a] EXCEPT !.importedDevice = None] \in Row
      BY <1>1 DEF Row
    <3>. QED
      BY <1>1, <2>1, <3>1 DEF Unlink, Row
  <2>2. CASE \E status \in DISCOVERY_STATUSES : SetStatus(a, status)
    <3>1. PICK status \in DISCOVERY_STATUSES : SetStatus(a, status)
      BY <2>2
    <3>2. [rows[a] EXCEPT !.status = status] \in Row
      BY <1>1 DEF Row
    <3>. QED
      BY <1>1, <3>1, <3>2 DEF SetStatus, Row
  <2>. QED
    BY <2>1, <2>2
<1>4. row.importedDevice # None => devices'[row.importedDevice] # None
  BY <1>1, <1>2, <1>3, NoneAssumption DEF LinksAreLive, Found, Exists
<1>. QED
  BY <1>2, <1>3, <1>4, OneRow DEF LinksAreLive, TypeOK, Found, Exists

LEMMA DeleteRowKeepsLinks ==
  ASSUME LinksAreLive, NEW a \in Addresses, DeleteRow(a)
  PROVE  LinksAreLive'
<1>1. links' \in [Requests -> Link \cup {None}]
  BY DEF LinksAreLive, TypeOK, DeleteRow, Link
<1>. QED
  BY <1>1, OneRow DEF LinksAreLive, TypeOK, DeleteRow, Found, Exists

LEMMA LinkAwaitsKeepsLinks ==
  ASSUME LinksAreLive, NEW r \in Requests, NEW a \in Addresses, NEW d \in Devices,
         LinkAwaits(r, a, d)
  PROVE  LinksAreLive'
<1>1. links' \in [Requests -> Link \cup {None}]
  BY DEF LinksAreLive, TypeOK, LinkAwaits, MayLink, Found, Link, Row
<1>. QED
  BY <1>1, SameRows DEF LinksAreLive, TypeOK, LinkAwaits, Found, Exists

LEMMA DevicesKeepLinks ==
  ASSUME LinksAreLive, NEW d \in Devices, NEW mac \in BOOLEAN,
         CreateDevice(d, mac) \/ SetMac(d, mac)
  PROVE  LinksAreLive'
BY NoneAssumption, SameRows
DEF LinksAreLive, TypeOK, CreateDevice, SetMac, Found, Exists

-----------------------------------------------------------------------------
\* Only its deletion takes a row from the table.
LEMMA RowsStay ==
  ASSUME Inv, [Next]_vars, \A a \in Addresses : ~ DeleteRow(a)
  PROVE  \A b \in Addresses : rows[b] # None => rows'[b] # None
<1>0. LinksAreLive
  BY DEF Inv
<1>. SUFFICES ASSUME NEW b \in Addresses, rows[b] # None PROVE rows'[b] # None
  OBVIOUS
<1>1. rows[b] \in Row /\ rows \in [Addresses -> Row \cup {None}]
  BY <1>0 DEF LinksAreLive, TypeOK
<1>2. ASSUME rows' = Reset PROVE rows'[b] # None
  BY <1>0, <1>2, ResetIsSafe
<1>3. ASSUME NEW i \in Scans, NEW a \in Addresses, NEW mac \in BOOLEAN,
             HostAnswers(i, a, mac)
      PROVE  rows'[b] # None
  <2>1. rows'[b] = IF b = a THEN Refreshed(rows[b], a \in scans[i].technical, mac)
                            ELSE rows[b]
    BY <1>1, <1>3 DEF HostAnswers, Found
  <2>2. Refreshed(rows[b], a \in scans[i].technical, mac) \in Row
    BY <1>1 DEF Refreshed, Row, DISCOVERY_STATUSES
  <2>. QED
    BY <2>1, <2>2, NoneAssumption
<1>4. ASSUME NEW a \in Addresses, NEW row \in Row, rows' = [rows EXCEPT ![a] = row]
      PROVE  rows'[b] # None
  BY <1>1, <1>4, NoneAssumption
<1>5. ASSUME NEW a \in Addresses, Unlink(a) PROVE rows'[b] # None
  <2>1. rows[a] \in Row
    BY <1>1, <1>5 DEF Unlink, Found
  <2>2. [rows[a] EXCEPT !.importedDevice = None] \in Row
    BY <2>1 DEF Row
  <2>. QED
    BY <1>4, <1>5, <2>2 DEF Unlink
<1>6. ASSUME NEW a \in Addresses, NEW status \in DISCOVERY_STATUSES, SetStatus(a, status)
      PROVE  rows'[b] # None
  <2>1. rows[a] \in Row
    BY <1>1, <1>6 DEF SetStatus, Found
  <2>2. [rows[a] EXCEPT !.status = status] \in Row
    BY <2>1 DEF Row
  <2>. QED
    BY <1>4, <1>6, <2>2 DEF SetStatus
<1>7. ASSUME NEW a \in Addresses, NEW d \in Devices, NEW mac \in BOOLEAN, rows[a] # None,
             rows' = [rows EXCEPT ![a] = Linked(rows[a], d, mac)]
      PROVE  rows'[b] # None
  <2>1. rows[a] \in Row
    BY <1>1, <1>7
  <2>2. Linked(rows[a], d, mac) \in Row
    BY <2>1 DEF Linked, Row, DISCOVERY_STATUSES
  <2>. QED
    BY <1>4, <1>7, <2>2
<1>8. ASSUME NEW a \in Addresses, NEW d \in Devices, LinkNow(a, d) PROVE rows'[b] # None
  BY <1>7, <1>8 DEF LinkNow, MayLink, Found
<1>9. ASSUME NEW r \in Requests, LinkEnds(r) PROVE rows'[b] # None
  <2>1. links[r] \in Link
    BY <1>0, <1>9 DEF LinksAreLive, TypeOK, LinkEnds
  <2>. QED
    BY <1>7, <1>9, <2>1 DEF LinkEnds, Inv, FoundIsThere, Found, Link
<1>10. ASSUME NEW d \in Devices, DeleteDevice(d) PROVE rows'[b] # None
  <2>1. [rows[b] EXCEPT !.status = "new", !.importedDevice = None] \in Row
    BY <1>1 DEF Row, DISCOVERY_STATUSES
  <2>2. rows'[b] \in {rows[b], [rows[b] EXCEPT !.status = "new", !.importedDevice = None]}
    BY <1>10 DEF DeleteDevice
  <2>. QED
    BY <2>1, <2>2, NoneAssumption
<1>11. ASSUME UNCHANGED rows PROVE rows'[b] # None
  BY <1>11
<1>. QED
  BY <1>2, <1>3, <1>5, <1>6, <1>8, <1>9, <1>10, <1>11
  DEF Next, vars, StartScan, ScanGoesOn, HostIsSilent, List, EditIpam, Restart,
      LinkAwaits, CreateDevice, SetMac

LEMMA InvHolds == Spec => []Inv
<1>1. Init => Inv
  BY DEF Init, Inv, LinksAreLive, TypeOK, FoundIsThere, Found
<1>2. Inv /\ [Next]_vars => Inv'
  <2>. SUFFICES ASSUME Inv, [Next]_vars PROVE Inv'
    OBVIOUS
  <2>1. LinksAreLive'
    <3>1. CASE UNCHANGED vars
      BY <3>1 DEF Inv, LinksAreLive, TypeOK, vars, Found, Exists
    <3>2. ASSUME NEW i \in Scans, StartScan(i) PROVE LinksAreLive'
      BY <3>2, StartScanKeepsLinks DEF Inv
    <3>3. ASSUME NEW i \in Scans, ScanGoesOn(i) PROVE LinksAreLive'
      <4>1. ASSUME NEW a \in Addresses, HostIsSilent(i, a) PROVE LinksAreLive'
        BY <4>1, ReachedKeepsType
        DEF Inv, LinksAreLive, TypeOK, HostIsSilent, Reached, Found, Exists
      <4>. QED
        BY <3>3, <4>1, HostAnswersKeepsLinks DEF Inv, ScanGoesOn
    <3>4. CASE List
      BY <3>4, ResetKeepsLinks DEF Inv, LinksAreLive, TypeOK, List, Found, Exists
    <3>5. CASE EditIpam
      BY <3>5 DEF Inv, LinksAreLive, TypeOK, EditIpam, Found, Exists
    <3>6. CASE Restart
      BY <3>6 DEF Inv, LinksAreLive, TypeOK, Restart, Found, Exists
    <3>. QED
      BY <3>1, <3>2, <3>3, <3>4, <3>5, <3>6, UserEditKeepsLinks, DeleteRowKeepsLinks,
         LinkNowKeepsLinks, LinkAwaitsKeepsLinks, LinkEndsKeepsLinks,
         DeleteDeviceKeepsLinks, DevicesKeepLinks
      DEF Inv, Next
  <2>2. FoundIsThere'
    <3>1. CASE \E a \in Addresses : DeleteRow(a)
      BY <3>1 DEF Inv, LinksAreLive, TypeOK, FoundIsThere, DeleteRow, Found, Link
    <3>2. CASE \A a \in Addresses : ~ DeleteRow(a)
      <4>1. \A b \in Addresses : rows[b] # None => rows'[b] # None
        BY <3>2, RowsStay
      <4>2. ASSUME NEW r \in Requests, links'[r] # None, links'[r].found
            PROVE  \/ links[r] = links'[r]
                   \/ rows[links'[r].at] # None /\ links'[r].at \in Addresses
        <5>1. CASE UNCHANGED links
          BY <4>2, <5>1
        <5>2. ASSUME NEW q \in Requests, NEW a \in Addresses, NEW d \in Devices,
                     LinkAwaits(q, a, d)
              PROVE  \/ links[r] = links'[r]
                     \/ rows[links'[r].at] # None /\ links'[r].at \in Addresses
          BY <4>2, <5>2 DEF Inv, LinksAreLive, TypeOK, LinkAwaits, MayLink, Found
        <5>3. ASSUME NEW q \in Requests, LinkEnds(q) PROVE links[r] = links'[r]
          BY <4>2, <5>3 DEF Inv, LinksAreLive, TypeOK, LinkEnds
        <5>4. CASE Restart
          BY <4>2, <5>4 DEF Restart
        <5>. QED
          BY <3>2, <5>1, <5>2, <5>3, <5>4
          DEF Next, vars, StartScan, ScanGoesOn, HostIsSilent, HostAnswers, Reached, List,
              EditIpam, Unlink, SetStatus, LinkNow, CreateDevice, SetMac, DeleteDevice
      <4>3. ASSUME NEW r \in Requests, links[r] # None, links[r].found
            PROVE  rows[links[r].at] # None /\ links[r].at \in Addresses
        BY <4>3 DEF Inv, FoundIsThere, LinksAreLive, TypeOK, Found, Link
      <4>. QED
        BY <4>1, <4>2, <4>3 DEF FoundIsThere, Found
    <3>. QED
      BY <3>1, <3>2
  <2>. QED
    BY <2>1, <2>2 DEF Inv
<1>. QED
  BY <1>1, <1>2, PTL DEF Spec

\* However scans, links that wait, requests and deletions interleave, no row is
\* linked to a device that does not exist.
THEOREM LinksStayLive == Spec => []LinksAreLive
<1>1. Inv => LinksAreLive
  BY DEF Inv
<1>. QED
  BY <1>1, InvHolds, PTL

-----------------------------------------------------------------------------
\* Only a late link brings a row back that was put aside.
THEOREM OnlyLateLinksBringBack == Spec => TechnicalStaysOut
<1>1. Inv /\ [Next]_vars => StaysOut
  <2>. SUFFICES ASSUME Inv, [Next]_vars,
                       NEW b \in Addresses, rows[b] # None, rows'[b] # None,
                       Out(rows[b]), rows'[b].technical
                PROVE  \/ Out(rows'[b])
                       \/ \E r \in Requests :
                            links[r] # None /\ links[r].at = b /\ links'[r] = None
    BY DEF StaysOut
  <2>. USE DEF Inv
  <2>1. rows[b] \in Row /\ rows \in [Addresses -> Row \cup {None}]
    BY DEF LinksAreLive, TypeOK
  <2>2. CASE rows' = Reset
    BY <2>1, <2>2, ResetIsSafe DEF Out
  <2>3. ASSUME NEW i \in Scans, NEW a \in Addresses, NEW mac \in BOOLEAN,
               HostAnswers(i, a, mac)
        PROVE  Out(rows'[b])
    <3>1. rows'[b] = IF b = a THEN Refreshed(rows[b], a \in scans[i].technical, mac)
                              ELSE rows[b]
      BY <2>1, <2>3 DEF HostAnswers, Found
    <3>. QED
      BY <3>1 DEF Refreshed, Out
  <2>4. ASSUME NEW a \in Addresses, Unlink(a) PROVE Out(rows'[b])
    <3>1. CASE b = a
      <4>1. rows'[b] = [rows[b] EXCEPT !.importedDevice = None]
        BY <2>1, <2>4, <3>1 DEF Unlink
      <4>. QED
        BY <2>1, <4>1 DEF Out, Row
    <3>. QED
      BY <2>1, <2>4, <3>1 DEF Unlink
  <2>5. ASSUME NEW a \in Addresses, NEW status \in DISCOVERY_STATUSES, SetStatus(a, status)
        PROVE  Out(rows'[b])
    <3>1. CASE b = a
      <4>1. rows'[b] = [rows[b] EXCEPT !.status = status] /\ status = rows[b].status
        BY <2>1, <2>5, <3>1 DEF SetStatus, Out
      <4>. QED
        BY <2>1, <4>1 DEF Out, Row
    <3>. QED
      BY <2>1, <2>5, <3>1 DEF SetStatus
  <2>6. ASSUME NEW a \in Addresses, NEW d \in Devices, LinkNow(a, d) PROVE Out(rows'[b])
    BY <2>1, <2>6 DEF LinkNow, MayLink, Out
  <2>7. ASSUME NEW r \in Requests, LinkEnds(r)
        PROVE  \/ Out(rows'[b])
               \/ links[r] # None /\ links[r].at = b /\ links'[r] = None
    <3>1. links[r] \in Link /\ links'[r] = None
      BY <2>7 DEF LinksAreLive, TypeOK, LinkEnds
    <3>. QED
      BY <2>1, <2>7, <3>1 DEF LinkEnds, Link
  <2>8. ASSUME NEW a \in Addresses, DeleteRow(a) PROVE Out(rows'[b])
    BY <2>1, <2>8 DEF DeleteRow
  <2>9. ASSUME NEW d \in Devices, DeleteDevice(d) PROVE Out(rows'[b])
    <3>1. rows[b].importedDevice # d
      BY NoneAssumption DEF Out
    <3>. QED
      BY <2>9, <3>1 DEF DeleteDevice
  <2>10. CASE UNCHANGED rows
    BY <2>10
  <2>. QED
    BY <2>2, <2>3, <2>4, <2>5, <2>6, <2>7, <2>8, <2>9, <2>10
    DEF Next, vars, StartScan, ScanGoesOn, HostIsSilent, List, EditIpam, Restart,
        LinkAwaits, CreateDevice, SetMac
<1>2. Spec => [][StaysOut]_vars
  BY <1>1, InvHolds, PTL DEF Spec
<1>. QED
  BY <1>2 DEF TechnicalStaysOut

\* What a scan writes about a technical address is put aside, and about any other
\* decides nothing.
LEMMA Decides ==
  ASSUME NEW isTechnical \in BOOLEAN, NEW mac
  PROVE  /\ isTechnical => /\ Out(NewRow(isTechnical, mac))
                           /\ \A row : Out(Refreshed(row, isTechnical, mac))
         /\ ~ isTechnical =>
              /\ Undecided(NewRow(isTechnical, mac))
              /\ \A row : SameDecision(row, Refreshed(row, isTechnical, mac))
<1>1. CASE isTechnical = TRUE
  BY <1>1 DEF NewRow, Refreshed, Out
<1>2. CASE isTechnical = FALSE
  BY <1>2 DEF NewRow, Refreshed, Undecided, SameDecision
<1>. QED
  BY <1>1, <1>2

\* Whoever reached an address has moved on.
LEMMA ReachedMovesOn ==
  ASSUME TypeOK, NEW i \in Scans, NEW a \in Addresses, Reached(i, a)
  PROVE  scans[i] # None /\ scans'[i] # scans[i]
<1>1. scans[i] # None /\ a \in scans[i].left
  BY DEF Reached
<1>2. scans[i] \in Scan /\ scans'[i] = IF scans[i].left = {a} THEN None
                                       ELSE [technical |-> scans[i].technical,
                                             left |-> scans[i].left \ {a}]
  BY <1>1 DEF TypeOK, Reached
<1>3. CASE scans[i].left = {a}
  BY <1>1, <1>2, <1>3
<1>4. CASE scans[i].left # {a}
  <2>1. scans'[i].left = scans[i].left \ {a}
    BY <1>2, <1>4
  <2>. QED
    BY <1>1, <2>1
<1>. QED
  BY <1>3, <1>4

\* A scan only decides what IPAM had decided when it began.  What users imported as
\* a device stays imported as that device: by LinksAreLive the device exists, so
\* that returning stale rows leaves it alone.
THEOREM UsersDecide == Spec => ScansDecideNothing
<1>1. Inv /\ [Next]_vars => ScanDecidesNothing
  <2>. SUFFICES ASSUME Inv, [Next]_vars, scans' # scans
                PROVE  /\ devices' = devices
                       /\ \A a \in Addresses :
                            /\ rows[a] # None => rows'[a] # None
                            /\ rows'[a] # rows[a] =>
                                 \/ Out(rows'[a]) /\ SeenAsTechnical(a)
                                 \/ IF rows[a] = None THEN Undecided(rows'[a])
                                    ELSE SameDecision(rows[a], rows'[a])
    BY DEF ScanDecidesNothing
  <2>. USE DEF Inv
  <2>1. devices' = devices
    BY DEF Next, vars, StartScan, ScanGoesOn, HostIsSilent, HostAnswers, Reached, List,
           EditIpam, Restart, Unlink, SetStatus, LinkNow, LinkAwaits, LinkEnds, DeleteRow,
           CreateDevice, SetMac, DeleteDevice
  <2>2. CASE rows' = rows
    BY <2>1, <2>2
  <2>3. CASE rows' = Reset
    BY <2>1, <2>3, ResetIsSafe DEF SameDecision, ImportedAsNothing
  <2>4. ASSUME NEW i \in Scans, NEW a \in Addresses, NEW mac \in BOOLEAN,
               HostAnswers(i, a, mac), NEW b \in Addresses
        PROVE  /\ rows[b] # None => rows'[b] # None
               /\ rows'[b] # rows[b] =>
                    \/ Out(rows'[b]) /\ SeenAsTechnical(b)
                    \/ IF rows[b] = None THEN Undecided(rows'[b])
                       ELSE SameDecision(rows[b], rows'[b])
    <3> DEFINE isTechnical == a \in scans[i].technical
    <3>1. rows[b] \in Row \cup {None} /\ rows \in [Addresses -> Row \cup {None}]
      BY DEF LinksAreLive, TypeOK
    <3>2. isTechnical => SeenAsTechnical(a)
      BY <2>4, ReachedMovesOn DEF LinksAreLive, HostAnswers, SeenAsTechnical
    <3>3. CASE b # a
      BY <2>4, <3>1, <3>3 DEF HostAnswers
    <3>4. CASE b = a /\ rows[b] # None
      <4>1. rows'[b] = Refreshed(rows[b], isTechnical, mac)
        BY <2>4, <3>1, <3>4 DEF HostAnswers, Found
      <4>2. Refreshed(rows[b], isTechnical, mac) \in Row
        BY <3>1, <3>4 DEF Refreshed, Row, DISCOVERY_STATUSES
      <4>3. IF isTechnical THEN Out(rows'[b]) ELSE SameDecision(rows[b], rows'[b])
        BY <4>1, Decides, isTechnical \in BOOLEAN
      <4>. QED
        BY <3>2, <3>4, <4>1, <4>2, <4>3, NoneAssumption
    <3>5. CASE b = a /\ rows[b] = None
      <4>1. rows'[b] = NewRow(isTechnical, mac)
        BY <2>4, <3>1, <3>5 DEF HostAnswers, Found
      <4>. QED
        BY <3>2, <3>5, <4>1, Decides, isTechnical \in BOOLEAN
    <3>. QED
      BY <3>3, <3>4, <3>5
  <2>. QED
    BY <2>1, <2>2, <2>3, <2>4
    DEF Next, vars, StartScan, ScanGoesOn, HostIsSilent, List, EditIpam, Restart, Unlink,
        SetStatus, LinkNow, LinkAwaits, LinkEnds, DeleteRow, CreateDevice, SetMac,
        DeleteDevice
<1>2. Spec => [][ScanDecidesNothing]_vars
  BY <1>1, InvHolds, PTL DEF Spec
<1>. QED
  BY <1>2 DEF ScansDecideNothing
=============================================================================
