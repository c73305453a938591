----------------------------- MODULE DeviceImport -----------------------------
(***************************************************************************)
(* The import of controller devices and virtual switches into a lab        *)
(* (server/lib/integrations/device-sync.ts): how a record is matched with  *)
(* the rows there are, what a pull offers for creation, and what the       *)
(* import of a reviewed snapshot or of a scheduled run then creates, while *)
(* users add, edit and delete devices by hand.                             *)
(*                                                                         *)
(* An import is one transaction and matches the rows again; between a pull *)
(* and its import anything may happen.  Names are compared trimmed and in  *)
(* lower case, so a name stands for its spellings.  The hostname and the   *)
(* display name of a row are one name.  Ports, addresses, Wi-Fi and the    *)
(* columns that no match reads are left out.                               *)
(***************************************************************************)
EXTENDS Integers, FiniteSets

CONSTANTS
  Ids,          \* ids of device rows
  None,         \* no MAC, no parent, no row, no snapshot
  Inventories,  \* what controllers answer: records of devices and of switches
  HandNames, HandMacs, HandTypes,  \* what users enter
  Toggles       \* the kinds of devices a connection may have switched on

GUEST_TYPES == {"vm", "container"}
TYPES == {"server"} \cup GUEST_TYPES

ASSUME InventoryAssumption ==
  \A inv \in Inventories :
    /\ IsFiniteSet(inv.devices)
    /\ \A r \in inv.devices : r.type \in TYPES /\ r.id # None
    /\ \A r, s \in inv.devices \cup inv.switches : r.id = s.id => r = s
ASSUME HandAssumption ==
  HandTypes \subseteq TYPES /\ Toggles \subseteq SUBSET {"hosts", "guests"}
VARIABLES
  devices,   \* device table: id -> row or None
  switches,  \* virtualSwitches: host and name
  snapshot   \* what the last pull offers, until it is imported

importVars == <<devices, switches, snapshot>>

isGuestType(d) == d.type \in GUEST_TYPES

Rows == {d \in Ids : devices[d] # None}
Free == Ids \ Rows
Hosts == {d \in Rows : ~isGuestType(devices[d])}

Names == HandNames \cup
  UNION {{r.name : r \in inv.devices \cup inv.switches} : inv \in Inventories}
Macs == HandMacs \cup UNION {{r.mac : r \in inv.devices} : inv \in Inventories}

DeviceRow ==
  [name : Names, mac : Macs \cup {None}, type : TYPES, parent : Ids \cup {None}]

ASSUME NoneAssumption ==
  /\ None \notin Ids \cup HandNames \cup DeviceRow
  /\ \A inv \in Inventories : None \notin inv.devices

--------------------------------------------------------------------------------
(* Matching a record with the rows there are.                               *)

SharesMac(r, devs) == r.mac # None /\ \E s \in devs \ {r} : s.mac = r.mac

\* deviceScopeKey: the records that only a MAC could tell from r.
ScopeMates(r, devs) ==
  {s \in devs \ {r} : /\ s.name = r.name
                      /\ isGuestType(s) = isGuestType(r)
                      /\ isGuestType(r) => s.type = r.type /\ s.parent = r.parent}

MacRows(r) == {d \in Rows : r.mac # None /\ devices[d].mac = r.mac}

\* What matchesDeviceName leaves: of a guest, those below its host h.
NameRows(r, h) ==
  {d \in Rows : /\ devices[d].name = r.name
                /\ IF isGuestType(r)
                   THEN devices[d].type = r.type /\ h # None /\ devices[d].parent = h
                   ELSE d \in Hosts}

\* Names alone leave it open which row, or which of two records, is meant.
NameIsUnclear(r, rows, devs) ==
  IF r.mac = None
  THEN ScopeMates(r, devs) # {} \/ Cardinality(rows) > 1
  ELSE LET macless == {d \in rows : devices[d].mac = None}
       IN /\ macless # {}
          /\ Cardinality(rows) > 1 \/ ScopeMates(r, devs) # {}

Matched(action, d) == [action |-> action, row |-> d]
Conflict == Matched("conflict", None)

\* classifyDevice, given the host of a guest: its row, or None if it is planned.
Classify(r, devs, h) ==
  LET byMac == MacRows(r)
      byName == {d \in NameRows(r, h) : r.mac = None \/ devices[d].mac = None}
  IN IF SharesMac(r, devs) \/ Cardinality(byMac) > 1 THEN Conflict
     ELSE IF byMac # {} THEN Matched("exists", CHOOSE d \in byMac : TRUE)
     ELSE IF NameIsUnclear(r, NameRows(r, h), devs) THEN Conflict
     ELSE IF byName # {} THEN Matched("exists", CHOOSE d \in byName : TRUE)
     ELSE Matched("create", None)

\* resolveHost: a row, a record that is yet to be imported, or neither.
Host(kind, which) == [kind |-> kind, which |-> which]

resolveHost(name, devs) ==
  LET records == {r \in devs : ~isGuestType(r) /\ r.name = name}
      rows == {d \in Hosts : devices[d].name = name}
      r == CHOOSE x \in records : TRUE
      found == Classify(r, devs, None)
  IN IF Cardinality(records) > 1 THEN Host("ambiguous", None)
     ELSE IF records # {}
     THEN IF found.action = "conflict" THEN Host("ambiguous", None)
          ELSE IF found.action = "exists" THEN Host("existing", found.row)
          ELSE Host("planned", r)
     ELSE IF rows = {} THEN Host("missing", None)
     ELSE IF Cardinality(rows) = 1 THEN Host("existing", CHOOSE d \in rows : TRUE)
     ELSE Host("ambiguous", None)

\* classifyIntegrationDevices.  A guest that has a row by its MAC needs no host.
ActionOf(r, devs) ==
  IF ~isGuestType(r) THEN Classify(r, devs, None).action
  ELSE LET host == resolveHost(r.parent, devs)
           known == Classify(r, devs, IF host.kind = "existing" THEN host.which ELSE None)
       IN IF host.kind \in {"existing", "planned"} \/ MacRows(r) # {} \/ SharesMac(r, devs)
          THEN known.action
          ELSE "conflict"

\* The plan's action for a virtual switch.
SwitchActionOf(s, devs, sws) ==
  LET host == resolveHost(s.host, devs)
  IN IF \/ \E t \in sws \ {s} : t.host = s.host /\ t.name = s.name
        \/ host.kind \in {"missing", "ambiguous"}
     THEN "conflict"
     ELSE IF host.kind = "existing" /\ [host |-> host.which, name |-> s.name] \in switches
     THEN "exists"
     ELSE "create"

--------------------------------------------------------------------------------
(* A pull, and the two ways to import what it found.                        *)

\* filterImportableDevicesForConnection: kinds the connection imports.
Imported(inv, kinds) ==
  {r \in inv.devices : IF isGuestType(r) THEN "guests" \in kinds ELSE "hosts" \in kinds}

\* selectableProviderRecordIds
Selectable(devs, sws) ==
  {r.id : r \in {x \in devs : ActionOf(x, devs) = "create"}}
    \cup {s.id : s \in {x \in sws : SwitchActionOf(x, devs, sws) = "create"}}

\* Mutant: what was offered is created, whatever was added since.
CreatesAsReviewed(r, devs) ==
  IF snapshot # None THEN r.id \in snapshot.selectable ELSE ActionOf(r, devs) = "create"

Creates(r, devs) == ActionOf(r, devs) = "create"

\* The device of a host's name: a row, or the row its record has just got.
HostIds(name, devs, made, idOf) ==
  LET host == resolveHost(name, devs)
  IN IF host.kind = "existing" THEN {host.which}
     ELSE {idOf[r] : r \in {x \in made : host.kind = "planned" /\ x = host.which}}

\* Mutant: the parent of a guest is not stored.
RowWithoutParent(r, parent) ==
  [name |-> r.name, mac |-> r.mac, type |-> r.type, parent |-> None]

ImportedRow(r, parent) ==
  [name |-> r.name, mac |-> r.mac, type |-> r.type, parent |-> parent]

Injections(S, T) == {f \in [S -> T] : \A x, y \in S : f[x] = f[y] => x = y}

\* applyIntegrationDeviceSync: physical devices, then virtual switches, then
\* guests, of the selected records.  Without room for a row it does not happen.
Import(devs, sws, selected) ==
  LET chosen == {r \in devs : r.id \in selected /\ Creates(r, devs)}
      physical == {r \in chosen : ~isGuestType(r)}
      guests == {r \in chosen :
                  /\ isGuestType(r)
                  /\ LET host == resolveHost(r.parent, devs)
                     IN host.kind = "existing" \/ host.which \in physical}
      newSwitches == {s \in sws : /\ s.id \in selected
                                 /\ SwitchActionOf(s, devs, sws) = "create"}
  IN \E idOf \in Injections(physical \cup guests, Free) :
       LET Parent(r) == IF isGuestType(r)
                        THEN CHOOSE h \in HostIds(r.parent, devs, physical, idOf) : TRUE
                        ELSE None
       IN /\ devices' = [d \in Ids |->
               IF \E r \in DOMAIN idOf : idOf[r] = d
               THEN LET r == CHOOSE x \in DOMAIN idOf : idOf[x] = d
                    IN ImportedRow(r, Parent(r))
               ELSE devices[d]]
          /\ switches' = switches \cup UNION
               {{[host |-> h, name |-> s.name] : h \in HostIds(s.host, devs, physical, idOf)}
                 : s \in newSwitches}

\* POST /connections/:id/inventory
PullInventory(inv, kinds) ==
  LET devs == Imported(inv, kinds)
  IN /\ snapshot' = [devices |-> devs, switches |-> inv.switches,
                     selectable |-> Selectable(devs, inv.switches)]
     /\ UNCHANGED <<devices, switches>>

\* POST /connections/:id/apply-devices, with its token and a selection.
ApplySnapshot(selected) ==
  /\ snapshot # None
  /\ selected \subseteq snapshot.selectable
  /\ snapshot' = None
  /\ Import(snapshot.devices, snapshot.switches, selected)

\* A scheduled run imports all it finds; nobody selects.
RunSchedule(inv, kinds) ==
  LET devs == Imported(inv, kinds)
  IN /\ UNCHANGED snapshot
     /\ Import(devs, inv.switches, {r.id : r \in devs \cup inv.switches})

--------------------------------------------------------------------------------
(* The edits of users: routes/devices.ts and routes/virtual-switches.ts.    *)

\* A parent may be any other device of the lab.
CreateDevice(d, row) ==
  /\ devices[d] = None
  /\ row.parent \in Rows \cup {None}
  /\ devices' = [devices EXCEPT ![d] = row]
  /\ UNCHANGED <<switches, snapshot>>

\* A type may change while guests and virtual switches refer to the device.
EditDevice(d, name, mac, type) ==
  /\ d \in Rows
  /\ type \in HandTypes \cup {devices[d].type}
  /\ devices' = [devices EXCEPT ![d].name = name, ![d].mac = mac, ![d].type = type]
  /\ UNCHANGED <<switches, snapshot>>

MoveDevice(d, parent) ==
  /\ d \in Rows
  /\ parent \in (Rows \ {d}) \cup {None}
  /\ devices' = [devices EXCEPT ![d].parent = parent]
  /\ UNCHANGED <<switches, snapshot>>

\* Mutant: the virtual switches of the host stay.
DeleteDeviceAlone(d) ==
  /\ d \in Rows
  /\ devices' = [e \in Ids |-> IF e = d THEN None ELSE devices[e]]
  /\ UNCHANGED <<switches, snapshot>>

\* Its guests lose their parent, its virtual switches go with it.
DeleteDevice(d) ==
  /\ d \in Rows
  /\ devices' = [e \in Ids |->
       IF e = d THEN None
       ELSE IF e \in Rows /\ devices[e].parent = d THEN [devices[e] EXCEPT !.parent = None]
       ELSE devices[e]]
  /\ switches' = {s \in switches : s.host # d}
  /\ UNCHANGED snapshot

CreateSwitch(h, name) ==
  /\ h \in Hosts
  /\ switches' = switches \cup {[host |-> h, name |-> name]}
  /\ UNCHANGED <<devices, snapshot>>

DeleteSwitch(s) ==
  /\ s \in switches
  /\ switches' = switches \ {s}
  /\ UNCHANGED <<devices, snapshot>>

--------------------------------------------------------------------------------
SwitchNames == UNION {{s.name : s \in inv.switches} : inv \in Inventories}
HandRows == [name : HandNames, mac : HandMacs \cup {None}, type : HandTypes,
             parent : Ids \cup {None}]

ImportInit ==
  /\ devices = [d \in Ids |-> None]
  /\ switches = {}
  /\ snapshot = None

ImportNext ==
  \/ \E inv \in Inventories, kinds \in Toggles : PullInventory(inv, kinds) \/ RunSchedule(inv, kinds)
  \/ snapshot # None /\ \E selected \in SUBSET snapshot.selectable : ApplySnapshot(selected)
  \/ \E d \in Ids :
       \/ \E row \in HandRows : CreateDevice(d, row)
       \/ \E name \in HandNames, mac \in HandMacs \cup {None}, type \in TYPES :
            EditDevice(d, name, mac, type)
       \/ \E parent \in Ids \cup {None} : MoveDevice(d, parent)
       \/ DeleteDevice(d)
       \/ \E name \in SwitchNames : CreateSwitch(d, name)
  \/ \E s \in switches : DeleteSwitch(s)

ImportSpec == ImportInit /\ [][ImportNext]_importVars

--------------------------------------------------------------------------------
(* Properties.                                                              *)

SnapshotsOf(inv, kinds) ==
  [devices : {Imported(inv, kinds)}, switches : {inv.switches},
   selectable : SUBSET {r.id : r \in inv.devices \cup inv.switches}]
Snapshots ==
  {None} \cup UNION {UNION {SnapshotsOf(inv, kinds) : kinds \in Toggles} : inv \in Inventories}

ImportTypeOK ==
  /\ devices \in [Ids -> DeviceRow \cup {None}]
  /\ switches \subseteq [host : Ids, name : SwitchNames]
  /\ snapshot \in Snapshots

\* No row points at a device that is gone, not even when the host of a guest
\* was deleted between the pull that planned it and its import.
LinksAreLive ==
  /\ ImportTypeOK
  /\ \A d \in Rows : devices[d].parent \in (Rows \ {d}) \cup {None}
  /\ \A s \in switches : s.host \in Rows

Imports ==
  \/ \E inv \in Inventories, kinds \in Toggles : RunSchedule(inv, kinds)
  \/ snapshot # None /\ \E selected \in SUBSET snapshot.selectable : ApplySnapshot(selected)

\* Two rows that stand for one device as far as anyone can tell.
Twins(a, b) ==
  \/ a.mac # None /\ a.mac = b.mac
  \/ /\ a.mac = None \/ b.mac = None
     /\ a.name = b.name /\ isGuestType(a) = isGuestType(b)
     /\ isGuestType(a) => a.type = b.type /\ a.parent = b.parent

\* An import leaves the rows there are alone, and never adds a device beside a
\* row that may be the same one, whatever users did since the pull: the MAC
\* decides, and without one the name, of guests below their host.  Two rows it
\* adds never share a MAC.
NothingIsImportedTwice ==
  [][devices' # devices /\ Imports =>
       \A d \in Ids : devices'[d] # devices[d] =>
         /\ d \in Free
         /\ \A e \in Rows : ~Twins(devices'[d], devices[e])
         /\ \A e \in Free \ {d} :
              devices'[e] # None /\ devices'[d].mac # None
                => devices'[d].mac # devices'[e].mac]_importVars

OnlyAdds ==
  /\ <<devices, switches>>' # <<devices, switches>>
  /\ \A d \in Rows : devices'[d] = devices[d]

\* A schedule that runs again on the same inventory creates nothing: all it
\* could create is tracked or in conflict.  After a manual import that holds of
\* each selected record but those whose host was not selected with them.  (A run
\* that created nothing leaves the tables as they are, and so will the next.)
ImportIsIdempotent ==
  [][OnlyAdds =>
     /\ \A inv \in Inventories, kinds \in Toggles :
          RunSchedule(inv, kinds) => Selectable(Imported(inv, kinds), inv.switches)' = {}
     /\ snapshot # None =>
          \A selected \in SUBSET snapshot.selectable, devs \in {snapshot.devices} :
            ApplySnapshot(selected) =>
              \A r \in {x \in devs : x.id \in selected} :
                \/ ActionOf(r, devs)' # "create"
                \/ isGuestType(r) /\ resolveHost(r.parent, devs)'.kind = "planned"]_importVars
=============================================================================
