# Rackpad in TLA+

Rackpad is an inventory of a home lab or a small network: racks, devices, ports,
cables, VLANs, subnets, addresses. One Node.js process serves a web client and
an API from a SQLite database, and keeps the inventory in step with the world
on its own: it polls monitors, receives SNMP traps, scans networks, pulls
controllers, and makes backups.

This directory models the parts of the server whose correctness depends on the
order in which things happen. Paths below are those of the repository; most of
them are under `server/`.

## How the server runs, and how the models interleave

`server/index.ts` starts one process. `better-sqlite3` is synchronous, so every
stretch of code between two `await`s is atomic: two handlers interleave only
where one of them awaits a network answer, a tool, a request's body or
`db.backup`. That gives the grain of every module here:

- an action is a handler, or the part of it up to its next `await`, with all the
  state it changes;
- what a handler read before an `await` and uses after it is part of the state
  (`inFlight`, `job`, `previews`, `jobs`, `pulls`, `snapshot`, `links`, `scans`,
  `request`);
- module variables of the process are lost by a restart, the tables are not;
- what a device, a controller, a provider or the file system answers is chosen
  freely;
- the commands of `server/cli` are processes of their own and come anywhere, also
  within a stretch of the server.

Eight loops start with the process: the monitors, the discovery schedules, the
Docker status, the integration status, the integration auto-sync, the trap
receiver, the native backups and the SNMP schedules; and a timer that removes
expired sessions. They share the tables and nothing else but, for integrations,
the set of locked connections.

## Inventory

| Component | State it keeps | Operations | What is hard | What makes it correct | Model |
|---|---|---|---|---|---|
| Integration auto-sync (`lib/integrations/auto-sync.ts`, `schedules.ts`, `cron.ts`) | schedules with failure count, pause and last run; the lock set, the re-entrancy flag and the last tick in memory | the tick, a run, manual run, schedule and connection routes | a run awaits a controller while its row, its connection and the lock are wanted by others; late timers; restarts | one run of a connection at a time, no occurrence twice, no lost failure, pause and count agree | `IntegrationAutoSync`, `SyncLease` |
| Integration previews (`lib/integrations/preview-tokens.ts`, `status-sync.ts`, `connections.ts`, `routes/integrations.ts`) | connections with a status; one-time preview tokens | pull, apply, apply devices, test, edit, delete | a token issued after an await for the revision read before it; a token consumed by an apply that fails | a preview is applied at most once, by its owner, to the configuration it was made from | `IntegrationPreviews`, `ReviewedApply` |
| Integration device sync (`lib/integrations/device-sync.ts`) | devices, virtual switches; a reviewed snapshot | plan, reviewed import, scheduled import | records are matched by MAC or name with rows that users edit meanwhile | nothing imported twice, a second import creates nothing, no dangling parent | `DeviceImport` |
| Network sync (`lib/snmp-sync.ts`, `lib/integrations/network-sync.ts`, `routes/snmp-sync.ts`) | VLANs, subnets, DHCP scopes, assignments; previews that clients hold | preview, reviewed apply, scheduled apply, integration apply, and the routes that edit the same rows | the tables change between a preview and its apply | subnets disjoint, links live, a merge only adds, nothing deleted unconfirmed | `NetworkSync` |
| IP address management (`routes/ipam.ts`, `lib/subnet-integrity.ts`, `src/lib/store.ts`) | subnets, DHCP scopes, zones, assignments, gateways | their routes; the client's proposal of an address; the network checks of a restore | constraints between rows of four tables, kept by code, in databases that may break them already | what is exported can be restored, overlaps only shrink, the client's proposal is accepted | `Ipam` |
| Native SQLite snapshots (`lib/native-backup.ts`, `routes/admin.ts`) | the directory; the scheduler's `running`, `lastSuccessAt` and baseline; the settings | scheduled tick, create now, retention, delete, settings | crashes among file operations, a lost volume, damaged files, the clock | one backup at a time, retention removes only behind the retained, the schedule keeps its interval | `NativeBackup` |
| Monitoring, alerts and link traps (`lib/monitoring.ts`, `alerts.ts`, `snmp-traps.ts`, `routes/monitoring.ts`) | monitors with their last result, check and alert; the device status; the trap cache | a pass of the loop, a check on request, a trap, the monitor and device routes, alert settings | any number of checks of one monitor under way at once, each deciding with the row it read before its probe | the status follows the monitors, every outage is told once | `Monitoring` |
| Discovery scans (`routes/discovery.ts`) | the queue of jobs and the running schedules in memory; the schedules | scan now, schedule routes, run now, poll, dispatch, end of a scan | three limits, a job that may enter a full queue, schedules edited while their scan runs | limits hold, no idle slot, nobody waits for ever | `DiscoveryScans` |
| Discovery inbox (`routes/discovery.ts`) | discovered rows with their review status and link | upsert by a scan, review, link, delete, list | the upsert of a scan that began before a review or an edit of IPAM; a link that awaits a vendor | a review survives a scan, technical addresses stay aside, links live | `DiscoveryInbox` |
| Sign-in, sessions and users (`lib/oidc.ts`, `lib/auth.ts`, `lib/password-reset.ts`, `routes/auth.ts`, `routes/users.ts`) | users, identities, sessions; OIDC states, pending codes and the bootstrap flag in memory; a cookie per browser | first account, login, OIDC start, callback and session, logout, user routes, reset, restore | awaits of the provider, answers that cross, a second sign-in of a browser, another process | a flow ends once and in its browser, a session does not outlive what revokes it, the first account is asked for exactly while there is none | `SignIn` |
| Docker import (`lib/docker-import.ts`) | sources and links of containers to devices | import, sync of a source, loop | links read before the engine answers | an unlinked device is left alone | planned |
| MCP proposals (`lib/mcp-proposals.ts`, `mcp-tokens.ts`) | drafts with the fingerprint of their lab | create, list, apply, expiry | the inventory changes between proposal and apply | an apply acts on the inventory that was previewed | planned |
| Backup as JSON and its restore, imports (`routes/admin.ts`, `routes/imports.ts`) | none of their own | export, restore, import | the consistency of one large document | a restore accepts only what the routes could have made | the network tables in `Ipam`, the users in `SignIn` |
| Offline restore (`cli/restore-native-backup.ts`) | the database file and its sidecars | one command in steps | a crash between two steps, a server that was not stopped | the active file is always one of the two databases | planned |
| Devices, ports, virtual switches (`routes/devices.ts`, `ports.ts`, `virtual-switches.ts`) | tables | request handlers over one transaction | what a deletion reaches | no row points at a deleted one | as far as `DeviceImport`, `Ipam`, `Monitoring` and `DiscoveryInbox` meet them |
| Cables, aggregates, Wi-Fi, racks, layouts, storage, documents, audit | tables | request handlers over one transaction | geometry and referential rules, no concurrency | - | not modelled |
| SNMP and trap packets, provider clients, alert channels | none | encode, parse, send | parsing | - | external to the models: an await with an outcome |
| Route authorization, lab access, net-guard | none | guards | a complete table | - | not modelled |
| Web client, seed, deployment, scripts | - | - | - | - | not modelled but for the proposal of an address |

The components interact in five ways. Monitoring and the device routes write
`devices.status`. Scheduled integration runs and reviewed applies write the
tables that SNMP sync and the IPAM routes write, and take the same lock per
connection; scheduled SNMP runs take none. Scans read what IPAM calls technical,
and the inbox links its rows to devices that others delete. Native backups read
the whole database while everyone writes, which SQLite's backup makes atomic.
Deletions cascade: a device takes its monitors, its assignments and its virtual
switches, a connection its schedules, a subnet its scopes, zones and
assignments, a user the sessions and the identity.

## The modules

Each module has its instance for TLC in the module `MC...` of the same name, where
it needs one.

### IntegrationAutoSync and SyncLease

`schedule` and `connection` are the two tables, `lock`, `autoSyncRunning`,
`previousTick` the variables of `auto-sync.ts`, `inFlight` the runs in
`client.fetchInventory`, each with the failure count it read. `due` is the rest
of the due list of the running pass. `doneAt` is history.

| Code | Action |
|---|---|
| the interval callback, `findDueIntegrationSyncSchedules` | `TimerFires`, `PassCompletes` (its `finally`) |
| `runDueIntegrationAutoSyncs`, one schedule | `ScheduledRunStarts`, `ScheduledRunLacksSecret`, `ScheduledRunFindsBusy`, `ScheduledRunThrows` |
| `POST /schedules/:id/run` | `RequestedRunStarts`, `RequestedRunLacksSecret` |
| the rest of a run after its await | `RunSucceeds`, `RunFails` |
| schedule routes | `CreateSchedule`, `UpdateSchedule`, `DeleteSchedule` |
| connection routes, as far as schedules see them | `UpdateConnection`, `DeleteConnection` |
| process restart, perhaps with another secret key | `Restart` |

A cron expression is the set of minutes it matches. What a run imports is left
out here: that is `NetworkSync` and `DeviceImport`.

`SyncLease` says what the lock is for without lock, timer or table: a connection
has one holder at most, and only a run that has the connection records a
result, for its own schedule. `ImplementsLease` maps `holder[c]` to the runs in
flight of `c` and `lastRunAt` to the column.

### IntegrationPreviews and ReviewedApply

A pull (`BeginPull`) reads the connection's row and awaits the controller;
`PullEnds` records the status and issues a token per kind, bound to the revision
of the row it had read. Configuration is one value, but a secret is the number of
its entry, because the same secret entered twice is encrypted differently and
counts as an edit. `disturbed` and `applied` are history.

| Code | Action |
|---|---|
| `POST /connections`, `PATCH`, `DELETE` | `CreateConnection`, `UpdateConnection`, `DeleteConnection` |
| `POST /connections/:id/inventory`, before and after its await | `BeginPull`, `PullEnds`, `PullFails` |
| `POST /connections/:id/test` and the status loop | `TestEnds` |
| `POST .../apply`, `.../apply-devices` | `Apply`, `ApplyThrows` (the token is spent, nothing is written) |
| a scheduled run of `IntegrationAutoSync`, seen from here | `RunStarts`, `RunEnds` |
| the expiry of a token, a restart | `Expire`, `Restart` |

`ReviewedApply` is what the tokens promise, without tokens: a review is begun by
somebody under a version of the connection, and can be applied at most once, by
that user, while the version is the same and no scheduled run writes.
`ImplementsReview` maps versions to revisions and open reviews to pulls and
tokens.

### DeviceImport

`devices` and `switches` are the tables as a match reads them, `snapshot` is a
reviewed inventory. `ActionOf` is the decision of `device-sync.ts` on a record:
`tracked`, `conflict` or `create`, by the MAC or, without one, by the name,
among the rows of its scope (guests below their host).

| Code | Action |
|---|---|
| the pull's device plan | `PullInventory` |
| `applyIntegrationDeviceSync` on a reviewed snapshot with a selection | `ApplySnapshot` |
| the same from a scheduled run | `RunSchedule` |
| device and virtual-switch routes | `CreateDevice`, `EditDevice`, `MoveDevice`, `DeleteDevice`, `CreateSwitch`, `DeleteSwitch` |

`EditDevice` writes the name, the MAC and the type, also the type of a device that
has guests or switches. Display name and hostname are one name, "server" stands
for every type that is no guest, and two switches of one name on one host count
as one. Ports,
addresses and Wi-Fi of an import are left out.

### NetworkSync

One lab. `vlan` and `subnet` are the tables, a subnet with its assignments and
scopes; a CIDR is the set of its addresses, so that overlap and containment are
those of sets. `previews` are the previews that clients or the token store hold.

| Code | Action |
|---|---|
| `buildSnmpSyncPreview`, `buildIntegrationNetworkPreview` | the operator `Preview` and its integration variant; `SnmpPreview`, `FetchPreview` store the result |
| `applySnmpSyncPreview` | the operator `Apply`, one transaction; `SnmpApply`, `IntegrationApply` |
| `runSnmpSyncSchedule`, the apply of an auto-sync run | `ScheduledSync`, `AutoSync` (preview and apply without an await between) |
| VLAN routes, what ports refer to | `AddVlan`, `EditVlan`, `RemoveVlan`, `SetPorted` |
| subnet, assignment and scope routes | `AddSubnet`, `EditSubnet`, `RemoveSubnet`, `Assign`, `Unassign`, `AddScope`, `EditScope`, `RemoveScope` |

An apply that throws rolls back, and is then no step. Clients send the preview
back; `routes/snmp-sync.ts` checks the policy and the deletions it allows, which
is `Accepts`.

### Ipam

The four tables with every route of `routes/ipam.ts`, and the device and port
routes as far as assignments see them. Every route is synchronous, so a step is a
request, and the questions are about long sequences of legal requests. `Init` is
an empty database, or one from before overlaps were rejected.

| Code | Action |
|---|---|
| `POST`, `PATCH`, `DELETE /subnets`, the two-step `POST /networks` | `CreateSubnet`, `PatchSubnet`, `DeleteSubnet`, `CreateNetwork` |
| `/dhcp-scopes` | `CreateScope`, `PatchScope`, `DeleteScope` |
| `/ip-zones` | `CreateZone`, `PatchZone`, `DeleteZone` |
| `/ip-assignments` | `CreateAssignment`, `PatchAssignment`, `DeleteAssignment` |
| devices and ports; the address an import adds | `CreateDevice`, `CreatePort`, `DeletePort`, `DeleteDevice`, `ImportDevice` |
| the DHCP range that `applySnmpSyncPreview` adds, for a switch or a controller | `SyncScope` |

`PatchAssignment` has the mode under which the request is checked beside the row
it stores, because they differ: with `allocationMode: null` the route checks the
row as it is (`ipam.ts:963`) and stores it as static (`:1009`).

Two further parts are operators on the same tables: `Proposals`, the next free
address that the web client computes with rules of its own, and
`ValidRanges`, `ValidAddress`, `ValidReservation`, `ValidReferences`, the checks
that a restore makes before it accepts a backup. `BackupIsRestorable` keeps of
`ValidReservation` the part that always holds, `ScopeIsOwn`.

### NativeBackup

`files` is the directory, `jobs` the backups in `db.backup`; `running`,
`lastSuccess`, `baseline` and `initialized` are `schedulerState`. `Tick` is the
scheduler's, `CreateNow` the route's, and the stretch after the await is
`BackupSucceeds`, `BackupFails` or `PruneFails` (an expired file that cannot be
removed). `Restart` may cut that stretch anywhere: `LeftBehind` is what a crash
before or after the rename, or among the removals, leaves. Files get damaged or
stuck, the volume is unmounted and mounted, and the clock is set back.

### Monitoring

One device with its monitors. A pass of the loop, a request and a trap are
jobs; a job turns to its next monitor, awaits the probe (`ProbeBegins`,
`ProbeAnswers`) or takes the result from the trap (`TrapRecords`), stores it,
rolls the device status up, and awaits the alert (`AlertSettles`). The loop does
not wait for its last pass, and nothing keeps two jobs off one monitor, as in
the code. `heard` is the duplicate cache of the trap receiver. Routes create,
edit, import and delete monitors, set the status by hand, delete the device and
change the alert settings, at any point of the jobs. `told` and `excused` are
history.

### DiscoveryScans

`jobs` is `discoveryScanJobs` without the finished ones, `running` is
`runningScheduleIds`, `rows` the schedules. `StartJob` is
`startDiscoveryScanJob` with its three ways (join the job of that network,
refuse, enqueue and dispatch); `Poll` and `PollOne` are the timer, which takes
the due schedules in the order of their last run (`recorded` is that order, and
`ByLastRun` reads it as `ORDER BY lastRunAt` does); `ScanEnds` is the `finally` of
a job with the dispatch it makes. `ScanNow`, `RunNow`, `CreateSchedule`,
`UpdateSchedule` and `DeleteSchedule` are routes, `Restart` loses the queue.
`FirstComeFirstServed` characterises what the dispatch loop starts: exactly the
jobs that have room next to what runs and the earlier jobs that start, which is
what the loop over the queue computes.

### DiscoveryInbox

What a scan of `DiscoveryScans` does to the lab it scans. `rows` is
`discoveredDevices`, one per address: the decision, the link, whether it was
found technical and whether a MAC is known. `scans` holds what each scan
collected when it began (`technical`, the gateways, DNS servers, reserved and
infrastructure addresses of IPAM) and the addresses it has still to reach;
`links` the requests that await the vendor of a MAC, with what they read before.

| Code | Action |
|---|---|
| `runDiscoveryScan` up to its first await, with `resetStaleImportedDiscoveryRows` | `StartScan` |
| the upsert of one answer, or none | `HostAnswers`, `HostIsSilent` |
| `GET /discovery`, which resets stale rows too | `List` |
| `PATCH /discovery/:id` that sets a status, removes a link, or adds one with a known vendor | `SetStatus`, `Unlink`, `LinkNow` |
| the same with `await lookupOuiVendor` | `LinkAwaits`, `LinkEnds` |
| `DELETE /discovery/:id`; device routes; edits of IPAM; a restart | `DeleteRow`; `CreateDevice`, `SetMac`, `DeleteDevice`; `EditIpam`; `Restart` |

Names, types, placement and vendors are left out. The addresses of the model lie
in different chunks of a scan, so their order is open.

### SignIn

`users` stands for users with their identities, `sessions` for `userSessions`, a
row with an id of its own for every `createSession`, `bootstrap` for the cached
`bootstrapRequired`. A flow of OIDC and the verifier
in its browser's cookie are one number. `states` and `pending` are the maps of
`oidc.ts`; `starting` and `verifying` are the handlers that await the provider;
`replies` are `Set-Cookie` headers that have not reached the browser, so that
answers cross. Each callback of a flow has a number, which the code it leads to
carries (`Code`), so that two callbacks of one person stay two. An account's
`epoch` counts what should end its sessions; `started`, `returned`, `callbacks`,
`grants` (how often a flow came back, and how many sessions it gave), `undone` and
`late` are history.

| Code | Action |
|---|---|
| `GET /status` and the hook before every request | `Status` |
| `POST /bootstrap`, and its transaction failing | `Bootstrap`, `BootstrapFails` |
| `POST /login`, `POST /logout`, expiry | `Login`, `SessionEnds` |
| `GET /oidc/start`, before and after its await | `Start`, `Started`, `StartFails`, `ReplyArrives` |
| `GET /oidc/callback`, before and after its awaits | `Callback`, `Verified` |
| `POST /oidc/session`: refused, done, rolled back | `Refused`, `Completes`, `CompletionFails` |
| an administrator's request, let in by the hook, and its body | `RequestBegins`, `RequestIsLost` |
| `POST`, `PATCH /users` (one statement for the row, one for its sessions) | `CreateUser`, `PatchUser`, `DiesBeforeRevoking` |
| `DELETE /users/:id`, which has no body | `DeleteUser` |
| the restore of a backup | `Restore` |
| `reset-password`, another process | `ResetPassword`, `ResetAmidLogin` |
| a restart | `Restart` |

The verification of tokens, the mapping of claims to a role, lab grants and the
rate limit are abstracted. Expiry of states and codes needs no action: an expired
one is one nobody comes back with, and the cookie outlives both.

## What is checked

| Run | Instance | Distinct states | Shows |
|---|---|---|---|
| `autosync_shared` | two schedules of one connection, every minute, clock to 3 | 1,660,831 | types; `LockIsExact`, `NoFailureIsLost`; the refinement `ImplementsLease` |
| `autosync_deep` | one schedule, two events per minute, two cron expressions, clock to 6 | 223,250 | `PauseMatchesFailures`, `NoOccurrenceRunsTwice`, and under fairness `PassEnds` |
| `previews` | one connection, two administrators and an editor, two pulls, two configurations, a secret entered twice | 346,159 | types; `UndisturbedReviewsStand`; the refinement `ImplementsReview` |
| `device_import` | three rows, inventories of a node with a guest and a switch and of two namesakes | 106,035 | types; `LinksAreLive`, `NothingIsImportedTwice`, `ImportIsIdempotent` |
| `networksync` | two VLAN ids, two subnet ids, a network, its half and one apart, two devices that report different things, one edit beside one held preview | 16,588 | `TablesConsistent` (types, disjoint subnets, children inside, live links), `OnlyConfirmedMirrorsTake`, `SyncDelivers` |
| `ipam` | two subnets in two labs or overlapping in one, a scope, a zone, an assignment, a device | 104,955 | `BackupIsRestorable`, `ProposalIsAccepted`, `OnlyTwoEditsStrand`, `OverlapsOnlyShrink` |
| `nativebackup` | intervals and retentions 1 and 2, clock to 4, one setback, one fault | 272,008 | `AtMostOneBackup`, `PrunedBehindRetained`, `NewSnapshotIsKept`, `ScheduleKeepsInterval`, and under fairness `BackupEnds` |
| `monitoring` | two monitors, one with an interface, two jobs at a time, clock to 2, one edit or restart | 1,513,845 | `StatusFollowsMonitors`, `OneAlertPerOutage`, `EveryOutageIsTold` |
| `discovery` | labs of three and two networks, one scan per lab, two in all, two queue places, up to three schedules, three acts | 1,873,869 | `TypeOK` with the order of the polls; `LimitsHold`, `OneScanPerNetwork`, `SchedulesAreAttachedOnce`, `FairWithinLab` |
| `discovery_live` | one scan at a time, one place in the queue, up to three schedules, one act | 36,354 | under fairness `NobodyWaitsForEver`: every scan ends, every due schedule gets its turn |
| `discovery_inbox` | one address, two devices, two scans, two waiting links | 181,710 | `LinksAreLive`, `TechnicalStaysOut`, `ScansDecideNothing`, and under fairness `TechnicalGetsOut` |
| `signin` | two browsers, two flows, a local account and two of the provider, two session ids, two edits of accounts | 2,339,637 | `SessionsAreCurrent`, `FlowsStayInTheirBrowser`, `BootstrapIsRight` |

What each property says is written above it in its module.

### Bounds, and why they are enough

- `IntegrationAutoSync`: a lock needs two contenders. Failures saturate at
  `FailureCap`, where the backoff has reached its cap. The clock runs past the
  look-back and past the longest backoff; two units per minute let an event fall
  between two minute marks.
- `IntegrationPreviews`: a review concerns one connection, so one shows what
  edits, runs and other reviews do to it; two pulls give each other the lock-free
  race, two users and an editor every wrong owner, two secrets the same one
  entered twice.
- `DeviceImport`: three rows are the fewest for a node, its guest and a
  namesake. MAC addresses come from inventories; users rename, move and delete
  what has one, and add rows without.
- `NetworkSync`: the CIDRs have every relation that two CIDRs can have (equal,
  nested, apart). Two rows of each kind are the fewest that can overlap or share
  a VLAN; identifiers are never reused, so two bound creations as well. One
  preview suffices for staleness, because everything else that can change the
  tables is an action of its own.
- `Ipam`: two assignments of a subnet only meet in the unique index on the
  address, so one of them suffices; two /30 blocks and a /31 have equal, nested
  and apart, with and without network addresses; two labs let an assignment move
  between labs.
- `NativeBackup`: retention 1 and 2, with at most `MaxName` snapshots, let the
  list be cut in its middle. One fault and one setback give each of them at
  every point of a backup; two faults of different kinds do not meet.
- `Monitoring`: two jobs are the fewest that overlap, two monitors the fewest
  whose roll-up differs from each one's result. Time passes through an interval,
  a repeat period and a trap window. The model takes an edit or restart
  (`MaxEdits`) at any point between two stretches of code.
- `DiscoveryScans`: five networks in two labs fill the slots and the queue and
  have one more to refuse. The sets of interchangeable networks and schedules
  are symmetric in the safety run only. The end states of both runs, with
  nothing due and all acts used, are why deadlock is not checked there.
- `DiscoveryInbox`: rows of two addresses meet only through the device both are
  linked to, which the proofs cover for any number; two scans and two links are
  the fewest that overlap with their own kind.
- `SignIn`: two browsers and two flows are the fewest for a link opened in the
  wrong browser and for a flow that replaces another. Two ids (`SessionIds`) let
  there be two sessions at a time, also two of the same origin, and an id is used
  again once its row is gone; that a flow gives one session even when the first
  one has ended is counted in `grants`. Two edits are a disabling and an enabling, or a deletion and
  a re-creation, of one account.

In `ipam` and `device_import` deadlock is not checked: every id may be in use, and
then only what users might do is left. Between them the passing runs take every
action of every module.

### Fairness

- Auto-sync: `PassCompletes`, a step of the pass, and the settling of a run are
  weakly fair. Every request of a provider client has a timeout
  (`lib/integrations/http.ts`) and a pass consists of awaited code only. The
  timer is not fair: a process may be slow for ever without breaking a property.
- Native backups: what follows the await is weakly fair; `db.backup` and the
  file operations end or throw.
- Discovery: the poll, its steps, and the end of each scan. Probes and tools run
  with timeouts. The end of a scan is strongly fair only because a poll is
  several steps in the model, during which no scan can end; in the code a poll
  is one stretch and weak fairness would say the same.
- Inbox: a scan of the lab begins again and again (a schedule), each scan goes
  on (its probes have timeouts), and a host that is up answers when it is asked
  often enough. Nothing is assumed of users: they may link and unlink for ever,
  and `TechnicalGetsOut` holds all the same.

## What is proved

Every safety invariant and every action property that a run checks, and both
refinements, are theorems that the proof system checks for every value of the
constants. They are in eight modules, one for each component or pair of
components that work on the same data.

- `IntegrationSyncProofs`, first half, about `IntegrationAutoSync`: `TypeOK` from
  `Init` and each action; then
  `LockIsExact /\ RunsAreSequential` together (the lock alone is not inductive
  under `Settle`: that a run gives back only its own lock needs that no other
  run has the connection); `PauseMatchesFailures`, which is inductive once rows
  are looked at one by one; and `NoFailureIsLost`. The last is not inductive: a
  schedule could be created under a run in flight. It is strengthened by
  `NoRunOfTheUnborn`, and a step that counts a failure is shown to belong to the
  only run of the connection, by the lock. `NoOccurrenceRunsTwice` is an
  action property: only the timer adds to the due list, and it adds what has a
  matching minute after `lastRunAt`; `ResultsFollowPasses` says that `lastRunAt`
  is no earlier than the pass of the last recorded run, for which in turn
  `UnbornNeverRan` is needed (a created row starts from a null `lastRunAt`).
  `AutoSyncImplementsLease` is `Spec => ImplementsLease`: every action is shown
  to be a `Begin`, `End`, `FailAtOnce` or `Crash` of the lease, or to change
  neither mapped variable. `CreateSchedule` writes a row whose last run must be
  null already, by `UnbornNeverRan` again.
- `IntegrationSyncProofs`, second half, about `NetworkSync`: the invariant is
  `NetworkInv`. `TablesConsistent` alone is not inductive, for two reasons. A
  held preview is applied to tables it never saw, so the invariant must say what
  a preview promises by itself (`Sound`: its ranges lie in their CIDRs, and it
  does not both delete VLANs and link to them); everything else the apply
  checks again. And that a link to a VLAN number finds one row needs the unique
  index (`NumbersUnique`). What the transaction leaves of each row is stated once
  (`VlansAfter`, `SubnetIsKept`, `SubnetIsMade`, `ApplyKeeps`), and the routes as
  writes of one row (`OneVlanWritten`, `OneSubnetWritten`).
  `OnlyConfirmedMirrorsTake` and `SyncDelivers` follow step by step: `doomed` is
  empty without confirmation (`UnconfirmedTakesNothing`), a merge writes only
  rows that are new or found equal (`MergeOverwritesNothing`), and what was
  listed is there after the commit (`ApplyDelivers`, `ScheduledDelivers`).
- `IntegrationReviewProofs`, first half, about `IntegrationPreviews`:
  `UndisturbedReviewsStand` and
  `Spec => ImplementsReview`. A token is as good as the row its pull read, so the
  first needs the same of the pulls under way (`ReviewInv`). A pull is a review
  of each kind that is not offered yet and a token is one that is: every action
  is shown to be `Begin`, `Offer`, `Apply`, `Run` or `Reconfigure` of
  `ReviewedApply`. `Offer` needs that no two pulls have one number; `Apply` that
  different tokens are different reviews, so that spending one leaves the others.
- `IntegrationReviewProofs`, second half, about `DeviceImport`: matching is told
  of any device table (`VerdictOf`, `HostOf`), so that a verdict before an import
  can be compared with the one after it. What an import does is `Effect`: it adds
  the rows `made`, each from one record that was to be created, with the host
  found in the same table (`ImportHasEffect`). `LinksAreLive` is inductive with
  that. `NothingIsImportedTwice` says that a record whose verdict is `create` has
  no twin among the rows (`NoTwinOfARow`), and two with one MAC are in conflict.
  `ImportIsIdempotent` is the longest argument: a row that was matched still is
  (`MatchesStay`), a row that was made matches the record it was made from
  (`MadeIsNotNew`) and no other that would become new by it (`OthersDoNotMatch`),
  and an import moves the host of a name only from a planned record to the row
  made of it (`HostAfter`). That scopes are counted with `Cardinality` is why the
  theorems need finite inventories.
- `IpamProofs` proves the four properties of `Ipam`. `BackupIsRestorable` is
  inductive once it is told row by row, each beside the row of its subnet
  (`RowsFit`, `RestorableByRow`), and only with its parts together: that a deleted
  subnet or scope leaves no assignment pointing at it needs where assignments
  point (`ScopesOwned`, kept by `ScopesStayOwned`, because a request is refused
  whose scope is not of its subnet, under whichever mode it is checked,
  `JudgedIsOwned`). `OverlapsOnlyShrink` is an action property on it: no write of
  a subnet makes an overlap (`OverlapsStay`), and a request on a child of a subnet
  that overlaps another is refused (`ScopesSettled`, `ZonesSettled`,
  `AssignmentsSettled`, over `TablesLeftAlone`), so only an imported device and a
  synced range remain.
  `OnlyTwoEditsStrand` goes through the routes by what they leave of a
  reservation's scope; `AssignmentRequestsStrandByMode` is the part about
  assignments, where only a mode that was checked and not stored remains. `ProposalIsAccepted` needs no invariant but `Inv`:
  every candidate is a host address inside a zone or pool of its kind, and the
  least of a set of naturals is one of them (`LowestIsOne`, by well-foundedness).
- `NativeBackupProofs` proves the four safety properties of the snapshots, for any
  settings, clock and faults. `AtMostOneBackup` is `OneJob`, which says without
  cardinalities that two jobs are the same. `PrunedBehindRetained` looks at the
  latest of the expired snapshots: everything later stays, and that is enough
  (`RetainedAreNewer`). `NewSnapshotIsKept` needs that the name of a job stays
  free and, while the clock only goes forward, is later than every other
  (`DirInv`): a name is bumped past one that is taken, but by one at most, because
  a backup takes longer than the unit of time. `ScheduleKeepsInterval` needs that
  what the scheduler remembers is no older than any valid snapshot
  (`ScheduleInv`), although a snapshot whose backup failed at a stuck file is not
  remembered until the process has been restarted.
- `DiscoveryScansProofs` proves the safety properties of the queue. Four of them
  hold only together, as `QueueInv`: a job is let past a full queue when it has
  room, and that the queue still does not grow past its limit needs that no
  waiting job has room (`NothingIdle`), so that the dispatch starts the new one.
  That the dispatch starts neither too many nor too few is an argument about the
  last job that starts and the first that does not; the lemmas `LeastElement`
  and `GreatestElement` come from the well-foundedness of the naturals. The end
  of a scan moves the places of the queue, which `RemovedJob` and
  `RemovedJobIsOrdered` carry through. `TypeOK` says that the schedules with a
  `lastRunAt` each have one place in the order of the polls; it needs from
  `QueueInv` who a scan reports to, and that orders of disjoint sets concatenate
  (`OrdersConcatenate`). `recorded` is reordered with `ByLastRun`, which says
  which order results, and not with `SelectSeq`: that one is computed by
  recursion over the sequence, about which the provers know nothing.
  `EveryPollHasAnOrder` shows that such an order always exists, so that the
  steps that reorder are never blocked: a least set without one would get one
  from its latest schedule and the rest (`OrdersExtend`).
- `DiscoveryInboxProofs` proves the safety properties of the inbox for any number
  of addresses, devices, scans and waiting links. `LinksAreLive` needs
  `FoundIsThere`: a link that ends its wait writes over the row it read, and
  that row, unless deleted, is still there. The other two are action properties,
  one step per action. For `ScansDecideNothing` that is what a reset and an upsert
  make of one row (`Decides`): the reset touches no row that has a live device, by
  `LinksAreLive`, and an upsert puts aside only what its scan had read as
  technical, and is a step of that scan (`ReachedMovesOn`).
- `MonitoringProofs` proves the three properties of `Monitoring`, for any monitors,
  jobs and settings. What they need together is `Inv`: the row that a job holds
  over its probe is the one in the table unless another job handles the monitor
  too (`RowsAreFresh`, `Lone`), and a monitor that was notified is down, with
  `lastAlertAt` set or its alert on the way (`ToldAreDown`). An edit deletes a row,
  creates it or leaves what the checks found (`EditedRow`). The end of a probe and
  a trap are one lemma, `PersistKeeps`. For `StatusFollowsMonitors` only two steps
  change a row without a rollup: an alert that settles and `POST /`, and neither
  changes which links are up or down (`SameLinks`).
- `SignInProofs` proves the three properties of `SignIn`, each from `Types`.
  `BootstrapIsRight` becomes inductive with what the note may lag behind
  (`BootstrapInv`): it never says that an account is missing when there is one,
  and while a request of an administrator is let in it says FALSE, which is why
  creating a user need not write it. `SessionsAreCurrent` is inductive by itself:
  an action writes one row of `users` (`OthersStayCurrent`) and one session at
  most (`Granted`). `FlowsStayInTheirBrowser` needs that every cookie, and every
  answer that will set one, is of the browser that began the flow (`Bindings`),
  that a flow with the provider came back there (`Homes`), and that a flow is in
  one place at a time (`OnePlace`), which is what consuming the state before the
  await gives. The counts follow that place (`Counted`): a flow that has not come
  back has no callback, one at the provider or with a code has one and no
  session, and a session has the only one (`Granting`, `SessionFlows`).

The theorems assume what the modules assume of their constants (positive limits
and times, connections of schedules, `None`, `NoRow`, `Unborn` and `Gone` being no
value, finite tables and inventories, CIDRs that are nonempty sets of addresses,
collections that report a VLAN number or CIDR once,
accounts of the provider not being local, a backup having an account) and, in
auto-sync, that a power of two is a natural number, because the provers know no
exponentiation.

Only model-checked: `PassEnds`, `BackupEnds`, `NobodyWaitsForEver` and
`TechnicalGetsOut`, which hold under fairness (the provers do not reason about
`ENABLED`).

## Where code and documentation disagree

Found while modelling; the models contain the behaviour, and the properties are
stated so that they hold with it.

1. A failing run writes back the failure count it read before its await, over a
   reconfiguration that had cleared it (`auto-sync.ts:195` against
   `schedules.ts:135`). `NoFailureIsLost` says what remains true.
2. A schedule deleted during a pass makes the pass throw, and the schedules
   behind it lose their occurrence (`auto-sync.ts:291` against `:227`). A secret
   that no longer decrypts does the same on every tick.
3. A confirmed mirror deletes a subnet that was empty when previewed, with the
   assignments it got since (`snmp-sync.ts:338`; `docs/SNMP.md:118` says that sync
   never silently deletes existing assignments).
4. An expired snapshot that cannot be removed makes every later backup count as
   failed and be repeated each minute (`native-backup.ts:190` against
   `INSTALL.md:263`).
5. Of linkUp, linkDown, linkUp within 30 seconds the last is dropped as a
   duplicate and the port stays offline (`snmp-traps.ts:118` against
   `docs/SNMP.md:92`).
6. `PATCH /api/discovery/:id` checks that an address is not technical
   (`discovery.ts:1781`) before it awaits the vendor (`:1882`, up to three
   lookups) and writes unguarded, so a row that a scan marks technical meanwhile
   is linked all the same. The next scan repairs it.
7. The death of the process between the update of an account and the removal of
   its sessions (`users.ts:256` and `:259`) leaves sessions that live again once
   the account is enabled, and that outlive a rotated password; a reset from the
   command line that comes while the server verifies the old password
   (`password-reset.ts:69`) leaves the session that the old password gets.
   `CHANGELOG.md:3094` and `INSTALL.md:706` say that both invalidate active sessions.
8. When the session of the first OIDC account cannot be stored, the account is
   rolled back, but that it exists stays noted (`oidc.ts:763`, within the
   transaction of `:340`): the local bootstrap is refused until a restart or the
   next OIDC sign-in. The bootstrap route resets the note (`auth.ts:177`).
9. A callback that awaits the provider while its browser starts another flow
   still adds a code for the replaced flow (`docs/OIDC.md`: starting another
   login replaces the unfinished one). It can only be spent by that browser, and
   only before the answer to the second start has reached it.
10. Deleting or narrowing a DHCP scope leaves the reservations it owned stranded,
    and a backup exported then is refused by the restore (`routes/ipam.ts:710`
    against `docs/NETWORKS_IPAM.md`). `OnlyTwoEditsStrand` says that nothing else
    does this but what 13 tells.
11. The client proposes two addresses that the server refuses: the subnet's own
    gateway, and a reservation in a static zone of a subnet without DHCP zones.
    `ProposalIsAccepted` names them.
12. The import of a device adds its address, and a sync of a switch or a
    controller a DHCP range (`snmp-sync.ts:369`), to a subnet that overlaps
    another, which every route refuses as read-only (`docs/NETWORKS_IPAM.md:25`).
    `OverlapsOnlyShrink` names both.
13. `PATCH /ip-assignments/:id` with `allocationMode: null` checks a reservation as
    the reservation it is (`ipam.ts:963`) and stores it as static with its scope
    kept (`:1009`). The restore refuses a static assignment with a scope
    (`admin.ts:945`), so a backup exported then is refused. The other routes never
    store such a row.

No document promises otherwise: a DHCP range that overlaps one added since the
preview is still inserted; a mirror that re-addresses a network fails as a whole
on every run, because the new CIDR is checked before the old one is deleted;
a mirror that deletes a VLAN and adds a subnet still tagged with its number fails
the foreign key on every run (`snmp-sync.ts:301`), which the model has as an apply
that never commits;
after the clock was set back, the snapshot just made is the one that retention
removes, and the backup reports success; a down alert that no channel delivered
is never repeated unless reminders are on; a discovery schedule whose CIDR is
edited during its scan is recorded as run; an SNMP collection slower than a
minute is started again each minute (`routes/snmp-sync.ts:258`); an import can
put a guest or a virtual switch below a row that is itself a guest, because it
takes the row with the host's MAC, and can add one guest twice when two records
of its host resolve to one row, once by MAC and once by name; a row of the inbox
whose address IPAM lets go stays dismissed; a link whose row was deleted while it
waited still writes the MAC of the device and answers 500; the last administrator
may disable or demote the account.

## Plan

What is left, in this order:

1. Theorems: that the table half and the token half of a reviewed import
   compose, so that what `IntegrationPreviews` applies once is what `DeviceImport`
   and `NetworkSync` import.
2. `McpProposals`: drafts, fingerprint, quota and expiry over an abstract
   inventory that others change, as a second user of `ReviewedApply`.
3. `DockerImport`: a loop with an overlap flag around one await per source, of
   the shape of the auto-sync scheduler, over links that users edit.
4. The SNMP schedule loop with its missing overlap guard, composed with the
   applies of `NetworkSync`.
5. `NativeRestore`: the steps of the offline restore (`cli/restore-native-backup.ts`)
   with a crash between any two, on the snapshots of `NativeBackup`.
6. The overlap rules of racks and layouts, checked over bounded inputs.
7. The stores of the web client: a load that ends after a logout or a change of
   lab, and the 401 of an old session that signs out a newer one.

## Not modelled, and why

Parsing and encoding (SNMP, cron text, CIDR text, trap packets), provider
protocols, alert channels and tools are awaits with outcomes. Authorization is a
stateless table of guards, so models take requests as permitted (but `SignIn`,
which is about who is). Labs are independent of each other but for the queue of
discovery scans, which has them, and for assignments that move. Request handlers
over one synchronous transaction whose rules involve no other actor (racks,
layouts, storage, documents, Wi-Fi, cables) come after the parts above; they and
the user interface are most of the source by size, and have no state of their own
that two actors share. Monitors of several devices are independent but for the
order in a pass. In `NetworkSync` VLAN ranges, IP zones, gateways and the
two-step network route are left out (`Ipam` has the last three); in `Monitoring`
port link states, the trap log and its rate limit are; in `IntegrationPreviews`
what an apply writes, which `NetworkSync` and `DeviceImport` have.
