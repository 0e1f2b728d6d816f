# A TLA+ model of the ProxmoxVE integration for Home Assistant

The integration (`custom_components/proxmoxve`, about 13,000 lines of Python)
polls a Proxmox VE cluster and shows its nodes, guests, storages and disks in
Home Assistant. Everything runs as tasks of one asyncio event loop: code without
an `await` is atomic, and at every `await` - a request, a lock - another
coordinator, a setup, an unload or a user may run. What is hard to get right is
therefore not one handler but what happens *between* two requests, and this is
what the models are about.

Paths and line numbers below are those of `src/custom_components/proxmoxve/`.

## 1. Inventory

| component | state it keeps | operations | talks to |
|---|---|---|---|
| **Shared resource list** (`SharedResources`, coordinator.py:1039-1131) | lock, `_rows`, `_failure`, `_read_at`, `nodes_off` | `get(fresh=)`, `note_nodes`, `forget` (no caller) | called by the guests', storages', summary's and discovery's updates; `poll_api` reads `nodes_off` |
| **poll_api** (3155-3293) | none of its own | one read: gate, request, one repetition for 596/597, classes of errors | the repairs; the gate |
| **Coordinators** (18 kinds in coordinator.py, and their base class) | the data of the last good update; held sensor readings | `_async_update_data`, on an interval, at setup, after a command | `poll_api`, `SharedResources`, the device registry |
| **Repairs about resources** (issues.py, coordinator.py:192-258) | lists of lines in `hass.data`, repairs in the registry | `note_resource`, `forget_untracked`, `forget_entry`, notes on guest agent features | every read; setup; unload |
| **Setup and unload** (`__init__.py`:980-1352) | runtime data of the entry: map of coordinators, what is tracked | `async_setup_entry`, `_async_setup_node/_guest/_storage`, `async_unload_entry` | everything |
| **Discovery** (coordinator.py:1134-1230, discovery.py) | TRACKED; devices in the registry | a round: read, drop, remember, add | `SharedResources` (fresh), setup's helpers, the platforms |
| **Platforms** (sensor.py, binary_sensor.py, button.py, update.py, entity.py, const.py) | entities | build the entities of what has data, add those of a discovered resource | coordinators |
| **Client** (api.py:134-410) | the library client, the host in use | login, learning other hosts | aioproxmox |
| **Memory of hosts** (`__init__.py`:850-910) | the list of hosts in the entry | learn from `cluster/status`, remember | client, entry |
| **Migrations** (`__init__.py`:250-492, 1606) | version of the entry; registries | versions 1 to the current one, one step after another | registries |
| **Shared storages** (`__init__.py`:913-977, storage.py) | selection in the entry; registries | merge the ids of one storage seen from several nodes | registries, selection |
| **Config flow** (config_flow.py:767-1349) | what the steps gathered | user, import, reauth, reconfigure | client, entry |
| **Options flow** (config_flow.py:146-764) | what the steps gathered | credentials, selection, advanced | entry, devices, reload |
| **Staggering** (stagger.py) | none | one refresh, at an offset of its own, for every coordinator with a listener | coordinators |
| **Backups** (services.py) | none | plan a call over nodes, check, start | client, backup coordinators |
| **Buttons' commands** (button.py, api.py:477-627) | none | send a command, refresh, note a refusal | client, repairs |
| **Permissions, disk ids** (permissions.py, disk.py) | none | pure functions | setup, buttons |
| **Parsers, diagnostics, texts** (models.py, diagnostics.py, translations) | none | conversions | - |

### What each part has to get right

* *Shared list*: one request per burst, nobody served an answer older than the
  TTL, discovery never served an older one at all; a reader that waits is told
  whatever becomes of the request; a node that is off is not asked, and one that
  is back is asked again.
* *poll_api and the plans*: every class of answer ends in data, None,
  UpdateFailed or ConfigEntryAuthFailed; a second request only for a busy
  pveproxy and only once; an update goes on exactly where the code does.
* *Repairs*: registry and lists agree; nothing is named that the entry does not
  track; nothing outlives the entry; a granted privilege clears its line, a
  missing one keeps it.
* *Setup and discovery*: no coordinator, entity or device for what is not tracked;
  no entity without a coordinator that has data; what comes is picked up and
  what goes is dropped.
* *Client and hosts*: the configured host goes first; an address is forgotten
  only on the cluster's word; a silent host keeps no setup from loading; the user
  is asked for credentials only when the cluster refuses them.
* *Selection and merge of storages*: a device for what is picked and for nothing
  else; one device for a shared storage; nobody but the user takes a history.
* *Disks and their migrations*: an id tells a disk from every other; interrupted
  at any write and repeated, a disk keeps its one history and one device.
* *Flows*: a change is saved whole or not at all, also when the form was filled
  long before.
* *Backups*: a node is not run twice by one call, nothing named is left out, and
  the answer says what was started.
* *Buttons*: a refused command leaves a repair that only a success takes off.

### Hard behaviours

Concurrency of updates at a lock (FIFO, held across a request); failures of
every request, of setup in the middle, of one step of several in a discovery
round; unload and restart at any `await`; polls in flight while their resource
is dropped; state that outlives a session (registries) against state that does
not (lists, coordinators, TRACKED). PROJECT.json lists each hazard with its
line and the properties aimed at it.

Facts of Home Assistant the models take from outside the repository, all
marked external in the map:

* a coordinator whose scheduled poll raises ConfigEntryAuthFailed is not
  scheduled again ("parked"); one whose first refresh does is not;
* a coordinator with no listener is not scheduled;
* `async_shutdown` ends the schedule and leaves an update in flight alone;
* an entry that is unloaded has its own tasks cancelled - polls, the stagger's
  refreshes - but not an update that a service call awaits;
* an entry whose setup raised is not unloaded, also when it is disabled or removed,
  and is set up again on a reload;
* repairs that are not persistent do not survive a restart, devices do;
* deleting a device deletes its entities;
* the config entries, the device registry and the entity registry are separate
  files, each written some time after it changes, so a kill loses any of them;
* the entity registry refuses a unique id that is taken, if only by the entity that
  is to get it, and the exception ends
  the setup of the platform that asked;
* an exception setup does not catch leaves the entry failed until it is reloaded;
* aioproxmox keeps the host in use and moves on from one that is silent.

## 2. Modules

```
ApiRead -------+--> SharedResources --> MCSharedResources     SharedResourcesProofs
  (classes of  |      implements BurstRead
   answers)    |
PollPlans -----+--> ResourceIssues ---> MCResourceIssues      ResourceIssuesProofs
  (requests of each coordinator)
                    Discovery --------> MCDiscovery           DiscoveryProofs
                    ClusterHosts -----> MCClusterHosts        ClusterHostsProofs
                    Selection --------> MCSelection           SelectionProofs
                    Disks ------------> MCDisks               DisksProofs
                    Commands ---------> MCCommands            CommandsProofs
                      implements BackupCall
Permissions (operators and their theorems, no state)
```

**ApiRead** (no state): what one request can be answered with, as far as
`poll_api` tells answers apart, and what the caller is left with. Texts, status
numbers of one class and wording of errors are left out.

**BurstRead**: the promise. A reader gets the outcome of a read answered while
it waited, or the newest one if younger than TTL; a reader of `Fresh` only the
former; a refused login is told to the one that met it and kept for nobody. No
lock, no request, no queue.

**SharedResources**: `SharedResources.get` line by line between its suspension
points. `queue` is the asyncio lock (holder first), `asking`/`attempt` the
request in flight and its repetition, `cache` is `_rows` and `_failure` together
(they are never both set), `age` is `monotonic() - _read_at`, compared with TTL
and therefore held there. `nodesOff` is the gate, which `ReadNode` consults the
way `poll_api` does for a `nodes/<n>/...` path. `since` and `last` are history
variables for the properties; nothing reads them.

**PollPlans** (no state): for every kind of coordinator the reads of its
`_async_update_data` in order: path, key and privilege under which a refusal is
noted, outcomes after which the update goes on, reads it may leave out
depending on data. Conversions of answers are left out. One record per read
replaces some hundred lines of straight code of each class. The parts of the HA
resources (`cluster/ha/...`) are read with the HA-admin credentials, like Ceph.

**ResourceIssues**: the repairs. `lists` are the lines of each kind kept in
`hass.data`, `repairs` what the registry shows. A step of a coordinator is one
answered request with everything its answer leads to (the note, the rewrite of
the repair, the next request or the end). Setup, broken setup, unload, restart
and discovery are modelled as far as they touch the repairs, or decide who
polls: `todo` are the owners still to be set up, `first` the queue of first
refreshes, `built` the coordinators in the map, `listened` those with an entity,
which a first refresh brings if it gave data (`GivesData`) and the user did not
disable what was made of it. Only these are polled (`Scheduled`), until a refused
login parks them; `Stagger` refreshes each of the others once more at the most,
`due` for it. `Ask` is an update that a service call awaits,
`homeassistant.update_entity` or the refresh after a backup; it runs beside the
polls (`asked` is where it is, as `pc` is for these), and no unload ends it: it is
then one of the `strays`, and the lines it brings are kept in `late`, a history. The
list `SharedResources` keeps appears as `burst`, its outcome: what a poll gets
without a request.

**Discovery**: rounds of `ProxmoxDiscoveryCoordinator` over the runtime data, the
entities and the device registry. A step runs from one suspension to the next:
`Ask`, then `NoAnswer` or `Compare` (drop, remove devices, remember), then for
each new resource `BeginAdding` (its own listing) and `EndAdding` (its first
refresh, the platforms). Polls are in flight between `StartPoll` and `EndPoll`;
`orphans` are those whose coordinator was dropped meanwhile.

**ClusterHosts**: which host an entry talks to. `phase` is the flow that creates
the entry, then the entry; a setup suspends at its login (`login`, `relogin` once
it failed over), at `cluster/status` (`members`) and at `cluster/resources`
(`resources`). `host`, `cred` and `fallbacks` are `CONF_HOST`, the credentials and
`CONF_CLUSTER_HOSTS`; `current` is the host the client uses. `health`, `cluster`
and `secret` are the world's: hosts fall silent, boot (their API answers and is
not ready), go to another cluster, passwords change, at any of those requests.
`EnterHost` and `CreateEntry` are the config flow, `Reauth`, `HostAuth` and
`Reconfigure` the flows that write an entry that is there. `steady` is history.

**Selection**: the storages picked, per node or once for the cluster, and their
devices. `selection` and `device` are the entry's `CONF_STORAGE` and the device
registry, `savedSelection` and `savedDevice` the files. `Merge` is
`merge_shared_selection` with all its registry work, `MergeBreaks` the same with a
device in the way of one that is to be renamed: some are, then setup fails. A form
is opened from what is picked and listed then, and submitted whenever
(`SaveForm`). `Crash` goes back to the files, each as it was or is. `had` and
`torn` are history: which devices a name had, and what a stop left apart.
Automatic discovery is off, as the selection is not asked for otherwise.

**Disks**: `at` is where the drives are; `IdOf` and `Matches` are
`resolve_disk_id` and `disk_matches_id`. `Migrate` is a step of
`async_migrate_entry` from version 5 or 6 (`_async_rename_disk_devices`), or the
step that could not list the disks and is not made again. A setup builds a
coordinator per listed disk (`Build`), refreshes each (`Refresh`), hands those with
data to the platforms (`AttachPlatforms`), where each disk's entities move to its
id (`MoveEntity`) before the entities are added (`Appear`). One entity stands for
all of a disk's, and a device or entity is modelled by the drive whose history it
has. `saved` are the files, `Crash` loses any of them. `known`, `astray` and
`unmoved` are history.

**Commands**: the backup action over several entries, and the buttons. `Begin`
plans a call from what the coordinators hold (`at`, by entry and guest), which
asks no one; `Take` takes up a plan (skips it, refuses it, or posts). `Accepted`
is Proxmox taking the run and saying so, `NotAccepted` a refusal or a request that
did not arrive, `AnswerLost` a run that Proxmox took and whose answer did not come
back (services.py:338-351 tells the user the same of both). `Refreshed` is the
refresh of the node's backup coordinator after an accepted run. Between these guests move, polls come in and entries
are loaded and unloaded. `Press` and `Answered` are a button's command and its
answer, which writes `issues`. The order in which plans are taken is left open.

**BackupCall**: what a call of the backup action promises about the nodes it is
for: each is seen to once, by a run or by being spared; Proxmox takes at most one
run there; a call that ends well has seen to all and reports what was taken. One
that breaks off or fails leaves at most one run more taken than it had seen to the
end: the one whose answer was lost, or whose entry was unloaded while it was asked.
`Commands` maps to it by the entry and node of its plans (`PlacesLeft`,
`PlacesTaken`, `PlacesReported`, `PlacesSpared`).

**Permissions** (no state): the walk over `access/permissions` (`IsGranted`,
`IsGrantedAnywhereBelow`) and the buttons left by it (`Offered`). The state it
would have is one answer read at setup, so what it promises is stated as theorems
about the operators, for every answer.

**How they compose.** `ResourceIssues` is built on `PollPlans` and `ApiRead`, and
`SharedResources` on `ApiRead`; of the shared list, `ResourceIssues` needs the
outcome it shares, which is `BurstRead`'s `newest` and appears as `burst`.
`ResourceIssues` and `Discovery` look at one round from two sides, the repairs
and the registries, and neither reads the other's state. `ClusterHosts`,
`Selection` and `Disks` are the stretches of `async_setup_entry` one after
another - login and hosts, merge, disks and platforms - and what each reads of the
one before is only whether it went through; each has that as a choice. `Commands`
reads what polls hold and writes none of it but `busy`.

## 3. Runs

| run | module | shows |
|---|---|---|
| SharedRead | MCSharedResources | `SharedResources` implements `BurstRead` (refinement: queue hidden in `waiting`, `cache` as `newest`); the gate is what the shared rows say; one read per burst; silence opens no gate; every reader is told; a node switched on for good is read again |
| Repairs | MCResourceIssues | a node and a VM, a fixed selection, and an update of the VM that a service call awaits: lists and registry agree, nothing outlives an unload but what such an update notes too late, only tracked resources are listed, a missing one is listed and no other |
| RepairsProgress | MCResourceIssues | granted privileges clear the repair of what is polled; a refused one of what is polled keeps its line |
| RepairsOfDropped | MCResourceIssues | *violation*: a dropped VM leaves its line |
| Discovery | MCDiscovery | nothing untracked, no entity without data, gone is dropped, new is picked up |
| DiscoveryMissed | MCDiscovery | *violation*: a guest found while a later request fails is never set up |
| Hosts | MCClusterHosts | a start goes to the configured host; a refusal is the cluster's; only a list forgets an address; setup loads from any host that serves; restarts follow the cluster |
| HostsRefused | MCClusterHosts | *violation*: a login that failed over is refused by another cluster |
| Selection | MCSelection | no device of what is not picked; one device per shared storage; histories stay |
| Disks | MCDisks | ids tell disks apart; one history and one device per disk through migrations and stops; the platforms come up unless a disk is known by its path |
| Commands | MCCommands | `Commands` implements `BackupCall` (refinement: plans, polls and answers hidden); one run per node, nothing named is forgotten, calls end; a repair goes with a success only |
| BackupElsewhere | MCCommands | *violation*: a guest's device backs up the guest of another cluster |

### Bounds, and why they are enough

* **TTL = 2 ticks**: an outcome can be fresh, a tick old and expired, so "just
  younger" and "exactly as old" differ. The code compares ages with the TTL and
  with nothing else.
* **Readers**: a coordinator, which takes what was read, and discovery, which
  never does: each can hold the lock while the other waits. The refinement and
  the safety properties are proved for any number of them.
* **One node** in SharedRead: the rows of several nodes are filtered each by
  itself; the theorems cover any number.
* **Answers** (`MCMet`): for the shared read one of each class `get` tells
  apart (rows, a list of the wrong shape, busy, silence, 403, 401); for the
  repairs `ok`, `silent`, and in the progress run `unauthorised`, with 403 and 595
  coming from the withheld paths and from what is down. The other classes end the
  same way.
* **Resources**: Repairs has the node and the VM, whose plans have the longest
  sequences, a path of each whose privilege may be missing, one that lists and one
  that is refused, and updates of the VM on demand (`Askable`, one at a time), so
  that a stray brings lines to an entry that is unloaded, or set up again without
  the VM. `Backups` is empty: the backup coordinator is not among those run. The
  progress run has no such updates, as no call need ever be made. The plans of the
  remaining coordinators are not run: their reads are of the same forms. That
  they are well formed is not assumed: `PlanAssumption` is what TLC evaluates on
  each run's plans and what the theorems require of any; that every plan of
  `PollPlans` meets it, and `OwnershipAssumption`, is proved (`CodePlansFit`).
* **Discovery**: a node and two guests, so that a round can add several, one of
  which has to be first, while another is dropped.
* **Hosts**: three, so that an entry has its host, one to fail over to, and one
  that is or was of another cluster; two clusters and two passwords, so that a
  move and a change differ; one host that is seen booting, as being not ready is
  told from silence only at the host in use.
* **Selection**: one name on two nodes, since names do not meet; a keeper, one
  that merges into it, and the shared id. The nodes are symmetric: no definition
  names one.
* **Disks**: two drives with one WWN, one of them without a by-id link and so
  known by its serial, and one that tells nothing and is known by its path, on two
  paths, so that a drive can take the place of another. `MaxUpsets = 2`: a drive
  leaves and another takes its path, or a change and a kill.
* **Commands**: two entries whose clusters have a node and a vmid in common, as
  clusters installed alike do, one of them with a second node; seven requests, one
  for each way to name something and the overlaps of these; two buttons of one
  guest, so that one is answered while the other is under way. A history has calls
  or presses, as they share nothing but what polls hold.

### Fairness

* `SharedResources`: weak fairness of time, of each coordinator's poll and of its
  steps in `get`, and of node reads. Home Assistant schedules polls on an
  interval, a request ends by answer or by `API_TIMEOUT`, and the event loop runs
  a task that can run. The cluster is not fair: it need never come back.
* `ResourceIssues`: weak fairness of each coordinator's update, of the requests of
  an update that a service call awaits, and of the end of a burst. An update starts
  only for a coordinator that is polled, for a first refresh that setup or discovery
  awaits, and for the stagger's; a coordinator without a listener owes nothing after
  that. Setup, discovery, service calls and the cluster have none.
* `Discovery`: weak fairness of the round as a whole (`Work`), which is one task.
  Discovery always has a listener, the one setup registers, so it is polled.
* `ClusterHosts`: weak fairness of what setup does by itself (`Setup`): its
  requests end or time out, and Home Assistant repeats a setup that was not ready.
  A user and the hosts owe nothing.
* `Commands`: weak fairness of the call (`Work`), a task whose requests end or time
  out.
* `Selection` and `Disks` promise safety only and assume none.

Liveness properties assume in their premises what the code cannot influence:
that the API answers for good, that a login was not refused, that the entry
stays loaded, that hosts stay as they are.

### Findings

The four violation runs are disagreements between a sentence of the
documentation and the code, with the sentence quoted in PROJECT.json:

1. *RepairsOfDropped* (`__init__.py`:1269): a dropped resource leaves its line on
   the repair until the entry is set up again. `OnlyTrackedAreListed` holds with a
   fixed selection.
2. *DiscoveryMissed* (`__init__.py`:1222): a guest found in a round whose later
   request fails is never set up, as it is tracked already. `NewIsPickedUp` is
   the part that does hold: with an API that answers throughout, it is.
3. *HostsRefused* (api.py:263): a login fails over to an address that is not, or
   no longer, of the configured cluster, and its refusal asks the user for
   credentials that cluster accepts. `RefusalIsTheClusters` is the part that does
   hold: while every known address is of that cluster.
4. *BackupElsewhere* (services.py:179): the device of a guest is resolved by its
   vmid alone, and the first entry with that vmid runs the backup.

Met while reading, and not the subject of a run:

* coordinator.py:1219-1220 says of guests deleted and recreated under one id
  within a round that they get fresh coordinators; comparing sets of ids, the
  round does not notice them.
* issues.py:124 and coordinator.py:3261-3263 say cluster-wide reads carry no
  tracked id; the HA coordinators pass ids such as "ha_resources", so their lines
  are dropped at each setup and noted again by the first poll (`WideRead` is
  modelled this way).
* docs/behaviour.md:35 calls Ceph an hourly read; its coordinator takes
  `poll_interval` (coordinator.py:1598).
* The node's network is read with `issue_crete_permissions=False`, so a 403 there
  fails the whole node update rather than leave the network out.
* A refused `version` read leaves None, and the code goes on to `.get` on it
  (coordinator.py:2001-2004).
* coordinator.py:1046-1048 says "A failure is shared the same way"; a refused
  login is not kept (1086), so every waiting reader makes its own. `BurstRead`
  states what the code does.
* Several reads of one update may share a key (3290), so a line leaves the repair
  with the read that is granted and comes back with the one that is not: it
  flickers. `RefusedStaysListed` is the part that holds: where the first read of a
  key is the refused one, the line stays.
* docs/permissions.md:12 has the list of refused resources grow and shrink with the
  privileges. A coordinator refused at its first refresh has no data, so the
  platforms make no entity of it (sensor.py:1764, 1944), so nothing listens and
  nobody polls it: after a grant its line waits for a reload, as docs/permissions.md:6
  asks for. `GrantedIsCleared` is stated for what is polled (`Polled`), and
  `RefusedStaysListed` likewise: a privilege that is withdrawn later is never noted
  for such a coordinator.
* issues.py says of repairs that they go with the entry when it is unloaded. An
  update that a service call awaits ends after `forget_entry` and may note a line
  then, which stays until the next setup or restart; and a failed entry that is
  disabled or removed is not unloaded, so its repairs stay until a restart.
  `NothingOutlivesUnload` says the rest.
* disk.py:15 calls the id of a disk stable. A disk whose WWN twin is plugged in or
  out changes its id; its entities are then found under two former unique ids, and
  the registry refuses the second, which ends the sensors platform
  (sensor.py:1857). The properties of `Disks` are stated for drives that keep their
  ids (`TellApart`).
* A disk that tells neither WWN nor serial nor link is known by its path
  (disk.py:32). One of the former ids looked for is then today's id
  (sensor.py:1850-1855, binary_sensor.py likewise), so that from its second setup on
  the entity is renamed onto the id it has; the registry refuses
  (`__init__.py`:1622), and the platform ends with every drive where it was.
  `PlatformsAreSetUp` says that these two are the only ways there.
* A serial "unknown" is taken for a serial, as a WWN "unknown" is not. Two drives
  that tell such a serial have one id; `NamingAssumption` excludes them, as the
  drives of a listing are then not told apart by anything the code looks at.
* The migration from version 6 empties `CONF_STORAGE` and the options and leaves
  the storages' devices (`__init__.py`:409); the docstring of the one test of it
  says that it keeps storages, and its assertion is that there are none
  (`src/tests/test_migration.py`:48, 60).
* api.py's `_answers`, `failover` and `relogin` have no caller.

## 4. Proofs

TLAPS checks the seven `*Proofs` modules and `Permissions`, for any constants that
satisfy the named assumptions (each evaluated by TLC on every run as well): any
set of readers, nodes, resources, hosts, storages, drives and entries, any TTL
above zero, any classes of answers, any plans of the declared shape.

**SharedResourcesProofs.** The inductive invariant is `TypeOK`, `QueuedOnce`
(a reader is in the lock's queue once), `ReadsAgeTogether` (as long as the last
read was not a refused login, `age` and the history `since` agree) and
`GateFollowsRows`. `QueuedOnce` is needed for the refinement: a reader that
leaves the head of the queue has to leave `waiting`, a set, which is wrong if it
is queued again behind. `ReadsAgeTogether` connects what the code looks at
(`age`) with what `OneReadPerBurst` speaks of (`since`). Proved: `TypeCorrect`,
`GateCorrect`, `OneReadPerBurstHolds`, `SilenceOpensNoGateHolds` and
`PromiseKept`, the refinement `Spec => Burst!Spec`, step by step: a request and
a repetition are stutters of the promise, an answered read is `ReadAnswered`, a
shared one `Share`. Then the lock, for any number of readers: `LockIsNeverStuck` (a
request in flight has a holder that had to read, a parked coordinator does not
wait) and `TurnsComeCloser` (none is overtaken, and each step of the holder lowers
`StepsUpTo`, what is left before each one's turn). They are what `EveryReaderIsTold`
needs besides fairness; `GateFollowsLastList` is the same for `NodeIsReadAgain`.

**ResourceIssuesProofs.** The invariant is `TypeOK`, `RepairsShowLists`, `Quiet`
(an entry that is down has nothing built, polled or to do), `OnlyStrays` (what runs
beside that for a service call is of an earlier setup, and nothing is due for the
stagger) and `OnlyLateLines` (an unloaded entry has no lines but late ones). `Quiet`
is needed because a poll in flight could note a line after the unload, and holds
because an unload cancels polls; `OnlyStrays` because an unload does not cancel the
rest, so that whatever notes a line then must be known to be a stray. Proved:
`TypeCorrect`, `RepairsCorrect`, `UnloadIsClean`. For a fixed selection
(`~AutoDiscovery`) `FixedInv` adds whose coordinators there are: `TrackedOwners`
(what is built or to be set up is tracked, or the hub), `BuiltPoll` (an update in
flight that is no stray's, or a refresh due, is of an owner that is built),
`TrackedLines` (every line is of a tracked resource, or late) and `Decided` (what
setup has been through is built or noted as missing, not both).
`OwnershipAssumption`, that a coordinator only reads resources of its own owner, is
what the plans of the code share; from it follow `OnlyTrackedListed` and
`MissingListed`, whatever is in flight. Of the steps: `NothingIsMadeUp` (a line comes
with a refusal of its own read, or with a resource missing at setup),
`OnlyAnswersTakeOff` (and goes, while the entry stays as it is, with data for its key
or for a newer line of it), `RefusedLinesStay` (while a read that speaks first for its
key is refused, no update that has not passed it goes by without the line). A read is
here a poll's or a service call's (`Reading`). That a line is read again at all is not
among the theorems: it depends on a listener, which entities decide.
`CodePlansFit` is about the operators of `PollPlans`.

**DiscoveryProofs.** The invariant is `TypeOK`, `NothingUntracked`,
`EntitiesHaveDevices` (so that dropping a device takes the entities with it),
`answered \subseteq built`, and `EntitiesAreServed`. Proved: `TypeCorrect`,
`NothingUntrackedHolds`, `EntitiesServed`, and from the same invariant what steps
never do: `DropsAreLasting`, `RoundsForgetNothing`, `DeletedStaysDeleted`. A round
ends because it always has a resource to turn to (`RoundsHaveWork`: while a node
waits, nodes are due, else the rest) and because `WorkLeft`, two steps for each
resource left, falls with every step of its own and with no other made larger
(`RoundsRunOut`, for finitely many resources).

**ClusterHostsProofs.** The invariant is `TypeOK`, with `current` among the known
addresses, `NothingKnownYet` (before the entry exists nothing is remembered),
`ConfiguredHostFirst` and `SteadyHostAnswers`: while the history says the
configured host was never silent since setup began, it is not silent now, so no
action that leaves a silent host can leave it. Proved: `TypeCorrect`,
`StartsAtTheConfiguredHost`, and from the same invariant the action properties
`RefusalsAreTheClusters` (what refuses is a known address, so by the premise a
member), `OnlyAListForgets` and `AskedOnlyAfterARefusal`. Of a setup that can recover
(some known host serves, the others serve or are silent): `SetupsAreNeverStranded`
and `SetupsComeCloser`, by `Distance`, a number for each stage and for whether its
host is silent, which each step of the setup lowers while hosts stay as they are.
The one way back is a login that moved on to a host which then fell silent too
(`relogin`): it is not moved again, so a whole new setup is due, and that stage is
the farthest.
`MembershipSettlesHolds`: what is remembered stays right until cluster or host
change, and a start that the configured host served makes it right.

**SelectionProofs.** The invariant is `TypeOK`, `AllPicked` (every device is of
something picked, unless a stop or a broken merge tore the files apart),
`PerNodePicked`
(the same for per-node devices, and needing only that the registry is not the
older file) and `MergedPicked` (once setup merged a name, none of its per-node ids
is picked). All speak of the files on disk as well, since the next stop shows
them. `PerNodePicked` is apart because `OneDevicePerStorage` is promised after
tears that `NoOrphans` is not. Proved:
`TypeCorrect`, `DevicesArePicked`, `SharedIsOneDevice`. `HistoriesStay` adds
`HistoryPicked` (what is picked of a name has the devices its history is under, or
a tear left one under the shared id) and `HistorySaved` (the same of the files on
disk, from which memory differs by merges only), since a stop goes back to them.
Further: `PicksStayTheUsers` and `OnlyMergesTakeDevices` (whose doing a pick, and the
loss of a device, is; a merge that breaks loses none), and of the operators
`ListedInOneForm`: the form offers a storage under the shared id exactly where setup
would merge it.

**CommandsProofs.** The invariant is `TypeOK`, `OneRunPerNode`, `StageFits` (a plan
that was posted is of the call that is worked off, and still among those left),
`StartedFits` (while a call goes well, what was started is a run or the one whose
node is being refreshed) and `RunsWereStarted`. `OneRunPerNode` speaks of plans left, started
and skipped alike: plans apart at the beginning (`PlannedApart`: at most one plan
for a node of an entry) stay apart because no step brings a new one
(`NoNewPlans`). `CallsForgetNothing` needs the other direction, `NothingLost`: what
the call named is in the plans left, started or skipped, so that a plan that is
taken up must end in one of the others. Proved: `TypeCorrect`, `NodesRunOnce`,
`ReportsAreTrue`, `CallsForgetNothing`, and the action property `RepairsOutlast`.
`PromiseKept` is the refinement `Spec => Promise!Spec`: `Take` of a plan that is
skipped is `Spare`, an accepted post is `Take`, and so is one whose answer was lost
(the call fails with it); a post that was not taken is `GoWrong`, the refresh after
an accepted one `Report`, and a post and everything polls and entries do are
stutters. It needs that plans of a call
are told apart by their place, which is `OneRunPerNode`. `EachPlaceHasOneFate` says
what follows from the promise. Of why a call ends: `CallsHaveWork` (a plan to turn
to, or an answer to wait for) and `CallsRunOut` (with finitely many entries and nodes,
three steps at most for each plan).

**DisksProofs.** `IdsTellApart` is a theorem about the operators under
`NamingAssumption`: `IdIsOwn` (an id is something the drive says of itself, or, of a drive that says
nothing, its path), `WwnIsAlone` (an id that is a WWN is no other listed drive's).
Types need `WaitingListed`: while the entities move, what waits has data. The
other properties hold while nothing went astray, by the invariants `Kept` and
`Placed`. About the drives, `Kept` says that no two had one id (`KnownApart`), and,
by `TwinsStay` and `NoTwinSeen`, that no WWN was the id of one drive and that of
another's twin: the first wants two twins listed as long as one was told
by something else, since the last to stay would have changed its id. About the
registry it says where a history may be (`HistoryAt`), that paths are told
rightly (`PathsTold`, `PathsAgree`), also in the files a stop goes back to, and what
the setup has behind it (`DataIsKnown`, `DataPaths`, `WaitingIsKnown`, `MovedOn`,
`Shown`). `BrokenByPath` gives `PlatformsAreSetUp` its second way to break: only a
disk known by its path is asked to take the id it has. `Placed` says
the same of the devices, with `MovedTo`: what a version left behind is gone for
every drive its migration listed, which an older version asks less of, so that
version and registry may be from different times. Proved: `TypeCorrect`,
`DisksToldApart`, `OneHistory`, `PlatformsComeUp`, `OneDevice`.
These cannot tell an old history from one begun anew, so two theorems say what is
lost. `OnlyLeftoversAreLost`, astray or not: but for a stop, a device or a history
moves to an id of today or goes with a leftover (a device whose id today is taken
already). `DisksAreLeftTheirs`: while nothing went astray, no disk is left without
its device, and one loses its history only where a migration, from version 5 or 6,
finds two devices of it: the older goes as a leftover, with the entities that hang off
it, those still under a path among them (`HangsOff`). It takes a skipped migration
and a stop that brings back part of the files.

**Permissions.** `GrantsPropagate` (what is granted on a path is granted below it),
`BulkFollowsGuests` (a node has its bulk button whenever a guest could have one)
and `MoreGrantsKeepButtons` (more grants, or an answer that could not be read,
never take a button away), each for every answer, with prefixes of sequences
compared part by part.

**Only model-checked**: the liveness properties (`EveryReaderIsTold`,
`NodeIsReadAgain`, `GrantedIsCleared`, `RefusedStaysListed`, `GoneIsDropped`,
`NewIsPickedUp`, `SetupRecovers`, `MembershipCatchesUp`, `CallEnds`), which need
fairness and ENABLED. The part of each that is about steps is proved, as named
above: that something can always be done, that each step of the task brings it
closer to its end, and that nothing undoes it. What is left to TLC is that weak
fairness of these steps then brings the end about. Every other property of a passing
run is a theorem.

## 5. Plan

Done: the shared list with its promise, the repairs with the plans, discovery;
then hosts, selection and merge, disks and their migrations, commands,
permissions. The first three came first because every coordinator depends on the
first, every read writes the second and every resource passes through the third.

What is left, in this order:

1. Guests with an identity in `Discovery`: deleted and recreated under one id
   within a round.
2. The client with the HA administrator's credentials in `ClusterHosts`, whose
   session is another and whose refusals lead to another repair.
3. The import from YAML next to a user's flow, two entries for one cluster.
4. The overlap of a staggered refresh with a poll in flight (that of a service call
   with a poll is there).

## 6. What is not modelled

* *Parsers, units, entity descriptions, diagnostics, translations*: conversions
  without state. The platforms appear in when entities come and go, in which
  buttons there are, and in how a disk's entities move.
* *Offsets of the staggered polls*: that each coordinator is refreshed once more is
  modelled, when is not. That is the business of Home Assistant's timers, whose
  rounding to the second and re-anchoring a model would have to invent.
* *Held readings*: one comparison of ages within one coordinator, enumerated by the
  tests.
* *Migrations of versions 1 to 4*: they rewrite the entry and drop devices that the
  next setup makes again; no step of theirs depends on what another left.
* *Import from YAML*, and *the step and client for the HA administrator*: left for
  later, see the plan.
* *The sweep of repairs of earlier versions*: it removes what nothing else touches.
* *aioproxmox and Home Assistant* appear as their callers see them.
