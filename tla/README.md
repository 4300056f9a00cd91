# TLA+ models of unifi-netbox-sync

`unifi-netbox-sync` copies what UniFi knows about a network into NetBox: adopted hardware
becomes infrastructure devices, active clients become client devices with interfaces, addresses
and cables, and clients that have been away longer than a grace period are marked offline. One
process runs the sync in a loop, one thread per NetBox site, against a NetBox that people edit at
the same time.

This directory holds TLA+ modules translated from `src/unifi_netbox_sync/`, TLC configurations
that check them on small instances, and TLAPS proofs. `PROJECT.json` maps every definition to the
lines it models, lists the runs, the hazards and the disagreements found between code and docs.

## The system

| Part | State it keeps | Operations | Talks to |
|---|---|---|---|
| Device data plane (`sync.py`, `netbox_client.py`, `staleness.py`) | per site worker: seen addresses, history, lookup in progress; process: infra lock | list hardware, find / create / update / merge / move hardware; list clients, find / create / update clients; offline marks | NetBox tables, run cache, UniFi |
| Run cache (`caching.py`) | record lists by address and by site, switches, interfaces, owned addresses | prefetch, lookup, remember, forget | data plane (same objects, by reference) |
| Run orchestration (`sync.py` `run`, `cli.py`) | report, groups of pairs, thread pool | link sites, group, run groups, uplink cables, summary, metrics, heartbeat | all of the above |
| Container loop (`docker/entrypoint.sh`, `healthcheck.sh`) | pid lock, heartbeat file, stop flag | start, run, record, sleep, stop; probe | the process's exit code |
| NetBox HTTP session (`netbox_client.py`) | limiter semaphore, retry counters | send, retry after 429, retry reads, create-or-refetch | NetBox |
| Schema prerequisites (`netbox_client.py`) | NetBox roles, tags, custom fields, types | ensure each, create-or-refetch, permission errors | NetBox |
| Cables (`netbox_client.py`, `sync.py`) | NetBox cables and terminations | client cable, uplink cable, replace policy | NetBox, switch cache |
| IP assignment (`netbox_client.py`) | NetBox addresses and primary addresses | create, move, demote, set primary | NetBox |
| Port matching (`portmatch.py`) | none | candidate names of a port, client match, uplink match, zero-based families | the two passes of cables |
| Site linking (`sync.py`, `netbox_client.py`) | NetBox site custom fields | resolve, stamp, ensure | NetBox |
| Legacy merge (`netbox_client.py`) | components of a merged device | align components, retire `eth0` | NetBox |
| UniFi client, configuration, names, device types, metrics | none the sync decides on | read and format | controllers, environment |

### What makes each part correct

| Part | It is correct when |
|---|---|
| Device data plane | one device per UniFi address; nothing outside the sync is written; infrastructure is never taken offline or turned back into a client; hardware that staging has let go stays where it settled; whoever stays is recorded, whoever leaves goes offline |
| Run cache | a decision on a cached record is one the live record would have justified; no cached answer outlives a write of the same run |
| Run orchestration | one site cannot abort the others; success is reported only for a complete run; no writer outlives the process |
| Container loop | health is earned by complete runs and kept by working ones; runs of containers that share a lock never overlap; a stop is honoured; syncing goes on |
| Cables | nothing made by hand goes, nothing at all under `skip`; a link nobody disputes is cabled; runs over an unchanged network come to rest |
| IP assignment | the addresses of devices outside the sync stay; an undisputed client gets its address as its primary |
| Site linking | an identity field that has a value keeps it and is on one site only; two pairs never write one site; a link outlasts a rename |
| HTTP session | a write is never repeated after a time-out; the limit on parallel requests holds while one backs off |
| Schema prerequisites | losing a race for an object is no error; no site goes on with a device type whose templates another is adding; in the end NetBox has everything the runs need |
| Port matching | a port is matched to the interface it is, or to none, whatever else the device has |
| Legacy merge | a merged device ends up with the components of its type, whatever failed in between |

### What is hard

* Several site workers and several joins (address, declared address, serial, name) meet in one
  global device table. Only adopted hardware is serialised, by `SyncEngine._infra_lock`.
* Decisions are taken on record objects: loaded by the prefetch at the start of a run, refreshed by
  the response to a PATCH, or fetched live. Two objects can stand for one device.
* A client's active list, its history and the offline decision are read at different moments, and a
  controller may answer any of them empty.
* Writes can land although their answer is lost. Nothing is transactional.
* Ownership (`SYNC_TAG`, `SYNC_UNMANAGED_TAG`, role, site, `DEVICE_UPDATE_POLICY`, inventory sites)
  is decided anew for every record, and operators change it between two runs or during one.

## The modules

| Module | Models | Role |
|---|---|---|
| `DeviceSync` | the device data plane with the record lists of the run cache | component |
| `MCDeviceSync` | small instances of `DeviceSync` | model checking |
| `DeviceSync_proofs` | type correctness, ownership of writes, one device per address, offline marks, hardware that stays hardware and stays at its site | proofs |
| `RunPromise` | what one sync process promises to the loop and the health check | abstract specification |
| `SyncRun` | one process from `main()` to its exit status | component, implements `RunPromise` |
| `SyncRun_proofs` | the refinement, and that no writer outlives the process | proofs |
| `SiteLink` | `SyncRun` with its step `Link` carried out pair by pair, and `ensure_site`, over a table of sites | component, implements `SyncRun` |
| `MCSiteLink`, `SiteLink_proofs` | three pairs and eight tables; that it is a run of `SyncRun`, that identity fields keep their values and are on one site only, that no two pairs write one site, and that the fields lead to it after a clean run | model checking, proofs |
| `ContainerLoop` | `entrypoint.sh`, `healthcheck.sh`, lock and marker; a process is what `RunPromise` says | component |
| `MCContainerLoop`, `ContainerLoop_proofs` | containers as model values; exclusive runs and the health check | model checking, proofs |
| `IpAssign` | addresses and primary addresses of client devices, request by request | component |
| `MCIpAssign`, `IpAssign_proofs` | small instances; primaries outside the sync are safe | model checking, proofs |
| `Cabling` | client drops, uplinks, `ensure_cable`, the cable of a retired `eth0`, request by request | component |
| `MCCabling`, `Cabling_proofs` | a small instance; what may be removed | model checking, proofs |
| `PortMatch` | `portmatch.py` as operators over names; no state | pure algorithms |
| `PortReadings` | what the names and templates of a device say about a port, tier by tier; deployments that are told apart by it | properties of `PortMatch` |
| `CableEnds` | the way from a reported port to an interface: the switch lookups of the run cache, `_resolve_cable`, `_resolve_uplink_port` | component, uses `PortMatch` |
| `MCCableEnds`, `CableEnds_proofs` | a switch and an access point in 26 deployments; that a match follows the readings of its tier, that no cable ends at a wrong port and that no cached answer costs a readable uplink | model checking, proofs |
| `RequestPromise` | what `TimeoutSession` promises its callers about writes | abstract specification |
| `HttpSession` | `TimeoutSession`: permits, repeated reads, 429s, pauses, lost calls | component, implements `RequestPromise` |
| `SchemaEnsure` | tag, custom fields, roles, manufacturers and device types, ensured through `HttpSession` | composition of the session and its callers |
| `MCSchemaEnsure`, `SchemaEnsure_proofs` | four objects, three threads; the refinement, that templates come first, and that a lost race is no error | model checking, proofs |

The modules cut one system along its state: the device table, the run, the loop around it, the
address table, the cable table. What one of them needs of another it takes in the form that the
other shows to the outside. `ContainerLoop` starts processes that keep `RunPromise`, `SyncRun`
keeps it out of sites that sync, sync with errors or raise, `SiteLink` decides which NetBox sites those
are, and `DeviceSync`, `IpAssign` and
`Cabling` are three views of what such a site does, each at the granularity of the races it has:
a handler between two interruptions in the first, a single NetBox request in the other two.
`CableEnds` finds the interfaces that `Cabling` takes as constants. `SchemaEnsure` sends its requests
through `HttpSession`, one layer below: what a lost request may have done is worked out there, and
the other modules take it as a free choice (a failed write has landed or has not).

### DeviceSync

State and code:

| Variable | Code |
|---|---|
| `nb` | the devices NetBox stores, by id |
| `adopted`, `presence` | what the controllers answer: who adopted which hardware; which client is active, idle within the grace, idle past it, or forgotten |
| `running` | `SyncEngine.run` is between prefetch and summary |
| `macView`, `siteView` | `CachingNetboxGateway._mac_devices`, `_site_devices` |
| `macJoin` | not `_unifi_mac_filter_unusable`: one bad answer to the `unifi_mac` filter turns that join off for the rest of the process |
| `lock` | `SyncEngine._infra_lock` |
| `wk[s]` | the locals of `_run_site` for the worker of site `s`: its stage, the hardware or clients it has left, `seen_macs`, `known_last_seen`, `history_ok`, the record it has looked up, the devices `_mark_stale` has left |
| `recent[s]` | the clock: the addresses whose last sighting, as the history of the site was read, is within the grace now |
| `everTagged` | history variable used by the properties only |
| `budget` | bound on operator edits, UniFi changes and faults |

A device carries the fields that its matching, ownership and reconciliation read: the primary and
the declared addresses, whose serial it carries, site, site of the last stamp, role, device type
(as generic, vendor or infrastructure), status, the two tags. One action is one handler between two
points where another worker or a person can get in: the lookup of a hardware device and the write
that follows are two actions (the infra lock spans them), as are the lookup and the write of a
client (nothing spans them), and each offline mark is one. `Remember` is the exact effect of
`_remember_device`: the lists hold objects, an object that is already listed is refreshed in
place, and a different object of the same device is appended behind it.

A client history tells time stamps, and their age is taken when the marks begin (`now` in
`_mark_stale`): a stamp is `"stamped"` in `known` until `BeginStale` dates it (`Dated`), and time may
carry it past the grace in between, with the client away (`ClientMoves`) or back by then
(`SightingAges`).

Names are left out. Where a name decides an outcome (a rename or a create that NetBox would refuse)
the outcome is a free choice (`SkipHardware`). Every fault is a free choice too: a list that fails,
a part of the prefetch that fails, an error before a write, an error after a write landed, a site
that is given up.

### RunPromise and SyncRun

| Variable | Code |
|---|---|
| `stage` | where the main thread is: `discover` and `link` (login, `_link_existing_sites`), `sites` (the pool of `run`), `aborting` (an exception on its way out of the `with` block of the pool), `uplinks`, `report`, `verdict` (back in `main`), `exited` |
| `job[p]` | what became of the group of pair `p`: queued, in `_run_site`, in `_mark_stale`, done, failed (recorded by `_run_group`), raised (not caught by it), cancelled |
| `next` | the summary that `pool.map` is waiting for |
| `errors`, `uplinks` | the report; a link conflict is an error of each pair involved |
| `marked`, `exit` | `write_success_marker`; the exit status |

Linking gives every pair a slug and drops those that share one, so every group has one pair. A site
returns with or without errors, or raises; offline marking, which is outside the guarded block,
returns or raises. `Workers` is the size of the pool; a pool of one is the plain loop of `run`.
`RunPromise` forgets all of this but the outcome of each pair and of the uplink pass, the marker and
the status; `Outcome` is the refinement mapping.

### SiteLink

| Variable | Code |
|---|---|
| `site` | NetBox's sites by id: slug, name and the three identity fields (`unifi_site_internal_id`, `unifi_site_id`, its copy `unifi_site_name`) |
| `answer[p]`, `held[p]` | the entries of `checked` in `_link_existing_sites`: whether pair `p` was looked up, and the site object it got |
| `memo`, `known` | `_site_memo` (hits only) and `_all_sites` |
| `unusable` | `_unifi_site_id_filter_unusable`, `_site_field_filters_unusable` |
| `linked`, `refused` | the pairs `_remember_site_link` is through with, those it recorded an error for |
| `written[p]` | the site that `ensure_site` returned to the group of `p` |
| `policy` | `SITE_POLICY`, chosen in the initial state |
| `edited`, `budget` | history: sites a person edited; bound on edits and faults |

The module extends `SyncRun`: while its main thread is in `link`, pairs are resolved in order
(`Resolve`, in the order of the joins: `Identified`, then `Similar`), then judged in order
(`NothingToRecord`, `Refuse`, `Withhold`, `Stamp`), and `LinkDone` is the step `Link` with the slugs
that came out. A group starts with `EnsureFinds` or `EnsureCreates`, or raises. An identity field
holds the number of the pair whose value it is, or of a UniFi site that is no pair; that is all the
code ever asks of it. A stamp is one request with the fields of the object as it was read
(`Saved`), so `held` is a copy, not a reference. Any lookup, filter, stamp or creation may fail,
the writes with or without effect, and a person may edit any site at any moment until the pool is
done.

### ContainerLoop

`pc[i]` is the place in the shell script of container `i`, `stop[i]` its `stop_requested`, `left[i]`
the ticks left in a wait or a run, `age[i]` the age of its marker file as `healthcheck.sh` reads it,
`lock` the holder of `LOCK_FILE`. `complete` and `steady` are history variables. One tick is one
second of the wait loop; whatever takes no second happens between two ticks. `flock` releases with
the process, also when it is killed. The trap only sets a flag, which the loop reads after the
command in progress has ended. A marker that cannot be written ends the loop (`RecordFails`):
`record_success` returns 1 (`entrypoint.sh:36`) under `set -e` (`entrypoint.sh:5`).

### IpAssign

| Variable | Code |
|---|---|
| `at[a]` | the device on whose interface NetBox has address `a` |
| `primary[d]`, `tagged[d]` | `primary_ip4` and the sync tag with a managed role |
| `reported[d]` | the address UniFi lists for the client behind `d` |
| `view[d]` | the record that the prefetch loaded for `d` |
| `wk[s]` | the worker of site `s`: the request that comes next, the client in hand, the holders it still has to clear |
| `ours` | history: devices that carried the tag at some point of the run |

The steps are the requests of `assign_ip` and `_move_ip` in their order: the filter by address,
create or move, the list of holders after a refusal, one clearing per holder, the second attempt,
the primary. NetBox's own rules are part of the requests (`Movable`, one object per address, a
primary is an address of the device). When the list of holders fails, the code falls back to every
device that has the name in the refusal, at whatever site (`FindNamesakes`). An error, expected or
not, drops the client in hand and goes on (`Refused`, `RequestFails`), with the request carried out
or not.

### Cabling

| Variable | Code |
|---|---|
| `cables` | NetBox's cables: two ends and whether they carry the sync tag |
| `legacy`, `eth0s` | devices that are still client records; devices that still have `eth0` |
| `plugged[c]` | the switch port UniFi reports for client `c` |
| `policy` | `CABLE_CONFLICT_POLICY`, chosen in the initial state |
| `loaded`, `view` | whether the prefetch loaded the interfaces, and the cables they showed |
| `merged` | devices merged during this run |
| `wk[w]` | a site worker or the main thread (`Main`, the uplink pass): its next request, the links to make, the two ends and the old cables it holds |

A site first merges its client records (`Merge`, then the two requests `Cut` and `Relink` of
`_retire_eth0`), then lists its clients and wires their drops; when all sites are done the main
thread wires the uplinks, after `_uplink_duplicate_macs` has left one per matched device. `ReadA`,
`Delete`, `ReadB`, `Create` are the requests of `ensure_cable`. Which interface a port name of UniFi
stands for is given by the constants, except where the answer depends on the sync's own doing: a
record that shows `eth0` alone takes any port for `eth0`, next to the ports of the type it is
ambiguous (`UplinkOf`). A list that was loaded before the merge still shows `eth0`: the interface is
gone, the error is none of `EXPECTED_CLIENT_ERRORS`, and the pass ends (`PassAborts`).

### PortMatch and CableEnds

`PortMatch` translates the functions of `portmatch.py` one by one. A name is the text in front of its
last number, the number, and the way it is written: leading zeros and case are what the two ways
of comparing names differ in (`SameKey`, `SameExact`). What the regular expressions ask of a text is
a constant: its folded prefix, whether it ends in a slot, is a port label, an SFP label, or names
something that is no wired port. A match is one name or a refusal; `Decide` is the only place where
several hits become one answer. `ClientMatch` is `match_port` as `_resolve_cable` calls it, without the
shift of zero-based families, `UplinkMatch` is `match_uplink_port` with it.

| Variable of `CableEnds` | Code |
|---|---|
| `box[m]` | the device of switch `m`: its interfaces, those of a virtual type, its own templates, whether its vendor allows a guess by number; whether one of the joins that always ask NetBox (an interface's MAC, the serial, the name) finds it; and what each port really is, which the code does not know |
| `there` | the switches that NetBox has |
| `findable` | the switches that a join of this run finds once NetBox has them: all, or, when the prefetch has loaded every device (`_pref_mac_complete`), those of its list and those the other joins find |
| `switches` | `CachingNetboxGateway._switches`, negative answers included |
| `located` | the keys of `CachingNetboxGateway._switch_strategy` |
| `wk[w]` | a site worker or the main thread: its stage, what it has left, the lookup in progress |
| `drop`, `link` | the interfaces found in this run for the clients and for the uplinks |

A lookup of a switch is three steps (`Lookup`, `Answer`, `Store`), so that the worker of another site
can create the switch and `forget_switch` in between; the answer is stored all the same and hides
the switch from the clients for the rest of the run. The uplink pass asks again (`Locate`). What an
answer is depends on the joins of `match_switch_device` (`Matched`): under the prefetch the join by
`unifi_mac` is answered from a list as old as the run, so a switch created later is found by the
other joins or in the next run. Which join finds it, and that a name or serial may lead to another
device, is left out.

### HttpSession and RequestPromise

`at[w]` is where the call of thread `w` is: waiting for a permit, in flight, handled by NetBox,
asleep before another attempt, or over. `tries` and `rated` are the loop variables of `_request_once`
and `request`, `write` the verb, `permits` the semaphore. `handled` counts how often NetBox has handled
the write of a call, `late` holds the calls whose write was given up and may still arrive, after the
next call of the same thread if need be; one such write per thread is followed. The variables of a
call are reset when it ends. A request is lost before or after NetBox has handled it. `Outcome`
forgets permits, attempts and pauses, and maps the session to `RequestPromise`.

### SchemaEnsure

| Variable | Code |
|---|---|
| `objects`, `types`, `templated` | what NetBox has; the object types of its custom fields; the device types that have their templates |
| `memo` | `_infra_type_memo` and `_client_type_memo` |
| `lock` | `SyncEngine._infra_lock` |
| `job[w]` | what thread `w` ensures: the object in hand, the device type that waits for it, the step, and what is left |
| `reply`, `seen` | what the answer to `w` says; the object types of the field in it |
| `sent` | the write of `w` that was given up, with what it says |
| `errors` | the ensures of this run that failed |
| `disturbed`, `bare` | history: ensures that a deletion by a person met; hardware types whose creation was not finished |

An object is what its slug or name stands for: a device type is the slug, or the normalized part
number or model, that the code looks it up by. `find`, `create`, `refetch`, `extend` and `template`
are the requests of an ensure in the order of the code; a write that failed may have landed or land later. An
extension of a field that fails is a warning, as in `_extend_custom_field_types`; it sends what the
last answer said, so that it may undo what a person added since. People and other processes create
and delete objects at any moment.

## The runs

In every module but `SyncRun` a constant `Budget` bounds the operator edits, the changes in UniFi
and the faults of a behaviour; nothing else is bounded, runs repeat for ever. `SyncRun` and `SiteLink`
are one run; the ways in which a part of `SyncRun` fails need no bound.

| Run | Instance | Shows |
|---|---|---|
| `devices_live` | one site, a switch and a client, twelve initial tables, `sync`, no prefetch, fairness, budget 2 | decisions on live records: offline marks, no way back from infrastructure; who stays is recorded, who leaves for good goes offline |
| `devices_prefetch` | the same site, `create-only`, prefetched lists with partial loads, budget 2 | uniqueness and ownership survive records that are as old as the run |
| `shared_switch` | two real sites and a staging site adopt one switch, `sync`, fairness, budget 1 | no duplicate through the races, no way back to staging; every run ends, the switch ends up where it stays adopted |
| `linked_run` | three pairs, two of them with one derived slug, eight tables of sites, both site policies, `SITE_MATCH=normalized`, two workers, budget 1 | identity fields keep their values and stay unique, no two pairs write one site, links outlast renames; the process ends, leaves no writer behind and implements `RunPromise` |
| `container_loop` | two containers, one lock, wait of 2 ticks, runs of up to 3 (the interval and the slack), budget 2 | health earned and kept, runs exclusive, stops honoured, syncing goes on |
| `ip_assign` | two sites, two clients that share an address, a device entered by hand, prefetch, budget 1 | primaries outside the sync stay; an undisputed client ends up with its address |
| `cabling` | two sites and the uplink pass, both policies, a client record to merge, a duplicate match, a shared port, budget 1 | what may be removed; undisputed links are cabled; cables rest where no two links compete |
| `cable_ends` | a switch of two copper ports and two cages, an access point, 26 ways to name their interfaces, clients of both sites, uplinks with and without a port, budget 1 | no port is taken for another; the uplink pass misses no readable port of a switch that NetBox had when the run began or that a live join finds, whatever the site workers cached; clients are found again and again |
| `schema` | a field, a switch type with templates, a vendor's type with its manufacturer, the main thread and two sites, one permit, two attempts, one retry after 429, budget 2 | a write is applied once; a lost race is no error; templates come before use; in the end everything is there |

Three runs end in a counterexample, each against a sentence of the code, its README or its tests
(`findings` in `PROJECT.json` quotes them):

* `merged_switch_offlined`: with `NETBOX_PREFETCH`, a legacy client merged into a switch during a run
  leaves its old record ahead of the new one in the lists; the offline pass marks the switch offline.
* `site_aborts_others`: `_mark_stale` runs outside the guarded block of `_run_group`; an exception
  there cancels the sites that nobody has taken and skips uplinks, summary and metrics.
* `foreign_site_synced`: a site that `resolve_existing_site` refuses because it belongs to another UniFi
  site is found again by `ensure_site` under the slug the pair falls back to, and written.

### Why the bounds are enough

* `devices_*`: three ids leave room for a duplicate of either address; two changes make the longest
  patterns the properties speak of (a tag removed and put back, a client that leaves and ages, a
  fault on top of an edit). The twelve tables are what releases, runs and people leave behind.
* `shared_switch`: one device, three sites and one lock are the smallest system in which two real
  sites race while staging still lists the switch. `Budget = 1` gives one adoption, edit or fault;
  the races need none.
* `linked_run`: three pairs on two workers give a failing group with groups before it, beside it and
  not yet taken, and a conflict of two pairs next to a pair of its own. The tables hold one or two
  sites and room for a third: a fresh NetBox, other spellings, stamps of an older release, two sites
  that claim one UniFi site by different fields, a renamed site whose old slug is taken, fields that
  name other pairs or a stranger. One edit or fault falls anywhere. All of its safety properties
  are proved for every number besides (`ValueOnOneSite` and `LinksLast` for tables in order).
* `container_loop`: a run may last `Interval + Slack` ticks, the longest the check allows for, so a
  healthy loop reaches the age limit exactly.
* `ip_assign`: a disputed and an undisputed address, and a third device that is in the way of both.
* `cabling`: ports and tables are chosen so that each branch of `ensure_cable` is taken under both
  policies, by a site and by the uplink pass; one fault, move or hand-made cable falls anywhere in
  between.
* `cable_ends`: the deployments are the schemes that the documentation and the tests of the matcher
  name (labels, bare numbers, zero-padded, slots, zero-based, SFP by ordinal and by index, pinned
  templates) and those it has to refuse (two stack members, two families, numbers that run
  backwards), with radios, lags, management and virtual interfaces beside them. In one deployment
  no live join finds either device. Two switches and one fault are enough for a lookup to overtake a creation and for each answer to fail once.
* `schema`: with one permit for three threads a permit that leaked would stop every run, and a
  permit kept while asleep would stop the others. Two faults or edits make the longest patterns: a
  creation lost and handled late, a creation by somebody else after a lost answer, a deletion under
  an ensure. Two attempts and one retry take both ends of each loop.

### Fairness

Every liveness property is checked under a `FairSpec` of weak fairness for what the code schedules
by itself: each worker (a thread of the pool keeps running, every HTTP call and the process-wide
socket have time-outs, `cli.py`), the main thread, and the start of the next run (the container
loop). Faults, edits and changes in UniFi are possible and never obliged: in `DeviceSync` fairness
is stated for the steps that leave `budget` alone, in the other modules they are actions outside
the fair ones. In `ContainerLoop` time passes (`WF_vars(Tick)`) and a shell goes on; a process ends
within `MaxRun`, which the time-outs bound. Nothing is assumed about the order in which workers get
the infra lock or containers the lock file: `RunsEnd` and `KeepsSyncing` hold for any order.
`CableEnds` and `SchemaEnsure` assume less, `WF_vars(Work)`: as long as some thread can go on, some
thread does. Which one is free, since the work of a run is finite; people, faults and late
requests are outside `Work`.

Some of the liveness properties have premises that are worth reading. `GoneClientsGoOffline` asks
that the history of the site can be read again and again, since the code marks nobody offline
otherwise. `AddressSettles` and `LinksCabled` speak of addresses and links that nobody else claims
from some point on; for disputed ones there is no right holder. `DropsFound` asks that NetBox has the
switch and that the names tell the port, and finds it again and again rather than in every run: a
negative answer that was in flight lasts for one.

## The proofs

The theorems hold for every value of the constants that satisfies the module's assumption (named in
each module); those assumptions only type the constants and keep model values apart.

**`DeviceSync_proofs`**: `TypeCorrect` (`Spec => []TypeOK`) and `TaggedWritesOnly`
(`Spec => OnlyTaggedWritten`): a device that did not carry the sync tag at any point of the run is
not changed by the run. The property is about what NetBox stores while the workers decide on what
they hold, so it is not inductive. `IInv` bridges the two: every record held by a lookup, an offline
pass or a cached list (`SoundHits`, `SoundStale`, `SoundMacView`, `SoundSiteView`) is of a device
that exists, and if it shows the tag, the history knows the tag. Three more conjuncts close it: the
history covers the stored tags (`TagsKnown`), nothing is held between runs (`Quiet`), and the infra
lock is held only in the middle of a hardware device (`LockHeld`). The two kinds of write are sound
(`HardwareWritesSound`, `ClientWritesSound`), the lists stay sound (`RememberGrows`), and so does a
step of a worker (`StepSafe`); each action is then a lemma of a few lines.

`SettledStays` (`Spec => SettledHardwareStays`) holds for any number of sites that adopt one switch.
The engine judges the record of the lookup (`sync.py:1130`), the property what NetBox stores when the PATCH
arrives. Between the two the infra lock is held, and only a person can edit the device:
`HardwareHeld` says that the record is the stored one in its site, the site that stamped it, and in
being infrastructure (`OnlyHardwareMoves`: nothing but the holder of the lock changes these).

`OneDevice` (`Spec => OneDevicePerMac`) and `IdleClientsStay` (`Spec => IdleStaysActive`) have the hypothesis
`Separate`: clients are listed at one site and hardware is not listed as a client, or a single worker
reads NetBox live. Only the hardware pass holds a lock, so without it nothing in the code keeps two
workers from creating the same client (see the observations). A worker that creates a device has
found nothing for its address, some time ago and maybe in a list that is as old as the run. `ToldInv`
says that this still tells: while a worker has a miss in hand, no device has the address (`HardwareTold`,
`ClientTold`), and a loaded list shows every device that has the address of a client still to come
(`ListTells`). It rests on where an address can come from: only the worker of a site that lists or adopts an address
gives it to a device (`Sources`, `Planned`), and it remembers what it writes; the exception of hardware
whose `unifi_mac` lookup failed is that of the property (`macJoin`). For offline marks the
stored address and the one in the record must not part: a record in hand shows the stored address
unless the device has since become hardware (`Drifts`), and an address whose sighting is within the grace
still is neither unknown nor expired once the history is read and dated (`Judged`).

`InfraStays` (`Spec => InfraNeverOffline`) is about one worker without prefetch. At the offline
pass NetBox is asked for the roles, and the hardware pass is over: no record in hand is of a device
that has become infrastructure since (`RolesTold`). The run `merged_switch_offlined` refutes the
property with the prefetch. `MergedStays` (`Spec => MergedStaysMerged`) has the same hypothesis, or
`create-only`, under which no client write touches the type of a device. `SeparateAddresses` in
`MCDeviceSync` lets TLC evaluate `Separate` for every run.

**`SyncRun_proofs`**: `Implements` (`Spec => KeepsPromise`, the refinement of `RunPromise`) and
`NoWriterOutlivesRun`. A complete run is one in which the main thread has passed every pair and no
error was recorded, so `RInv` says that what lies behind `next` is settled (`Behind`), that a
dropped or failed pair is in the report (`Reported`), when the uplink pass is decided
(`UplinksKnown`) and what the marker stands for (`MarkerEarned`). With it every step maps to a step
of `RunPromise` or to a stutter.

**`SiteLink_proofs`**: `LinkedIsSyncRun` (`LinkedSpec => Spec`): every step is a step of `SyncRun` or
leaves its variables alone, so `LinkedKeepsPromise` and `LinkedLeavesNoWriter` follow from the theorems
above, and `LinkedTypes` with them. `IdentityIsKept` (`LinkedSpec => IdentityKept`) is the one that
takes an argument. A stamp sends fields that were read before other pairs were stamped, so an
object must be shown to be as NetBox has it when it is sent. `LInv` says that a cached object is
current until the last pair is resolved (`CachesBacked`; stamps begin only then) and a resolved one
until its own pair is linked (`HeldBacked`). A stamp keeps that for the others: two unlinked pairs that
hold one site both hold it as it is, hence with one slug, so they clash and neither is stamped.
`NoTwoWriters` (`LinkedSpec => []NoSharedSite`) needs a weaker fact about the caches, but for longer: an
object, however old, tells the slug its site has (`SlugsTold`), for nothing but an edit changes a slug.
Groups run only for pairs whose slugs differ, and what a pair is resolved to stays once groups run
(`Apart`); so a pair that is settled, on a live site, a remembered one or a new one, is on a site of its
own slug (`WrittenAt`), and two pairs on one site would have clashed.

`OneSitePerOwner` (`LinkedSpec => []ValueOnOneSite`) and `LinksLead` (`LinkedSpec => []LinksLast`) start
from tables in order. `SingleOwners` says that no UniFi site is recorded twice, which is what the first
theorem carries through the run; `LinksLast` needs `OwnSlugs` (NetBox sees to it) and `NoneForeign`
besides: a derived slug is not that of a site bound to another UniFi site, or the pair is recorded
somewhere. TLC evaluates the three for the tables of `linked_run` (`OrderlyTables` in `MCSiteLink`), and
`foreign_site_synced` shows what happens without the last. The danger in the first is the list of
sites that the check for a second carrier reads: it is as old as the first pair that needed it.
`KnownTells` says that it still tells where the values of the pairs *not judged yet* are, which is
enough, since a stamp records nothing but its own pair and empties the list. A site that is created has the values of its pair: a pair
resolved to no site is recorded nowhere (`NobodyYet`), until its own group creates the site. For the
second theorem the invariant follows a pair: what it was resolved to has its first field or no site
has it (`HeldRightly`), so the judgement leaves it recorded there, by a stamp or because the stamp was
withheld for a reason that `HeldRightly` excludes (`Established`); a pair resolved to nothing finds
no site of its slug later (`FreeSlug`), so its group creates one with all fields (`Founded`). Status 0
means that every group returned and wrote a site (`Finished`, `Wrote`).

**`IpAssign_proofs`**: `AddressInvariant` and `ManualPrimariesAreSafe` (`Spec => ManualPrimaryKept`).
A worker may act on a record that the prefetch loaded before a person removed the tag, and on a list
of holders that is out of date. The invariant says that it nevertheless acts for, and clears, only
devices that carried the tag in this run (`ActsForOurs`, from `TagsKnown`), and that a primary is
an address its device holds (`PrimaryIsHeld`), from which NetBox's refusal does the rest.

**`Cabling_proofs`**: `CablingInvariant`, `CablingTypes` (`Spec => []TypeOK`) and `OnlyReplacedAreRemoved` (`Spec => OnlyReplacedRemoved`):
outside the merge of a client record no worker removes a cable made by hand, and none at all under
`skip`, whatever has changed since it read the interface. `SoundWorker` says what a worker holds at
each step, that it deletes under `replace` alone, and that the one deletion without a look at the
tag is at a placeholder.

**`ContainerLoop_proofs`**: `LoopTypes`, `RunsAreExclusive` (`Spec => []LockCoversRun`), `HealthEarned`
(`Spec => []HealthIsEarned`) and `SteadyIsHealthy` (`Spec => []SteadyStaysHealthy`), for every number of
containers, interval and slack. The marker is never younger than the last complete run (`Earned`);
what is left of the age limit covers what is left of the wait and of the run (`InTime`), which is
where the assumption comes in that no run takes longer than the interval and the slack.

**`CableEnds_proofs`**: `EndsTypes` (`Spec => []TypeOK`), then the pure matcher for all names and ports.
`UplinkMatchAgrees`: an uplink end that no template of the model pins is one name of the device, it
is not the name that a zero-based family has for another port, and no such family has another
name for this one (`UplinksAgree` carries it to every state of every run). `ClientMatchByTier` and
`UplinkMatchByTier` say what an answer is, and when there is one: `PortReadings` collects, tier by tier
(the candidate names exactly and folded, a zero-based family, the copper and SFP numbers, the last
number, the only name), the names that a port can be read as; an answer is alone in the first tier that reads anything, and a name that this tier tells is the
answer. `CopperUplinkTold` needs nothing of the names: an uplink at a copper port of a device with the
global templates is put where the device's numbering means it.

What a port really is is data of a deployment, so the next two theorems have it as a
hypothesis. `EndsAreRight` (`Spec => []NeverWrongPort`): in every run over deployments without an
impostor, whatever fails and interleaves, no cable ends at the interface of another port.
`Unmistakable` asks of the names alone that no tier reads a port as one name that is another port's.
`NoUplinkMissed` (`Spec => []UplinksFound`): the uplink pass finds each port whose name the first
tier tells (`Readable`) and whose switch can be found in the run (`Matched`): that is, the
negative answers which the site workers left in the cache hide none. Neither theorem says what the matcher answers; that it goes by these tiers is the
theorem. TLC evaluates both for the 26 deployments of the run (`Legible` in `MCCableEnds`).

**`SchemaEnsure_proofs`**: `SessionKeepsPromise` (`Spec => WritesOnce`, the refinement of
`RequestPromise`), `SchemaInvariant`, `TemplatesComeFirst` (`Spec => []TemplatesFirst`) and
`RacesAreNoErrors` (`Spec => RaceIsNoError`: an ensure that NetBox answered ends in an error only when a
person deleted something meanwhile, not because another thread created the object first). For the
refinement the invariant counts (`HandledOnce`): a call that waits, flies or sleeps has been
handled by nobody, an answered write once. `TemplatesFirst` compares what the run remembers with
what NetBox has, and between a creation and its templates the two do not agree. The invariant
says who is in between: a type without templates is in the hand of one thread or was left
unfinished (`BareKnown`, and `LettersKnown` for creations that arrive late), that thread holds the
infra lock and the type is in no memo (`LockCovers`, `LockHeld`); `VerbOfStep`, `MainAlone` and
`ObjectsInHand` tie the call to the step it is for.

Every safety property of the passing runs is proved. Only model-checked are the liveness properties, for
liveness under fairness is beyond TLAPS: `ActiveClientsRecorded`, `GoneClientsGoOffline`, `RunsEnd`,
`AdoptedHardwareEstablished`, `ProcessEnds`, `StopHonoured`, `KeepsSyncing`, `AddressSettles`, `LinksCabled`,
`UncontestedSettles`, `DropsFound` and `SchemaComplete`.

## Observations without a run

* The stale record of a merge also gets past the guard of `upsert_client_device`: with the prefetch
  the client pass can give the merged switch a client type, a client name and an `eth0` again.
* "A single NetBox site is never written by two workers" does not cover the move and the in-place
  merge of hardware that another site holds.
* Two workers that meet on one address have no guard against each other but for adopted hardware.
  With two sites, no prefetch, and a client listed at both, or hardware that is also listed as a client,
  TLC refutes `OneDevicePerMac`, `IdleStaysActive`, `InfraNeverOffline` and `MergedStaysMerged`;
  `src/README.md:983` calls a roaming address unhandled. `Separate` is the hypothesis that excludes both. The last two fail with two sites even when the addresses are
  apart: one site marks offline, or gives a client type to, a record that the other merges meanwhile.
* `record_success` ends the container loop when the marker cannot be written (`RecordFails`).
* With the prefetch, the uplink pass of the run that merges a device ends with an `AttributeError`
  (`PassAborts`); the next run wires the uplinks. `LinksCabled` holds because it does.
* Under `replace`, one client behind a device whose uplink port the switch does not mark as an uplink
  is cabled at that port by its site; the uplink pass replaces the cable by the uplink, and the next
  runs do it again. `UncontestedSettles` is about links that do not compete so.
* Under `SITE_POLICY=create` a failed lookup of a renamed site creates the site again with the same
  identity fields; two carriers of a value are no match, so the link to both is gone (`Sighted` is the
  premise of `ValueOnOneSite` that excludes it).
* The PATCH of a stamp holds all identity fields, so a person's edit of another field of the same
  site between lookup and stamp is lost (`IdentityKept` leaves edited sites out).
* A merge that fails between deleting and recreating the cable of `eth0` leaves a device with
  `eth0` next to the ports of its type; port 1 is ambiguous from then on and the uplink is skipped
  until a person deletes `eth0`.
* The tag of a device that holds an address is looked at when NetBox refuses the move, which it does
  for a primary address alone: `_move_ip` (`netbox_client.py:2533`) takes any other address from a
  device the sync does not manage, and two clients reported with one address take it from each
  other run after run. `src/README.md:44-47` speaks of devices made by hand.
* `_retire_eth0` (`netbox_client.py:2097`) removes the cable at `eth0` of a merged client record
  whoever made it and whatever the policy says (`src/README.md:621`).
* Client ports are not shifted on devices that number from 0; that is intended and tested
  (`tests/test_portmatch.py:230-250`), and `NeverWrongPort` leaves those ends out.
* Clients are matched among all names of a device: a lag named "Uplink 1" makes the SFP port of that
  number ambiguous, and it stays without a cable.
* `_run_site` creates hardware first "so a switch created now is immediately available to terminate
  this same run's cables" (`sync.py:812-813`), and `forget_switch` drops its negative answer for that. With
  a complete prefetch the join by `unifi_mac` is answered from a list that a creation does not change
  (`netbox_client.py:806-811`): a switch without a serial, under a suffixed name or one that a device
  of another site has, is not available before the next run. The deployment in `MCCableEnds` without live joins has it; `DropsFound` holds
  because the next run's list has the switch.
* A client that associates after its site was read, and whose last known sighting ages meanwhile, is
  marked offline while it is there. Under the sync policy a later run makes it active
  (`ActiveClientsRecorded`); under create-only nothing does.
* A stamp of identity fields that fails is a warning: the run is a success, the link rests on slug and
  name until a later run stamps it (`LinksLast` speaks of runs without faults).
* An error of one `unifi_mac` lookup of hardware counts as a miss, for that device and for the rest of the
  process (`netbox_client.py:1974`): hardware whose record has neither its serial nor its address as name is
  then created again, also beside an untagged record that `src/README.md:260-261` says is not
  duplicated. `OneDevicePerMac` is about processes that still have the join (`macJoin`); that the
  hardware is established all the same is part of `shared_switch`.
* `_remember_interface` (`caching.py:607-618`) may record a list that holds one interface only, which
  later answers of the same run take for all there are.
* A device type whose creation failed or was lost half-way stays without templates: the next run
  finds it and goes on (`bare` in `SchemaEnsure`). A type deleted during a run is remembered by its
  memo until the next.
* The extension of a custom field sends the object types of an earlier answer, so what a person
  added in between is undone (`netbox_client.py:609`).
* A controller whose history and active list are both empty makes the run mark every managed client
  offline, by design (`sync.py:833`, `tests/test_safety.py`).

## Not modelled

Reading and validating the environment, parsing of controller and NetBox answers, name formatting,
device type and vendor tables, metrics and log output: they keep no state that a later step of the
sync decides on. Their outcomes are constants or free choices of the models.

Of the parts that are modelled, these operations are left out: the components that a merge aligns
and the addresses of `eth0` (`netbox_client.py:2239`), the index of declared addresses (`macs.py`), which
other device a serial or a name may lead `match_switch_device` to, and the interface lists that upserts
add to the cache.
`CableEnds` and `Cabling` are not composed: `Cabling` takes the ends as constants, which is what the
uniqueness of a match comes to.

## Plan

What is left, the most important first.

1. `MergeRecovery` (`align_device_components`, `_retire_eth0`, the addresses of `eth0`): a merge that
   stops after any request, and what the next run makes of it.
2. The interface lists that upserts remember (`caching.py`) against merges, in `CableEnds`.
3. `OwnedMacs` (`macs.py`): the declared addresses as a pure index against its definition.
4. A theorem that the step of `ContainerLoop` from a started process to its end is an instance of
   `RunPromise`.
