------------------------------ MODULE DeviceSync ------------------------------
(***************************************************************************)
(* The device data plane of unifi-netbox-sync: what the site workers of    *)
(* one process do to the device table of NetBox, run after run.            *)
(*                                                                         *)
(* One worker per NetBox site (SyncEngine._run_group / _run_site) goes     *)
(* through adopted UniFi hardware, then the active clients, then the       *)
(* offline marks.  The workers share the NetBox tables, the infra lock and *)
(* the record lists that CachingNetboxGateway prefetched at the start of   *)
(* the run.  Operators edit NetBox and clients come and go at any moment.  *)
(*                                                                         *)
(* A device is abstracted to the fields its matching, ownership and        *)
(* reconciliation decisions read: see Device.  Names, serial strings,      *)
(* interfaces and addresses are in other modules or left out; where a name *)
(* decides an outcome (a rename or a create that NetBox would refuse) the  *)
(* outcome is nondeterministic.                                            *)
(***************************************************************************)
EXTENDS Naturals, FiniteSets

CONSTANTS
    Sites,              \* NetBox sites; each is one group, synced by one worker
    Macs,               \* addresses UniFi reports
    Ids,                \* NetBox device ids (bounds how many devices can exist)
    None,               \* no address, no site, no device, no lock holder
    Inventory,          \* the sites in UNIFI_INVENTORY_SITES
    AdoptableAt,        \* Macs -> the sites whose controller may adopt it
    ListedAt,           \* Sites -> the addresses that may be clients there
    UpdatePolicy,       \* DEVICE_UPDATE_POLICY: "sync" or "create-only"
    SyncUnifiDevices,   \* SYNC_UNIFI_DEVICES
    MergeClientInfra,   \* MERGE_CLIENT_INFRA
    MatchOwnedMacs,     \* MATCH_OWNED_MACS
    Prefetch,           \* NETBOX_PREFETCH
    InitialTables,      \* the NetBox device tables a deployment may start from
    Budget              \* bound: edits by operators, UniFi changes and faults

Roles     == {"client", "infra", "other"}
Types     == {"generic", "vendor", "infra"}
Statuses  == {"active", "offline", "inventory"}
Presence  == {"active", "idle", "old", "gone"}
History   == {"stamped", "unstamped", "expired", "absent"}
Stages    == {"infra", "clients", "history", "devices", "stale", "done", "failed"}

\* mac is the unifi_mac custom field, extra the unifi_macs field, serial the
\* UniFi device whose serial number (or MAC, as a name) the record carries,
\* source the unifi_site_name the record was last stamped with.
Device == [mac    : Macs \cup {None},
           extra  : SUBSET Macs,
           serial : Macs \cup {None},
           site   : Sites,
           source : Sites \cup {None},
           role   : Roles,
           type   : Types,
           status : Statuses,
           tagged : BOOLEAN,     \* carries SYNC_TAG
           optout : BOOLEAN]     \* carries SYNC_UNMANAGED_TAG

\* A record object held by the process: the id it writes to and the field
\* values it was last filled with.
Copy == [id : Ids, dev : Device]

\* The lookup a worker has made and not yet acted on.  at is the address;
\* copy is None when nothing matched; via is the join that matched; from says
\* whether the object is one the prefetch loaded, one added to its list during
\* the run, or one fetched for this lookup.
Lookup == [at : Macs, copy : Copy \cup {None}, via : {"mac", "owned-mac", "serial", "none"},
           from : {"loaded", "added", "live"}]

\* The MAC list of the caching gateway: what the prefetch loaded comes ahead of
\* what _remember_device appended.  Order inside each part is left open.
MacList == [ok : BOOLEAN, loaded : SUBSET Copy, added : SUBSET Copy]

\* The list of one site.  ok is FALSE while a list has not been loaded.
SiteList == [ok : BOOLEAN, devices : SUBSET Copy]
NoMacList  == [ok |-> FALSE, loaded |-> {}, added |-> {}]
NoSiteList == [ok |-> FALSE, devices |-> {}]

Worker == [stage   : Stages,
           todo    : SUBSET Macs,        \* hardware or clients left to process
           seen    : SUBSET Macs,        \* seen_macs
           known   : [Macs -> History],  \* known_last_seen; "expired" once judged
           histOk  : BOOLEAN,            \* history_ok
           hit     : Lookup \cup {None}, \* lookup in progress
           listing : BOOLEAN,            \* get_clients answered a non-empty list
           stale   : SUBSET Copy]        \* devices the offline pass has left

ASSUME ConstantsAssumption ==
    /\ None \notin Sites /\ None \notin Macs
    /\ None \notin Device /\ None \notin Copy /\ None \notin Lookup
    /\ Inventory \subseteq Sites
    /\ AdoptableAt \in [Macs -> SUBSET Sites]
    /\ ListedAt \in [Sites -> SUBSET Macs]
    /\ UpdatePolicy \in {"sync", "create-only"}
    /\ {SyncUnifiDevices, MergeClientInfra, MatchOwnedMacs, Prefetch} \subseteq BOOLEAN
    /\ InitialTables \subseteq [Ids -> Device \cup {None}]
    /\ Budget \in Nat

VARIABLES
    nb,          \* NetBox: id -> the stored device, None where there is none
    adopted,     \* UniFi: hardware address -> the site that adopted it
    presence,    \* UniFi: site -> address -> how long since it was seen there
    running,     \* a run is in progress
    macView,     \* CachingNetboxGateway._mac_devices
    siteView,    \* CachingNetboxGateway._site_devices, by site
    macJoin,     \* not _unifi_mac_filter_unusable: hardware is joined by unifi_mac
    lock,        \* holder of SyncEngine._infra_lock
    wk,          \* site -> its worker
    everTagged,  \* history: ids that carried the sync tag at some point of this run
    recent,      \* time: site -> addresses whose last sighting, as its history was
                 \* read, is within the grace now
    budget       \* edits, UniFi changes and faults still allowed

vars == <<nb, adopted, presence, running, macView, siteView, macJoin, lock, wk,
          everTagged, recent, budget>>
caches == <<macView, siteView, macJoin>>
unifi  == <<adopted, presence>>

Exists(id)     == nb[id] # None
FreeIds        == {id \in Ids : ~Exists(id)}
NewId          == CHOOSE id \in FreeIds : TRUE
Tagged(table)  == {id \in Ids : table[id] # None /\ table[id].tagged}
Live(id)       == [id |-> id, dev |-> nb[id]]
WithinGrace(s) == {m \in Macs : presence[s][m] \in {"active", "idle"}}
Idle           == [stage |-> "done", todo |-> {}, seen |-> {},
                   known |-> [m \in Macs |-> "absent"], histOk |-> FALSE,
                   hit |-> None, listing |-> FALSE, stale |-> {}]

Init ==
    /\ nb \in InitialTables
    /\ adopted \in {a \in [Macs -> Sites \cup {None}] :
                      \A m \in Macs : a[m] = None \/ a[m] \in AdoptableAt[m]}
    /\ presence \in {p \in [Sites -> [Macs -> {"active", "idle", "gone"}]] :
                      \A s \in Sites, m \in Macs : m \notin ListedAt[s] => p[s][m] = "gone"}
    /\ running = FALSE
    /\ macView = NoMacList
    /\ siteView = [s \in Sites |-> NoSiteList]
    /\ macJoin = TRUE
    /\ lock = None
    /\ wk = [s \in Sites |-> Idle]
    /\ everTagged = {}
    /\ recent = [s \in Sites |-> {}]
    /\ budget = Budget

-------------------------------------------------------------------------------
(* The run: prefetch, then every worker starts; the run ends with the last.  *)

\* prepare_prefetch: the list of every device with unifi_mac set, and the list
\* of each site.  A load that fails leaves that part to live lookups, so the
\* set of loaded parts is a choice.
MutantPrefetchTagged(macsOk, sitesOk) ==
    /\ macView' = [ok |-> macsOk, added |-> {},
                   loaded |-> {Live(id) : id \in {i \in Tagged(nb) : macsOk /\ nb[i].mac # None}}]
    /\ siteView' = [s \in Sites |-> NoSiteList]
Prefetched(macsOk, sitesOk) ==
    /\ macView' = IF macsOk
                  THEN [ok     |-> TRUE,
                        loaded |-> {Live(id) : id \in {i \in Ids \ FreeIds : nb[i].mac # None}},
                        added  |-> {}]
                  ELSE NoMacList
    /\ siteView' = [s \in Sites |->
                      IF s \in sitesOk
                      THEN [ok |-> TRUE,
                            devices |-> {Live(id) : id \in {i \in Ids \ FreeIds : nb[i].site = s}}]
                      ELSE NoSiteList]

StartRun ==
    /\ ~running
    /\ running' = TRUE
    /\ IF Prefetch
       THEN \/ Prefetched(TRUE, Sites) /\ UNCHANGED budget
            \/ /\ budget > 0
               /\ budget' = budget - 1
               /\ \E macsOk \in BOOLEAN, sitesOk \in SUBSET Sites : Prefetched(macsOk, sitesOk)
       ELSE UNCHANGED <<caches, budget>>
    /\ wk' = [s \in Sites |-> [Idle EXCEPT !.stage = IF SyncUnifiDevices THEN "infra"
                                                                         ELSE "clients"]]
    /\ everTagged' = Tagged(nb)
    /\ UNCHANGED <<nb, unifi, macJoin, lock, recent>>

EndRun ==
    /\ running
    /\ \A s \in Sites : wk[s].stage \in {"done", "failed"}
    /\ running' = FALSE
    /\ macView' = NoMacList
    /\ siteView' = [s \in Sites |-> NoSiteList]
    /\ macJoin' = TRUE
    /\ wk' = [s \in Sites |-> Idle]
    /\ recent' = [s \in Sites |-> {}]
    /\ everTagged' = {}
    /\ UNCHANGED <<nb, unifi, lock, budget>>

\* _run_group: an exception in _run_site is isolated, the site is given up and
\* its offline marks are skipped.  The infra lock is released on the way out.
MutantLockKept(s) ==
    /\ running /\ budget > 0
    /\ wk[s].stage \notin {"done", "failed"}
    /\ budget' = budget - 1
    /\ wk' = [wk EXCEPT ![s] = [Idle EXCEPT !.stage = "failed"]]
    /\ UNCHANGED <<nb, unifi, running, caches, lock, everTagged, recent>>
SiteFails(s) ==
    /\ running /\ budget > 0
    /\ wk[s].stage \notin {"done", "failed"}
    /\ budget' = budget - 1
    /\ wk' = [wk EXCEPT ![s] = [Idle EXCEPT !.stage = "failed"]]
    /\ lock' = IF lock = s THEN None ELSE lock
    /\ UNCHANGED <<nb, unifi, running, caches, everTagged, recent>>

-------------------------------------------------------------------------------
(* The caching gateway and the two kinds of write.                           *)

\* _remember_device: a live object is appended to the lists that were loaded
\* (a record of the same device already listed stays listed, ahead of it); an
\* element of the MAC list stays in place, refreshed by the response to its
\* PATCH, and is appended to the list of the site only.
Remember(w, h, s) ==
    LET copy == [id |-> w.id, dev |-> w.held] IN
    /\ macView' = IF ~macView.ok THEN macView
                  ELSE CASE h.from = "loaded" -> [macView EXCEPT !.loaded = (@ \ {h.copy}) \cup {copy}]
                         [] h.from = "added"  -> [macView EXCEPT !.added  = (@ \ {h.copy}) \cup {copy}]
                         [] h.from = "live"   -> [macView EXCEPT !.added  = @ \cup {copy}]
    /\ siteView' = IF siteView[s].ok THEN [siteView EXCEPT ![s].devices = @ \cup {copy}]
                                     ELSE siteView

\* What a write leaves behind: the stored record and the one held afterwards.
Written(id, dev) == [id |-> id, dev |-> dev, held |-> dev]

\* _patch_device sends the fields in which the record held by the process
\* differs from what is wanted and refills it from the response.  When nothing
\* differs there is no request, and the held record stays as it was read.
Patched(now, held, want) ==
    [f \in DOMAIN now |-> IF held[f] # want[f] THEN want[f] ELSE now[f]]
Reconciled(copy, want) ==
    IF want = copy.dev
    THEN [id |-> copy.id, dev |-> nb[copy.id], held |-> copy.dev]
    ELSE Written(copy.id, Patched(nb[copy.id], copy.dev, want))

Store(w) ==
    /\ nb' = [nb EXCEPT ![w.id] = w.dev]
    /\ everTagged' = IF w.dev.tagged THEN everTagged \cup {w.id} ELSE everTagged

-------------------------------------------------------------------------------
(* Adopted UniFi hardware.                                                   *)

\* get_devices of the site's controller; a refused list is an empty one.
ListHardware(s) ==
    /\ running /\ wk[s].stage = "infra" /\ ~wk[s].listing
    /\ \E listed \in BOOLEAN :
         /\ listed \/ budget > 0
         /\ budget' = IF listed THEN budget ELSE budget - 1
         /\ wk' = [wk EXCEPT ![s].todo = {m \in Macs : listed /\ adopted[m] = s},
                             ![s].listing = TRUE]
    /\ UNCHANGED <<nb, unifi, running, caches, lock, everTagged, recent>>

\* find_unifi_device: always a live query, most precise join first.  The first
\* record a filter returns is any of those it matches.
MutantTaggedOnly(m, via) ==
    {id \in Ids : Exists(id) /\ nb[id].tagged /\ via = "mac" /\ nb[id].mac = m}
HardwareMatches(m, via) ==
    {id \in Ids : Exists(id) /\ CASE via = "mac"       -> nb[id].mac = m
                                  [] via = "owned-mac" -> MatchOwnedMacs /\ m \in nb[id].extra
                                  [] OTHER             -> nb[id].serial = m}

\* _device_by_unifi_mac: an answer that is an error, or not of this address,
\* counts as a miss, and the join is left out for the rest of the process.
JoinByMac ==
    \/ UNCHANGED <<macJoin, budget>>
    \/ /\ macJoin /\ budget > 0
       /\ macJoin' = FALSE
       /\ budget' = budget - 1

FindHardware(s, m) ==
    /\ running /\ wk[s].stage = "infra" /\ m \in wk[s].todo
    /\ lock = None
    /\ lock' = s
    /\ JoinByMac
    /\ LET joins == <<"mac", "owned-mac", "serial">>
           tried == IF macJoin' THEN DOMAIN joins ELSE DOMAIN joins \ {1}
           first == {i \in tried : /\ HardwareMatches(m, joins[i]) # {}
                                   /\ \A j \in tried : j < i => HardwareMatches(m, joins[j]) = {}}
       IN  \/ /\ first = {}
              /\ wk' = [wk EXCEPT ![s].hit = [at |-> m, copy |-> None, via |-> "none", from |-> "live"]]
           \/ \E i \in first : \E id \in HardwareMatches(m, joins[i]) :
                wk' = [wk EXCEPT ![s].hit = [at |-> m, copy |-> Live(id), via |-> joins[i], from |-> "live"]]
    /\ UNCHANGED <<nb, unifi, running, macView, siteView, everTagged, recent>>

\* The decisions of _sync_one_unifi_device about the record it found.
IsLegacyClient(e, m) == e.role = "client" /\ e.tagged /\ e.mac = m
Legacy(e, m)     == IsLegacyClient(e, m) /\ MergeClientInfra
FromInventory(e) == e.source \in Inventory \/ e.site \in Inventory
MutantStagingPulls(e, m, s) ==
    e.site # s /\ (UpdatePolicy # "create-only" \/ FromInventory(e) \/ Legacy(e, m))
MoveSite(e, m, s) ==
    /\ e.site # s /\ s \notin Inventory
    /\ UpdatePolicy # "create-only" \/ FromInventory(e) \/ Legacy(e, m)
MutantNeverMoved(e, m, s) == ~e.tagged \/ (e.site # s /\ ~Legacy(e, m))
LeftAlone(e, m, s) ==
    \/ ~e.tagged
    \/ e.site # s /\ ~Legacy(e, m) /\ ~MoveSite(e, m, s)
    \/ IsLegacyClient(e, m) /\ ~MergeClientInfra

HardwareStatus(s) == IF s \in Inventory THEN "inventory" ELSE "active"

\* The fields upsert_infrastructure_device wants.  Under create-only it returns
\* before its identity fields unless the record is merged or moved; a match on a
\* declared address keeps the primary one.
HardwareFields(e, m, s, full, moved, keepMac) ==
    [e EXCEPT !.role   = IF full THEN "infra" ELSE @,
              !.type   = IF full THEN "infra" ELSE @,
              !.serial = IF full THEN m ELSE @,
              !.status = IF full \/ moved THEN HardwareStatus(s) ELSE @,
              !.site   = IF moved THEN s ELSE @,
              !.mac    = IF keepMac THEN @ ELSE m,
              !.source = s]
HardwareWanted(e, via, m, s) ==
    IF UpdatePolicy = "create-only" /\ ~Legacy(e, m) /\ ~MoveSite(e, m, s) THEN e
    ELSE HardwareFields(e, m, s, Legacy(e, m) \/ UpdatePolicy # "create-only", MoveSite(e, m, s),
                        via = "owned-mac" /\ e.mac # None)

\* The mutants of this module are plausible slips in the definition that follows
\* each of them; no behaviour of the specification uses one.
MutantMacAsSource(m, s) ==
    [mac |-> m, extra |-> {}, serial |-> m, site |-> s, source |-> m, role |-> "infra",
     type |-> "infra", status |-> "active", tagged |-> TRUE, optout |-> FALSE]
NewHardware(m, s) ==
    [mac |-> m, extra |-> {}, serial |-> m, site |-> s, source |-> s, role |-> "infra",
     type |-> "infra", status |-> HardwareStatus(s), tagged |-> TRUE, optout |-> FALSE]

HardwareLookedUp(s) == lock = s /\ wk[s].hit # None

ReleaseHardware(s) ==
    /\ lock' = None
    /\ wk' = [wk EXCEPT ![s].hit = None, ![s].todo = @ \ {wk[s].hit.at}]

\* The record is left alone, or a name that some other record has taken stops
\* the merge or the create (a create may instead take a suffixed name).
SkipHardware(s) ==
    /\ HardwareLookedUp(s)
    /\ LET h == wk[s].hit IN
         \/ h.copy # None /\ LeftAlone(h.copy.dev, h.at, s) /\ UNCHANGED budget
         \/ /\ h.copy # None => Legacy(h.copy.dev, h.at)
            /\ budget > 0
            /\ budget' = budget - 1
    /\ ReleaseHardware(s)
    /\ UNCHANGED <<nb, unifi, running, caches, everTagged, recent>>

\* The outcome of upsert_infrastructure_device for the lookup, when it gets as
\* far as writing: the id, the record NetBox then stores, and the record the
\* process is left holding.
HardwareWrites(s) ==
    LET h == wk[s].hit IN
      IF h.copy = None
      THEN {Written(NewId, NewHardware(h.at, s)) : id \in FreeIds}
      ELSE IF LeftAlone(h.copy.dev, h.at, s) THEN {}
      ELSE {Reconciled(h.copy, HardwareWanted(h.copy.dev, h.via, h.at, s))}

CreateHardware(s) ==
    /\ HardwareLookedUp(s) /\ wk[s].hit.copy = None
    /\ \E w \in HardwareWrites(s) : Store(w) /\ Remember(w, wk[s].hit, s)
    /\ ReleaseHardware(s)
    /\ UNCHANGED <<unifi, running, macJoin, recent, budget>>

UpdateHardware(s) ==
    /\ HardwareLookedUp(s) /\ wk[s].hit.copy # None
    /\ \E w \in HardwareWrites(s) : Store(w) /\ Remember(w, wk[s].hit, s)
    /\ ReleaseHardware(s)
    /\ UNCHANGED <<unifi, running, macJoin, recent, budget>>

\* An expected error on this device, before its write or after it landed: it is
\* recorded, nothing is remembered, and the next device runs.
HardwareError(s) ==
    /\ HardwareLookedUp(s) /\ budget > 0
    /\ budget' = budget - 1
    /\ UNCHANGED <<nb, everTagged>> \/ \E w \in HardwareWrites(s) : Store(w)
    /\ ReleaseHardware(s)
    /\ UNCHANGED <<unifi, running, caches, recent>>

-------------------------------------------------------------------------------
(* Active clients.                                                           *)

\* get_clients, after the hardware so that a switch created now is there for
\* this run's cables.
ListClients(s) ==
    /\ running
    /\ \/ wk[s].stage = "clients"
       \/ wk[s].stage = "infra" /\ wk[s].listing /\ wk[s].todo = {} /\ wk[s].hit = None
    /\ LET active == {m \in Macs : presence[s][m] = "active"} IN
         wk' = [wk EXCEPT ![s].stage = "history", ![s].todo = active,
                          ![s].listing = (active # {})]
    /\ UNCHANGED <<nb, unifi, running, caches, lock, everTagged, recent, budget>>

\* What a history answer says of an address: the time of its last sighting, as a
\* number.  An idle client may be listed without a usable one.
Answer(s, unstamped) ==
    [m \in Macs |-> CASE presence[s][m] = "gone" -> "absent"
                      [] m \in unstamped        -> "unstamped"
                      [] OTHER                  -> "stamped"]

\* A controller that has forgotten everything answers with an empty list.
Nothing == [m \in Macs |-> "absent"]
HistoryAnswers(s) ==
    {Nothing} \cup {Answer(s, unstamped) :
                       unstamped \in SUBSET {m \in Macs : presence[s][m] = "idle"}}

\* _load_known_clients, and the check in _run_site that distrusts an empty
\* history next to a non-empty active list.  A read that fails leaves nothing
\* known and history_ok false.
MutantTrustsEmpty(s) ==
    /\ running /\ wk[s].stage = "history"
    /\ \E known \in HistoryAnswers(s) :
         wk' = [wk EXCEPT ![s].stage = "devices", ![s].known = known, ![s].histOk = TRUE]
    /\ recent' = [recent EXCEPT ![s] = WithinGrace(s)]
    /\ UNCHANGED <<nb, unifi, running, caches, lock, everTagged, budget>>
ReadHistory(s) ==
    /\ running /\ wk[s].stage = "history"
    /\ \E known \in HistoryAnswers(s), read \in BOOLEAN :
         /\ read \/ known = Nothing
         /\ read \/ budget > 0
         /\ budget' = IF read THEN budget ELSE budget - 1
         /\ wk' = [wk EXCEPT ![s].stage = "devices", ![s].known = known,
                             ![s].histOk = read /\ ~(wk[s].listing /\ known = Nothing)]
    /\ recent' = [recent EXCEPT ![s] = WithinGrace(s)]
    /\ UNCHANGED <<nb, unifi, running, caches, lock, everTagged>>

\* find_client_device_by_mac: the first record of the loaded list whose field
\* is this address, a live filter when there is no list.
FindClient(s, m) ==
    /\ running /\ wk[s].stage = "devices" /\ wk[s].hit = None /\ m \in wk[s].todo
    /\ LET At(set) == {c \in set : c.dev.mac = m}
           Found(copies, via, from) ==
              \E c \in copies :
                 wk' = [wk EXCEPT ![s].hit = [at |-> m, copy |-> c, via |-> via, from |-> from],
                                  ![s].seen = @ \cup {m}]
           live == At({Live(id) : id \in Ids \ FreeIds})
       IN  IF macView.ok
           THEN IF At(macView.loaded) # {}     THEN Found(At(macView.loaded), "mac", "loaded")
                ELSE IF At(macView.added) # {} THEN Found(At(macView.added), "mac", "added")
                                               ELSE Found({None}, "none", "live")
           ELSE IF live # {} THEN Found(live, "mac", "live") ELSE Found({None}, "none", "live")
    /\ UNCHANGED <<nb, unifi, running, caches, lock, everTagged, recent, budget>>

\* _owned_client: another record declares the address in unifi_macs.
Owned(m) == MatchOwnedMacs /\ \E id \in Ids : Exists(id) /\ m \in nb[id].extra

\* _owns_client_placeholder, which also covers the untagged case before it.
MutantOwnsAnyRole(e) == e.tagged /\ ~e.optout
OwnsPlaceholder(e) == e.tagged /\ ~e.optout /\ e.role = "client"

NewClient(m, s) ==
    [mac |-> m, extra |-> {}, serial |-> None, site |-> s, source |-> None, role |-> "client",
     type |-> "vendor", status |-> "active", tagged |-> TRUE, optout |-> FALSE]

MutantStatusKept(e) == IF UpdatePolicy = "create-only" THEN e ELSE [e EXCEPT !.type = "vendor"]
ClientWanted(e) == IF UpdatePolicy = "create-only" THEN e
                   ELSE [e EXCEPT !.status = "active", !.type = "vendor"]

DoneWithClient(s) == wk' = [wk EXCEPT ![s].hit = None, ![s].todo = @ \ {wk[s].hit.at}]

ClientLookedUp(s) == wk[s].stage = "devices" /\ wk[s].hit # None

SkipClient(s) ==
    /\ ClientLookedUp(s)
    /\ LET h == wk[s].hit IN
         \/ h.copy = None /\ Owned(h.at)
         \/ h.copy # None /\ ~OwnsPlaceholder(h.copy.dev)
    /\ DoneWithClient(s)
    /\ UNCHANGED <<nb, unifi, running, caches, lock, everTagged, recent, budget>>

\* The outcome of upsert_client_device for the lookup, likewise.
ClientWrites(s) ==
    LET h == wk[s].hit IN
      IF h.copy = None
      THEN {Written(NewId, NewClient(h.at, s)) : id \in {i \in FreeIds : ~Owned(h.at)}}
      ELSE IF ~OwnsPlaceholder(h.copy.dev) THEN {}
      ELSE {Reconciled(h.copy, ClientWanted(h.copy.dev))}

CreateClient(s) ==
    /\ ClientLookedUp(s) /\ wk[s].hit.copy = None
    /\ \E w \in ClientWrites(s) : Store(w) /\ Remember(w, wk[s].hit, s)
    /\ DoneWithClient(s)
    /\ UNCHANGED <<unifi, running, macJoin, lock, recent, budget>>

UpdateClient(s) ==
    /\ ClientLookedUp(s) /\ wk[s].hit.copy # None
    /\ \E w \in ClientWrites(s) : Store(w) /\ Remember(w, wk[s].hit, s)
    /\ DoneWithClient(s)
    /\ UNCHANGED <<unifi, running, macJoin, lock, recent, budget>>

\* An expected error on this client, before its write or after it landed: it is
\* recorded, nothing is remembered, and the next client runs.
ClientError(s) ==
    /\ ClientLookedUp(s) /\ budget > 0
    /\ budget' = budget - 1
    /\ UNCHANGED <<nb, everTagged>> \/ \E w \in ClientWrites(s) : Store(w)
    /\ DoneWithClient(s)
    /\ UNCHANGED <<unifi, running, caches, lock, recent>>

-------------------------------------------------------------------------------
(* Offline marks.                                                            *)

\* The selection of list_synced_client_devices, from the loaded list of the
\* site or from a live query.
MutantUntaggedListed(s) ==
    {c \in siteView[s].devices : c.dev.site = s /\ c.dev.role = "client"}
MutantAnyRoleListed(s) == {c \in {Live(id) : id \in Tagged(nb)} : c.dev.site = s}
SyncedClients(s) ==
    {c \in (IF siteView[s].ok THEN siteView[s].devices
            ELSE {Live(id) : id \in Ids \ FreeIds}) :
        c.dev.tagged /\ c.dev.site = s /\ c.dev.role = "client"}

\* now = time.time(), taken once when the marks begin: a time stamp is as old as it
\* is by then, however long ago the history was read.
Dated(s) ==
    [m \in Macs |-> IF wk[s].known[m] = "stamped" /\ m \notin recent[s] THEN "expired"
                    ELSE wk[s].known[m]]

\* offline_decision: unknown to the controller, or past the grace.
MutantGraceForever(m, known) == known[m] = "absent"
Offline(m, known) == known[m] \in {"absent", "expired"}

BeginStale(s) ==
    /\ running /\ wk[s].stage = "devices" /\ wk[s].todo = {} /\ wk[s].hit = None
    /\ wk' = [wk EXCEPT ![s].stage = IF wk[s].histOk THEN "stale" ELSE "done",
                        ![s].known = IF wk[s].histOk THEN Dated(s) ELSE @,
                        ![s].stale = IF wk[s].histOk THEN SyncedClients(s) ELSE {}]
    /\ UNCHANGED <<nb, unifi, running, caches, lock, everTagged, recent, budget>>

\* One turn of the loop of _mark_stale.  mark_offline patches status alone.
MarkStale(s, c) ==
    /\ running /\ wk[s].stage = "stale" /\ c \in wk[s].stale
    /\ wk' = [wk EXCEPT ![s].stale = @ \ {c}]
    /\ IF /\ c.dev.mac # None /\ c.dev.mac \notin wk[s].seen
          /\ c.dev.status = "active" /\ Offline(c.dev.mac, wk[s].known)
       THEN nb' = [nb EXCEPT ![c.id].status = "offline"]
       ELSE UNCHANGED nb
    /\ UNCHANGED <<unifi, running, caches, lock, everTagged, recent, budget>>

EndStale(s) ==
    /\ running /\ wk[s].stage = "stale" /\ wk[s].stale = {}
    /\ wk' = [wk EXCEPT ![s].stage = "done"]
    /\ UNCHANGED <<nb, unifi, running, caches, lock, everTagged, recent, budget>>

-------------------------------------------------------------------------------
(* The environment: operators in NetBox, clients and hardware in UniFi.      *)

OperatorEdit(id) ==
    /\ budget > 0 /\ Exists(id)
    /\ budget' = budget - 1
    /\ \E dev \in {[nb[id] EXCEPT !.tagged = ~@], [nb[id] EXCEPT !.optout = ~@],
                   [nb[id] EXCEPT !.role = "other"]} :
         /\ nb' = [nb EXCEPT ![id] = dev]
         /\ everTagged' = IF dev.tagged /\ running THEN everTagged \cup {id} ELSE everTagged
    /\ UNCHANGED <<unifi, running, caches, lock, wk, recent>>

\* A client associates, leaves, ages past the grace, or is forgotten.  A sighting
\* that a history tells of is past the grace when the last one is.
ClientMoves(s, m) ==
    /\ budget > 0 /\ m \in ListedAt[s]
    /\ budget' = budget - 1
    /\ \E next \in (CASE presence[s][m] = "active" -> {"idle"}
                      [] presence[s][m] = "idle"   -> {"active", "old"}
                      [] presence[s][m] = "old"    -> {"active", "gone"}
                      [] OTHER                     -> {"active"}) :
         /\ presence' = [presence EXCEPT ![s][m] = next]
         /\ recent' = IF next = "old" THEN [recent EXCEPT ![s] = @ \ {m}] ELSE recent
    /\ UNCHANGED <<nb, adopted, running, caches, lock, wk, everTagged>>

\* A sighting that a history tells of passes the grace although the client has
\* been seen since.
SightingAges(s, m) ==
    /\ budget > 0 /\ m \in recent[s] /\ presence[s][m] = "active"
    /\ budget' = budget - 1
    /\ recent' = [recent EXCEPT ![s] = @ \ {m}]
    /\ UNCHANGED <<nb, unifi, running, caches, lock, wk, everTagged>>

Readopt(m, s) ==
    /\ budget > 0 /\ s \in AdoptableAt[m] /\ adopted[m] # s
    /\ budget' = budget - 1
    /\ adopted' = [adopted EXCEPT ![m] = s]
    /\ UNCHANGED <<nb, presence, running, caches, lock, wk, everTagged, recent>>

-------------------------------------------------------------------------------

InfraStep(s) ==
    \/ ListHardware(s) \/ (\E m \in Macs : FindHardware(s, m))
    \/ SkipHardware(s) \/ CreateHardware(s) \/ UpdateHardware(s) \/ HardwareError(s)

ClientStep(s) ==
    \/ ListClients(s) \/ ReadHistory(s) \/ (\E m \in Macs : FindClient(s, m))
    \/ SkipClient(s) \/ CreateClient(s) \/ UpdateClient(s) \/ ClientError(s)

StaleStep(s) ==
    \/ BeginStale(s) \/ (\E c \in wk[s].stale : MarkStale(s, c)) \/ EndStale(s)

WorkerStep(s) == InfraStep(s) \/ ClientStep(s) \/ StaleStep(s) \/ SiteFails(s)

Environment ==
    \/ \E id \in Ids : OperatorEdit(id)
    \/ \E s \in Sites, m \in Macs : ClientMoves(s, m) \/ SightingAges(s, m)
    \/ \E s \in Sites, m \in Macs : Readopt(m, s)

Next == StartRun \/ EndRun \/ (\E s \in Sites : WorkerStep(s)) \/ Environment

Spec == Init /\ [][Next]_vars

\* Every worker and the loop around the runs keep going: the thread pool runs
\* each site to its end and the container starts the next cycle.  Edits, UniFi
\* changes and faults are never obliged to happen.
Fairness ==
    /\ WF_vars(StartRun /\ UNCHANGED budget) /\ WF_vars(EndRun)
    /\ \A s \in Sites : WF_vars(WorkerStep(s) /\ UNCHANGED budget)
FairSpec == Spec /\ Fairness

-------------------------------------------------------------------------------
(* Deployments.  Nothing in the code keeps two workers from creating a client *)
(* of one address, or an infrastructure device and a client of it, but that   *)
(* they are given different addresses: a client is listed by one controller,  *)
(* and hardware is not listed as a client; a single site that reads NetBox    *)
(* live needs neither.                                                       *)

Adoptable == {m \in Macs : AdoptableAt[m] # {}}

AddressesApart ==
    /\ \A s \in Sites : ListedAt[s] \cap Adoptable = {}
    /\ \A s, t \in Sites : s # t => ListedAt[s] \cap ListedAt[t] = {}

OneWorker == \A s, t \in Sites : s = t

Separate == AddressesApart \/ (OneWorker /\ ~Prefetch)

-------------------------------------------------------------------------------
(* Properties.                                                               *)

TypeOK ==
    /\ nb \in [Ids -> Device \cup {None}]
    /\ adopted \in [Macs -> Sites \cup {None}]
    /\ presence \in [Sites -> [Macs -> Presence]]
    /\ running \in BOOLEAN
    /\ macView \in MacList
    /\ siteView \in [Sites -> SiteList]
    /\ macJoin \in BOOLEAN
    /\ lock \in Sites \cup {None}
    /\ wk \in [Sites -> Worker]
    /\ everTagged \in SUBSET Ids
    /\ recent \in [Sites -> SUBSET Macs]
    /\ budget \in 0..Budget

\* A step of the sync itself: operators and UniFi leave the workers alone.
SyncStep == wk' # wk

\* A device that did not carry the sync tag at any point of the current run is
\* not written by the run, whichever worker, cache or race leads to it
\* (README: objects entered by hand are left alone even when they share a MAC).
OnlyTaggedWritten ==
    [][\A id \in Ids : SyncStep /\ Exists(id) /\ id \notin everTagged => nb'[id] = nb[id]]_vars

\* The sync never gives a UniFi address to a second device, although several
\* workers look it up and create it, one of them from a prefetched list
\* (find_unifi_device: "a hit means do not create another one").  The exception
\* is a process that has lost the join by unifi_mac.
Addressed(i) == nb'[i] # None /\ (Exists(i) => nb[i].mac # nb'[i].mac)
OneDevicePerMac ==
    [][\A i, j \in Ids :
         /\ Addressed(i) /\ nb'[i].mac # None /\ macJoin
         /\ i # j /\ nb'[j] # None
         => nb'[i].mac # nb'[j].mac]_vars

\* An offline mark is never put on a client whose last sighting by the time its
\* site was asked is within the grace still when the mark is set, whatever the
\* answer told of it (_mark_stale: an idle phone is not a removal).  The exception
\* is the controller that answers both lists empty: the code, and
\* tests/test_safety.py, take it at its word.
OfflineMark(id) == nb[id] # None /\ nb[id].status # "offline" /\ nb'[id].status = "offline"
BlankController(s) == ~wk[s].listing /\ wk[s].known = Nothing
IdleStaysActive ==
    [][\A s \in Sites, id \in Ids :
         OfflineMark(id) /\ wk'[s] # wk[s] => nb[id].mac \notin recent[s] \/ BlankController(s)]_vars

\* Infrastructure is never taken offline, a device merged earlier in the same
\* run included (_mark_stale: "an infrastructure device this tool created ...
\* is never taken offline").
InfraNeverOffline ==
    [][\A id \in Ids : OfflineMark(id) => nb[id].role # "infra"]_vars

\* Once the sync has made a device infrastructure, no later step makes it look
\* like a client again (upsert_client_device: "a client device just merged into
\* a switch must not be rewritten as a client").
MergedStaysMerged ==
    [][\A id \in Ids : Exists(id) /\ nb[id].role = "infra" /\ nb[id].type = "infra"
                         => nb'[id].type = "infra"]_vars

\* A device at a real site is never pulled back to the staging site, and under
\* create-only infrastructure changes its site only if staging stamped it last
\* (README, Inventory and staging sites).
SettledHardwareStays ==
    [][\A id \in Ids :
         /\ Exists(id) /\ nb[id].site \notin Inventory
         /\ nb'[id].site # nb[id].site
         => /\ nb'[id].site \notin Inventory
            /\ UpdatePolicy = "create-only" /\ nb[id].role = "infra"
                 => nb[id].source \in Inventory]_vars

\* Every run comes to an end: no worker waits for the infra lock forever.
RunsEnd == running ~> ~running

\* Hardware that stays adopted by a real site is represented by a record that its
\* joins find; if the sync owns that record under the sync policy, it ends up as
\* active infrastructure of that site, also when a legacy client, another site or
\* staging held it before.
Established(m, s) ==
    \E id \in Ids : /\ \E via \in {"mac", "owned-mac", "serial"} : id \in HardwareMatches(m, via)
                    /\ nb[id].tagged /\ UpdatePolicy = "sync" /\ s \notin Inventory
                         => /\ nb[id].site = s
                            /\ nb[id].status = "active"
                            /\ nb[id].role = "infra"
AdoptedHardwareEstablished ==
    \A m \in Macs : \A s \in AdoptableAt[m] : <>[](adopted[m] = s) => <>[]Established(m, s)

\* A client that stays associated ends up recorded: a device with its address
\* exists and, when the sync owns it under the sync policy, is active.
Recorded(m) ==
    \/ Owned(m)
    \/ \E id \in Ids : /\ Exists(id) /\ nb[id].mac = m
                       /\ OwnsPlaceholder(nb[id]) /\ UpdatePolicy = "sync" => nb[id].status = "active"
ActiveClientsRecorded ==
    \A s \in Sites : \A m \in ListedAt[s] : <>[](presence[s][m] = "active") => <>[]Recorded(m)

\* A client that UniFi has dropped for good does not stay active: where the client
\* history can be trusted again and again, its managed device at that site is
\* offline eventually and from then on.
GoneClientsGoOffline ==
    \A s \in Sites : \A m \in ListedAt[s] :
       <>[](presence[s][m] \in {"old", "gone"}) /\ []<>wk[s].histOk
         => <>[](\A id \in Ids : /\ Exists(id) /\ nb[id].mac = m /\ nb[id].site = s
                                 /\ nb[id].role = "client" /\ nb[id].tagged
                                 => nb[id].status # "active")

===============================================================================
