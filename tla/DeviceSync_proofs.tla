-------------------------- MODULE DeviceSync_proofs --------------------------
(***************************************************************************)
(* What DeviceSync guarantees for any sites, addresses, policies, initial  *)
(* tables and bounds: its type invariant, that no step of the sync writes  *)
(* to a device that did not carry the sync tag during the run, and that    *)
(* hardware which staging has let go stays where it settled.  Where the    *)
(* addresses of the workers are separate (Separate), one device carries an *)
(* address and no client that UniFi still sees is marked offline; where    *)
(* one worker reads NetBox live, infrastructure stays infrastructure.      *)
(*                                                                         *)
(* The workers decide on records they hold, not on what NetBox stores, so  *)
(* the inductive invariants are about those records: each one stands for a *)
(* device that exists, one that shows the sync tag belongs to a device     *)
(* that carried the tag at some point of this run, the one that the holder *)
(* of the infra lock found is as stored but for edits of a person, and the *)
(* address a record shows is the stored one or has drifted to hardware.    *)
(***************************************************************************)
EXTENDS DeviceSync, TLAPS

-------------------------------------------------------------------------------
(* The inductive invariant.                                                  *)

\* Only a worker that is in the middle of a hardware device holds the infra lock.
LockHeld ==
    \A s \in Sites : lock = s => running /\ wk[s].stage = "infra" /\ wk[s].hit # None

\* Between two runs the process holds nothing.
Quiet ==
    ~running => /\ macView = NoMacList
                /\ siteView = [s \in Sites |-> NoSiteList]
                /\ wk = [s \in Sites |-> Idle]

\* During a run the history records every tag that NetBox stores.
TagsKnown == running => Tagged(nb) \subseteq everTagged

SoundAt(k, table, tags) == table[k.id] # None /\ (k.dev.tagged => k.id \in tags)
SoundCopy(k)  == SoundAt(k, nb, everTagged)
SoundAfter(k) == SoundAt(k, nb', everTagged')

\* The records held in the lists, in a lookup and in an offline pass are sound.
SoundMacView  == \A k \in macView.loaded \cup macView.added : SoundCopy(k)
SoundSiteView == \A s \in Sites : \A k \in siteView[s].devices : SoundCopy(k)
SoundHits     == \A s \in Sites : wk[s].hit # None /\ wk[s].hit.copy # None
                                    => SoundCopy(wk[s].hit.copy)
SoundStale    == \A s \in Sites : \A k \in wk[s].stale : SoundCopy(k) /\ k.dev.tagged

IInv == /\ TypeOK
        /\ LockHeld
        /\ Quiet
        /\ TagsKnown
        /\ SoundMacView
        /\ SoundSiteView
        /\ SoundHits
        /\ SoundStale

-------------------------------------------------------------------------------
(* Records and writes are well formed.                                       *)

\* A record of an existing device.
LEMMA LiveCopy ==
  ASSUME TypeOK, NEW id \in Ids, Exists(id)
  PROVE  Live(id) \in Copy /\ Live(id).id = id /\ Live(id).dev = nb[id]
  BY DEF TypeOK, Exists, Live, Copy

LEMMA IdleType == Idle \in Worker
  BY DEF Idle, Worker, Stages, History

LEMMA NewHardwareType ==
  ASSUME NEW m \in Macs, NEW s \in Sites
  PROVE  NewHardware(m, s) \in Device /\ NewHardware(m, s).tagged
  BY DEF NewHardware, Device, HardwareStatus, Statuses, Roles, Types

LEMMA NewClientType ==
  ASSUME NEW m \in Macs, NEW s \in Sites
  PROVE  NewClient(m, s) \in Device /\ NewClient(m, s).tagged
  BY DEF NewClient, Device, Statuses, Roles, Types

\* What the hardware pass wants of a record is a record with the same tag.
LEMMA HardwareWantedType ==
  ASSUME NEW e \in Device, NEW via, NEW m \in Macs, NEW s \in Sites
  PROVE  HardwareWanted(e, via, m, s) \in Device /\ HardwareWanted(e, via, m, s).tagged = e.tagged
<1>1. ASSUME NEW full \in BOOLEAN, NEW moved \in BOOLEAN, NEW keep \in BOOLEAN
      PROVE  /\ HardwareFields(e, m, s, full, moved, keep) \in Device
             /\ HardwareFields(e, m, s, full, moved, keep).tagged = e.tagged
  <2>1. HardwareStatus(s) \in Statuses
    BY DEF HardwareStatus, Statuses
  <2>2. QED
    BY <2>1 DEF HardwareFields, Device, Roles, Types
<1>2. MoveSite(e, m, s) \in BOOLEAN /\ Legacy(e, m) \in BOOLEAN
  BY DEF MoveSite, Legacy
<1>3. /\ (Legacy(e, m) \/ UpdatePolicy # "create-only") \in BOOLEAN
      /\ (via = "owned-mac" /\ e.mac # None) \in BOOLEAN
  OBVIOUS
<1>4. QED
  BY <1>1, <1>2, <1>3, Zenon DEF HardwareWanted

LEMMA ClientWantedType ==
  ASSUME NEW e \in Device
  PROVE  ClientWanted(e) \in Device /\ ClientWanted(e).tagged = e.tagged
  BY DEF ClientWanted, Device, Statuses, Types

\* A PATCH computed from a record that differs from the stored one keeps the
\* stored tag, as long as the tag itself is not among the wanted changes.
LEMMA PatchedType ==
  ASSUME NEW now \in Device, NEW held \in Device, NEW want \in Device, want.tagged = held.tagged
  PROVE  Patched(now, held, want) \in Device /\ Patched(now, held, want).tagged = now.tagged
<1>1. Patched(now, held, want) \in Device
  BY DEF Patched, Device
<1>2. Patched(now, held, want).tagged = now.tagged
  BY DEF Patched, Device
<1>3. QED
  BY <1>1, <1>2

\* A write the process may send: it is typed, and a record it leaves tagged is
\* of a device whose tag the history knows or is about to know.
SoundWrite(w) ==
    /\ w \in [id : Ids, dev : Device, held : Device]
    /\ w.held.tagged => w.dev.tagged \/ w.id \in everTagged

LEMMA ReconciledSound ==
  ASSUME TypeOK, NEW k \in Copy, SoundCopy(k), NEW want \in Device, want.tagged = k.dev.tagged
  PROVE  SoundWrite(Reconciled(k, want)) /\ Reconciled(k, want).id = k.id
<1>1. k.id \in Ids /\ k.dev \in Device /\ nb[k.id] \in Device
  BY DEF Copy, SoundCopy, SoundAt, Exists, TypeOK
<1>2. CASE want = k.dev
  BY <1>1, <1>2 DEF Reconciled, SoundWrite, SoundCopy, SoundAt
<1>3. CASE want # k.dev
  <2>1. Patched(nb[k.id], k.dev, want) \in Device
    BY <1>1, PatchedType
  <2>2. Reconciled(k, want) = [id |-> k.id, dev |-> Patched(nb[k.id], k.dev, want),
                               held |-> Patched(nb[k.id], k.dev, want)]
    BY <1>3 DEF Reconciled, Written
  <2>3. QED
    BY <1>1, <2>1, <2>2 DEF SoundWrite
<1>4. QED
  BY <1>2, <1>3

\* The hardware pass writes a new device, or one whose tag it has seen.
LEMMA HardwareWritesSound ==
  ASSUME IInv, NEW s \in Sites, lock = s, NEW w \in HardwareWrites(s)
  PROVE  SoundWrite(w) /\ (Exists(w.id) => w.id \in everTagged)
<1> DEFINE h == wk[s].hit
<1>1. h \in Lookup /\ h.at \in Macs
  BY DEF IInv, LockHeld, TypeOK, Worker, Lookup
<1>2. CASE h.copy = None
  <2>1. PICK id \in FreeIds : w = Written(NewId, NewHardware(h.at, s))
    BY <1>2 DEF HardwareWrites
  <2>2. NewId \in FreeIds
    BY <2>1 DEF NewId
  <2>3. QED
    BY <1>1, <2>1, <2>2, NewHardwareType DEF FreeIds, Written, SoundWrite
<1>3. CASE h.copy # None
  <2> DEFINE want == HardwareWanted(h.copy.dev, h.via, h.at, s)
  <2>1. h.copy \in Copy /\ h.copy.dev \in Device
    BY <1>1, <1>3 DEF Lookup, Copy
  <2>2. SoundCopy(h.copy)
    BY <1>1, <1>3, ConstantsAssumption DEF IInv, SoundHits
  <2>3. ~LeftAlone(h.copy.dev, h.at, s) /\ w = Reconciled(h.copy, want)
    BY <1>3 DEF HardwareWrites
  <2>4. h.copy.dev.tagged
    BY <2>3 DEF LeftAlone
  <2>5. want \in Device /\ want.tagged = h.copy.dev.tagged
    BY <1>1, <2>1, HardwareWantedType
  <2>6. SoundWrite(w) /\ w.id = h.copy.id
    BY <2>1, <2>2, <2>3, <2>5, ReconciledSound DEF IInv
  <2>7. QED
    BY <2>2, <2>4, <2>6 DEF SoundCopy, SoundAt
<1>4. QED
  BY <1>2, <1>3

\* So does the client pass.
LEMMA ClientWritesSound ==
  ASSUME IInv, NEW s \in Sites, ClientLookedUp(s), NEW w \in ClientWrites(s)
  PROVE  SoundWrite(w) /\ (Exists(w.id) => w.id \in everTagged)
<1> DEFINE h == wk[s].hit
<1>1. h \in Lookup /\ h.at \in Macs /\ h # None
  BY DEF IInv, ClientLookedUp, TypeOK, Worker, Lookup
<1>2. CASE h.copy = None
  <2>1. PICK id \in FreeIds : w = Written(NewId, NewClient(h.at, s))
    BY <1>2 DEF ClientWrites
  <2>2. NewId \in FreeIds
    BY <2>1 DEF NewId
  <2>3. QED
    BY <1>1, <2>1, <2>2, NewClientType DEF FreeIds, Written, SoundWrite
<1>3. CASE h.copy # None
  <2> DEFINE want == ClientWanted(h.copy.dev)
  <2>1. h.copy \in Copy /\ h.copy.dev \in Device
    BY <1>1, <1>3 DEF Lookup, Copy
  <2>2. SoundCopy(h.copy)
    BY <1>1, <1>3 DEF IInv, SoundHits
  <2>3. OwnsPlaceholder(h.copy.dev) /\ w = Reconciled(h.copy, want)
    BY <1>3 DEF ClientWrites
  <2>4. h.copy.dev.tagged
    BY <2>3 DEF OwnsPlaceholder
  <2>5. want \in Device /\ want.tagged = h.copy.dev.tagged
    BY <2>1, ClientWantedType
  <2>6. SoundWrite(w) /\ w.id = h.copy.id
    BY <2>1, <2>2, <2>3, <2>5, ReconciledSound DEF IInv
  <2>7. QED
    BY <2>2, <2>4, <2>6 DEF SoundCopy, SoundAt
<1>4. QED
  BY <1>2, <1>3

-------------------------------------------------------------------------------
(* The two halves of a write: the table and the lists.                       *)

\* What every step of a run does to the table: no device disappears, and the
\* history covers the tags.
TableGrows ==
    /\ nb' \in [Ids -> Device \cup {None}]
    /\ everTagged' \in SUBSET Ids
    /\ everTagged \subseteq everTagged'
    /\ Tagged(nb)' \subseteq everTagged'
    /\ \A id \in Ids : Exists(id) => nb'[id] # None

LEMMA StoreGrows ==
  ASSUME IInv, running, NEW w, SoundWrite(w), Store(w)
  PROVE  /\ TableGrows
         /\ nb'[w.id] # None
         /\ w.held.tagged => w.id \in everTagged'
         /\ \A id \in Ids : id # w.id => nb'[id] = nb[id]
<1>1. w.id \in Ids /\ w.dev \in Device /\ w.dev # None
  BY ConstantsAssumption DEF SoundWrite
<1>2. nb' = [nb EXCEPT ![w.id] = w.dev] /\ nb \in [Ids -> Device \cup {None}]
  BY DEF Store, IInv, TypeOK
<1>3. everTagged' = (IF w.dev.tagged THEN everTagged \cup {w.id} ELSE everTagged) /\ everTagged \subseteq Ids
  BY DEF Store, IInv, TypeOK
<1>4. Tagged(nb) \subseteq everTagged
  BY DEF IInv, TagsKnown
<1>5. nb' \in [Ids -> Device \cup {None}] /\ nb'[w.id] = w.dev /\ \A id \in Ids : id # w.id => nb'[id] = nb[id]
  BY <1>1, <1>2
<1>6. Tagged(nb)' \subseteq everTagged'
  BY <1>1, <1>3, <1>4, <1>5 DEF Tagged
<1>7. \A id \in Ids : Exists(id) => nb'[id] # None
  BY <1>1, <1>5 DEF Exists
<1>8. QED
  BY <1>1, <1>3, <1>5, <1>6, <1>7 DEF TableGrows, SoundWrite

\* What a step may do to the lists: keep them, or add one sound record.
ListsGrow(k) ==
    /\ macView' \in MacList
    /\ siteView' \in [Sites -> SiteList]
    /\ \A x \in macView'.loaded \cup macView'.added : x \in macView.loaded \cup macView.added \cup {k}
    /\ \A s \in Sites : \A x \in siteView'[s].devices : x \in siteView[s].devices \cup {k}

LEMMA RememberGrows ==
  ASSUME TypeOK, NEW w \in [id : Ids, dev : Device, held : Device], NEW h \in Lookup,
         NEW s \in Sites, Remember(w, h, s)
  PROVE  ListsGrow([id |-> w.id, dev |-> w.held])
<1> DEFINE k == [id |-> w.id, dev |-> w.held]
<1>1. k \in Copy
  BY DEF Copy
<1>2. macView \in MacList /\ siteView \in [Sites -> SiteList]
  BY DEF TypeOK
<1>3. /\ macView' = IF ~macView.ok THEN macView
                     ELSE CASE h.from = "loaded" -> [macView EXCEPT !.loaded = (@ \ {h.copy}) \cup {k}]
                            [] h.from = "added"  -> [macView EXCEPT !.added  = (@ \ {h.copy}) \cup {k}]
                            [] h.from = "live"   -> [macView EXCEPT !.added  = @ \cup {k}]
      /\ siteView' = IF siteView[s].ok THEN [siteView EXCEPT ![s].devices = @ \cup {k}]
                                       ELSE siteView
  BY DEF Remember
<1> HIDE DEF k
<1>4. /\ macView' \in MacList
      /\ \A x \in macView'.loaded \cup macView'.added : x \in macView.loaded \cup macView.added \cup {k}
  BY <1>1, <1>2, <1>3 DEF MacList, Lookup
<1>5. /\ siteView' \in [Sites -> SiteList]
      /\ \A t \in Sites : \A x \in siteView'[t].devices : x \in siteView[t].devices \cup {k}
  BY <1>1, <1>2, <1>3 DEF SiteList
<1>6. QED
  BY <1>4, <1>5 DEF ListsGrow, k

-------------------------------------------------------------------------------
(* One step of one worker.                                                   *)

\* Sound records stay sound.
LEMMA SoundKept ==
  ASSUME TableGrows, NEW k \in Copy, SoundCopy(k)
  PROVE  SoundAfter(k)
  BY DEF TableGrows, SoundCopy, SoundAfter, SoundAt, Exists, Copy

\* A step of worker s that leaves it as r keeps the invariant if it releases the
\* lock, leaves it to another worker or holds it for a device, and if the records
\* it adds to the lists and to the worker are sound.
LEMMA StepSafe ==
  ASSUME IInv, running, running' = running, TableGrows,
         NEW s \in Sites, NEW r \in Worker, wk' = [wk EXCEPT ![s] = r],
         UNCHANGED unifi,
         recent' \in [Sites -> SUBSET Macs],
         budget' = budget \/ (budget > 0 /\ budget' = budget - 1),
         \/ lock' = None
         \/ lock' = lock /\ lock # s
         \/ lock' = s /\ r.stage = "infra" /\ r.hit # None,
         macJoin' \in BOOLEAN,
         macView' \in MacList,
         \A x \in macView'.loaded \cup macView'.added :
            x \in macView.loaded \cup macView.added \/ SoundAfter(x),
         siteView' \in [Sites -> SiteList],
         \A t \in Sites : \A x \in siteView'[t].devices :
            x \in siteView[t].devices \/ SoundAfter(x),
         r.hit # None /\ r.hit.copy # None => SoundCopy(r.hit.copy),
         \A x \in r.stale : SoundCopy(x) /\ x.dev.tagged
  PROVE  IInv'
<1>0. /\ wk' \in [Sites -> Worker] /\ wk'[s] = r
      /\ \A t \in Sites : t # s => wk'[t] = wk[t]
  BY DEF IInv, TypeOK
<1>t. TypeOK'
  <2>1. budget' \in 0..Budget
    BY ConstantsAssumption DEF IInv, TypeOK
  <2>2. lock' \in Sites \cup {None}
    BY DEF IInv, TypeOK
  <2>3. QED
    BY <1>0, <2>1, <2>2 DEF TypeOK, TableGrows, IInv, unifi
<1> USE DEF IInv
<1>1. LockHeld'
  BY <1>0, ConstantsAssumption DEF LockHeld
<1>2. Quiet'
  BY DEF Quiet
<1>3. TagsKnown'
  BY DEF TagsKnown, TableGrows
<1>4. SoundMacView'
  <2>1. \A x \in macView.loaded \cup macView.added : x \in Copy /\ SoundCopy(x)
    BY DEF SoundMacView, TypeOK, MacList
  <2>2. \A x \in macView'.loaded \cup macView'.added : SoundAfter(x)
    BY <2>1, SoundKept
  <2>3. QED
    BY <2>2 DEF SoundMacView, SoundCopy, SoundAfter
<1>5. SoundSiteView'
  <2>1. \A t \in Sites : \A x \in siteView[t].devices : x \in Copy /\ SoundCopy(x)
    BY DEF SoundSiteView, TypeOK, SiteList
  <2>2. \A t \in Sites : \A x \in siteView'[t].devices : SoundAfter(x)
    BY <2>1, SoundKept
  <2>3. QED
    BY <2>2 DEF SoundSiteView, SoundCopy, SoundAfter
<1>6. SoundHits'
  <2>1. ASSUME NEW t \in Sites, wk'[t].hit # None, NEW k, k = wk'[t].hit.copy, k # None
        PROVE  SoundAfter(k)
    <3>1. SoundCopy(k)
      <4>1. CASE t = s
        BY <1>0, <2>1, <4>1
      <4>2. CASE t # s
        BY <1>0, <2>1, <4>2 DEF SoundHits
      <4>3. QED
        BY <4>1, <4>2
    <3>2. wk'[t] \in Worker
      BY <1>0
    <3>3. k \in Copy
      BY <2>1, <3>2 DEF Worker, Lookup
    <3>4. QED
      BY <3>1, <3>3, SoundKept
  <2>2. QED
    BY <2>1 DEF SoundHits, SoundCopy, SoundAfter
<1>7. SoundStale'
  <2>1. ASSUME NEW t \in Sites, NEW x \in wk'[t].stale
        PROVE  SoundAfter(x) /\ x.dev.tagged
    <3>1. SoundCopy(x) /\ x.dev.tagged
      <4>1. CASE t = s
        BY <1>0, <2>1, <4>1
      <4>2. CASE t # s
        BY <1>0, <2>1, <4>2 DEF SoundStale
      <4>3. QED
        BY <4>1, <4>2
    <3>2. wk'[t] \in Worker
      BY <1>0
    <3>3. x \in Copy
      BY <3>2 DEF Worker
    <3>4. QED
      BY <3>1, <3>3, SoundKept
  <2>2. QED
    BY <2>1 DEF SoundStale, SoundCopy, SoundAfter
<1>8. QED
  BY <1>t, <1>1, <1>2, <1>3, <1>4, <1>5, <1>6, <1>7

\* The step writes nothing and touches no list.
LEMMA LookupStepSafe ==
  ASSUME IInv, running, NEW s \in Sites, NEW r \in Worker, wk' = [wk EXCEPT ![s] = r],
         UNCHANGED <<nb, unifi, running, macView, siteView, everTagged>>, macJoin' \in BOOLEAN,
         recent' \in [Sites -> SUBSET Macs],
         budget' = budget \/ (budget > 0 /\ budget' = budget - 1),
         \/ lock' = None
         \/ lock' = lock /\ lock # s
         \/ lock' = s /\ r.stage = "infra" /\ r.hit # None,
         r.hit # None /\ r.hit.copy # None => SoundCopy(r.hit.copy),
         \A x \in r.stale : SoundCopy(x) /\ x.dev.tagged
  PROVE  IInv'
<1>1. TableGrows
  BY DEF TableGrows, IInv, TypeOK, TagsKnown, Exists, Tagged
<1>2. macView' \in MacList /\ siteView' \in [Sites -> SiteList]
  BY DEF IInv, TypeOK
<1>3. /\ \A x \in macView'.loaded \cup macView'.added : x \in macView.loaded \cup macView.added
      /\ \A t \in Sites : \A x \in siteView'[t].devices : x \in siteView[t].devices
  OBVIOUS
<1>4. UNCHANGED unifi /\ running' = running
  OBVIOUS
<1>5. QED
  BY <1>1, <1>2, <1>3, <1>4, StepSafe

\* The common case, in which the joins stay as well.
LEMMA LocalStepSafe ==
  ASSUME IInv, running, NEW s \in Sites, NEW r \in Worker, wk' = [wk EXCEPT ![s] = r],
         UNCHANGED <<nb, unifi, running, caches, everTagged>>,
         recent' \in [Sites -> SUBSET Macs],
         budget' = budget \/ (budget > 0 /\ budget' = budget - 1),
         \/ lock' = None
         \/ lock' = lock /\ lock # s
         \/ lock' = s /\ r.stage = "infra" /\ r.hit # None,
         r.hit # None /\ r.hit.copy # None => SoundCopy(r.hit.copy),
         \A x \in r.stale : SoundCopy(x) /\ x.dev.tagged
  PROVE  IInv'
<1>1. UNCHANGED <<macView, siteView, macJoin>> /\ macJoin \in BOOLEAN
  BY DEF caches, IInv, TypeOK
<1>2. QED
  BY <1>1, LookupStepSafe

-------------------------------------------------------------------------------
(* The steps that write nothing.                                             *)

\* What a worker holds already is sound.
LEMMA HeldSound ==
  ASSUME IInv, NEW s \in Sites
  PROVE  /\ wk[s] \in Worker
         /\ wk[s].hit # None /\ wk[s].hit.copy # None => SoundCopy(wk[s].hit.copy)
         /\ \A x \in wk[s].stale : SoundCopy(x) /\ x.dev.tagged
         /\ lock = s => running /\ wk[s].stage = "infra" /\ wk[s].hit # None
  BY DEF IInv, TypeOK, SoundHits, SoundStale, LockHeld

LEMMA RecentType ==
  ASSUME IInv, NEW s \in Sites
  PROVE  /\ recent \in [Sites -> SUBSET Macs]
         /\ [recent EXCEPT ![s] = WithinGrace(s)] \in [Sites -> SUBSET Macs]
  BY DEF IInv, TypeOK, WithinGrace

LEMMA ListHardwareSafe ==
  ASSUME IInv, NEW s \in Sites, ListHardware(s)
  PROVE  IInv'
<1>1. PICK listed \in BOOLEAN :
         /\ budget' = budget \/ (budget > 0 /\ budget' = budget - 1)
         /\ wk' = [wk EXCEPT ![s].todo = {m \in Macs : listed /\ adopted[m] = s}, ![s].listing = TRUE]
  BY DEF ListHardware
<1> DEFINE r == [wk[s] EXCEPT !.todo = {m \in Macs : listed /\ adopted[m] = s}, !.listing = TRUE]
<1>2. r \in Worker /\ r.stage = wk[s].stage /\ r.hit = wk[s].hit /\ r.stale = wk[s].stale
  BY HeldSound DEF Worker
<1>3. wk' = [wk EXCEPT ![s] = r]
  BY <1>1
<1> HIDE DEF r
<1>4. /\ lock' = lock /\ running /\ UNCHANGED <<nb, unifi, running, caches, everTagged>>
      /\ recent' = recent
  BY DEF ListHardware
<1>5. (lock' = lock /\ lock # s) \/ (lock' = s /\ r.stage = "infra" /\ r.hit # None)
  BY <1>2, <1>4, HeldSound
<1>6. QED
  BY <1>1, <1>2, <1>3, <1>4, <1>5, HeldSound, RecentType, LocalStepSafe

LEMMA FindHardwareSafe ==
  ASSUME IInv, NEW s \in Sites, NEW m \in Macs, FindHardware(s, m)
  PROVE  IInv'
<1>1. PICK k \in Copy \cup {None}, v \in {"mac", "owned-mac", "serial", "none"} :
         /\ wk' = [wk EXCEPT ![s].hit = [at |-> m, copy |-> k, via |-> v, from |-> "live"]]
         /\ k # None => SoundCopy(k)
  <2> DEFINE joins == <<"mac", "owned-mac", "serial">>
  <2>1. CASE wk' = [wk EXCEPT ![s].hit = [at |-> m, copy |-> None, via |-> "none", from |-> "live"]]
    BY <2>1
  <2>2. ASSUME NEW i \in DOMAIN joins, NEW id \in HardwareMatches(m, joins[i]),
               wk' = [wk EXCEPT ![s].hit = [at |-> m, copy |-> Live(id), via |-> joins[i], from |-> "live"]]
        PROVE  \E k \in Copy \cup {None}, v \in {"mac", "owned-mac", "serial", "none"} :
                 /\ wk' = [wk EXCEPT ![s].hit = [at |-> m, copy |-> k, via |-> v, from |-> "live"]]
                 /\ k # None => SoundCopy(k)
    <3>1. id \in Ids /\ Exists(id)
      BY DEF HardwareMatches
    <3>2. Live(id) \in Copy /\ Live(id).id = id /\ Live(id).dev = nb[id]
      BY <3>1, LiveCopy DEF IInv
    <3>3. SoundCopy(Live(id))
      BY <3>1, <3>2 DEF SoundCopy, SoundAt, IInv, TagsKnown, Tagged, FindHardware, Exists
    <3>4. joins[i] \in {"mac", "owned-mac", "serial", "none"}
      OBVIOUS
    <3>5. QED
      BY <2>2, <3>2, <3>3, <3>4
  <2> DEFINE tried == IF macJoin' THEN DOMAIN joins ELSE DOMAIN joins \ {1}
             first == {i \in tried : /\ HardwareMatches(m, joins[i]) # {}
                                     /\ \A j \in tried : j < i => HardwareMatches(m, joins[j]) = {}}
  <2>3. \A i \in first : i \in DOMAIN joins
    OBVIOUS
  <2>4. \/ wk' = [wk EXCEPT ![s].hit = [at |-> m, copy |-> None, via |-> "none", from |-> "live"]]
        \/ \E i \in first : \E id \in HardwareMatches(m, joins[i]) :
             wk' = [wk EXCEPT ![s].hit = [at |-> m, copy |-> Live(id), via |-> joins[i], from |-> "live"]]
    BY Zenon DEF FindHardware
  <2> HIDE DEF first
  <2>5. QED
    BY <2>1, <2>2, <2>3, <2>4, Zenon
<1> DEFINE look == [at |-> m, copy |-> k, via |-> v, from |-> "live"]
           r    == [wk[s] EXCEPT !.hit = look]
<1>2. look \in Lookup /\ look # None /\ look.copy = k
  BY ConstantsAssumption DEF Lookup
<1>3. wk' = [wk EXCEPT ![s] = r]
  BY <1>1
<1> HIDE DEF look
<1>4. r \in Worker /\ r.stage = wk[s].stage /\ r.hit = look /\ r.stale = wk[s].stale
  BY <1>2, HeldSound DEF Worker
<1> HIDE DEF r
<1>5. /\ lock' = s /\ running /\ wk[s].stage = "infra"
      /\ UNCHANGED <<nb, unifi, running, macView, siteView, everTagged>> /\ recent' = recent
      /\ macJoin' \in BOOLEAN /\ (budget' = budget \/ (budget > 0 /\ budget' = budget - 1))
  BY DEF FindHardware, JoinByMac, IInv, TypeOK
<1>6. SoundCopy(r.hit.copy) \/ r.hit.copy = None
  BY <1>1, <1>2, <1>4
<1>7. \A x \in r.stale : SoundCopy(x) /\ x.dev.tagged
  BY <1>4, HeldSound
<1>8. QED
  BY <1>2, <1>3, <1>4, <1>5, <1>6, <1>7, RecentType, LookupStepSafe

\* A worker done with a device or a client holds no lookup.
Released(s) == [wk[s] EXCEPT !.hit = None, !.todo = @ \ {wk[s].hit.at}]

LEMMA ReleasedType ==
  ASSUME IInv, NEW s \in Sites
  PROVE  /\ Released(s) \in Worker /\ Released(s).hit = None
         /\ \A x \in Released(s).stale : SoundCopy(x) /\ x.dev.tagged
<1>1. Released(s) \in Worker /\ Released(s).hit = None /\ Released(s).stale = wk[s].stale
  BY HeldSound DEF Released, Worker
<1>2. QED
  BY <1>1, HeldSound

LEMMA SkipHardwareSafe ==
  ASSUME IInv, NEW s \in Sites, SkipHardware(s)
  PROVE  IInv'
<1>1. /\ lock' = None /\ wk' = [wk EXCEPT ![s] = Released(s)]
      /\ UNCHANGED <<nb, unifi, running, caches, everTagged>> /\ recent' = recent
      /\ budget' = budget \/ (budget > 0 /\ budget' = budget - 1)
  BY DEF HardwareLookedUp, SkipHardware, ReleaseHardware, Released
<1>2. running
  BY HeldSound DEF HardwareLookedUp, SkipHardware
<1>3. QED
  BY <1>1, <1>2, ReleasedType, RecentType, LocalStepSafe

LEMMA SkipClientSafe ==
  ASSUME IInv, NEW s \in Sites, SkipClient(s)
  PROVE  IInv'
<1>1. /\ lock' = lock /\ wk' = [wk EXCEPT ![s] = Released(s)]
      /\ UNCHANGED <<nb, unifi, running, caches, everTagged>> /\ recent' = recent
      /\ budget' = budget
  BY DEF SkipClient, DoneWithClient, Released
<1>2. wk[s].stage = "devices"
  BY DEF SkipClient, ClientLookedUp
<1>3. running /\ lock # s
  BY <1>2, HeldSound DEF IInv, Quiet, Idle
<1>4. QED
  BY <1>1, <1>3, ReleasedType, RecentType, LocalStepSafe

LEMMA ListClientsSafe ==
  ASSUME IInv, NEW s \in Sites, ListClients(s)
  PROVE  IInv'
<1> DEFINE active == {m \in Macs : presence[s][m] = "active"}
           r == [wk[s] EXCEPT !.stage = "history", !.todo = active, !.listing = (active # {})]
<1>1. wk' = [wk EXCEPT ![s] = r]
  BY DEF ListClients
<1>2. r \in Worker /\ r.hit = wk[s].hit /\ r.stale = wk[s].stale
  BY HeldSound DEF Worker, Stages
<1>3. lock # s
  BY HeldSound DEF ListClients
<1> HIDE DEF r
<1>4. /\ lock' = lock /\ running /\ UNCHANGED <<nb, unifi, running, caches, everTagged>>
      /\ recent' = recent /\ budget' = budget
  BY DEF ListClients
<1>5. (r.hit # None /\ r.hit.copy # None => SoundCopy(r.hit.copy))
      /\ \A x \in r.stale : SoundCopy(x) /\ x.dev.tagged
  BY <1>2, HeldSound
<1>6. QED
  BY <1>1, <1>2, <1>3, <1>4, <1>5, RecentType, LocalStepSafe

LEMMA AnswerType ==
  ASSUME NEW s \in Sites, NEW known \in HistoryAnswers(s)
  PROVE  known \in [Macs -> History]
<1>1. Nothing \in [Macs -> History]
  BY DEF Nothing, History
<1>2. \A unstamped : Answer(s, unstamped) \in [Macs -> History]
  BY DEF Answer, History
<1>3. QED
  BY <1>1, <1>2 DEF HistoryAnswers

LEMMA ReadHistorySafe ==
  ASSUME IInv, NEW s \in Sites, ReadHistory(s)
  PROVE  IInv'
<1>1. PICK known \in HistoryAnswers(s), read \in BOOLEAN :
         /\ budget' = budget \/ (budget > 0 /\ budget' = budget - 1)
         /\ wk' = [wk EXCEPT ![s].stage = "devices", ![s].known = known,
                             ![s].histOk = read /\ ~(wk[s].listing /\ known = Nothing)]
  BY DEF ReadHistory
<1> DEFINE r == [wk[s] EXCEPT !.stage = "devices", !.known = known,
                              !.histOk = read /\ ~(wk[s].listing /\ known = Nothing)]
<1>2. wk' = [wk EXCEPT ![s] = r]
  BY <1>1
<1>3. r \in Worker /\ r.hit = wk[s].hit /\ r.stale = wk[s].stale
  BY HeldSound, AnswerType DEF Worker, Stages
<1>4. lock # s
  BY HeldSound DEF ReadHistory
<1> HIDE DEF r
<1>5. /\ lock' = lock /\ running /\ UNCHANGED <<nb, unifi, running, caches, everTagged>>
      /\ recent' = [recent EXCEPT ![s] = WithinGrace(s)]
  BY DEF ReadHistory
<1>6. (r.hit # None /\ r.hit.copy # None => SoundCopy(r.hit.copy))
      /\ \A x \in r.stale : SoundCopy(x) /\ x.dev.tagged
  BY <1>3, HeldSound
<1>7. QED
  BY <1>1, <1>2, <1>3, <1>4, <1>5, <1>6, RecentType, LocalStepSafe

LEMMA SiteFailsSafe ==
  ASSUME IInv, NEW s \in Sites, SiteFails(s)
  PROVE  IInv'
<1> DEFINE r == [Idle EXCEPT !.stage = "failed"]
<1>1. r \in Worker /\ r.hit = None /\ r.stale = {}
  BY DEF Idle, Worker, Stages, History
<1>2. wk' = [wk EXCEPT ![s] = r]
  BY DEF SiteFails
<1> HIDE DEF r
<1>3. /\ running /\ UNCHANGED <<nb, unifi, running, caches, everTagged>> /\ recent' = recent
      /\ budget > 0 /\ budget' = budget - 1
      /\ lock' = None \/ (lock' = lock /\ lock # s)
  BY DEF SiteFails
<1>4. QED
  BY <1>1, <1>2, <1>3, RecentType, LocalStepSafe

LEMMA EndStaleSafe ==
  ASSUME IInv, NEW s \in Sites, EndStale(s)
  PROVE  IInv'
<1> DEFINE r == [wk[s] EXCEPT !.stage = "done"]
<1>1. wk' = [wk EXCEPT ![s] = r]
  BY DEF EndStale
<1>2. r \in Worker /\ r.hit = wk[s].hit /\ r.stale = wk[s].stale
  BY HeldSound DEF Worker, Stages
<1>3. lock # s
  BY HeldSound DEF EndStale
<1> HIDE DEF r
<1>4. /\ lock' = lock /\ running /\ UNCHANGED <<nb, unifi, running, caches, everTagged>>
      /\ recent' = recent /\ budget' = budget
  BY DEF EndStale
<1>5. (r.hit # None /\ r.hit.copy # None => SoundCopy(r.hit.copy))
      /\ \A x \in r.stale : SoundCopy(x) /\ x.dev.tagged
  BY <1>2, HeldSound
<1>6. QED
  BY <1>1, <1>2, <1>3, <1>4, <1>5, RecentType, LocalStepSafe

\* What a live query returns is sound, for the history covers the stored tags.
LEMMA LiveSound ==
  ASSUME IInv, running, NEW id \in Ids, Exists(id)
  PROVE  Live(id) \in Copy /\ SoundCopy(Live(id))
<1>1. Live(id) \in Copy /\ Live(id).id = id /\ Live(id).dev = nb[id]
  BY LiveCopy DEF IInv
<1>2. QED
  BY <1>1 DEF SoundCopy, SoundAt, IInv, TagsKnown, Tagged, Exists

\* The candidates of a client lookup, whichever list they come from.
LEMMA ListedSound ==
  ASSUME IInv, running, NEW k,
         k \in macView.loaded \cup macView.added \cup {Live(id) : id \in Ids \ FreeIds}
  PROVE  k \in Copy /\ SoundCopy(k)
<1>1. CASE k \in macView.loaded \cup macView.added
  BY <1>1 DEF IInv, TypeOK, MacList, SoundMacView
<1>2. CASE \E id \in Ids \ FreeIds : k = Live(id)
  BY <1>2, LiveSound DEF FreeIds
<1>3. QED
  BY <1>1, <1>2

LEMMA FindClientSafe ==
  ASSUME IInv, NEW s \in Sites, NEW m \in Macs, FindClient(s, m)
  PROVE  IInv'
<1> DEFINE candidates == macView.loaded \cup macView.added \cup {Live(id) : id \in Ids \ FreeIds}
<1>1. PICK k \in candidates \cup {None}, v \in {"mac", "none"}, f \in {"loaded", "added", "live"} :
         wk' = [wk EXCEPT ![s].hit = [at |-> m, copy |-> k, via |-> v, from |-> f],
                          ![s].seen = @ \cup {m}]
  BY Zenon DEF FindClient
<1>2. running /\ wk[s].stage = "devices"
  BY DEF FindClient
<1>3. k # None => k \in Copy /\ SoundCopy(k)
  BY <1>1, <1>2, ListedSound
<1> DEFINE look == [at |-> m, copy |-> k, via |-> v, from |-> f]
           r    == [wk[s] EXCEPT !.hit = look, !.seen = @ \cup {m}]
<1>4. look \in Lookup /\ look # None /\ look.copy = k
  BY <1>1, <1>3, ConstantsAssumption DEF Lookup
<1>5. wk' = [wk EXCEPT ![s] = r]
  BY <1>1
<1> HIDE DEF look, candidates
<1>6. r \in Worker /\ r.hit = look /\ r.stale = wk[s].stale
  BY <1>4, HeldSound DEF Worker
<1> HIDE DEF r
<1>7. /\ lock' = lock /\ lock # s /\ UNCHANGED <<nb, unifi, running, caches, everTagged>>
      /\ recent' = recent /\ budget' = budget
  BY <1>2, HeldSound DEF FindClient
<1>8. r.hit.copy # None => SoundCopy(r.hit.copy)
  BY <1>3, <1>4, <1>6
<1>9. \A x \in r.stale : SoundCopy(x) /\ x.dev.tagged
  BY <1>6, HeldSound
<1>10. QED
  BY <1>2, <1>5, <1>6, <1>7, <1>8, <1>9, RecentType, LocalStepSafe

\* The offline pass takes on tagged clients of this site only.
LEMMA SyncedClientsSound ==
  ASSUME IInv, running, NEW s \in Sites, NEW k \in SyncedClients(s)
  PROVE  k \in Copy /\ SoundCopy(k) /\ k.dev.tagged
<1>1. k.dev.tagged /\ k \in siteView[s].devices \cup {Live(id) : id \in Ids \ FreeIds}
  BY DEF SyncedClients
<1>2. CASE k \in siteView[s].devices
  BY <1>1, <1>2 DEF IInv, TypeOK, SiteList, SoundSiteView
<1>3. CASE \E id \in Ids \ FreeIds : k = Live(id)
  BY <1>1, <1>3, LiveSound DEF FreeIds
<1>4. QED
  BY <1>1, <1>2, <1>3

LEMMA DatedType ==
  ASSUME IInv, NEW s \in Sites
  PROVE  Dated(s) \in [Macs -> History]
<1>1. wk[s].known \in [Macs -> History]
  BY DEF IInv, TypeOK, Worker
<1>2. QED
  BY <1>1 DEF Dated, History

LEMMA BeginStaleSafe ==
  ASSUME IInv, NEW s \in Sites, BeginStale(s)
  PROVE  IInv'
<1> DEFINE left == IF wk[s].histOk THEN SyncedClients(s) ELSE {}
           next == IF wk[s].histOk THEN "stale" ELSE "done"
           dated == IF wk[s].histOk THEN Dated(s) ELSE wk[s].known
           r    == [wk[s] EXCEPT !.stage = next, !.known = dated, !.stale = left]
<1>1. running /\ wk[s].stage = "devices"
  BY DEF BeginStale
<1>2. wk' = [wk EXCEPT ![s] = r]
  BY DEF BeginStale
<1>3. \A x \in left : x \in Copy /\ SoundCopy(x) /\ x.dev.tagged
  BY <1>1, SyncedClientsSound
<1>4. next \in Stages /\ dated \in [Macs -> History]
  BY DatedType, HeldSound DEF Stages, Worker
<1> HIDE DEF left, next, dated
<1>5. r \in Worker /\ r.hit = wk[s].hit /\ r.stale = left
  BY <1>3, <1>4, HeldSound DEF Worker
<1> HIDE DEF r
<1>6. /\ lock' = lock /\ lock # s /\ UNCHANGED <<nb, unifi, running, caches, everTagged>>
      /\ recent' = recent /\ budget' = budget
  BY <1>1, HeldSound DEF BeginStale
<1>7. r.hit # None /\ r.hit.copy # None => SoundCopy(r.hit.copy)
  BY <1>5, HeldSound
<1>8. QED
  BY <1>1, <1>2, <1>3, <1>5, <1>6, <1>7, RecentType, LocalStepSafe

-------------------------------------------------------------------------------
(* The steps that write.                                                     *)

\* A write and the record it leaves in the lists, followed by the release of the
\* device or client it was for.
LEMMA WriteSafe ==
  ASSUME IInv, running, running' = running, NEW s \in Sites, NEW w, SoundWrite(w), Store(w),
         \/ UNCHANGED caches
         \/ wk[s].hit # None /\ Remember(w, wk[s].hit, s) /\ macJoin' = macJoin,
         wk' = [wk EXCEPT ![s] = Released(s)],
         UNCHANGED unifi, recent' = recent,
         budget' = budget \/ (budget > 0 /\ budget' = budget - 1),
         lock' = None \/ (lock' = lock /\ lock # s)
  PROVE  IInv'
<1> DEFINE k == [id |-> w.id, dev |-> w.held]
<1>1. /\ TableGrows /\ nb'[w.id] # None
      /\ w.held.tagged => w.id \in everTagged'
  BY StoreGrows
<1>2. SoundAfter(k)
  BY <1>1 DEF SoundAfter, SoundAt
<1>3. ListsGrow(k)
  <2>1. CASE UNCHANGED caches
    BY <2>1 DEF caches, ListsGrow, IInv, TypeOK
  <2>2. CASE wk[s].hit # None /\ Remember(w, wk[s].hit, s)
    <3>1. wk[s].hit \in Lookup
      BY <2>2, HeldSound DEF Worker
    <3>2. QED
      BY <2>2, <3>1, RememberGrows DEF SoundWrite, IInv
  <2>3. QED
    BY <2>1, <2>2
<1> HIDE DEF k
<1>4. /\ macView' \in MacList
      /\ \A x \in macView'.loaded \cup macView'.added :
           x \in macView.loaded \cup macView.added \/ SoundAfter(x)
      /\ siteView' \in [Sites -> SiteList]
      /\ \A t \in Sites : \A x \in siteView'[t].devices : x \in siteView[t].devices \/ SoundAfter(x)
  BY <1>2, <1>3 DEF ListsGrow
<1>5. macJoin' \in BOOLEAN
  BY DEF caches, IInv, TypeOK
<1>6. QED
  BY <1>1, <1>4, <1>5, ReleasedType, RecentType, StepSafe

LEMMA HardwareWriteSafe ==
  ASSUME IInv, NEW s \in Sites, CreateHardware(s) \/ UpdateHardware(s)
  PROVE  IInv'
<1>1. PICK w \in HardwareWrites(s) : Store(w) /\ Remember(w, wk[s].hit, s)
  BY DEF CreateHardware, UpdateHardware
<1>2. /\ lock = s /\ lock' = None /\ wk' = [wk EXCEPT ![s] = Released(s)]
      /\ UNCHANGED <<unifi, macJoin>> /\ running' = running /\ recent' = recent /\ budget' = budget
  BY DEF HardwareLookedUp, CreateHardware, UpdateHardware, ReleaseHardware, Released
<1>3. running /\ wk[s].hit # None
  BY <1>2, HeldSound
<1>4. SoundWrite(w)
  BY <1>2, HardwareWritesSound
<1>5. QED
  BY <1>1, <1>2, <1>3, <1>4, WriteSafe

LEMMA HardwareErrorSafe ==
  ASSUME IInv, NEW s \in Sites, HardwareError(s)
  PROVE  IInv'
<1>1. /\ lock = s /\ lock' = None /\ wk' = [wk EXCEPT ![s] = Released(s)]
      /\ UNCHANGED <<unifi, running, caches>> /\ recent' = recent
      /\ budget > 0 /\ budget' = budget - 1
  BY DEF HardwareLookedUp, HardwareError, ReleaseHardware, Released
<1>2. running
  BY <1>1, HeldSound
<1>3. CASE UNCHANGED <<nb, everTagged>>
  BY <1>1, <1>2, <1>3, ReleasedType, RecentType, LocalStepSafe
<1>4. ASSUME NEW w \in HardwareWrites(s), Store(w)
      PROVE  IInv'
  <2>1. SoundWrite(w)
    BY <1>1, HardwareWritesSound
  <2>2. QED
    BY <1>1, <1>2, <1>4, <2>1, WriteSafe
<1>5. QED
  BY <1>3, <1>4 DEF HardwareError

LEMMA ClientRunning ==
  ASSUME IInv, NEW s \in Sites, ClientLookedUp(s)
  PROVE  running /\ lock # s /\ wk[s].hit # None
<1>1. wk[s].stage = "devices" /\ wk[s].hit # None
  BY DEF ClientLookedUp
<1>2. QED
  BY <1>1, HeldSound DEF IInv, Quiet, Idle

LEMMA ClientWriteSafe ==
  ASSUME IInv, NEW s \in Sites, CreateClient(s) \/ UpdateClient(s)
  PROVE  IInv'
<1>1. PICK w \in ClientWrites(s) : Store(w) /\ Remember(w, wk[s].hit, s)
  BY DEF CreateClient, UpdateClient
<1>2. /\ ClientLookedUp(s) /\ lock' = lock /\ wk' = [wk EXCEPT ![s] = Released(s)]
      /\ UNCHANGED <<unifi, macJoin>> /\ running' = running /\ recent' = recent /\ budget' = budget
  BY DEF CreateClient, UpdateClient, DoneWithClient, Released
<1>3. SoundWrite(w)
  BY <1>2, ClientWritesSound
<1>4. QED
  BY <1>1, <1>2, <1>3, ClientRunning, WriteSafe

LEMMA ClientErrorSafe ==
  ASSUME IInv, NEW s \in Sites, ClientError(s)
  PROVE  IInv'
<1>1. /\ ClientLookedUp(s) /\ lock' = lock /\ wk' = [wk EXCEPT ![s] = Released(s)]
      /\ UNCHANGED <<unifi, running, caches>> /\ recent' = recent
      /\ budget > 0 /\ budget' = budget - 1
  BY DEF ClientError, DoneWithClient, Released
<1>2. running /\ lock # s
  BY <1>1, ClientRunning
<1>3. CASE UNCHANGED <<nb, everTagged>>
  BY <1>1, <1>2, <1>3, ReleasedType, RecentType, LocalStepSafe
<1>4. ASSUME NEW w \in ClientWrites(s), Store(w)
      PROVE  IInv'
  <2>1. SoundWrite(w)
    BY <1>1, ClientWritesSound
  <2>2. QED
    BY <1>1, <1>2, <1>4, <2>1, WriteSafe
<1>5. QED
  BY <1>3, <1>4 DEF ClientError

\* An offline mark changes the status of a tagged device and nothing else.
LEMMA OfflineMarkGrows ==
  ASSUME IInv, running, NEW k \in Copy, SoundCopy(k), everTagged' = everTagged,
         nb' = [nb EXCEPT ![k.id].status = "offline"]
  PROVE  TableGrows /\ \A id \in Ids : id # k.id => nb'[id] = nb[id]
<1>1. k.id \in Ids /\ nb[k.id] \in Device /\ nb \in [Ids -> Device \cup {None}]
  BY DEF Copy, SoundCopy, SoundAt, IInv, TypeOK
<1>2. [nb[k.id] EXCEPT !.status = "offline"] \in Device
  BY <1>1 DEF Device, Statuses
<1>3. [nb[k.id] EXCEPT !.status = "offline"].tagged = nb[k.id].tagged
  BY <1>1 DEF Device
<1> DEFINE d == [nb[k.id] EXCEPT !.status = "offline"]
<1>4. nb' = [nb EXCEPT ![k.id] = d]
  BY <1>1
<1>5. d # None /\ nb[k.id] # None
  BY <1>1, <1>2, ConstantsAssumption
<1> HIDE DEF d
<1>6. nb' \in [Ids -> Device \cup {None}] /\ nb'[k.id] = d /\ \A id \in Ids : id # k.id => nb'[id] = nb[id]
  BY <1>1, <1>2, <1>4 DEF d
<1>7. Tagged(nb) \subseteq everTagged /\ everTagged \subseteq Ids
  BY DEF IInv, TagsKnown, TypeOK
<1>8. Tagged(nb)' \subseteq everTagged'
  BY <1>1, <1>3, <1>5, <1>6, <1>7 DEF Tagged, d
<1>9. QED
  BY <1>1, <1>5, <1>6, <1>7, <1>8 DEF TableGrows, Exists

LEMMA MarkStaleSafe ==
  ASSUME IInv, NEW s \in Sites, NEW c \in wk[s].stale, MarkStale(s, c)
  PROVE  IInv'
<1>1. running /\ wk[s].stage = "stale" /\ c \in Copy /\ SoundCopy(c)
  BY HeldSound DEF MarkStale, Worker
<1>2. TableGrows
  <2>1. CASE nb' = [nb EXCEPT ![c.id].status = "offline"]
    BY <1>1, <2>1, OfflineMarkGrows DEF MarkStale
  <2>2. CASE nb' = nb
    BY <1>1, <2>2 DEF MarkStale, TableGrows, IInv, TypeOK, TagsKnown, Exists, Tagged
  <2>3. QED
    BY <2>1, <2>2 DEF MarkStale
<1> DEFINE r == [wk[s] EXCEPT !.stale = @ \ {c}]
<1>3. wk' = [wk EXCEPT ![s] = r]
  BY DEF MarkStale
<1>4. r \in Worker /\ r.hit = wk[s].hit /\ r.stale = wk[s].stale \ {c}
  BY HeldSound DEF Worker
<1> HIDE DEF r
<1>5. /\ lock' = lock /\ lock # s /\ UNCHANGED unifi /\ running' = running
      /\ recent' = recent /\ budget' = budget
  BY <1>1, HeldSound DEF MarkStale
<1>6. /\ macView' \in MacList /\ siteView' \in [Sites -> SiteList] /\ macJoin' \in BOOLEAN
      /\ \A x \in macView'.loaded \cup macView'.added : x \in macView.loaded \cup macView.added
      /\ \A t \in Sites : \A x \in siteView'[t].devices : x \in siteView[t].devices
  BY DEF MarkStale, caches, IInv, TypeOK
<1>7. /\ r.hit # None /\ r.hit.copy # None => SoundCopy(r.hit.copy)
      /\ \A x \in r.stale : SoundCopy(x) /\ x.dev.tagged
  BY <1>4, HeldSound
<1>8. QED
  BY <1>1, <1>2, <1>3, <1>4, <1>5, <1>6, <1>7, RecentType, StepSafe

-------------------------------------------------------------------------------
(* The ends of a run, and what happens around it.                            *)

LEMMA PrefetchedSound ==
  ASSUME TypeOK, nb' = nb, Tagged(nb) \subseteq everTagged',
         NEW macsOk \in BOOLEAN, NEW sitesOk \in SUBSET Sites, Prefetched(macsOk, sitesOk)
  PROVE  /\ macView' \in MacList /\ siteView' \in [Sites -> SiteList]
         /\ \A x \in macView'.loaded \cup macView'.added : SoundAfter(x)
         /\ \A t \in Sites : \A x \in siteView'[t].devices : SoundAfter(x)
<1>1. \A id \in Ids \ FreeIds : Live(id) \in Copy /\ SoundAfter(Live(id))
  <2>1. \A id \in Ids \ FreeIds : Live(id) \in Copy /\ Live(id).id = id /\ Live(id).dev = nb[id]
    BY LiveCopy DEF FreeIds
  <2>2. QED
    BY <2>1 DEF SoundAfter, SoundAt, FreeIds, Exists, Tagged
<1> DEFINE all == {Live(id) : id \in Ids \ FreeIds}
<1>2. \A x \in all : x \in Copy /\ SoundAfter(x)
  BY <1>1
<1>3. PICK loaded \in SUBSET all :
         macView' = IF macsOk THEN [ok |-> TRUE, loaded |-> loaded, added |-> {}] ELSE NoMacList
  BY DEF Prefetched
<1>4. \A t \in Sites : siteView'[t] = NoSiteList \/ \E d \in SUBSET all : siteView'[t] = [ok |-> TRUE, devices |-> d]
  BY DEF Prefetched
<1>5. DOMAIN siteView' = Sites /\ siteView' = [t \in Sites |-> siteView'[t]]
  BY DEF Prefetched
<1> HIDE DEF all
<1>6. macView' \in MacList /\ \A x \in macView'.loaded \cup macView'.added : SoundAfter(x)
  BY <1>2, <1>3 DEF MacList, NoMacList
<1>7. \A t \in Sites : siteView'[t] \in SiteList /\ \A x \in siteView'[t].devices : SoundAfter(x)
  <2>1. \A d \in SUBSET all : [ok |-> TRUE, devices |-> d] \in SiteList
    BY <1>2 DEF SiteList
  <2>2. NoSiteList \in SiteList /\ NoSiteList.devices = {}
    BY DEF SiteList, NoSiteList
  <2>3. ASSUME NEW t \in Sites PROVE siteView'[t] \in SiteList /\ siteView'[t].devices \subseteq all
    <3>1. CASE siteView'[t] = NoSiteList
      BY <2>2, <3>1
    <3>2. CASE \E d \in SUBSET all : siteView'[t] = [ok |-> TRUE, devices |-> d]
      <4>1. PICK d \in SUBSET all : siteView'[t] = [ok |-> TRUE, devices |-> d]
        BY <3>2
      <4>2. siteView'[t].devices = d
        BY <4>1
      <4>3. QED
        BY <2>1, <4>1, <4>2
    <3>3. QED
      BY <1>4, <3>1, <3>2
  <2>4. QED
    BY <1>2, <2>3
<1>8. QED
  BY <1>5, <1>6, <1>7

LEMMA StartRunSafe ==
  ASSUME IInv, StartRun
  PROVE  IInv'
<1>1. macView = NoMacList /\ siteView = [s \in Sites |-> NoSiteList] /\ ~running
  BY DEF StartRun, IInv, Quiet
<1>2. /\ nb' = nb /\ running' = TRUE /\ UNCHANGED <<unifi, macJoin, lock, recent>>
      /\ everTagged' = Tagged(nb)
  BY DEF StartRun
<1>3. /\ macView' \in MacList /\ siteView' \in [Sites -> SiteList]
      /\ \A x \in macView'.loaded \cup macView'.added : SoundAfter(x)
      /\ \A t \in Sites : \A x \in siteView'[t].devices : SoundAfter(x)
  <2>1. CASE UNCHANGED caches
    BY <1>1, <2>1 DEF caches, IInv, TypeOK, NoMacList, NoSiteList
  <2>2. ASSUME NEW macsOk \in BOOLEAN, NEW sitesOk \in SUBSET Sites, Prefetched(macsOk, sitesOk)
        PROVE  <1>3!:
    BY <1>2, <2>2, PrefetchedSound DEF IInv
  <2>3. (\E macsOk \in BOOLEAN, sitesOk \in SUBSET Sites : Prefetched(macsOk, sitesOk)) \/ UNCHANGED caches
    BY Zenon DEF StartRun
  <2>4. QED
    BY <2>1, <2>2, <2>3
<1> DEFINE r == [Idle EXCEPT !.stage = IF SyncUnifiDevices THEN "infra" ELSE "clients"]
<1>4. r \in Worker /\ r.hit = None /\ r.stale = {}
  BY IdleType DEF Idle, Worker, Stages
<1>5. wk' = [s \in Sites |-> r]
  BY DEF StartRun
<1> HIDE DEF r
<1>6. TypeOK'
  <2>0. budget' = budget \/ (budget > 0 /\ budget' = budget - 1)
    BY Zenon DEF StartRun
  <2>1. budget' \in 0..Budget
    BY <2>0, ConstantsAssumption DEF IInv, TypeOK
  <2>2. wk' \in [Sites -> Worker] /\ Tagged(nb) \subseteq Ids
    BY <1>4, <1>5 DEF Tagged
  <2>3. QED
    BY <1>2, <1>3, <2>1, <2>2 DEF TypeOK, IInv, unifi
<1>7. LockHeld'
  <2>1. \A s \in Sites : lock # s
    BY <1>1 DEF IInv, LockHeld
  <2>2. QED
    BY <1>2, <2>1 DEF LockHeld
<1>8. Quiet' /\ TagsKnown'
  BY <1>2 DEF Quiet, TagsKnown, Tagged
<1>9. SoundMacView' /\ SoundSiteView'
  BY <1>3 DEF SoundMacView, SoundSiteView, SoundCopy, SoundAfter
<1>10. SoundHits' /\ SoundStale'
  BY <1>4, <1>5 DEF SoundHits, SoundStale
<1>11. QED
  BY <1>6, <1>7, <1>8, <1>9, <1>10 DEF IInv

LEMMA EndRunSafe ==
  ASSUME IInv, EndRun
  PROVE  IInv'
<1>1. /\ macView' = NoMacList /\ siteView' = [s \in Sites |-> NoSiteList]
      /\ wk' = [s \in Sites |-> Idle] /\ running' = FALSE
      /\ everTagged' = {} /\ recent' = [s \in Sites |-> {}] /\ macJoin' = TRUE
      /\ UNCHANGED <<nb, unifi, lock, budget>>
  BY DEF EndRun
<1>2. TypeOK'
  BY <1>1, IdleType DEF IInv, TypeOK, MacList, NoMacList, SiteList, NoSiteList, unifi
<1>3. LockHeld'
  <2>1. \A s \in Sites : lock # s
    BY DEF IInv, LockHeld, EndRun
  <2>2. QED
    BY <1>1, <2>1 DEF LockHeld
<1>4. Quiet' /\ TagsKnown' /\ SoundMacView' /\ SoundSiteView' /\ SoundHits' /\ SoundStale'
  BY <1>1 DEF Quiet, TagsKnown, SoundMacView, SoundSiteView, SoundHits, SoundStale,
              NoMacList, NoSiteList, Idle
<1>5. QED
  BY <1>2, <1>3, <1>4 DEF IInv

\* A step around the run keeps the process as it is and only adds to the table.
LEMMA OutsideStepSafe ==
  ASSUME IInv, UNCHANGED <<running, caches, lock, wk>>,
         recent' \in [Sites -> SUBSET Macs],
         adopted' \in [Macs -> Sites \cup {None}],
         presence' \in [Sites -> [Macs -> Presence]],
         budget' \in 0..Budget,
         nb' \in [Ids -> Device \cup {None}],
         everTagged' \in SUBSET Ids,
         everTagged \subseteq everTagged',
         running => Tagged(nb)' \subseteq everTagged',
         \A id \in Ids : Exists(id) => nb'[id] # None
  PROVE  IInv'
<1>1. TypeOK'
  BY DEF IInv, TypeOK, caches
<1>2. LockHeld' /\ Quiet' /\ TagsKnown'
  BY DEF IInv, LockHeld, Quiet, TagsKnown, caches
<1>3. ASSUME NEW k \in Copy, SoundCopy(k) PROVE SoundAfter(k)
  BY <1>3 DEF SoundCopy, SoundAfter, SoundAt, Exists, Copy
<1>4. SoundMacView' /\ SoundSiteView'
  <2>1. \A x \in macView.loaded \cup macView.added : x \in Copy /\ SoundCopy(x)
    BY DEF IInv, TypeOK, MacList, SoundMacView
  <2>2. \A t \in Sites : \A x \in siteView[t].devices : x \in Copy /\ SoundCopy(x)
    BY DEF IInv, TypeOK, SiteList, SoundSiteView
  <2>3. QED
    BY <1>3, <2>1, <2>2 DEF SoundMacView, SoundSiteView, SoundCopy, SoundAfter, caches
<1>5. SoundHits'
  <2>1. \A t \in Sites : wk[t].hit # None /\ wk[t].hit.copy # None
                           => wk[t].hit.copy \in Copy /\ SoundCopy(wk[t].hit.copy)
    BY DEF IInv, TypeOK, Worker, Lookup, SoundHits
  <2>2. QED
    BY <1>3, <2>1 DEF SoundHits, SoundCopy, SoundAfter
<1>6. SoundStale'
  <2>1. \A t \in Sites : \A x \in wk[t].stale : x \in Copy /\ SoundCopy(x) /\ x.dev.tagged
    BY DEF IInv, TypeOK, Worker, SoundStale
  <2>2. QED
    BY <1>3, <2>1 DEF SoundStale, SoundCopy, SoundAfter
<1>7. QED
  BY <1>1, <1>2, <1>4, <1>5, <1>6 DEF IInv

LEMMA OperatorEditSafe ==
  ASSUME IInv, NEW id \in Ids, OperatorEdit(id)
  PROVE  IInv'
<1>1. nb[id] \in Device /\ nb \in [Ids -> Device \cup {None}] /\ everTagged \subseteq Ids
  BY DEF IInv, TypeOK, OperatorEdit, Exists
<1>2. PICK dev \in {[nb[id] EXCEPT !.tagged = ~@], [nb[id] EXCEPT !.optout = ~@],
                    [nb[id] EXCEPT !.role = "other"]} :
         /\ nb' = [nb EXCEPT ![id] = dev]
         /\ everTagged' = IF dev.tagged /\ running THEN everTagged \cup {id} ELSE everTagged
  BY DEF OperatorEdit
<1>3. dev \in Device /\ dev # None
  <2>1. ASSUME NEW b \in BOOLEAN
        PROVE  /\ [nb[id] EXCEPT !.tagged = b] \in Device
               /\ [nb[id] EXCEPT !.optout = b] \in Device
    BY <1>1 DEF Device
  <2>2. [nb[id] EXCEPT !.role = "other"] \in Device
    BY <1>1 DEF Device, Roles
  <2>3. (~nb[id].tagged) \in BOOLEAN /\ (~nb[id].optout) \in BOOLEAN
    OBVIOUS
  <2>4. dev \in Device
    BY <1>2, <2>1, <2>2, <2>3, Zenon
  <2>5. QED
    BY <2>4, ConstantsAssumption
<1>4. /\ UNCHANGED <<unifi, running, caches, lock, wk, recent>>
      /\ budget > 0 /\ budget' = budget - 1
  BY DEF OperatorEdit
<1>5. budget' \in 0..Budget
  BY <1>4, ConstantsAssumption DEF IInv, TypeOK
<1>6. /\ nb' \in [Ids -> Device \cup {None}] /\ nb'[id] = dev
      /\ \A i \in Ids : i # id => nb'[i] = nb[i]
  BY <1>1, <1>2, <1>3
<1>7. running => Tagged(nb)' \subseteq everTagged'
  BY <1>2, <1>6 DEF IInv, TagsKnown, Tagged
<1>8. everTagged' \in SUBSET Ids /\ everTagged \subseteq everTagged'
  BY <1>1, <1>2
<1>9. \A i \in Ids : Exists(i) => nb'[i] # None
  BY <1>3, <1>6 DEF Exists
<1>10. /\ adopted' \in [Macs -> Sites \cup {None}] /\ presence' \in [Sites -> [Macs -> Presence]]
       /\ recent' \in [Sites -> SUBSET Macs]
  BY <1>4 DEF IInv, TypeOK, unifi
<1>11. QED
  BY <1>4, <1>5, <1>6, <1>7, <1>8, <1>9, <1>10, OutsideStepSafe

LEMMA UnifiStepSafe ==
  ASSUME IInv, NEW s \in Sites, NEW m \in Macs, ClientMoves(s, m) \/ SightingAges(s, m) \/ Readopt(m, s)
  PROVE  IInv'
<1>1. /\ UNCHANGED <<nb, running, caches, lock, wk, everTagged>>
      /\ budget > 0 /\ budget' = budget - 1
  BY DEF ClientMoves, SightingAges, Readopt
<1>2. budget' \in 0..Budget
  BY <1>1, ConstantsAssumption DEF IInv, TypeOK
<1>3. /\ adopted' \in [Macs -> Sites \cup {None}] /\ presence' \in [Sites -> [Macs -> Presence]]
      /\ recent' \in [Sites -> SUBSET Macs]
  <2>1. /\ adopted \in [Macs -> Sites \cup {None}] /\ presence \in [Sites -> [Macs -> Presence]]
        /\ recent \in [Sites -> SUBSET Macs]
    BY DEF IInv, TypeOK
  <2>2. CASE ClientMoves(s, m)
    <3>1. PICK next \in Presence : presence' = [presence EXCEPT ![s][m] = next]
      BY <2>2 DEF ClientMoves, Presence
    <3>2. recent' = recent \/ recent' = [recent EXCEPT ![s] = @ \ {m}]
      BY <2>2 DEF ClientMoves
    <3>3. QED
      BY <2>1, <2>2, <3>1, <3>2 DEF ClientMoves
  <2>3. CASE SightingAges(s, m)
    BY <2>1, <2>3 DEF SightingAges, unifi
  <2>4. CASE Readopt(m, s)
    BY <2>1, <2>4 DEF Readopt
  <2>5. QED
    BY <2>2, <2>3, <2>4
<1>4. /\ nb' \in [Ids -> Device \cup {None}] /\ everTagged' \in SUBSET Ids
      /\ running => Tagged(nb)' \subseteq everTagged'
      /\ \A i \in Ids : Exists(i) => nb'[i] # None
      /\ everTagged \subseteq everTagged'
  BY <1>1 DEF IInv, TypeOK, TagsKnown, Tagged, Exists
<1>5. UNCHANGED <<running, caches, lock, wk>>
  BY <1>1
<1>6. QED
  BY <1>2, <1>3, <1>4, <1>5, OutsideStepSafe

-------------------------------------------------------------------------------
(* The invariant holds of every behaviour.                                   *)

LEMMA InitSafe == Init => IInv
<1> SUFFICES ASSUME Init PROVE IInv
  OBVIOUS
<1>1. TypeOK
  <2>1. Budget \in 0..Budget
    BY ConstantsAssumption
  <2>2. nb \in [Ids -> Device \cup {None}]
    BY ConstantsAssumption DEF Init
  <2>3. presence \in [Sites -> [Macs -> Presence]]
    BY DEF Init, Presence
  <2>4. QED
    BY <2>1, <2>2, <2>3, IdleType DEF Init, TypeOK, MacList, NoMacList, SiteList, NoSiteList
<1>2. LockHeld
  BY ConstantsAssumption DEF Init, LockHeld
<1>3. Quiet /\ TagsKnown /\ SoundMacView /\ SoundSiteView /\ SoundHits /\ SoundStale
  BY DEF Init, Quiet, TagsKnown, SoundMacView, SoundSiteView, SoundHits, SoundStale,
         NoMacList, NoSiteList, Idle
<1>4. QED
  BY <1>1, <1>2, <1>3 DEF IInv

LEMMA WorkerStepSafe ==
  ASSUME IInv, NEW s \in Sites, WorkerStep(s)
  PROVE  IInv'
<1>1. CASE InfraStep(s)
  BY <1>1, ListHardwareSafe, FindHardwareSafe, SkipHardwareSafe, HardwareWriteSafe,
     HardwareErrorSafe DEF InfraStep
<1>2. CASE ClientStep(s)
  BY <1>2, ListClientsSafe, ReadHistorySafe, FindClientSafe, SkipClientSafe, ClientWriteSafe,
     ClientErrorSafe DEF ClientStep
<1>3. CASE StaleStep(s)
  BY <1>3, BeginStaleSafe, MarkStaleSafe, EndStaleSafe DEF StaleStep
<1>4. CASE SiteFails(s)
  BY <1>4, SiteFailsSafe
<1>5. QED
  BY <1>1, <1>2, <1>3, <1>4 DEF WorkerStep

LEMMA StutterSafe ==
  ASSUME IInv, UNCHANGED vars
  PROVE  IInv'
<1>1. UNCHANGED <<nb, adopted, presence, running, macView, siteView, macJoin, lock, wk, everTagged,
                  recent, budget>>
  BY DEF vars
<1>2. QED
  BY <1>1 DEF IInv, TypeOK, LockHeld, Quiet, TagsKnown, Tagged, SoundMacView, SoundSiteView,
              SoundHits, SoundStale, SoundCopy

LEMMA NextSafe == IInv /\ [Next]_vars => IInv'
<1> SUFFICES ASSUME IInv, [Next]_vars PROVE IInv'
  OBVIOUS
<1>1. CASE StartRun
  BY <1>1, StartRunSafe
<1>2. CASE EndRun
  BY <1>2, EndRunSafe
<1>3. CASE \E s \in Sites : WorkerStep(s)
  BY <1>3, WorkerStepSafe
<1>4. CASE Environment
  BY <1>4, OperatorEditSafe, UnifiStepSafe DEF Environment
<1>5. CASE UNCHANGED vars
  BY <1>5, StutterSafe
<1>6. QED
  BY <1>1, <1>2, <1>3, <1>4, <1>5 DEF Next

\* The records that the workers, the lookups and the lists hold are sound in
\* every reachable state.
THEOREM RecordsSound == Spec => []IInv
BY InitSafe, NextSafe, PTL DEF Spec

\* TypeOK for any number of sites, addresses, devices and steps.
THEOREM TypeCorrect == Spec => []TypeOK
<1>1. IInv => TypeOK
  BY DEF IInv
<1>2. QED
  BY <1>1, RecordsSound, PTL

-------------------------------------------------------------------------------
(* What the sync may write to.                                               *)

\* A write of a worker goes to a device the history knows, or to a new one.
LEMMA StoreTagged ==
  ASSUME IInv, running, NEW w, SoundWrite(w), Store(w),
         Exists(w.id) => w.id \in everTagged,
         NEW id \in Ids, Exists(id), id \notin everTagged
  PROVE  nb'[id] = nb[id]
BY StoreGrows

LEMMA WorkerWritesTagged ==
  ASSUME IInv, NEW s \in Sites, WorkerStep(s), NEW id \in Ids, Exists(id), id \notin everTagged
  PROVE  nb'[id] = nb[id]
<1>1. CASE CreateHardware(s) \/ UpdateHardware(s) \/ HardwareError(s)
  <2>1. lock = s /\ running
    BY <1>1, HeldSound DEF HardwareLookedUp, CreateHardware, UpdateHardware, HardwareError
  <2>2. nb' = nb \/ \E w \in HardwareWrites(s) : Store(w)
    BY <1>1 DEF CreateHardware, UpdateHardware, HardwareError
  <2>3. QED
    BY <2>1, <2>2, HardwareWritesSound, StoreTagged
<1>2. CASE CreateClient(s) \/ UpdateClient(s) \/ ClientError(s)
  <2>1. ClientLookedUp(s)
    BY <1>2 DEF CreateClient, UpdateClient, ClientError
  <2>2. nb' = nb \/ \E w \in ClientWrites(s) : Store(w)
    BY <1>2 DEF CreateClient, UpdateClient, ClientError
  <2>3. QED
    BY <2>1, <2>2, ClientRunning, ClientWritesSound, StoreTagged
<1>3. ASSUME NEW c \in wk[s].stale, MarkStale(s, c)
      PROVE  nb'[id] = nb[id]
  <2>1. running /\ c \in Copy /\ SoundCopy(c) /\ c.id \in everTagged
    BY <1>3, HeldSound DEF MarkStale, Worker, SoundCopy, SoundAt
  <2>2. nb' = nb \/ nb' = [nb EXCEPT ![c.id].status = "offline"]
    BY <1>3 DEF MarkStale
  <2>3. everTagged' = everTagged
    BY <1>3 DEF MarkStale
  <2>4. QED
    BY <2>1, <2>2, <2>3, OfflineMarkGrows
<1>4. CASE \/ ListHardware(s) \/ (\E m \in Macs : FindHardware(s, m)) \/ SkipHardware(s)
           \/ ListClients(s) \/ ReadHistory(s) \/ (\E m \in Macs : FindClient(s, m))
           \/ SkipClient(s) \/ BeginStale(s) \/ EndStale(s) \/ SiteFails(s)
  BY <1>4 DEF ListHardware, FindHardware, SkipHardware, ListClients, ReadHistory, FindClient,
              SkipClient, BeginStale, EndStale, SiteFails
<1>5. QED
  BY <1>1, <1>2, <1>3, <1>4 DEF WorkerStep, InfraStep, ClientStep, StaleStep

\* No step of the sync changes a device that did not carry the sync tag at some
\* point of the run, through whatever list, lookup or race it came to it.
THEOREM TaggedWritesOnly == Spec => OnlyTaggedWritten
<1>1. ASSUME IInv, Next, NEW id \in Ids, wk' # wk, Exists(id), id \notin everTagged
      PROVE  nb'[id] = nb[id]
  <2>1. CASE StartRun \/ EndRun
    BY <2>1 DEF StartRun, EndRun
  <2>2. CASE \E s \in Sites : WorkerStep(s)
    BY <1>1, <2>2, WorkerWritesTagged
  <2>3. CASE Environment
    BY <1>1, <2>3 DEF Environment, OperatorEdit, ClientMoves, SightingAges, Readopt
  <2>4. QED
    BY <1>1, <2>1, <2>2, <2>3 DEF Next
<1>2. IInv /\ [Next]_vars
        => [\A id \in Ids : SyncStep /\ Exists(id) /\ id \notin everTagged => nb'[id] = nb[id]]_vars
  BY <1>1 DEF SyncStep
<1>3. QED
  BY <1>2, RecordsSound, PTL DEF Spec, OnlyTaggedWritten

-------------------------------------------------------------------------------
(* What a step does to the table.                                            *)

\* The writes of the three passes, whether the process hears of them or not.
HardwareStore(s) ==
    /\ lock = s /\ lock' = None /\ wk' = [wk EXCEPT ![s] = Released(s)]
    /\ \E w \in HardwareWrites(s) : Store(w)
ClientStore(s) ==
    /\ ClientLookedUp(s) /\ lock' = lock /\ wk' = [wk EXCEPT ![s] = Released(s)]
    /\ \E w \in ClientWrites(s) : Store(w)
OfflineStore(s)  == \E c \in wk[s].stale : MarkStale(s, c)

LEMMA TableChanges ==
  ASSUME IInv, [Next]_vars
  PROVE  \/ nb' = nb
         \/ \E s \in Sites : HardwareStore(s) \/ ClientStore(s) \/ OfflineStore(s)
         \/ \E id \in Ids : OperatorEdit(id)
<1>1. ASSUME NEW s \in Sites, CreateHardware(s) \/ UpdateHardware(s) \/ HardwareError(s)
      PROVE  nb' = nb \/ HardwareStore(s)
  BY <1>1 DEF CreateHardware, UpdateHardware, HardwareError, HardwareLookedUp, ReleaseHardware,
       Released, HardwareStore
<1>2. ASSUME NEW s \in Sites, CreateClient(s) \/ UpdateClient(s) \/ ClientError(s)
      PROVE  nb' = nb \/ ClientStore(s)
  BY <1>2 DEF CreateClient, UpdateClient, ClientError, DoneWithClient, Released, ClientStore
<1>3. ASSUME NEW s \in Sites, WorkerStep(s)
      PROVE  nb' = nb \/ HardwareStore(s) \/ ClientStore(s) \/ OfflineStore(s)
  BY <1>1, <1>2, <1>3 DEF WorkerStep, InfraStep, ClientStep, StaleStep, ListHardware, FindHardware, SkipHardware,
       ListClients, ReadHistory, FindClient, SkipClient, BeginStale, EndStale, SiteFails, OfflineStore
<1>4. CASE Environment
  BY <1>4 DEF Environment, ClientMoves, SightingAges, Readopt
<1>5. CASE StartRun \/ EndRun \/ UNCHANGED vars
  BY <1>5 DEF StartRun, EndRun, vars
<1>6. QED
  BY <1>3, <1>4, <1>5 DEF Next

\* What a PATCH of a held record leaves in a field of the stored one.
Sent(k, want, f) == IF k.dev[f] # want[f] THEN want[f] ELSE nb[k.id][f]

LEMMA ReconciledFields ==
  ASSUME NEW k \in Copy, nb[k.id] \in Device, NEW want \in Device, NEW f \in DOMAIN nb[k.id]
  PROVE  Reconciled(k, want).dev[f] = Sent(k, want, f)
BY DEF Reconciled, Written, Patched, Sent

\* What the hardware pass and the client pass want of a record.
LEMMA HardwareWantedFields ==
  ASSUME NEW e \in Device, NEW via, NEW m \in Macs, NEW s \in Sites,
         NEW want, want = HardwareWanted(e, via, m, s)
  PROVE  /\ want.site = e.site \/ (MoveSite(e, m, s) /\ want.site = s)
         /\ want.mac \in {e.mac, m}
         /\ want.role \in {e.role, "infra"} /\ want.type \in {e.type, "infra"}
         /\ want.status \in {e.status, HardwareStatus(s)}
<1>1. ASSUME NEW full \in BOOLEAN, NEW moved \in BOOLEAN, NEW keep \in BOOLEAN,
             NEW r, r = HardwareFields(e, m, s, full, moved, keep)
      PROVE  /\ r.site = IF moved THEN s ELSE e.site
             /\ r.mac \in {e.mac, m}
             /\ r.role \in {e.role, "infra"} /\ r.type \in {e.type, "infra"}
             /\ r.status \in {e.status, HardwareStatus(s)}
  BY <1>1 DEF HardwareFields, Device
<1>2. MoveSite(e, m, s) \in BOOLEAN /\ (Legacy(e, m) \/ UpdatePolicy # "create-only") \in BOOLEAN
      /\ (via = "owned-mac" /\ e.mac # None) \in BOOLEAN
  BY DEF MoveSite
<1>3. CASE want = e
  BY <1>3
<1>4. CASE want = HardwareFields(e, m, s, Legacy(e, m) \/ UpdatePolicy # "create-only", MoveSite(e, m, s),
                                 via = "owned-mac" /\ e.mac # None)
  <2>1. /\ want.site = IF MoveSite(e, m, s) THEN s ELSE e.site
        /\ want.mac \in {e.mac, m}
        /\ want.role \in {e.role, "infra"} /\ want.type \in {e.type, "infra"}
        /\ want.status \in {e.status, HardwareStatus(s)}
    BY <1>1, <1>2, <1>4, Zenon
  <2>2. QED
    BY <2>1
<1>5. want = e \/ want = HardwareFields(e, m, s, Legacy(e, m) \/ UpdatePolicy # "create-only",
                                       MoveSite(e, m, s), via = "owned-mac" /\ e.mac # None)
  BY Zenon DEF HardwareWanted
<1>6. QED
  BY <1>3, <1>4, <1>5

LEMMA ClientWantedFields ==
  ASSUME NEW e \in Device, NEW want, want = ClientWanted(e)
  PROVE  /\ want.site = e.site /\ want.source = e.source /\ want.mac = e.mac /\ want.role = e.role
         /\ want.type \in {e.type, "vendor"} /\ want.status \in {e.status, "active"}
         /\ UpdatePolicy = "create-only" => want = e
BY DEF ClientWanted, Device

LEMMA HardwareStored ==
  ASSUME IInv, NEW s \in Sites, HardwareStore(s)
  PROVE  \E id \in Ids :
           /\ \A j \in Ids \ {id} : nb'[j] = nb[j]
           /\ \/ wk[s].hit.copy = None /\ nb[id] = None /\ nb'[id] = NewHardware(wk[s].hit.at, s)
              \/ \E k \in Copy, want \in Device :
                   /\ k = wk[s].hit.copy /\ k # None /\ id = k.id /\ nb[id] \in Device /\ nb'[id] \in Device
                   /\ want = HardwareWanted(k.dev, wk[s].hit.via, wk[s].hit.at, s)
                   /\ \A f \in DOMAIN nb[id] : nb'[id][f] = Sent(k, want, f)
<1>. DEFINE h == wk[s].hit
<1>1. PICK w \in HardwareWrites(s) : Store(w)
  BY DEF HardwareStore
<1>2. lock = s /\ h \in Lookup /\ h.at \in Macs
  BY DEF HardwareStore, IInv, LockHeld, TypeOK, Worker, Lookup
<1>3. SoundWrite(w) /\ w.id \in Ids
  BY <1>2, HardwareWritesSound DEF SoundWrite
<1>4. nb'[w.id] = w.dev /\ \A j \in Ids \ {w.id} : nb'[j] = nb[j]
  BY <1>1, <1>3 DEF Store, IInv, TypeOK
<1>5. CASE h.copy = None
  <2>1. PICK id \in FreeIds : w = Written(NewId, NewHardware(h.at, s))
    BY <1>5 DEF HardwareWrites
  <2>2. NewId \in FreeIds
    BY <2>1 DEF NewId
  <2>3. nb[w.id] = None /\ w.dev = NewHardware(h.at, s)
    BY <2>1, <2>2 DEF Written, FreeIds, Exists
  <2>4. QED
    BY <1>3, <1>4, <1>5, <2>3
<1>6. CASE h.copy # None
  <2>. PICK k : k = h.copy
    OBVIOUS
  <2>. PICK want : want = HardwareWanted(k.dev, h.via, h.at, s)
    OBVIOUS
  <2>1. k \in Copy /\ k.dev \in Device /\ SoundCopy(k)
    BY <1>2, <1>6, ConstantsAssumption DEF Lookup, Copy, IInv, SoundHits
  <2>2. k.id \in Ids /\ nb[k.id] \in Device /\ want \in Device
    BY <1>2, <2>1, HardwareWantedType DEF SoundCopy, SoundAt, Copy, IInv, TypeOK
  <2>3. w = Reconciled(k, want) /\ w.id = k.id
    BY <1>6 DEF HardwareWrites, Reconciled, Written
  <2>4. \A f \in DOMAIN nb[k.id] : w.dev[f] = Sent(k, want, f)
    BY <2>1, <2>2, <2>3, ReconciledFields
  <2>5. w.dev \in Device
    BY <1>3 DEF SoundWrite
  <2>6. nb'[k.id] = w.dev /\ \A j \in Ids \ {k.id} : nb'[j] = nb[j]
    BY <1>4, <2>3
  <2>7. /\ k = wk[s].hit.copy /\ k # None /\ nb'[k.id] \in Device
        /\ \A f \in DOMAIN nb[k.id] : nb'[k.id][f] = Sent(k, want, f)
    BY <1>6, <2>4, <2>5, <2>6
  <2>8. QED
    BY <2>1, <2>2, <2>3, <2>6, <2>7
<1>7. QED
  BY <1>5, <1>6

LEMMA ClientStored ==
  ASSUME IInv, NEW s \in Sites, ClientStore(s)
  PROVE  \E id \in Ids :
           /\ \A j \in Ids \ {id} : nb'[j] = nb[j]
           /\ \/ wk[s].hit.copy = None /\ nb[id] = None /\ nb'[id] = NewClient(wk[s].hit.at, s)
              \/ \E k \in Copy, want \in Device :
                   /\ k = wk[s].hit.copy /\ k # None /\ id = k.id /\ nb[id] \in Device /\ nb'[id] \in Device
                   /\ want = ClientWanted(k.dev) /\ OwnsPlaceholder(k.dev)
                   /\ \A f \in DOMAIN nb[id] : nb'[id][f] = Sent(k, want, f)
<1>. DEFINE h == wk[s].hit
<1>1. PICK w \in ClientWrites(s) : Store(w)
  BY DEF ClientStore
<1>2. ClientLookedUp(s) /\ h \in Lookup /\ h.at \in Macs
  BY DEF ClientStore, ClientLookedUp, IInv, TypeOK, Worker, Lookup
<1>3. SoundWrite(w) /\ w.id \in Ids
  BY <1>2, ClientWritesSound DEF SoundWrite
<1>4. nb'[w.id] = w.dev /\ \A j \in Ids \ {w.id} : nb'[j] = nb[j]
  BY <1>1, <1>3 DEF Store, IInv, TypeOK
<1>5. CASE h.copy = None
  <2>1. PICK id \in FreeIds : w = Written(NewId, NewClient(h.at, s))
    BY <1>5 DEF ClientWrites
  <2>2. NewId \in FreeIds
    BY <2>1 DEF NewId
  <2>3. nb[w.id] = None /\ w.dev = NewClient(h.at, s)
    BY <2>1, <2>2 DEF Written, FreeIds, Exists
  <2>4. QED
    BY <1>3, <1>4, <1>5, <2>3
<1>6. CASE h.copy # None
  <2>. PICK k : k = h.copy
    OBVIOUS
  <2>. PICK want : want = ClientWanted(k.dev)
    OBVIOUS
  <2>1. k \in Copy /\ k.dev \in Device /\ SoundCopy(k)
    BY <1>2, <1>6 DEF ClientLookedUp, Lookup, Copy, IInv, SoundHits
  <2>2. k.id \in Ids /\ nb[k.id] \in Device /\ want \in Device
    BY <2>1, ClientWantedType DEF SoundCopy, SoundAt, Copy, IInv, TypeOK
  <2>3. w = Reconciled(k, want) /\ w.id = k.id /\ OwnsPlaceholder(k.dev)
    BY <1>6 DEF ClientWrites, Reconciled, Written
  <2>4. \A f \in DOMAIN nb[k.id] : w.dev[f] = Sent(k, want, f)
    BY <2>1, <2>2, <2>3, ReconciledFields
  <2>5. w.dev \in Device
    BY <1>3 DEF SoundWrite
  <2>6. nb'[k.id] = w.dev /\ \A j \in Ids \ {k.id} : nb'[j] = nb[j]
    BY <1>4, <2>3
  <2>7. /\ k = wk[s].hit.copy /\ k # None /\ nb'[k.id] \in Device
        /\ \A f \in DOMAIN nb[k.id] : nb'[k.id][f] = Sent(k, want, f)
    BY <1>6, <2>4, <2>5, <2>6
  <2>8. QED
    BY <2>1, <2>2, <2>3, <2>6, <2>7
<1>7. QED
  BY <1>5, <1>6

\* An offline mark and a person's edit change neither what a device is known by
\* nor where it is, and make nothing infrastructure.
LEMMA MarkStored ==
  ASSUME IInv, NEW s \in Sites, NEW c \in wk[s].stale, MarkStale(s, c), nb' # nb
  PROVE  /\ c.id \in Ids /\ nb[c.id] \in Device
         /\ nb' = [nb EXCEPT ![c.id] = [nb[c.id] EXCEPT !.status = "offline"]]
         /\ c.dev.mac # None /\ c.dev.mac \notin wk[s].seen /\ Offline(c.dev.mac, wk[s].known)
<1>1. c \in Copy /\ SoundCopy(c)
  BY HeldSound DEF Worker
<1>2. QED
  BY <1>1 DEF MarkStale, SoundCopy, SoundAt, Copy, IInv, TypeOK

LEMMA EditStored ==
  ASSUME IInv, NEW id \in Ids, OperatorEdit(id)
  PROVE  /\ nb[id] \in Device /\ nb'[id] \in Device
         /\ \A j \in Ids \ {id} : nb'[j] = nb[j]
         /\ \A f \in {"mac", "extra", "serial", "site", "source", "type", "status"} : nb'[id][f] = nb[id][f]
         /\ nb'[id].role \in {nb[id].role, "other"}
<1>1. nb[id] \in Device /\ nb \in [Ids -> Device \cup {None}]
  BY DEF IInv, TypeOK, OperatorEdit, Exists
<1>2. PICK dev \in {[nb[id] EXCEPT !.tagged = ~@], [nb[id] EXCEPT !.optout = ~@],
                    [nb[id] EXCEPT !.role = "other"]} : nb' = [nb EXCEPT ![id] = dev]
  BY DEF OperatorEdit
<1>3. /\ \A f \in {"mac", "extra", "serial", "site", "source", "type", "status"} : dev[f] = nb[id][f]
      /\ dev.role \in {nb[id].role, "other"}
  BY <1>1, <1>2 DEF Device
<1>4. nb'[id] = dev /\ \A j \in Ids \ {id} : nb'[j] = nb[j]
  BY <1>1, <1>2
<1>5. \A i \in Ids : Exists(i) => nb'[i] # None
  <2>1. dev \in Device
    <3>1. ASSUME NEW b \in BOOLEAN
          PROVE  /\ [nb[id] EXCEPT !.tagged = b] \in Device
                 /\ [nb[id] EXCEPT !.optout = b] \in Device
      BY <1>1 DEF Device
    <3>2. [nb[id] EXCEPT !.role = "other"] \in Device
      BY <1>1 DEF Device, Roles
    <3>3. (~nb[id].tagged) \in BOOLEAN /\ (~nb[id].optout) \in BOOLEAN
      OBVIOUS
    <3>4. QED
      BY <1>2, <3>1, <3>2, <3>3, Zenon
  <2>2. QED
    BY <1>4, <2>1, ConstantsAssumption DEF Exists
<1>6. IInv'
  BY OperatorEditSafe
<1>7. nb'[id] \in Device
  BY <1>1, <1>5, <1>6, ConstantsAssumption DEF IInv, TypeOK, Exists
<1>8. QED
  BY <1>1, <1>3, <1>4, <1>7

-------------------------------------------------------------------------------
(* Hardware stays where it settled.                                          *)

\* A record keeps what it is known by and where it is, and does not become
\* infrastructure.
Unmoved(id) ==
    /\ nb'[id] \in Device
    /\ nb'[id].mac = nb[id].mac /\ nb'[id].site = nb[id].site /\ nb'[id].source = nb[id].source
    /\ nb'[id].role = "infra" => nb[id].role = "infra"

\* Only the hardware pass moves a record.
LEMMA OnlyHardwareMoves ==
  ASSUME IInv, [Next]_vars, ~\E s \in Sites : HardwareStore(s), NEW id \in Ids, Exists(id)
  PROVE  Unmoved(id)
<1>1. nb[id] \in Device /\ DOMAIN nb[id] = {"mac", "extra", "serial", "site", "source", "role",
                                            "type", "status", "tagged", "optout"}
  BY DEF IInv, TypeOK, Exists, Device
<1>2. CASE nb'[id] = nb[id]
  BY <1>1, <1>2 DEF Unmoved
<1>3. ASSUME NEW s \in Sites, ClientStore(s), nb'[id] # nb[id]
      PROVE  Unmoved(id)
  <2>1. PICK i \in Ids :
           /\ \A j \in Ids \ {i} : nb'[j] = nb[j]
           /\ \/ wk[s].hit.copy = None /\ nb[i] = None /\ nb'[i] = NewClient(wk[s].hit.at, s)
              \/ \E k \in Copy, want \in Device :
                   /\ k = wk[s].hit.copy /\ k # None /\ i = k.id /\ nb[i] \in Device /\ nb'[i] \in Device
                   /\ want = ClientWanted(k.dev) /\ OwnsPlaceholder(k.dev)
                   /\ \A f \in DOMAIN nb[i] : nb'[i][f] = Sent(k, want, f)
    BY <1>3, ClientStored
  <2>2. i = id
    BY <1>3, <2>1
  <2>3. PICK k \in Copy, want \in Device :
           /\ id = k.id /\ nb'[id] \in Device /\ want = ClientWanted(k.dev)
           /\ \A f \in DOMAIN nb[id] : nb'[id][f] = Sent(k, want, f)
    BY <2>1, <2>2 DEF Exists
  <2>4. /\ want.site = k.dev.site /\ want.source = k.dev.source
        /\ want.mac = k.dev.mac /\ want.role = k.dev.role
    BY <2>3, ClientWantedFields DEF Copy
  <2>5. QED
    BY <1>1, <2>3, <2>4 DEF Sent, Unmoved
<1>4. ASSUME NEW s \in Sites, NEW c \in wk[s].stale, MarkStale(s, c), nb'[id] # nb[id]
      PROVE  Unmoved(id)
  <2>1. /\ c.id \in Ids /\ nb[c.id] \in Device
        /\ nb' = [nb EXCEPT ![c.id] = [nb[c.id] EXCEPT !.status = "offline"]]
    BY <1>4, MarkStored
  <2>2. c.id = id /\ nb'[id] = [nb[id] EXCEPT !.status = "offline"]
    BY <1>4, <2>1 DEF IInv, TypeOK
  <2>3. QED
    BY <1>1, <2>2 DEF Unmoved, Device, Statuses
<1>5. ASSUME NEW i \in Ids, OperatorEdit(i), nb'[id] # nb[id]
      PROVE  Unmoved(id)
  BY <1>5, EditStored DEF Unmoved
<1>6. QED
  BY <1>2, <1>3, <1>4, <1>5, TableChanges DEF OfflineStore

\* Whoever holds the infra lock has just looked a device up, or has done nothing
\* since; nobody writes hardware meanwhile.
LEMMA LockChanges ==
  ASSUME IInv, [Next]_vars, NEW s \in Sites, lock' = s
  PROVE  \/ \E m \in Macs : FindHardware(s, m)
         \/ /\ lock = s /\ wk'[s].hit = wk[s].hit /\ macJoin' = macJoin
            /\ ~\E t \in Sites : HardwareStore(t)
<1>1. wk \in [Sites -> Worker] /\ lock' # None
  BY ConstantsAssumption DEF IInv, TypeOK
<1>2. ~\E t \in Sites : HardwareStore(t)
  BY <1>1 DEF HardwareStore
<1>3. ASSUME lock = s
      PROVE  running /\ wk[s].stage = "infra" /\ wk[s].hit # None
  BY <1>3 DEF IInv, LockHeld
<1>4. ASSUME NEW t \in Sites, WorkerStep(t), t # s, ~\E m \in Macs : FindHardware(t, m)
      PROVE  lock = s /\ wk'[s].hit = wk[s].hit /\ macJoin' = macJoin
  BY <1>1, <1>4 DEF caches, WorkerStep, InfraStep, ClientStep, StaleStep, ListHardware, SkipHardware, CreateHardware,
       UpdateHardware, HardwareError, ReleaseHardware, ListClients, ReadHistory, FindClient, SkipClient,
       CreateClient, UpdateClient, ClientError, DoneWithClient, BeginStale, MarkStale, EndStale, SiteFails
<1>5. ASSUME NEW t \in Sites, NEW m \in Macs, FindHardware(t, m)
      PROVE  t = s
  BY <1>5 DEF FindHardware
<1>6. CASE WorkerStep(s)
  <2>1. CASE ListHardware(s)
    <3>1. /\ lock' = lock /\ macJoin' = macJoin
          /\ \E listed \in BOOLEAN :
               wk' = [wk EXCEPT ![s].todo = {m \in Macs : listed /\ adopted[m] = s}, ![s].listing = TRUE]
      BY <2>1 DEF ListHardware, caches
    <3>2. QED
      BY <1>1, <1>2, <3>1 DEF Worker
  <2>2. CASE SkipHardware(s) \/ CreateHardware(s) \/ UpdateHardware(s) \/ HardwareError(s)
    BY <1>1, <2>2 DEF SkipHardware, CreateHardware, UpdateHardware, HardwareError, ReleaseHardware
  <2>3. CASE ClientStep(s)
    BY <1>3, <2>3 DEF ClientStep, ListClients, ReadHistory, FindClient, SkipClient, CreateClient, UpdateClient,
         ClientError, ClientLookedUp
  <2>4. CASE StaleStep(s)
    BY <1>3, <2>4 DEF StaleStep, BeginStale, MarkStale, EndStale
  <2>5. CASE SiteFails(s)
    BY <1>1, <2>5 DEF SiteFails
  <2>6. QED
    BY <1>6, <2>1, <2>2, <2>3, <2>4, <2>5 DEF WorkerStep, InfraStep
<1>7. CASE StartRun \/ EndRun
  <2>1. lock = s
    BY <1>7 DEF StartRun, EndRun
  <2>2. QED
    BY <1>3, <1>7, <2>1 DEF StartRun, EndRun
<1>8. CASE Environment \/ UNCHANGED vars
  BY <1>2, <1>8 DEF Environment, OperatorEdit, ClientMoves, SightingAges, Readopt, vars, caches
<1>9. QED
  BY <1>2, <1>4, <1>5, <1>6, <1>7, <1>8 DEF Next

\* The record that the holder of the infra lock acts on is what NetBox stores,
\* in the fields that decide whether the device moves: the lock keeps the other
\* workers' merges out, and nothing else moves a device.
HeldAsStored(k) ==
    /\ nb[k.id].site = k.dev.site /\ nb[k.id].source = k.dev.source
    /\ nb[k.id].role = "infra" => k.dev.role = "infra"
HardwareHeld == \A s \in Sites : lock = s /\ wk[s].hit.copy # None => HeldAsStored(wk[s].hit.copy)

\* What a lookup of hardware leaves behind.
LEMMA FindHardwareHit ==
  ASSUME IInv, NEW s \in Sites, NEW m \in Macs, FindHardware(s, m)
  PROVE  /\ wk'[s].hit.at = m /\ wk'[s].hit.from = "live"
         /\ wk'[s].hit.copy # None
              => \E id \in Ids : Exists(id) /\ wk'[s].hit.copy = Live(id)
         /\ macJoin' => \/ wk'[s].hit.copy # None /\ wk'[s].hit.copy.dev.mac = m
                        \/ \A id \in Ids : Exists(id) => nb[id].mac # m
<1>. DEFINE joins == <<"mac", "owned-mac", "serial">>
            tried == IF macJoin' THEN DOMAIN joins ELSE DOMAIN joins \ {1}
            first == {i \in tried : /\ HardwareMatches(m, joins[i]) # {}
                                    /\ \A j \in tried : j < i => HardwareMatches(m, joins[j]) = {}}
<1>1. wk \in [Sites -> Worker]
  BY DEF IInv, TypeOK
<1>2. \/ first = {} /\ wk' = [wk EXCEPT ![s].hit = [at |-> m, copy |-> None, via |-> "none", from |-> "live"]]
      \/ \E i \in first : \E id \in HardwareMatches(m, joins[i]) :
           wk' = [wk EXCEPT ![s].hit = [at |-> m, copy |-> Live(id), via |-> joins[i], from |-> "live"]]
  BY Zenon DEF FindHardware
<1>3. DOMAIN joins = {1, 2, 3} /\ joins[1] = "mac" /\ joins[2] = "owned-mac" /\ joins[3] = "serial"
  OBVIOUS
<1>4. HardwareMatches(m, "mac") = {id \in Ids : Exists(id) /\ nb[id].mac = m}
  BY DEF HardwareMatches
<1>5. CASE first = {} /\ wk' = [wk EXCEPT ![s].hit = [at |-> m, copy |-> None, via |-> "none", from |-> "live"]]
  <2>1. wk'[s].hit = [at |-> m, copy |-> None, via |-> "none", from |-> "live"]
    BY <1>1, <1>5 DEF Worker
  <2>2. macJoin' => HardwareMatches(m, "mac") = {}
    <3>1. macJoin' => 1 \in tried /\ \A j \in tried : ~(j < 1)
      BY <1>3
    <3>2. QED
      BY <1>3, <1>5, <3>1
  <2>3. QED
    BY <1>4, <2>1, <2>2
<1>6. ASSUME NEW i \in first, NEW id \in HardwareMatches(m, joins[i]),
             wk' = [wk EXCEPT ![s].hit = [at |-> m, copy |-> Live(id), via |-> joins[i], from |-> "live"]]
      PROVE  /\ wk'[s].hit = [at |-> m, copy |-> Live(id), via |-> joins[i], from |-> "live"]
             /\ id \in Ids /\ Exists(id) /\ Live(id) # None /\ Live(id).dev = nb[id]
             /\ i = 1 => nb[id].mac = m
             /\ i # 1 /\ macJoin' => HardwareMatches(m, "mac") = {}
  <2>1. wk'[s].hit = [at |-> m, copy |-> Live(id), via |-> joins[i], from |-> "live"]
    BY <1>1, <1>6 DEF Worker
  <2>2. id \in Ids /\ Exists(id)
    BY DEF HardwareMatches
  <2>3. Live(id) # None /\ Live(id).dev = nb[id]
    BY <2>2, LiveCopy, ConstantsAssumption DEF IInv
  <2>4. i \in {1, 2, 3} /\ i \in tried /\ \A j \in tried : j < i => HardwareMatches(m, joins[j]) = {}
    BY <1>3
  <2>5. i = 1 => nb[id].mac = m
    BY <1>3, <1>4, <2>4
  <2>6. i # 1 /\ macJoin' => HardwareMatches(m, "mac") = {}
    BY <1>3, <2>4
  <2>7. QED
    BY <2>1, <2>2, <2>3, <2>5, <2>6
<1>. HIDE DEF first
<1>7. ASSUME NEW i \in first, NEW id \in HardwareMatches(m, joins[i]),
             wk' = [wk EXCEPT ![s].hit = [at |-> m, copy |-> Live(id), via |-> joins[i], from |-> "live"]]
      PROVE  /\ wk'[s].hit.at = m /\ wk'[s].hit.from = "live"
             /\ \E x \in Ids : Exists(x) /\ wk'[s].hit.copy = Live(x)
             /\ macJoin' => \/ wk'[s].hit.copy # None /\ wk'[s].hit.copy.dev.mac = m
                            \/ \A x \in Ids : Exists(x) => nb[x].mac # m
  <2>. PICK v : v = joins[i]
    OBVIOUS
  <2>1. /\ wk'[s].hit = [at |-> m, copy |-> Live(id), via |-> v, from |-> "live"]
        /\ id \in Ids /\ Exists(id) /\ Live(id) # None /\ Live(id).dev = nb[id]
        /\ i = 1 => nb[id].mac = m
        /\ i # 1 /\ macJoin' => HardwareMatches(m, "mac") = {}
    BY <1>6, <1>7
  <2>2. CASE i = 1
    BY <2>1, <2>2
  <2>3. CASE i # 1
    BY <1>4, <2>1, <2>3
  <2>4. QED
    BY <2>2, <2>3
<1>8. QED
  BY <1>2, <1>5, <1>7

LEMMA HardwareHeldKept ==
  ASSUME IInv, HardwareHeld, [Next]_vars
  PROVE  HardwareHeld'
<1> SUFFICES ASSUME NEW s \in Sites, lock' = s, wk'[s].hit.copy # None
             PROVE  HeldAsStored(wk[s].hit.copy)'
  BY DEF HardwareHeld
<1>1. CASE \E m \in Macs : FindHardware(s, m)
  <2>1. PICK m \in Macs : FindHardware(s, m)
    BY <1>1
  <2>2. PICK id \in Ids : Exists(id) /\ wk'[s].hit.copy = Live(id)
    BY <2>1, FindHardwareHit
  <2>3. nb' = nb
    BY <2>1 DEF FindHardware
  <2>4. QED
    BY <2>2, <2>3, LiveCopy DEF IInv, HeldAsStored
<1>2. CASE lock = s /\ wk'[s].hit = wk[s].hit /\ ~\E t \in Sites : HardwareStore(t)
  <2>1. HeldAsStored(wk[s].hit.copy)
    BY <1>2 DEF HardwareHeld
  <2>2. wk[s].hit.copy.id \in Ids /\ Exists(wk[s].hit.copy.id)
    <3>1. wk[s].hit.copy \in Copy /\ SoundCopy(wk[s].hit.copy)
      BY <1>2, HeldSound DEF Worker, Lookup
    <3>2. QED
      BY <3>1 DEF Copy, SoundCopy, SoundAt, Exists
  <2>3. Unmoved(wk[s].hit.copy.id)
    BY <1>2, <2>2, OnlyHardwareMoves
  <2>4. QED
    BY <1>2, <2>1, <2>3 DEF Unmoved, HeldAsStored
<1>3. QED
  BY <1>1, <1>2, LockChanges

LEMMA HardwareAlwaysHeld == Spec => [](IInv /\ HardwareHeld)
<1>1. Init => IInv /\ HardwareHeld
  BY InitSafe, ConstantsAssumption DEF Init, HardwareHeld
<1>2. IInv /\ HardwareHeld /\ [Next]_vars => (IInv /\ HardwareHeld)'
  BY NextSafe, HardwareHeldKept
<1>3. QED
  BY <1>1, <1>2, PTL DEF Spec

LEMMA SettledStep ==
  ASSUME IInv, HardwareHeld, [Next]_vars, NEW id \in Ids,
         Exists(id), nb[id].site \notin Inventory, nb'[id].site # nb[id].site
  PROVE  /\ nb'[id].site \notin Inventory
         /\ UpdatePolicy = "create-only" /\ nb[id].role = "infra" => nb[id].source \in Inventory
<1>1. PICK s \in Sites : HardwareStore(s)
  BY OnlyHardwareMoves DEF Unmoved
<1>2. PICK i \in Ids :
           /\ \A j \in Ids \ {i} : nb'[j] = nb[j]
           /\ \/ wk[s].hit.copy = None /\ nb[i] = None /\ nb'[i] = NewHardware(wk[s].hit.at, s)
              \/ \E k \in Copy, want \in Device :
                   /\ k = wk[s].hit.copy /\ k # None /\ i = k.id /\ nb[i] \in Device /\ nb'[i] \in Device
                   /\ want = HardwareWanted(k.dev, wk[s].hit.via, wk[s].hit.at, s)
                   /\ \A f \in DOMAIN nb[i] : nb'[i][f] = Sent(k, want, f)
  BY <1>1, HardwareStored
<1>3. i = id
  BY <1>2
<1>4. PICK k \in Copy, want \in Device :
         /\ k = wk[s].hit.copy /\ k # None /\ id = k.id /\ nb[id] \in Device
         /\ want = HardwareWanted(k.dev, wk[s].hit.via, wk[s].hit.at, s)
         /\ \A f \in DOMAIN nb[id] : nb'[id][f] = Sent(k, want, f)
  BY <1>2, <1>3 DEF Exists
<1>. DEFINE m == wk[s].hit.at
<1>5. k.dev \in Device /\ m \in Macs /\ lock = s
  BY <1>1 DEF HardwareStore, IInv, LockHeld, TypeOK, Worker, Lookup, Copy
<1>6. want.site = k.dev.site \/ (MoveSite(k.dev, m, s) /\ want.site = s)
  BY <1>4, <1>5, HardwareWantedFields
<1>7. nb'[id].site = Sent(k, want, "site")
  BY <1>4 DEF Device
<1>8. MoveSite(k.dev, m, s) /\ nb'[id].site = s
  BY <1>4, <1>6, <1>7 DEF Sent
<1>9. HeldAsStored(k)
  BY <1>4, <1>5 DEF HardwareHeld
<1>10. ASSUME UpdatePolicy = "create-only", nb[id].role = "infra"
       PROVE  nb[id].source \in Inventory
  <2>1. ~Legacy(k.dev, m)
    BY <1>4, <1>9, <1>10 DEF HeldAsStored, Legacy, IsLegacyClient
  <2>2. FromInventory(k.dev)
    BY <1>8, <1>10, <2>1 DEF MoveSite
  <2>3. QED
    BY <1>4, <1>9, <2>2 DEF HeldAsStored, FromInventory
<1>11. QED
  BY <1>8, <1>10 DEF MoveSite

\* No step takes a device from a real site to staging, and under create-only no
\* step takes infrastructure from a real site that was not last stamped by
\* staging, for any number of sites that adopt the same hardware and any edits
\* made to it between the lookup and the write.
THEOREM SettledStays == Spec => SettledHardwareStays
<1>1. IInv /\ HardwareHeld /\ [Next]_vars
        => [\A id \in Ids :
              /\ Exists(id) /\ nb[id].site \notin Inventory
              /\ nb'[id].site # nb[id].site
              => /\ nb'[id].site \notin Inventory
                 /\ UpdatePolicy = "create-only" /\ nb[id].role = "infra"
                      => nb[id].source \in Inventory]_vars
  BY SettledStep
<1>2. QED
  BY <1>1, HardwareAlwaysHeld, PTL DEF Spec, SettledHardwareStays

-------------------------------------------------------------------------------
(* Two workers in the middle of a device or a client are never at the same   *)
(* address, where the addresses of the deployment are separate.              *)

\* What UniFi answers: hardware is adopted where it may be, and a controller
\* knows the clients it may list.
Sources ==
    /\ \A m \in Macs : adopted[m] # None => adopted[m] \in AdoptableAt[m]
    /\ \A s \in Sites, m \in Macs : m \notin ListedAt[s] => presence[s][m] = "gone"

\* What is left to process comes from the last answer of the controller, and the
\* device or client in progress is part of it.
PlannedAt(s) ==
    /\ wk[s].hit # None => wk[s].stage \in {"infra", "devices"} /\ wk[s].hit.at \in wk[s].todo
    /\ wk[s].stage = "infra" => \A m \in wk[s].todo : wk[s].listing /\ s \in AdoptableAt[m]
    /\ wk[s].stage \in {"history", "devices"} => wk[s].todo \subseteq ListedAt[s]
    /\ wk[s].stage = "infra" /\ wk[s].hit # None => lock = s
Planned == \A s \in Sites : PlannedAt(s)

LEMMA SourcesKept ==
  ASSUME IInv, Sources, [Next]_vars
  PROVE  Sources'
<1>1. /\ adopted \in [Macs -> Sites \cup {None}]
      /\ presence \in [Sites -> [Macs -> Presence]]
  BY DEF IInv, TypeOK
<1>2. CASE UNCHANGED unifi
  BY <1>2 DEF Sources, unifi
<1>3. ASSUME NEW s \in Sites, NEW m \in Macs, ClientMoves(s, m)
      PROVE  Sources'
  <2>1. adopted' = adopted /\ m \in ListedAt[s] /\ \E next \in Presence : presence' = [presence EXCEPT ![s][m] = next]
    BY <1>3 DEF ClientMoves, Presence
  <2>2. \A t \in Sites, x \in Macs : presence'[t][x] = presence[t][x] \/ (t = s /\ x = m)
    BY <1>1, <2>1
  <2>3. QED
    BY <2>1, <2>2 DEF Sources
<1>4. ASSUME NEW s \in Sites, NEW m \in Macs, Readopt(m, s)
      PROVE  Sources'
  BY <1>1, <1>4 DEF Readopt, Sources
<1>5. ASSUME NEW s \in Sites, WorkerStep(s)
      PROVE  UNCHANGED unifi
  BY <1>5 DEF WorkerStep, InfraStep, ClientStep, StaleStep, ListHardware, FindHardware, SkipHardware, CreateHardware,
       UpdateHardware, HardwareError, ListClients, ReadHistory, FindClient, SkipClient,
       CreateClient, UpdateClient, ClientError, BeginStale, MarkStale, EndStale, SiteFails
<1>6. CASE \/ StartRun \/ EndRun \/ UNCHANGED vars \/ \E id \in Ids : OperatorEdit(id)
           \/ \E s \in Sites, m \in Macs : SightingAges(s, m)
  BY <1>2, <1>6 DEF StartRun, EndRun, vars, unifi, OperatorEdit, SightingAges
<1>7. QED
  BY <1>2, <1>3, <1>4, <1>5, <1>6 DEF Next, Environment

\* A step of another worker leaves a worker and its lock alone.
LEMMA OthersStep ==
  ASSUME IInv, NEW s \in Sites, NEW t \in Sites, t # s, WorkerStep(t)
  PROVE  wk'[s] = wk[s] /\ (lock = s => lock' = s)
<1>1. wk \in [Sites -> Worker] /\ s # None
  BY ConstantsAssumption DEF IInv, TypeOK
<1>2. wk'[s] = wk[s]
  BY <1>1 DEF WorkerStep, InfraStep, ClientStep, StaleStep, ListHardware, FindHardware, SkipHardware, CreateHardware,
       UpdateHardware, HardwareError, ReleaseHardware, ListClients, ReadHistory, FindClient, SkipClient,
       CreateClient, UpdateClient, ClientError, DoneWithClient, BeginStale, MarkStale, EndStale, SiteFails
<1>3. lock = s => lock' = s
  BY <1>1 DEF WorkerStep, InfraStep, ClientStep, StaleStep, ListHardware, FindHardware, SkipHardware, CreateHardware,
       UpdateHardware, HardwareError, HardwareLookedUp, ListClients, ReadHistory, FindClient, SkipClient,
       CreateClient, UpdateClient, ClientError, BeginStale, MarkStale, EndStale, SiteFails
<1>4. QED
  BY <1>2, <1>3

LEMMA OutsideStep ==
  ASSUME Environment \/ UNCHANGED vars
  PROVE  UNCHANGED <<running, macView, siteView, macJoin, lock, wk>>
BY DEF Environment, OperatorEdit, ClientMoves, SightingAges, Readopt, vars, caches

\* What a lookup of a client leaves behind.
ClientHit(s, m, h) ==
    /\ wk'[s] = [wk[s] EXCEPT !.hit = h, !.seen = @ \cup {m}] /\ h.at = m
    /\ h.copy # None => /\ h.copy.dev.mac = m
                        /\ h.copy \in IF macView.ok THEN macView.loaded \cup macView.added
                                      ELSE {Live(id) : id \in Ids \ FreeIds}
    /\ h.copy = None => IF macView.ok
                        THEN \A k \in macView.loaded \cup macView.added : k.dev.mac # m
                        ELSE \A id \in Ids : Exists(id) => nb[id].mac # m

LEMMA FindClientHit ==
  ASSUME IInv, NEW s \in Sites, NEW m \in Macs, FindClient(s, m)
  PROVE  \E h \in Lookup : ClientHit(s, m, h)
<1>. DEFINE At(set) == {c \in set : c.dev.mac = m}
            all == {Live(id) : id \in Ids \ FreeIds}
            Hit(k) == \E v \in {"mac", "none"}, f \in {"loaded", "added", "live"} :
                        wk' = [wk EXCEPT ![s].hit = [at |-> m, copy |-> k, via |-> v, from |-> f],
                                         ![s].seen = @ \cup {m}]
<1>1. \/ macView.ok /\ \E k \in At(macView.loaded) : Hit(k)
      \/ macView.ok /\ \E k \in At(macView.added) : Hit(k)
      \/ macView.ok /\ At(macView.loaded) = {} /\ At(macView.added) = {} /\ Hit(None)
      \/ ~macView.ok /\ \E k \in At(all) : Hit(k)
      \/ ~macView.ok /\ At(all) = {} /\ Hit(None)
  BY Zenon DEF FindClient
<1>2. wk \in [Sites -> Worker] /\ running
  BY DEF IInv, TypeOK, FindClient
<1>3. ASSUME NEW k, Hit(k), k = None \/ k \in macView.loaded \cup macView.added \cup all
      PROVE  \E h \in Lookup :
               wk'[s] = [wk[s] EXCEPT !.hit = h, !.seen = @ \cup {m}] /\ h.at = m /\ h.copy = k
  <2>1. PICK v \in {"mac", "none"}, f \in {"loaded", "added", "live"} :
               wk' = [wk EXCEPT ![s].hit = [at |-> m, copy |-> k, via |-> v, from |-> f],
                                ![s].seen = @ \cup {m}]
    BY <1>3
  <2>2. [at |-> m, copy |-> k, via |-> v, from |-> f] \in Lookup
    BY <1>2, <1>3, ListedSound DEF Lookup
  <2>3. QED
    BY <1>2, <2>1, <2>2
<1>. HIDE DEF Hit, all
<1>4. CASE macView.ok /\ \E k \in At(macView.loaded) \cup At(macView.added) : Hit(k)
  <2>1. PICK k \in macView.loaded \cup macView.added : Hit(k) /\ k.dev.mac = m
    BY <1>4
  <2>2. k # None
    BY <1>2, <2>1, ListedSound, ConstantsAssumption
  <2>3. PICK h \in Lookup : wk'[s] = [wk[s] EXCEPT !.hit = h, !.seen = @ \cup {m}] /\ h.at = m /\ h.copy = k
    BY <1>3, <2>1
  <2>4. QED
    BY <1>4, <2>1, <2>2, <2>3 DEF ClientHit
<1>5. CASE macView.ok /\ At(macView.loaded) = {} /\ At(macView.added) = {} /\ Hit(None)
  <2>1. \A k \in macView.loaded \cup macView.added : k.dev.mac # m
    BY <1>5
  <2>2. QED
    BY <1>3, <1>5, <2>1 DEF ClientHit
<1>6. CASE ~macView.ok /\ \E k \in At(all) : Hit(k)
  <2>1. PICK k \in all : Hit(k) /\ k.dev.mac = m
    BY <1>6
  <2>2. k # None
    BY <1>2, <2>1, ListedSound, ConstantsAssumption DEF all
  <2>3. PICK h \in Lookup : wk'[s] = [wk[s] EXCEPT !.hit = h, !.seen = @ \cup {m}] /\ h.at = m /\ h.copy = k
    BY <1>3, <2>1
  <2>4. QED
    BY <1>6, <2>1, <2>2, <2>3 DEF all, ClientHit
<1>7. CASE ~macView.ok /\ At(all) = {} /\ Hit(None)
  <2>1. ASSUME NEW id \in Ids, Exists(id)
        PROVE  nb[id].mac # m
    <3>1. Live(id) \in all /\ Live(id).dev = nb[id]
      BY <2>1, LiveCopy DEF all, FreeIds, IInv
    <3>2. QED
      BY <1>7, <3>1
  <2>2. QED
    BY <1>3, <1>7, <2>1 DEF ClientHit
<1>8. QED
  BY <1>1, <1>4, <1>5, <1>6, <1>7

\* What each step of a worker does to it.
LEMMA OwnStep ==
  ASSUME IInv, NEW s \in Sites, WorkerStep(s)
  PROVE  \/ /\ ListHardware(s)
            /\ \E listed \in BOOLEAN :
                 wk'[s] = [wk[s] EXCEPT !.todo = {m \in Macs : listed /\ adopted[m] = s}, !.listing = TRUE]
         \/ \E m \in Macs : FindHardware(s, m) /\ \E h \in Lookup : wk'[s] = [wk[s] EXCEPT !.hit = h] /\ h.at = m
         \/ (lock = s \/ wk[s].stage = "devices") /\ wk[s].hit # None /\ wk'[s] = Released(s)
         \/ /\ ListClients(s)
            /\ \E active \in SUBSET Macs :
                 /\ active = {m \in Macs : presence[s][m] = "active"}
                 /\ wk'[s] = [wk[s] EXCEPT !.stage = "history", !.todo = active, !.listing = (active # {})]
         \/ /\ ReadHistory(s)
            /\ \E known \in HistoryAnswers(s), ok \in BOOLEAN :
                 /\ ok => ~(wk[s].listing /\ known = Nothing)
                 /\ wk'[s] = [wk[s] EXCEPT !.stage = "devices", !.known = known, !.histOk = ok]
         \/ \E m \in Macs :
              /\ FindClient(s, m)
              /\ \E h \in Lookup : wk'[s] = [wk[s] EXCEPT !.hit = h, !.seen = @ \cup {m}] /\ h.at = m
         \/ /\ BeginStale(s)
            /\ \E pass \in {TRUE, FALSE} :
                 /\ pass => wk[s].histOk
                 /\ wk'[s] = [wk[s] EXCEPT !.stage = IF pass THEN "stale" ELSE "done",
                                           !.known = IF pass THEN Dated(s) ELSE @,
                                           !.stale = IF pass THEN SyncedClients(s) ELSE {}]
         \/ \E c \in wk[s].stale : MarkStale(s, c) /\ wk'[s] = [wk[s] EXCEPT !.stale = @ \ {c}]
         \/ EndStale(s) /\ wk'[s] = [wk[s] EXCEPT !.stage = "done"]
         \/ SiteFails(s) /\ wk'[s] = [Idle EXCEPT !.stage = "failed"]
<1>1. wk \in [Sites -> Worker] /\ wk[s] \in Worker
  BY DEF IInv, TypeOK
<1>2. CASE ListHardware(s)
  BY <1>1, <1>2 DEF ListHardware
<1>3. ASSUME NEW m \in Macs, FindHardware(s, m)
      PROVE  \E h \in Lookup : wk'[s] = [wk[s] EXCEPT !.hit = h] /\ h.at = m
  <2>1. \E h : wk'[s] = [wk[s] EXCEPT !.hit = h]
    BY <1>1, <1>3 DEF FindHardware
  <2>2. PICK h : wk'[s] = [wk[s] EXCEPT !.hit = h]
    BY <2>1
  <2>3. wk'[s].hit = h /\ wk'[s].hit.at = m
    BY <1>1, <1>3, <2>2, FindHardwareHit DEF Worker
  <2>4. h \in Lookup
    <3>1. wk'[s].hit \in Lookup \cup {None}
      BY <1>3, FindHardwareSafe DEF IInv, TypeOK, Worker
    <3>2. wk'[s].hit # None
      BY <1>3, FindHardwareSafe DEF IInv, LockHeld, FindHardware
    <3>3. QED
      BY <2>3, <3>1, <3>2
  <2>5. QED
    BY <2>2, <2>3, <2>4
<1>4. CASE SkipHardware(s) \/ CreateHardware(s) \/ UpdateHardware(s) \/ HardwareError(s)
  BY <1>1, <1>4 DEF SkipHardware, CreateHardware, UpdateHardware, HardwareError, HardwareLookedUp, ReleaseHardware,
       Released
<1>5. CASE ListClients(s)
  <2>. DEFINE active == {m \in Macs : presence[s][m] = "active"}
  <2>1. wk' = [wk EXCEPT ![s].stage = "history", ![s].todo = active, ![s].listing = (active # {})]
    BY <1>5 DEF ListClients
  <2>2. active \in SUBSET Macs
    OBVIOUS
  <2>. HIDE DEF active
  <2>3. wk'[s] = [wk[s] EXCEPT !.stage = "history", !.todo = active, !.listing = (active # {})]
    BY <1>1, <2>1
  <2>4. QED
    BY <1>5, <2>2, <2>3 DEF active
<1>6. CASE ReadHistory(s)
  <2>1. PICK known \in HistoryAnswers(s), read \in BOOLEAN :
          wk' = [wk EXCEPT ![s].stage = "devices", ![s].known = known,
                           ![s].histOk = read /\ ~(wk[s].listing /\ known = Nothing)]
    BY <1>6 DEF ReadHistory
  <2>. PICK ok \in BOOLEAN : ok = (read /\ ~(wk[s].listing /\ known = Nothing))
    OBVIOUS
  <2>2. wk'[s] = [wk[s] EXCEPT !.stage = "devices", !.known = known, !.histOk = ok]
    BY <1>1, <2>1
  <2>3. QED
    BY <1>6, <2>2
<1>7. ASSUME NEW m \in Macs, FindClient(s, m)
      PROVE  \E h \in Lookup : wk'[s] = [wk[s] EXCEPT !.hit = h, !.seen = @ \cup {m}] /\ h.at = m
  <2>1. PICK h \in Lookup : ClientHit(s, m, h)
    BY <1>7, FindClientHit
  <2>2. QED
    BY <2>1 DEF ClientHit
<1>8. CASE SkipClient(s) \/ CreateClient(s) \/ UpdateClient(s) \/ ClientError(s)
  BY <1>1, <1>8 DEF SkipClient, CreateClient, UpdateClient, ClientError, ClientLookedUp, DoneWithClient, Released
<1>9. CASE BeginStale(s)
  <2>1. wk' = [wk EXCEPT ![s].stage = IF wk[s].histOk THEN "stale" ELSE "done",
                         ![s].known = IF wk[s].histOk THEN Dated(s) ELSE @,
                         ![s].stale = IF wk[s].histOk THEN SyncedClients(s) ELSE {}]
    BY <1>9 DEF BeginStale
  <2>2. wk[s].histOk \in BOOLEAN
    BY <1>1 DEF Worker
  <2>3. wk'[s] = [wk[s] EXCEPT !.stage = IF wk[s].histOk THEN "stale" ELSE "done",
                               !.known = IF wk[s].histOk THEN Dated(s) ELSE @,
                               !.stale = IF wk[s].histOk THEN SyncedClients(s) ELSE {}]
    BY <1>1, <2>1
  <2>4. QED
    BY <1>9, <2>2, <2>3
<1>10. ASSUME NEW c \in wk[s].stale, MarkStale(s, c)
       PROVE  wk'[s] = [wk[s] EXCEPT !.stale = @ \ {c}]
  BY <1>1, <1>10 DEF MarkStale
<1>11. CASE EndStale(s)
  BY <1>1, <1>11 DEF EndStale
<1>12. CASE SiteFails(s)
  BY <1>1, <1>12 DEF SiteFails
<1>13. QED
  BY <1>2, <1>3, <1>4, <1>5, <1>6, <1>7, <1>8, <1>9, <1>10, <1>11, <1>12
     DEF WorkerStep, InfraStep, ClientStep, StaleStep

LEMMA StepCases ==
  ASSUME IInv, [Next]_vars, NEW s \in Sites
  PROVE  \/ StartRun \/ EndRun \/ WorkerStep(s)
         \/ wk'[s] = wk[s] /\ (lock = s => lock' = s)
<1>1. CASE \E t \in Sites : WorkerStep(t)
  BY <1>1, OthersStep
<1>2. CASE Environment \/ UNCHANGED vars
  BY <1>2, OutsideStep
<1>3. QED
  BY <1>1, <1>2 DEF Next

LEMMA PlannedKept ==
  ASSUME IInv, Sources, Planned, [Next]_vars
  PROVE  Planned'
<1> SUFFICES ASSUME NEW s \in Sites PROVE PlannedAt(s)'
  BY DEF Planned
<1>1. PlannedAt(s) /\ wk[s] \in Worker
  BY DEF Planned, IInv, TypeOK
<1>2. CASE wk'[s] = wk[s] /\ (lock = s => lock' = s)
  BY <1>1, <1>2 DEF PlannedAt
<1>3. CASE StartRun \/ EndRun
  <2>1. wk'[s] = Idle \/ \E stage \in {"infra", "clients"} : wk'[s] = [Idle EXCEPT !.stage = stage]
    BY <1>3 DEF StartRun, EndRun
  <2>2. wk'[s].hit = None /\ wk'[s].todo = {} /\ wk'[s].stage \notin {"history", "devices"}
    BY <2>1 DEF Idle
  <2>3. QED
    BY <2>2 DEF PlannedAt
<1>4. CASE WorkerStep(s)
  <2>1. CASE /\ ListHardware(s)
             /\ \E listed \in BOOLEAN :
                  wk'[s] = [wk[s] EXCEPT !.todo = {m \in Macs : listed /\ adopted[m] = s}, !.listing = TRUE]
    <3>1. PICK listed \in BOOLEAN :
             wk'[s] = [wk[s] EXCEPT !.todo = {m \in Macs : listed /\ adopted[m] = s}, !.listing = TRUE]
      BY <2>1
    <3>2. wk[s].stage = "infra" /\ wk[s].hit = None
      BY <1>1, <2>1 DEF PlannedAt, ListHardware
    <3>3. /\ wk'[s].stage = "infra" /\ wk'[s].hit = None /\ wk'[s].listing
          /\ wk'[s].todo = {m \in Macs : listed /\ adopted[m] = s}
      BY <1>1, <3>1, <3>2 DEF Worker
    <3>4. \A m \in wk'[s].todo : s \in AdoptableAt[m]
      BY <3>3, ConstantsAssumption DEF Sources
    <3>5. QED
      BY <3>3, <3>4 DEF PlannedAt
  <2>2. ASSUME NEW m \in Macs, NEW h \in Lookup, FindHardware(s, m), wk'[s] = [wk[s] EXCEPT !.hit = h], h.at = m
        PROVE  PlannedAt(s)'
    <3>1. wk[s].stage = "infra" /\ m \in wk[s].todo /\ lock' = s
      BY <2>2 DEF FindHardware
    <3>2. /\ wk'[s].stage = wk[s].stage /\ wk'[s].todo = wk[s].todo /\ wk'[s].listing = wk[s].listing
          /\ wk'[s].hit = h
      BY <1>1, <2>2 DEF Worker
    <3>3. QED
      BY <1>1, <2>2, <3>1, <3>2 DEF PlannedAt
  <2>3. CASE wk'[s] = Released(s)
    <3>1. /\ wk'[s].stage = wk[s].stage /\ wk'[s].todo \subseteq wk[s].todo /\ wk'[s].listing = wk[s].listing
          /\ wk'[s].hit = None
      BY <1>1, <2>3 DEF Worker, Released
    <3>2. QED
      BY <1>1, <3>1 DEF PlannedAt
  <2>4. CASE /\ ListClients(s)
             /\ \E active \in SUBSET Macs :
                  /\ active = {m \in Macs : presence[s][m] = "active"}
                  /\ wk'[s] = [wk[s] EXCEPT !.stage = "history", !.todo = active, !.listing = (active # {})]
    <3>1. PICK active \in SUBSET Macs :
            /\ active = {m \in Macs : presence[s][m] = "active"}
            /\ wk'[s] = [wk[s] EXCEPT !.stage = "history", !.todo = active, !.listing = (active # {})]
      BY <2>4
    <3>2. wk[s].hit = None
      BY <1>1, <2>4 DEF PlannedAt, ListClients
    <3>3. wk'[s].stage = "history" /\ wk'[s].todo = active /\ wk'[s].hit = None
      BY <1>1, <3>1, <3>2 DEF Worker
    <3>4. active \subseteq ListedAt[s]
      BY <3>1 DEF Sources
    <3>5. QED
      BY <3>3, <3>4 DEF PlannedAt
  <2>5. CASE /\ ReadHistory(s)
             /\ \E known \in HistoryAnswers(s), ok \in BOOLEAN :
                  /\ ok => ~(wk[s].listing /\ known = Nothing)
                  /\ wk'[s] = [wk[s] EXCEPT !.stage = "devices", !.known = known, !.histOk = ok]
    <3>1. wk[s].stage = "history" /\ wk[s].hit = None
      BY <1>1, <2>5 DEF PlannedAt, ReadHistory
    <3>2. wk'[s].stage = "devices" /\ wk'[s].todo = wk[s].todo /\ wk'[s].hit = None
      BY <1>1, <2>5, <3>1 DEF Worker
    <3>3. QED
      BY <1>1, <3>1, <3>2 DEF PlannedAt
  <2>6. ASSUME NEW m \in Macs, NEW h \in Lookup, FindClient(s, m), h.at = m,
               wk'[s] = [wk[s] EXCEPT !.hit = h, !.seen = @ \cup {m}]
        PROVE  PlannedAt(s)'
    <3>1. wk[s].stage = "devices" /\ m \in wk[s].todo
      BY <2>6 DEF FindClient
    <3>2. wk'[s].stage = wk[s].stage /\ wk'[s].todo = wk[s].todo /\ wk'[s].hit = h
      BY <1>1, <2>6 DEF Worker
    <3>3. QED
      BY <1>1, <2>6, <3>1, <3>2 DEF PlannedAt
  <2>7. CASE /\ BeginStale(s)
             /\ \E pass \in {TRUE, FALSE} :
                  /\ pass => wk[s].histOk
                  /\ wk'[s] = [wk[s] EXCEPT !.stage = IF pass THEN "stale" ELSE "done",
                                            !.known = IF pass THEN Dated(s) ELSE @,
                                            !.stale = IF pass THEN SyncedClients(s) ELSE {}]
    <3>1. wk[s].hit = None
      BY <2>7 DEF BeginStale
    <3>2. wk'[s].hit = None /\ wk'[s].stage \in {"stale", "done"}
      BY <1>1, <2>7, <3>1 DEF Worker
    <3>3. QED
      BY <3>2 DEF PlannedAt
  <2>8. ASSUME NEW c \in wk[s].stale, MarkStale(s, c), wk'[s] = [wk[s] EXCEPT !.stale = @ \ {c}]
        PROVE  PlannedAt(s)'
    <3>1. wk[s].stage = "stale" /\ wk[s].hit = None
      BY <1>1, <2>8 DEF PlannedAt, MarkStale
    <3>2. wk'[s].stage = "stale" /\ wk'[s].hit = None
      BY <1>1, <2>8, <3>1 DEF Worker
    <3>3. QED
      BY <3>2 DEF PlannedAt
  <2>9. CASE EndStale(s) /\ wk'[s] = [wk[s] EXCEPT !.stage = "done"]
    <3>1. wk[s].hit = None
      BY <1>1, <2>9 DEF PlannedAt, EndStale
    <3>2. wk'[s].stage = "done" /\ wk'[s].hit = None
      BY <1>1, <2>9, <3>1 DEF Worker
    <3>3. QED
      BY <3>2 DEF PlannedAt
  <2>10. CASE wk'[s] = [Idle EXCEPT !.stage = "failed"]
    BY <2>10 DEF PlannedAt, Idle
  <2>11. QED
    BY <1>4, <2>1, <2>2, <2>3, <2>4, <2>5, <2>6, <2>7, <2>8, <2>9, <2>10, OwnStep
<1>5. QED
  BY <1>2, <1>3, <1>4, StepCases

\* Two workers never hold a lookup of one address, unless both are adopting.
LEMMA Alone ==
  ASSUME Separate, Planned, NEW s \in Sites, NEW t \in Sites, s # t,
         wk[s].hit # None, wk[t].hit # None, wk[s] \in Worker, wk[t] \in Worker
  PROVE  wk[s].hit.at # wk[t].hit.at
<1>1. PlannedAt(s) /\ PlannedAt(t) /\ AddressesApart
  BY DEF Planned, Separate, OneWorker
<1>2. \A u \in Sites : wk[u].stage = "infra" /\ PlannedAt(u) /\ wk[u].hit # None /\ wk[u] \in Worker
                          => wk[u].hit.at \in Adoptable
  BY DEF PlannedAt, Adoptable, Worker
<1>3. \A u \in Sites : wk[u].stage = "devices" /\ PlannedAt(u) /\ wk[u].hit # None => wk[u].hit.at \in ListedAt[u]
  BY DEF PlannedAt
<1>4. ~(wk[s].stage = "infra" /\ wk[t].stage = "infra")
  BY <1>1 DEF PlannedAt
<1>5. QED
  BY <1>1, <1>2, <1>3, <1>4 DEF PlannedAt, AddressesApart

\* The address that a step gives to a record is the one the writer looked up.
LEMMA NewAddress ==
  ASSUME IInv, [Next]_vars, NEW id \in Ids, nb'[id] # None, Exists(id) => nb'[id].mac # nb[id].mac
  PROVE  \E s \in Sites :
           /\ nb'[id].mac = wk[s].hit.at /\ wk[s].hit # None
           /\ \A j \in Ids \ {id} : nb'[j] = nb[j]
           /\ \/ HardwareStore(s) /\ (wk[s].hit.copy = None \/ wk[s].hit.copy.dev.mac # wk[s].hit.at)
              \/ ClientStore(s) /\ wk[s].hit.copy = None
<1>1. nb'[id] # nb[id]
  BY DEF Exists
<1>2. CASE ~\E s \in Sites : HardwareStore(s) \/ ClientStore(s)
  <2>1. Exists(id)
    <3>1. CASE \E s \in Sites : OfflineStore(s)
      <4>1. PICK s \in Sites : \E c \in wk[s].stale : MarkStale(s, c)
        BY <3>1 DEF OfflineStore
      <4>2. PICK c \in wk[s].stale : c.id = id /\ nb[c.id] \in Device
        BY <1>1, <4>1, MarkStored DEF IInv, TypeOK
      <4>3. QED
        BY <4>2, ConstantsAssumption DEF Exists
    <3>2. CASE \E i \in Ids : OperatorEdit(i)
      BY <1>1, <3>2, EditStored, ConstantsAssumption DEF Exists
    <3>3. QED
      BY <1>1, <1>2, <3>1, <3>2, TableChanges
  <2>2. QED
    BY <1>2, <2>1, OnlyHardwareMoves DEF Unmoved
<1>3. ASSUME NEW s \in Sites, HardwareStore(s)
      PROVE  /\ nb'[id].mac = wk[s].hit.at /\ wk[s].hit # None
             /\ \A j \in Ids \ {id} : nb'[j] = nb[j]
             /\ wk[s].hit.copy = None \/ wk[s].hit.copy.dev.mac # wk[s].hit.at
  <2>1. PICK i \in Ids :
           /\ \A j \in Ids \ {i} : nb'[j] = nb[j]
           /\ \/ wk[s].hit.copy = None /\ nb[i] = None /\ nb'[i] = NewHardware(wk[s].hit.at, s)
              \/ \E k \in Copy, want \in Device :
                   /\ k = wk[s].hit.copy /\ k # None /\ i = k.id /\ nb[i] \in Device /\ nb'[i] \in Device
                   /\ want = HardwareWanted(k.dev, wk[s].hit.via, wk[s].hit.at, s)
                   /\ \A f \in DOMAIN nb[i] : nb'[i][f] = Sent(k, want, f)
    BY <1>3, HardwareStored
  <2>2. i = id
    BY <1>1, <2>1
  <2>3. wk[s].hit # None /\ wk[s].hit.at \in Macs
    BY <1>3 DEF HardwareStore, IInv, LockHeld, TypeOK, Worker, Lookup
  <2>4. CASE wk[s].hit.copy = None /\ nb'[id] = NewHardware(wk[s].hit.at, s)
    BY <2>1, <2>2, <2>3, <2>4 DEF NewHardware
  <2>5. ASSUME NEW k \in Copy, NEW want \in Device,
               k = wk[s].hit.copy, k # None, id = k.id, nb[id] \in Device,
               want = HardwareWanted(k.dev, wk[s].hit.via, wk[s].hit.at, s),
               \A f \in DOMAIN nb[id] : nb'[id][f] = Sent(k, want, f)
        PROVE  nb'[id].mac = wk[s].hit.at /\ wk[s].hit.copy.dev.mac # wk[s].hit.at
    <3>1. want.mac \in {k.dev.mac, wk[s].hit.at}
      BY <2>3, <2>5, HardwareWantedFields DEF Copy
    <3>2. nb'[id].mac = Sent(k, want, "mac") /\ nb'[id].mac # nb[id].mac
      BY <2>5, ConstantsAssumption DEF Device, Exists
    <3>3. QED
      BY <2>5, <3>1, <3>2 DEF Sent
  <2>6. QED
    BY <2>1, <2>2, <2>3, <2>4, <2>5
<1>4. ASSUME NEW s \in Sites, ClientStore(s)
      PROVE  /\ nb'[id].mac = wk[s].hit.at /\ wk[s].hit # None
             /\ \A j \in Ids \ {id} : nb'[j] = nb[j]
             /\ wk[s].hit.copy = None
  <2>1. PICK i \in Ids :
           /\ \A j \in Ids \ {i} : nb'[j] = nb[j]
           /\ \/ wk[s].hit.copy = None /\ nb[i] = None /\ nb'[i] = NewClient(wk[s].hit.at, s)
              \/ \E k \in Copy, want \in Device :
                   /\ k = wk[s].hit.copy /\ k # None /\ i = k.id /\ nb[i] \in Device /\ nb'[i] \in Device
                   /\ want = ClientWanted(k.dev) /\ OwnsPlaceholder(k.dev)
                   /\ \A f \in DOMAIN nb[i] : nb'[i][f] = Sent(k, want, f)
    BY <1>4, ClientStored
  <2>2. i = id /\ wk[s].hit # None
    BY <1>1, <1>4, <2>1 DEF ClientStore, ClientLookedUp
  <2>3. ASSUME NEW k \in Copy, NEW want \in Device, nb[id] \in Device,
               want = ClientWanted(k.dev), id = k.id,
               \A f \in DOMAIN nb[id] : nb'[id][f] = Sent(k, want, f)
        PROVE  FALSE
    <3>1. want.mac = k.dev.mac
      BY <2>3, ClientWantedFields DEF Copy
    <3>2. nb'[id].mac = Sent(k, want, "mac") /\ nb'[id].mac # nb[id].mac
      BY <2>3, ConstantsAssumption DEF Device, Exists
    <3>3. QED
      BY <2>3, <3>1, <3>2 DEF Sent
  <2>4. QED
    BY <2>1, <2>2, <2>3 DEF NewClient
<1>5. QED
  BY <1>2, <1>3, <1>4

\* No device has the address that a worker is at.
Fresh(s) == \A id \in Ids : Exists(id) => nb[id].mac # wk[s].hit.at

LEMMA FreshKept ==
  ASSUME IInv, Planned, Separate, [Next]_vars, NEW s \in Sites,
         wk[s].hit # None, wk'[s].hit = wk[s].hit, Fresh(s)
  PROVE  Fresh(s)'
<1> SUFFICES ASSUME NEW id \in Ids, Exists(id)', nb'[id].mac = wk[s].hit.at
             PROVE  FALSE
  BY DEF Fresh
<1>1. Exists(id) => nb'[id].mac # nb[id].mac
  BY DEF Fresh
<1>2. PICK t \in Sites : nb'[id].mac = wk[t].hit.at /\ wk[t].hit # None /\ (HardwareStore(t) \/ ClientStore(t))
  BY <1>1, NewAddress DEF Exists
<1>3. wk'[t].hit = None
  BY <1>2, ReleasedType DEF HardwareStore, ClientStore, IInv, TypeOK
<1>4. QED
  BY <1>2, <1>3, Alone DEF IInv, TypeOK

-------------------------------------------------------------------------------
(* The sync gives no address to a second device.  A client is created where  *)
(* no device has its address: live lookups see the table, and the list knows  *)
(* the device of every client that is still to come.                          *)

\* The records of the MAC list.
Listed == macView.loaded \cup macView.added

\* What the process holds after a write.
LEMMA WriteHeard ==
  ASSUME IInv, NEW s \in Sites, NEW w,
         (lock = s /\ w \in HardwareWrites(s)) \/ (ClientLookedUp(s) /\ w \in ClientWrites(s))
  PROVE  /\ w \in [id : Ids, dev : Device, held : Device] /\ wk[s].hit \in Lookup
         /\ wk[s].hit.copy # None => /\ w.id = wk[s].hit.copy.id
                                     /\ w.held = wk[s].hit.copy.dev \/ w.held = w.dev
         /\ wk[s].hit.copy = None => w.held = w.dev
<1>1. wk[s].hit \in Lookup
  BY DEF IInv, LockHeld, ClientLookedUp, TypeOK, Worker
<1>2. w \in [id : Ids, dev : Device, held : Device]
  BY HardwareWritesSound, ClientWritesSound DEF SoundWrite
<1>3. \/ w = Written(NewId, w.dev) /\ wk[s].hit.copy = None
      \/ \E want : w = Reconciled(wk[s].hit.copy, want) /\ wk[s].hit.copy # None
  BY DEF HardwareWrites, ClientWrites, Written
<1>4. QED
  BY <1>1, <1>2, <1>3 DEF Reconciled, Written

LEMMA RememberKeeps ==
  ASSUME IInv, NEW s \in Sites, NEW w, Store(w), Remember(w, wk[s].hit, s),
         (lock = s /\ w \in HardwareWrites(s)) \/ (ClientLookedUp(s) /\ w \in ClientWrites(s))
  PROVE  /\ macView'.ok = macView.ok
         /\ \A k \in Listed : \E x \in Listed' : x.id = k.id /\ (x = k \/ x.dev = nb'[k.id])
<1>. DEFINE h == wk[s].hit
            copy == [id |-> w.id, dev |-> w.held]
<1>1. /\ w \in [id : Ids, dev : Device, held : Device] /\ h \in Lookup
      /\ h.copy # None => w.id = h.copy.id /\ (w.held = h.copy.dev \/ w.held = w.dev)
  BY WriteHeard
<1>2. macView \in MacList /\ nb'[w.id] = w.dev
  BY <1>1 DEF IInv, TypeOK, Store
<1>3. macView' = IF ~macView.ok THEN macView
                  ELSE CASE h.from = "loaded" -> [macView EXCEPT !.loaded = (@ \ {h.copy}) \cup {copy}]
                         [] h.from = "added"  -> [macView EXCEPT !.added  = (@ \ {h.copy}) \cup {copy}]
                         [] h.from = "live"   -> [macView EXCEPT !.added  = @ \cup {copy}]
  BY DEF Remember
<1>. HIDE DEF h, copy
<1>4. macView'.ok = macView.ok
  BY <1>1, <1>2, <1>3 DEF MacList, Lookup
<1>5. ASSUME NEW k \in Listed
      PROVE  k \in Listed' \/ (k = h.copy /\ copy \in Listed')
  BY <1>1, <1>2, <1>3, <1>5 DEF MacList, Listed, Lookup
<1>6. ASSUME NEW k \in Listed, k = h.copy, copy \in Listed'
      PROVE  \E x \in Listed' : x.id = k.id /\ (x = k \/ x.dev = nb'[k.id])
  <2>1. k \in Copy /\ k # None
    BY <1>2, ConstantsAssumption DEF MacList, Listed
  <2>2. copy.id = k.id /\ (copy.dev = k.dev \/ copy.dev = nb'[k.id])
    BY <1>1, <1>2, <1>6, <2>1 DEF copy
  <2>3. copy.dev = k.dev => copy = k
    BY <1>1, <2>1, <2>2 DEF copy, Copy
  <2>4. QED
    BY <1>6, <2>2, <2>3
<1>7. QED
  BY <1>4, <1>5, <1>6

LEMMA ListsKept ==
  ASSUME IInv, [Next]_vars, ~StartRun, ~EndRun
  PROVE  /\ macView'.ok = macView.ok
         /\ \A k \in Listed : \E x \in Listed' : x.id = k.id /\ (x = k \/ x.dev = nb'[k.id])
<1>1. CASE macView' = macView
  BY <1>1 DEF Listed
<1>2. ASSUME NEW s \in Sites, CreateHardware(s) \/ UpdateHardware(s)
      PROVE  \E w \in HardwareWrites(s) : lock = s /\ Store(w) /\ Remember(w, wk[s].hit, s)
  BY <1>2 DEF CreateHardware, UpdateHardware, HardwareLookedUp
<1>3. ASSUME NEW s \in Sites, CreateClient(s) \/ UpdateClient(s)
      PROVE  \E w \in ClientWrites(s) : ClientLookedUp(s) /\ Store(w) /\ Remember(w, wk[s].hit, s)
  BY <1>3 DEF CreateClient, UpdateClient
<1>4. ASSUME NEW s \in Sites, WorkerStep(s), ~CreateHardware(s), ~UpdateHardware(s), ~CreateClient(s), ~UpdateClient(s)
      PROVE  macView' = macView
  BY <1>4 DEF caches, WorkerStep, InfraStep, ClientStep, StaleStep, ListHardware, FindHardware, SkipHardware,
       HardwareError, ListClients, ReadHistory, FindClient, SkipClient, ClientError, BeginStale, MarkStale, EndStale,
       SiteFails
<1>5. CASE Environment \/ UNCHANGED vars
  BY <1>1, <1>5, OutsideStep
<1>6. CASE \E s \in Sites : WorkerStep(s)
  BY <1>1, <1>2, <1>3, <1>4, <1>6, RememberKeeps
<1>7. QED
  BY <1>5, <1>6 DEF Next

\* The clients that a worker has still to process in this run.
Pending(s) == IF wk[s].stage \in {"infra", "clients"} THEN ListedAt[s]
              ELSE IF wk[s].stage \in {"history", "devices"} THEN wk[s].todo
              ELSE {}

\* The list knows the device of every pending client that has one.
KnownAt(m) == \A id \in Ids : Exists(id) /\ nb[id].mac = m => \E k \in Listed : k.id = id /\ k.dev.mac = m
ListTells == macView.ok => Prefetch /\ \A s \in Sites : \A m \in Pending(s) : KnownAt(m)

LEMMA PendingShrinks ==
  ASSUME IInv, Sources, Planned, [Next]_vars, ~StartRun, NEW s \in Sites
  PROVE  /\ Pending(s)' \subseteq Pending(s)
         /\ Pending(s) \subseteq ListedAt[s]
         /\ ClientStore(s) => wk[s].hit.at \notin Pending(s)'
<1>1. PlannedAt(s) /\ wk[s] \in Worker
  BY DEF Planned, IInv, TypeOK
<1>2. Pending(s) \subseteq ListedAt[s]
  BY <1>1 DEF Pending, PlannedAt
<1>3. ClientStore(s) => wk[s].hit.at \notin Pending(s)'
  <2>1. ClientStore(s) => wk'[s] = Released(s) /\ wk[s].stage = "devices"
    BY DEF ClientStore, ClientLookedUp, IInv, TypeOK
  <2>2. ASSUME ClientStore(s)
        PROVE  wk'[s].stage = "devices" /\ wk'[s].todo = wk[s].todo \ {wk[s].hit.at}
    BY <1>1, <2>1, <2>2 DEF Released, Worker
  <2>3. QED
    BY <2>2 DEF Pending
<1>. SUFFICES Pending(s)' \subseteq Pending(s)
  BY <1>2, <1>3
<1>4. ASSUME wk'[s].stage = wk[s].stage, wk'[s].todo \subseteq wk[s].todo
      PROVE  Pending(s)' \subseteq Pending(s)
  BY <1>4 DEF Pending
<1>5. CASE wk'[s].stage \notin {"infra", "clients", "history", "devices"}
  BY <1>5 DEF Pending
<1>6. CASE EndRun
  <2>1. wk'[s] = Idle
    BY <1>6 DEF EndRun
  <2>2. QED
    BY <1>5, <2>1 DEF Idle
<1>7. CASE wk'[s] = wk[s]
  BY <1>4, <1>7
<1>8. CASE WorkerStep(s)
  <2>1. CASE /\ ListHardware(s)
             /\ \E listed \in BOOLEAN :
                  wk'[s] = [wk[s] EXCEPT !.todo = {m \in Macs : listed /\ adopted[m] = s}, !.listing = TRUE]
    <3>1. wk[s].stage = "infra" /\ wk'[s].stage = "infra"
      BY <1>1, <2>1 DEF ListHardware, Worker
    <3>2. QED
      BY <3>1 DEF Pending
  <2>2. ASSUME NEW h \in Lookup, wk'[s] = [wk[s] EXCEPT !.hit = h]
        PROVE  Pending(s)' \subseteq Pending(s)
    <3>1. wk'[s].stage = wk[s].stage /\ wk'[s].todo = wk[s].todo
      BY <1>1, <2>2 DEF Worker
    <3>2. QED
      BY <1>4, <3>1
  <2>3. CASE wk'[s] = Released(s)
    <3>1. wk'[s].stage = wk[s].stage /\ wk'[s].todo \subseteq wk[s].todo
      BY <1>1, <2>3 DEF Worker, Released
    <3>2. QED
      BY <1>4, <3>1
  <2>4. CASE /\ ListClients(s)
             /\ \E active \in SUBSET Macs :
                  /\ active = {m \in Macs : presence[s][m] = "active"}
                  /\ wk'[s] = [wk[s] EXCEPT !.stage = "history", !.todo = active, !.listing = (active # {})]
    <3>1. PICK active \in SUBSET Macs :
            /\ active = {m \in Macs : presence[s][m] = "active"}
            /\ wk'[s] = [wk[s] EXCEPT !.stage = "history", !.todo = active, !.listing = (active # {})]
      BY <2>4
    <3>2. wk'[s].stage = "history" /\ wk'[s].todo = active
      BY <1>1, <3>1 DEF Worker
    <3>3. wk[s].stage \in {"infra", "clients"}
      BY <2>4 DEF ListClients
    <3>4. active \subseteq ListedAt[s]
      BY <3>1 DEF Sources
    <3>5. QED
      BY <3>2, <3>3, <3>4 DEF Pending
  <2>5. CASE /\ ReadHistory(s)
             /\ \E known \in HistoryAnswers(s), ok \in BOOLEAN :
                  /\ ok => ~(wk[s].listing /\ known = Nothing)
                  /\ wk'[s] = [wk[s] EXCEPT !.stage = "devices", !.known = known, !.histOk = ok]
    <3>1. wk[s].stage = "history" /\ wk'[s].stage = "devices" /\ wk'[s].todo = wk[s].todo
      BY <1>1, <2>5 DEF Worker, ReadHistory
    <3>2. QED
      BY <3>1 DEF Pending
  <2>6. ASSUME NEW m \in Macs, NEW h \in Lookup, wk'[s] = [wk[s] EXCEPT !.hit = h, !.seen = @ \cup {m}]
        PROVE  Pending(s)' \subseteq Pending(s)
    <3>1. wk'[s].stage = wk[s].stage /\ wk'[s].todo = wk[s].todo
      BY <1>1, <2>6 DEF Worker
    <3>2. QED
      BY <1>4, <3>1
  <2>7. CASE /\ BeginStale(s)
             /\ \E pass \in {TRUE, FALSE} :
                  /\ pass => wk[s].histOk
                  /\ wk'[s] = [wk[s] EXCEPT !.stage = IF pass THEN "stale" ELSE "done",
                                            !.known = IF pass THEN Dated(s) ELSE @,
                                            !.stale = IF pass THEN SyncedClients(s) ELSE {}]
    <3>1. wk'[s].stage \in {"stale", "done"}
      BY <1>1, <2>7 DEF Worker
    <3>2. QED
      BY <1>5, <3>1
  <2>8. ASSUME NEW c \in wk[s].stale, wk'[s] = [wk[s] EXCEPT !.stale = @ \ {c}]
        PROVE  Pending(s)' \subseteq Pending(s)
    <3>1. wk'[s].stage = wk[s].stage /\ wk'[s].todo = wk[s].todo
      BY <1>1, <2>8 DEF Worker
    <3>2. QED
      BY <1>4, <3>1
  <2>9. CASE wk'[s] = [wk[s] EXCEPT !.stage = "done"]
    <3>1. wk'[s].stage = "done"
      BY <1>1, <2>9 DEF Worker
    <3>2. QED
      BY <1>5, <3>1
  <2>10. CASE wk'[s] = [Idle EXCEPT !.stage = "failed"]
    BY <1>5, <2>10 DEF Idle
  <2>11. QED
    BY <1>8, <2>1, <2>2, <2>3, <2>4, <2>5, <2>6, <2>7, <2>8, <2>9, <2>10, OwnStep
<1>9. QED
  BY <1>2, <1>3, <1>6, <1>7, <1>8, StepCases

LEMMA PrefetchKnows ==
  ASSUME IInv, StartRun
  PROVE  macView'.ok => Prefetch /\ \A m \in Macs : KnownAt(m)'
<1>1. nb' = nb /\ macView.ok = FALSE
  BY DEF StartRun, IInv, Quiet, NoMacList
<1>2. SUFFICES ASSUME macView'.ok, NEW m \in Macs, NEW id \in Ids, Exists(id), nb[id].mac = m
               PROVE  Prefetch /\ \E k \in Listed' : k.id = id /\ k.dev.mac = m
  <2>1. macView'.ok => Prefetch
    BY <1>1 DEF StartRun, caches, IInv, TypeOK
  <2>2. QED
    BY <1>1, <1>2, <2>1 DEF KnownAt, Exists
<1>3. Prefetch /\ \E macsOk \in BOOLEAN, sitesOk \in SUBSET Sites : Prefetched(macsOk, sitesOk)
  BY <1>1, <1>2 DEF StartRun, caches
<1>4. macView'.loaded = {Live(i) : i \in {j \in Ids \ FreeIds : nb[j].mac # None}}
  BY <1>2, <1>3 DEF Prefetched, NoMacList
<1>5. Live(id) \in macView'.loaded
  BY <1>2, <1>4, ConstantsAssumption DEF FreeIds, Exists
<1>6. Live(id).id = id /\ Live(id).dev = nb[id]
  BY <1>2, LiveCopy DEF IInv
<1>7. QED
  BY <1>2, <1>3, <1>5, <1>6 DEF Listed

LEMMA ListTellsKept ==
  ASSUME IInv, Sources, Planned, Separate, ListTells, [Next]_vars
  PROVE  ListTells'
<1>1. CASE StartRun
  <2>1. \A s \in Sites : Pending(s)' \subseteq Macs
    BY <1>1, StartRunSafe, ConstantsAssumption DEF Pending, IInv, TypeOK, Worker
  <2>2. QED
    BY <1>1, <2>1, PrefetchKnows DEF ListTells
<1>2. CASE EndRun
  BY <1>2 DEF EndRun, ListTells, NoMacList
<1>3. CASE ~StartRun /\ ~EndRun
  <2>1. SUFFICES ASSUME macView'.ok, NEW s \in Sites, NEW m \in Pending(s)',
                        NEW id \in Ids, Exists(id)', nb'[id].mac = m
                 PROVE  \E k \in Listed' : k.id = id /\ k.dev.mac = m
    <3>1. macView'.ok = macView.ok
      BY <1>3, ListsKept
    <3>2. QED
      BY <2>1, <3>1 DEF ListTells, KnownAt
  <2>2. Prefetch /\ KnownAt(m) /\ m \in ListedAt[s] /\ macView.ok
    BY <1>3, <2>1, ListsKept, PendingShrinks DEF ListTells
  <2>3. CASE Exists(id) /\ nb[id].mac = m
    <3>1. PICK k \in Listed : k.id = id /\ k.dev.mac = m
      BY <2>2, <2>3 DEF KnownAt
    <3>2. PICK x \in Listed' : x.id = k.id /\ (x = k \/ x.dev = nb'[k.id])
      BY <1>3, ListsKept
    <3>3. QED
      BY <2>1, <3>1, <3>2
  <2>4. CASE ~(Exists(id) /\ nb[id].mac = m)
    <3>1. PICK t \in Sites :
             /\ m = wk[t].hit.at /\ wk[t].hit # None
             /\ HardwareStore(t) \/ ClientStore(t)
      BY <2>1, <2>4, NewAddress DEF Exists
    <3>2. AddressesApart /\ PlannedAt(t) /\ wk[t] \in Worker
      BY <2>2 DEF Separate, Planned, IInv, TypeOK
    <3>3. CASE HardwareStore(t)
      <4>1. wk[t].stage = "infra"
        BY <3>3 DEF HardwareStore, IInv, LockHeld
      <4>2. m \in Adoptable
        BY <3>1, <3>2, <4>1 DEF PlannedAt, Adoptable, Worker
      <4>3. QED
        BY <2>2, <3>2, <4>2 DEF AddressesApart
    <3>4. CASE ClientStore(t)
      <4>1. m \in ListedAt[t]
        BY <3>1, <3>2, <3>4 DEF ClientStore, ClientLookedUp, PlannedAt
      <4>2. t = s
        BY <2>2, <3>2, <4>1 DEF AddressesApart
      <4>3. m \notin Pending(s)'
        BY <1>3, <3>1, <3>4, <4>2, PendingShrinks
      <4>4. QED
        BY <2>1, <4>3
    <3>5. QED
      BY <3>1, <3>3, <3>4
  <2>5. QED
    BY <2>3, <2>4
<1>4. QED
  BY <1>1, <1>2, <1>3

\* A lookup that found no device with the address is still right when it is
\* acted on: while it lasts, nobody else creates one.
HardwareTold ==
    \A s \in Sites : lock = s /\ macJoin =>
       (wk[s].hit.copy # None /\ wk[s].hit.copy.dev.mac = wk[s].hit.at) \/ Fresh(s)
ClientTold ==
    \A s \in Sites : wk[s].stage = "devices" /\ wk[s].hit # None /\ wk[s].hit.copy = None => Fresh(s)

LEMMA HardwareToldKept ==
  ASSUME IInv, Planned, Separate, HardwareTold, [Next]_vars
  PROVE  HardwareTold'
<1> SUFFICES ASSUME NEW s \in Sites, lock' = s, macJoin'
             PROVE  (wk'[s].hit.copy # None /\ wk'[s].hit.copy.dev.mac = wk'[s].hit.at) \/ Fresh(s)'
  BY DEF HardwareTold
<1>1. ASSUME NEW m \in Macs, FindHardware(s, m)
      PROVE  (wk'[s].hit.copy # None /\ wk'[s].hit.copy.dev.mac = wk'[s].hit.at) \/ Fresh(s)'
  <2>1. nb' = nb
    BY <1>1 DEF FindHardware
  <2>2. QED
    BY <1>1, <2>1, FindHardwareHit DEF Fresh, Exists
<1>2. CASE lock = s /\ wk'[s].hit = wk[s].hit /\ macJoin' = macJoin
  <2>1. wk[s].hit # None
    BY <1>2 DEF IInv, LockHeld
  <2>2. QED
    BY <1>2, <2>1, FreshKept DEF HardwareTold
<1>3. QED
  BY <1>1, <1>2, LockChanges

\* A lookup of a client in progress has just been made, or was there before.
LEMMA LookupChanges ==
  ASSUME IInv, Planned, [Next]_vars, NEW s \in Sites, wk'[s].stage = "devices", wk'[s].hit # None
  PROVE  \/ \E m \in Macs : FindClient(s, m)
         \/ wk'[s] = wk[s]
<1>1. PlannedAt(s) /\ wk[s] \in Worker
  BY DEF Planned, IInv, TypeOK
<1>2. CASE StartRun \/ EndRun
  <2>1. wk'[s] = Idle \/ \E stage \in {"infra", "clients"} : wk'[s] = [Idle EXCEPT !.stage = stage]
    BY <1>2 DEF StartRun, EndRun
  <2>2. QED
    BY <2>1 DEF Idle
<1>3. CASE WorkerStep(s)
  <2>1. CASE /\ ListHardware(s)
             /\ \E listed \in BOOLEAN :
                  wk'[s] = [wk[s] EXCEPT !.todo = {m \in Macs : listed /\ adopted[m] = s}, !.listing = TRUE]
    BY <1>1, <2>1 DEF ListHardware, Worker
  <2>2. ASSUME NEW m \in Macs, FindHardware(s, m)
        PROVE  FALSE
    <3>1. lock' = s
      BY <2>2 DEF FindHardware
    <3>2. wk'[s].stage = "infra"
      BY <2>2, <3>1, FindHardwareSafe DEF IInv, LockHeld
    <3>3. QED
      BY <3>2
  <2>3. CASE wk'[s] = Released(s)
    BY <1>1, <2>3 DEF Worker, Released
  <2>4. CASE ListClients(s)
    <3>1. wk'[s].stage = "history"
      BY <1>1, <2>4 DEF ListClients, IInv, TypeOK, Worker
    <3>2. QED
      BY <3>1
  <2>5. CASE ReadHistory(s)
    <3>1. wk[s].stage = "history" /\ wk[s].hit = None
      BY <1>1, <2>5 DEF PlannedAt, ReadHistory
    <3>2. wk'[s].hit = wk[s].hit
      BY <1>1, <2>5 DEF ReadHistory, IInv, TypeOK, Worker
    <3>3. QED
      BY <3>1, <3>2
  <2>6. CASE BeginStale(s) \/ EndStale(s)
    <3>1. wk[s].hit = None
      BY <1>1, <2>6 DEF PlannedAt, BeginStale, EndStale
    <3>2. wk'[s].hit = wk[s].hit
      BY <1>1, <2>6 DEF BeginStale, EndStale, IInv, TypeOK, Worker
    <3>3. QED
      BY <3>1, <3>2
  <2>7. ASSUME NEW c \in wk[s].stale, MarkStale(s, c), wk'[s] = [wk[s] EXCEPT !.stale = @ \ {c}]
        PROVE  FALSE
    BY <1>1, <2>7 DEF MarkStale, Worker
  <2>8. CASE wk'[s] = [Idle EXCEPT !.stage = "failed"]
    BY <2>8 DEF Idle
  <2>9. QED
    BY <1>3, <2>1, <2>2, <2>3, <2>4, <2>5, <2>6, <2>7, <2>8, OwnStep
<1>4. QED
  BY <1>2, <1>3, StepCases

LEMMA ClientToldKept ==
  ASSUME IInv, Planned, Separate, ListTells, ClientTold, [Next]_vars
  PROVE  ClientTold'
<1> SUFFICES ASSUME NEW s \in Sites, wk'[s].stage = "devices", wk'[s].hit # None, wk'[s].hit.copy = None
             PROVE  Fresh(s)'
  BY DEF ClientTold
<1>1. ASSUME NEW m \in Macs, FindClient(s, m)
      PROVE  Fresh(s)'
  <2>1. PICK h \in Lookup : ClientHit(s, m, h)
    BY <1>1, FindClientHit
  <2>2. wk'[s].hit = h /\ h.at = m /\ nb' = nb
    BY <1>1, <2>1 DEF ClientHit, FindClient, IInv, TypeOK, Worker
  <2>3. IF macView.ok THEN \A k \in Listed : k.dev.mac # m
        ELSE \A id \in Ids : Exists(id) => nb[id].mac # m
    BY <2>1, <2>2 DEF ClientHit, Listed
  <2>4. m \in Pending(s)
    BY <1>1 DEF FindClient, Pending
  <2>5. \A id \in Ids : Exists(id) => nb[id].mac # m
    BY <2>3, <2>4 DEF ListTells, KnownAt
  <2>6. QED
    BY <2>2, <2>5 DEF Fresh, Exists
<1>2. CASE wk'[s] = wk[s]
  BY <1>2, FreshKept DEF ClientTold
<1>3. QED
  BY <1>1, <1>2, LookupChanges

\* The invariant of the lookups.
ToldInv == Sources /\ Planned /\ ListTells /\ HardwareTold /\ ClientTold

LEMMA InitTold == Init => ToldInv
<1> SUFFICES ASSUME Init PROVE ToldInv
  OBVIOUS
<1>1. Sources
  BY DEF Init, Sources
<1>2. \A s \in Sites : wk[s] = Idle /\ lock # s
  BY ConstantsAssumption DEF Init
<1>3. Planned /\ ClientTold /\ HardwareTold
  BY <1>2 DEF Idle, Planned, PlannedAt, ClientTold, HardwareTold
<1>4. ListTells
  BY DEF Init, NoMacList, ListTells
<1>5. QED
  BY <1>1, <1>3, <1>4 DEF ToldInv

LEMMA ToldKept ==
  ASSUME IInv, ToldInv, Separate, [Next]_vars
  PROVE  ToldInv'
BY SourcesKept, PlannedKept, ListTellsKept, HardwareToldKept, ClientToldKept DEF ToldInv

\* No step gives a UniFi address to a device while another one carries it, as
\* long as the process joins hardware by address, for any number of sites, lists
\* and failures, provided that the deployment keeps the addresses of the workers
\* separate.  Without that the code has no guard: two sites that list one client
\* may both create it.
THEOREM OneDevice ==
  ASSUME Separate
  PROVE  Spec => OneDevicePerMac
<1>1. Init => IInv /\ ToldInv
  BY InitSafe, InitTold
<1>2. IInv /\ ToldInv /\ [Next]_vars => (IInv /\ ToldInv)'
  BY NextSafe, ToldKept
<1>3. ASSUME IInv, ToldInv, [Next]_vars, NEW i \in Ids, NEW j \in Ids,
             Addressed(i), macJoin, i # j, nb'[j] # None
      PROVE  nb'[i].mac # nb'[j].mac
  <2>1. PICK s \in Sites :
           /\ nb'[i].mac = wk[s].hit.at /\ wk[s].hit # None
           /\ \A x \in Ids \ {i} : nb'[x] = nb[x]
           /\ \/ HardwareStore(s) /\ (wk[s].hit.copy = None \/ wk[s].hit.copy.dev.mac # wk[s].hit.at)
              \/ ClientStore(s) /\ wk[s].hit.copy = None
    BY <1>3, NewAddress DEF Addressed
  <2>2. Fresh(s)
    BY <1>3, <2>1 DEF ToldInv, HardwareTold, ClientTold, HardwareStore, ClientStore, ClientLookedUp
  <2>3. nb'[j] = nb[j] /\ Exists(j)
    BY <1>3, <2>1 DEF Exists
  <2>4. QED
    BY <2>1, <2>2, <2>3 DEF Fresh
<1>4. IInv /\ ToldInv /\ [Next]_vars
        => [\A i, j \in Ids :
              /\ Addressed(i) /\ nb'[i].mac # None /\ macJoin
              /\ i # j /\ nb'[j] # None
              => nb'[i].mac # nb'[j].mac]_vars
  BY <1>3
<1>5. QED
  BY <1>1, <1>2, <1>4, PTL DEF Spec, OneDevicePerMac

-------------------------------------------------------------------------------
(* What the offline pass acts on.  A record that a worker holds was taken     *)
(* from NetBox or from a list, and tells the address that NetBox stores, or   *)
(* the device has been given the address of adopted hardware since.           *)

\* The records in the lists, and those in the hands of the workers.
InLists(k) == k \in Listed \/ \E s \in Sites : k \in siteView[s].devices
InHands(k) == \E s \in Sites : \/ wk[s].hit # None /\ wk[s].hit.copy = k /\ k # None
                               \/ k \in wk[s].stale

LEMMA RememberAdds ==
  ASSUME IInv, NEW s \in Sites, NEW w, Store(w), Remember(w, wk[s].hit, s),
         (lock = s /\ w \in HardwareWrites(s)) \/ (ClientLookedUp(s) /\ w \in ClientWrites(s)),
         NEW k, InLists(k)'
  PROVE  InLists(k) \/ InHands(k) \/ nb'[k.id] = k.dev
<1>. DEFINE h == wk[s].hit
            copy == [id |-> w.id, dev |-> w.held]
<1>1. /\ w \in [id : Ids, dev : Device, held : Device] /\ h \in Lookup
      /\ h.copy # None => w.id = h.copy.id /\ (w.held = h.copy.dev \/ w.held = w.dev)
      /\ h.copy = None => w.held = w.dev
  BY WriteHeard
<1>2. nb'[w.id] = w.dev /\ h # None
  BY <1>1 DEF IInv, TypeOK, Store, LockHeld, ClientLookedUp
<1>3. ListsGrow(copy)
  BY <1>1, RememberGrows DEF IInv
<1>4. k = copy \/ InLists(k)
  BY <1>3 DEF ListsGrow, InLists, Listed
<1>5. ASSUME k = copy
      PROVE  InHands(k) \/ nb'[k.id] = k.dev
  <2>1. CASE w.held = w.dev
    BY <1>1, <1>2, <1>5, <2>1
  <2>2. CASE h.copy # None /\ w.id = h.copy.id /\ w.held = h.copy.dev
    <3>1. k = h.copy
      BY <1>1, <1>5, <2>2 DEF Lookup, Copy
    <3>2. QED
      BY <1>2, <2>2, <3>1 DEF InHands
  <2>3. QED
    BY <1>1, <2>1, <2>2
<1>6. QED
  BY <1>4, <1>5

\* A record that appears in a list was in the hands of a worker, or is what
\* NetBox stores now.
LEMMA ListsChange ==
  ASSUME IInv, [Next]_vars, NEW k, InLists(k)'
  PROVE  InLists(k) \/ InHands(k) \/ nb'[k.id] = k.dev
<1>1. CASE UNCHANGED <<macView, siteView>>
  BY <1>1 DEF InLists, Listed
<1>2. ASSUME NEW s \in Sites, CreateHardware(s) \/ UpdateHardware(s) \/ CreateClient(s) \/ UpdateClient(s)
      PROVE  InLists(k) \/ InHands(k) \/ nb'[k.id] = k.dev
  <2>1. CASE CreateHardware(s) \/ UpdateHardware(s)
    <3>1. \E w \in HardwareWrites(s) : lock = s /\ Store(w) /\ Remember(w, wk[s].hit, s)
      BY <2>1 DEF CreateHardware, UpdateHardware, HardwareLookedUp
    <3>2. QED
      BY <3>1, RememberAdds
  <2>2. CASE CreateClient(s) \/ UpdateClient(s)
    <3>1. \E w \in ClientWrites(s) : ClientLookedUp(s) /\ Store(w) /\ Remember(w, wk[s].hit, s)
      BY <2>2 DEF CreateClient, UpdateClient
    <3>2. QED
      BY <3>1, RememberAdds
  <2>3. QED
    BY <1>2, <2>1, <2>2
<1>3. ASSUME NEW s \in Sites, WorkerStep(s), ~CreateHardware(s), ~UpdateHardware(s), ~CreateClient(s), ~UpdateClient(s)
      PROVE  UNCHANGED <<macView, siteView>>
  BY <1>3 DEF caches, WorkerStep, InfraStep, ClientStep, StaleStep, ListHardware, FindHardware, SkipHardware,
       HardwareError, ListClients, ReadHistory, FindClient, SkipClient, ClientError, BeginStale, MarkStale, EndStale,
       SiteFails
<1>4. CASE EndRun
  BY <1>4 DEF EndRun, InLists, Listed, NoMacList, NoSiteList
<1>5. CASE StartRun
  <2>1. nb' = nb
    BY <1>5 DEF StartRun
  <2>2. CASE UNCHANGED caches
    BY <1>1, <2>2 DEF caches
  <2>3. ASSUME NEW macsOk \in BOOLEAN, NEW sitesOk \in SUBSET Sites, Prefetched(macsOk, sitesOk)
        PROVE  nb'[k.id] = k.dev
    <3>1. \E id \in Ids \ FreeIds : k = Live(id)
      <4>1. CASE k \in macView'.loaded \cup macView'.added
        BY <2>3, <4>1 DEF Prefetched, NoMacList
      <4>2. ASSUME NEW s \in Sites, k \in siteView'[s].devices
            PROVE  \E id \in Ids \ FreeIds : k = Live(id)
        BY <2>3, <4>2 DEF Prefetched, NoSiteList
      <4>3. QED
        BY <4>1, <4>2 DEF InLists, Listed
    <3>2. QED
      BY <2>1, <3>1 DEF Live
  <2>4. QED
    BY <1>5, <2>2, <2>3 DEF StartRun
<1>6. CASE Environment \/ UNCHANGED vars
  BY <1>1, <1>6, OutsideStep
<1>7. QED
  BY <1>1, <1>2, <1>3, <1>4, <1>5, <1>6 DEF Next

\* A record that a worker takes comes from a list, or is what NetBox stores.
LEMMA HandsChange ==
  ASSUME IInv, [Next]_vars, NEW k, InHands(k)'
  PROVE  InLists(k) \/ InHands(k) \/ nb'[k.id] = k.dev
<1>1. PICK s \in Sites : \/ wk'[s].hit # None /\ wk'[s].hit.copy = k /\ k # None
                         \/ k \in wk'[s].stale
  BY DEF InHands
<1>2. wk[s] \in Worker
  BY DEF IInv, TypeOK
<1>3. ASSUME wk'[s].hit = wk[s].hit \/ wk'[s].hit = None, wk'[s].stale \subseteq wk[s].stale
      PROVE  InHands(k)
  BY <1>1, <1>3 DEF InHands
<1>4. CASE StartRun \/ EndRun
  <2>1. wk'[s] = Idle \/ \E stage \in {"infra", "clients"} : wk'[s] = [Idle EXCEPT !.stage = stage]
    BY <1>4 DEF StartRun, EndRun
  <2>2. wk'[s].hit = None /\ wk'[s].stale = {}
    BY <2>1 DEF Idle
  <2>3. QED
    BY <1>3, <2>2
<1>5. CASE WorkerStep(s)
  <2>1. ASSUME NEW r, wk'[s] = r, r.hit = wk[s].hit \/ r.hit = None, r.stale \subseteq wk[s].stale
        PROVE  InHands(k)
    BY <1>3, <2>1
  <2>2. CASE \E listed \in BOOLEAN :
               wk'[s] = [wk[s] EXCEPT !.todo = {m \in Macs : listed /\ adopted[m] = s}, !.listing = TRUE]
    <3>1. wk'[s].hit = wk[s].hit /\ wk'[s].stale = wk[s].stale
      BY <1>2, <2>2 DEF Worker
    <3>2. QED
      BY <1>3, <3>1
  <2>3. ASSUME NEW m \in Macs, NEW h \in Lookup, FindHardware(s, m), wk'[s] = [wk[s] EXCEPT !.hit = h]
        PROVE  InHands(k) \/ nb'[k.id] = k.dev
    <3>1. wk'[s].hit = h /\ wk'[s].stale = wk[s].stale /\ nb' = nb
      BY <1>2, <2>3 DEF Worker, FindHardware
    <3>2. h.copy # None => \E id \in Ids : Exists(id) /\ h.copy = Live(id)
      BY <2>3, <3>1, FindHardwareHit
    <3>3. \A id : nb[Live(id).id] = Live(id).dev
      BY DEF Live
    <3>4. k \in wk[s].stale \/ nb'[k.id] = k.dev
      BY <1>1, <3>1, <3>2, <3>3
    <3>5. QED
      BY <3>4 DEF InHands
  <2>4. CASE wk'[s] = Released(s)
    <3>1. wk'[s].hit = None /\ wk'[s].stale = wk[s].stale
      BY <1>2, <2>4 DEF Worker, Released
    <3>2. QED
      BY <1>3, <3>1
  <2>5. CASE \E active \in SUBSET Macs :
               wk'[s] = [wk[s] EXCEPT !.stage = "history", !.todo = active, !.listing = (active # {})]
    <3>1. PICK active \in SUBSET Macs :
             wk'[s] = [wk[s] EXCEPT !.stage = "history", !.todo = active, !.listing = (active # {})]
      BY <2>5
    <3>2. wk'[s].hit = wk[s].hit /\ wk'[s].stale = wk[s].stale
      BY <1>2, <3>1 DEF Worker
    <3>3. QED
      BY <1>3, <3>2
  <2>6. CASE \E known \in HistoryAnswers(s), ok \in BOOLEAN :
               wk'[s] = [wk[s] EXCEPT !.stage = "devices", !.known = known, !.histOk = ok]
    <3>1. wk'[s].hit = wk[s].hit /\ wk'[s].stale = wk[s].stale
      BY <1>2, <2>6 DEF Worker
    <3>2. QED
      BY <1>3, <3>1
  <2>7. ASSUME NEW m \in Macs, FindClient(s, m)
        PROVE  InLists(k) \/ InHands(k) \/ nb'[k.id] = k.dev
    <3>1. PICK h \in Lookup : ClientHit(s, m, h)
      BY <2>7, FindClientHit
    <3>2. wk'[s].hit = h /\ wk'[s].stale = wk[s].stale /\ nb' = nb
      BY <1>2, <2>7, <3>1 DEF Worker, ClientHit, FindClient
    <3>3. k \in wk[s].stale \/ (k = h.copy /\ h.copy # None)
      BY <1>1, <3>2
    <3>4. h.copy # None => h.copy \in Listed \/ \E id \in Ids : h.copy = Live(id)
      BY <3>1 DEF ClientHit, Listed
    <3>5. \A id : nb[Live(id).id] = Live(id).dev
      BY DEF Live
    <3>6. k \in wk[s].stale => InHands(k)
      BY DEF InHands
    <3>7. k \in Listed => InLists(k)
      BY DEF InLists
    <3>8. QED
      BY <3>2, <3>3, <3>4, <3>5, <3>6, <3>7
  <2>8. CASE /\ BeginStale(s)
             /\ \E pass \in {TRUE, FALSE} :
                  /\ pass => wk[s].histOk
                  /\ wk'[s] = [wk[s] EXCEPT !.stage = IF pass THEN "stale" ELSE "done",
                                            !.known = IF pass THEN Dated(s) ELSE @,
                                            !.stale = IF pass THEN SyncedClients(s) ELSE {}]
    <3>1. wk'[s].hit = wk[s].hit /\ wk'[s].stale \subseteq SyncedClients(s) /\ nb' = nb
      BY <1>2, <2>8 DEF Worker, BeginStale
    <3>2. \A x \in SyncedClients(s) : x \in siteView[s].devices \/ \E id \in Ids : x = Live(id)
      BY DEF SyncedClients
    <3>3. QED
      BY <1>1, <3>1, <3>2 DEF InHands, InLists, Live
  <2>9. ASSUME NEW c \in wk[s].stale, wk'[s] = [wk[s] EXCEPT !.stale = @ \ {c}]
        PROVE  InHands(k)
    <3>1. wk'[s].hit = wk[s].hit /\ wk'[s].stale \subseteq wk[s].stale
      BY <1>2, <2>9 DEF Worker
    <3>2. QED
      BY <1>3, <3>1
  <2>10. CASE wk'[s] = [wk[s] EXCEPT !.stage = "done"]
    <3>1. wk'[s].hit = wk[s].hit /\ wk'[s].stale = wk[s].stale
      BY <1>2, <2>10 DEF Worker
    <3>2. QED
      BY <1>3, <3>1
  <2>11. CASE wk'[s] = [Idle EXCEPT !.stage = "failed"]
    <3>1. wk'[s].hit = None /\ wk'[s].stale = {}
      BY <2>11 DEF Idle
    <3>2. QED
      BY <1>3, <3>1
  <2>12. QED
    BY <1>5, <2>2, <2>3, <2>4, <2>5, <2>6, <2>7, <2>8, <2>9, <2>10, <2>11, OwnStep
<1>6. CASE wk'[s] = wk[s]
  BY <1>3, <1>6
<1>7. QED
  BY <1>4, <1>5, <1>6, StepCases

\* Without a prefetch there are no lists.
NoLists == ~Prefetch => macView = NoMacList /\ siteView = [s \in Sites |-> NoSiteList]

LEMMA NoListsKept ==
  ASSUME IInv, NoLists, [Next]_vars
  PROVE  NoLists'
<1> SUFFICES ASSUME ~Prefetch, macView = NoMacList, siteView = [s \in Sites |-> NoSiteList]
             PROVE  macView' = NoMacList /\ siteView' = [s \in Sites |-> NoSiteList]
  BY DEF NoLists
<1>1. ASSUME NEW s \in Sites, NEW w, NEW h, Remember(w, h, s)
      PROVE  UNCHANGED <<macView, siteView>>
  BY <1>1 DEF Remember, NoMacList, NoSiteList
<1>2. ASSUME NEW s \in Sites, WorkerStep(s)
      PROVE  UNCHANGED <<macView, siteView>>
  BY <1>1, <1>2 DEF caches, WorkerStep, InfraStep, ClientStep, StaleStep, ListHardware, FindHardware, SkipHardware,
       CreateHardware, UpdateHardware, HardwareError, ListClients, ReadHistory, FindClient, SkipClient, CreateClient,
       UpdateClient, ClientError, BeginStale, MarkStale, EndStale, SiteFails
<1>3. CASE StartRun \/ EndRun
  BY <1>3 DEF StartRun, EndRun, caches
<1>4. QED
  BY <1>2, <1>3, OutsideStep DEF Next

\* What the offline pass may rely on: it takes on client records only, after a
\* history in which no client with a sighting still within the grace is unknown or
\* judged expired, or after a controller that was blank twice.
JudgedAt(s) ==
    /\ wk[s].stale # {} => wk[s].stage = "stale"
    /\ \A k \in wk[s].stale : k.dev.role = "client"
    /\ wk[s].stage = "stale" \/ (wk[s].stage = "devices" /\ wk[s].histOk)
         => BlankController(s) \/ \A m \in recent[s] : wk[s].known[m] \in {"stamped", "unstamped"}
    /\ recent[s] \subseteq ListedAt[s]
Judged == \A s \in Sites : JudgedAt(s)

LEMMA RecentChange ==
  ASSUME IInv, [Next]_vars, NEW s \in Sites
  PROVE  recent'[s] \subseteq recent[s] \/ (ReadHistory(s) /\ recent'[s] = WithinGrace(s))
<1>1. recent \in [Sites -> SUBSET Macs]
  BY DEF IInv, TypeOK
<1>2. ASSUME NEW t \in Sites, WorkerStep(t), ~ReadHistory(t)
      PROVE  recent' = recent
  BY <1>2 DEF WorkerStep, InfraStep, ClientStep, StaleStep, ListHardware, FindHardware, SkipHardware,
       CreateHardware, UpdateHardware, HardwareError, ListClients, FindClient, SkipClient, CreateClient,
       UpdateClient, ClientError, BeginStale, MarkStale, EndStale, SiteFails
<1>3. ASSUME NEW t \in Sites, ReadHistory(t)
      PROVE  recent' = [recent EXCEPT ![t] = WithinGrace(t)]
  BY <1>3 DEF ReadHistory
<1>4. CASE StartRun \/ EndRun \/ UNCHANGED vars
  BY <1>4 DEF StartRun, EndRun, vars
<1>5. CASE Environment
  <2>1. recent' = recent \/ \E t \in Sites, m \in Macs : recent' = [recent EXCEPT ![t] = @ \ {m}]
    BY <1>5 DEF Environment, OperatorEdit, ClientMoves, SightingAges, Readopt
  <2>2. QED
    BY <1>1, <2>1
<1>6. QED
  BY <1>1, <1>2, <1>3, <1>4, <1>5 DEF Next

LEMMA JudgedKept ==
  ASSUME IInv, Sources, Planned, Judged, [Next]_vars
  PROVE  Judged'
<1> SUFFICES ASSUME NEW s \in Sites PROVE JudgedAt(s)'
  BY DEF Judged
<1>1. JudgedAt(s) /\ PlannedAt(s) /\ wk[s] \in Worker
  BY DEF Judged, Planned, IInv, TypeOK
<1>2. WithinGrace(s) \subseteq ListedAt[s]
  BY DEF WithinGrace, Sources
<1>3. recent'[s] \subseteq ListedAt[s]
  BY <1>1, <1>2, RecentChange DEF JudgedAt
<1>4. ASSUME wk'[s].stage \notin {"stale", "devices"}, wk'[s].stale = {}
      PROVE  JudgedAt(s)'
  BY <1>3, <1>4 DEF JudgedAt
<1>5. ASSUME wk'[s].stage = wk[s].stage, wk'[s].stale \subseteq wk[s].stale, wk'[s].histOk = wk[s].histOk,
             wk'[s].known = wk[s].known, wk'[s].listing = wk[s].listing,
             recent'[s] \subseteq recent[s]
      PROVE  JudgedAt(s)'
  BY <1>1, <1>3, <1>5 DEF JudgedAt, BlankController
<1>6. CASE StartRun \/ EndRun
  <2>1. wk'[s] = Idle \/ \E stage \in {"infra", "clients"} : wk'[s] = [Idle EXCEPT !.stage = stage]
    BY <1>6 DEF StartRun, EndRun
  <2>2. wk'[s].stage \notin {"stale", "devices"} /\ wk'[s].stale = {}
    BY <2>1 DEF Idle
  <2>3. QED
    BY <1>4, <2>2
<1>7. CASE wk'[s] = wk[s] /\ ~EndRun
  <2>1. CASE recent'[s] \subseteq recent[s]
    BY <1>5, <1>7, <2>1
  <2>2. CASE ReadHistory(s)
    <3>1. wk'[s].stage = "devices" /\ wk[s].stage # "devices"
      BY <1>1, <2>2 DEF ReadHistory, IInv, TypeOK, Worker
    <3>2. QED
      BY <1>7, <3>1
  <2>3. QED
    BY <1>7, <2>1, <2>2, RecentChange
<1>8. CASE WorkerStep(s) /\ ~EndRun
  <2>1. CASE /\ ListHardware(s)
             /\ \E listed \in BOOLEAN :
                  wk'[s] = [wk[s] EXCEPT !.todo = {m \in Macs : listed /\ adopted[m] = s}, !.listing = TRUE]
    <3>1. wk[s].stage = "infra"
      BY <2>1 DEF ListHardware
    <3>2. wk'[s].stage = "infra" /\ wk'[s].stale = wk[s].stale
      BY <1>1, <2>1, <3>1 DEF Worker
    <3>3. QED
      BY <1>1, <1>4, <3>1, <3>2 DEF JudgedAt
  <2>2. ASSUME NEW m \in Macs, NEW h \in Lookup, FindHardware(s, m), wk'[s] = [wk[s] EXCEPT !.hit = h]
        PROVE  JudgedAt(s)'
    <3>1. wk[s].stage = "infra"
      BY <2>2 DEF FindHardware
    <3>2. wk'[s].stage = "infra" /\ wk'[s].stale = wk[s].stale
      BY <1>1, <2>2, <3>1 DEF Worker
    <3>3. QED
      BY <1>1, <1>4, <3>1, <3>2 DEF JudgedAt
  <2>3. CASE (lock = s \/ wk[s].stage = "devices") /\ wk[s].hit # None /\ wk'[s] = Released(s)
    <3>1. wk[s].stage \in {"infra", "devices"}
      BY <2>3 DEF IInv, LockHeld
    <3>2. recent'[s] \subseteq recent[s]
      <4>1. ReadHistory(s) => wk[s].stage = "history"
        BY DEF ReadHistory
      <4>2. QED
        BY <3>1, <4>1, RecentChange
    <3>3. /\ wk'[s].stage = wk[s].stage /\ wk'[s].stale = wk[s].stale /\ wk'[s].histOk = wk[s].histOk
          /\ wk'[s].known = wk[s].known /\ wk'[s].listing = wk[s].listing
      BY <1>1, <2>3 DEF Worker, Released
    <3>4. QED
      BY <1>5, <3>2, <3>3
  <2>4. CASE /\ ListClients(s)
             /\ \E active \in SUBSET Macs :
                  wk'[s] = [wk[s] EXCEPT !.stage = "history", !.todo = active, !.listing = (active # {})]
    <3>1. PICK active \in SUBSET Macs :
            wk'[s] = [wk[s] EXCEPT !.stage = "history", !.todo = active, !.listing = (active # {})]
      BY <2>4
    <3>2. wk'[s].stage = "history" /\ wk'[s].stale = wk[s].stale
      BY <1>1, <3>1 DEF Worker
    <3>3. wk[s].stage \in {"infra", "clients"}
      BY <2>4 DEF ListClients
    <3>4. QED
      BY <1>1, <1>4, <3>2, <3>3 DEF JudgedAt
  <2>5. ASSUME NEW known \in HistoryAnswers(s), NEW ok \in BOOLEAN, ReadHistory(s),
               ok => ~(wk[s].listing /\ known = Nothing),
               wk'[s] = [wk[s] EXCEPT !.stage = "devices", !.known = known, !.histOk = ok]
        PROVE  JudgedAt(s)'
    <3>1. wk[s].stage = "history" /\ recent'[s] = WithinGrace(s)
      BY <2>5 DEF ReadHistory, IInv, TypeOK
    <3>2. /\ wk'[s].stage = "devices" /\ wk'[s].stale = wk[s].stale /\ wk'[s].histOk = ok
          /\ wk'[s].known = known /\ wk'[s].listing = wk[s].listing
      BY <1>1, <2>5 DEF Worker
    <3>3. ASSUME ok
          PROVE  BlankController(s)' \/ \A m \in recent'[s] : known[m] \in {"stamped", "unstamped"}
      <4>1. CASE known = Nothing
        BY <2>5, <3>2, <3>3, <4>1 DEF BlankController, Nothing
      <4>2. ASSUME NEW unstamped, known = Answer(s, unstamped), NEW m \in WithinGrace(s)
            PROVE  known[m] \in {"stamped", "unstamped"}
        BY <4>2 DEF Answer, WithinGrace
      <4>3. QED
        BY <3>1, <4>1, <4>2 DEF HistoryAnswers
    <3>4. QED
      BY <1>1, <1>3, <3>1, <3>2, <3>3 DEF JudgedAt
  <2>6. ASSUME NEW m \in Macs, NEW h \in Lookup, FindClient(s, m), wk'[s] = [wk[s] EXCEPT !.hit = h, !.seen = @ \cup {m}]
        PROVE  JudgedAt(s)'
    <3>1. recent'[s] = recent[s]
      BY <2>6 DEF FindClient
    <3>2. /\ wk'[s].stage = wk[s].stage /\ wk'[s].stale = wk[s].stale /\ wk'[s].histOk = wk[s].histOk
          /\ wk'[s].known = wk[s].known /\ wk'[s].listing = wk[s].listing
      BY <1>1, <2>6 DEF Worker
    <3>3. QED
      BY <1>5, <3>1, <3>2
  <2>7. ASSUME BeginStale(s), NEW pass \in {TRUE, FALSE}, pass => wk[s].histOk,
               wk'[s] = [wk[s] EXCEPT !.stage = IF pass THEN "stale" ELSE "done",
                                      !.known = IF pass THEN Dated(s) ELSE @,
                                      !.stale = IF pass THEN SyncedClients(s) ELSE {}]
        PROVE  JudgedAt(s)'
    <3>1. wk[s].stage = "devices" /\ recent'[s] = recent[s]
      BY <2>7 DEF BeginStale
    <3>2. CASE ~pass
      <4>1. wk'[s].stage = "done" /\ wk'[s].stale = {}
        BY <1>1, <2>7, <3>2 DEF Worker
      <4>2. QED
        BY <1>4, <4>1
    <3>3. CASE pass
      <4>1. /\ wk'[s].stage = "stale" /\ wk'[s].stale = SyncedClients(s)
            /\ wk'[s].known = Dated(s) /\ wk'[s].listing = wk[s].listing
        BY <1>1, <2>7, <3>3 DEF Worker
      <4>2. \A k \in SyncedClients(s) : k.dev.role = "client"
        BY DEF SyncedClients
      <4>3. BlankController(s) \/ \A m \in recent[s] : wk[s].known[m] \in {"stamped", "unstamped"}
        BY <1>1, <2>7, <3>1, <3>3 DEF JudgedAt
      <4>4. BlankController(s)' \/ \A m \in recent'[s] : wk'[s].known[m] \in {"stamped", "unstamped"}
        <5>1. CASE BlankController(s)
          <6>1. Dated(s) = Nothing
            BY <5>1 DEF BlankController, Dated, Nothing
          <6>2. QED
            BY <4>1, <5>1, <6>1 DEF BlankController, Nothing
        <5>2. ASSUME NEW m \in recent[s], wk[s].known[m] \in {"stamped", "unstamped"}
              PROVE  Dated(s)[m] \in {"stamped", "unstamped"}
          <6>1. m \in Macs
            BY <5>2 DEF IInv, TypeOK
          <6>2. QED
            BY <5>2, <6>1 DEF Dated
        <5>3. QED
          BY <3>1, <4>1, <4>3, <5>1, <5>2
      <4>5. QED
        BY <1>3, <4>1, <4>2, <4>4 DEF JudgedAt
    <3>4. QED
      BY <3>2, <3>3
  <2>8. ASSUME NEW c \in wk[s].stale, MarkStale(s, c), wk'[s] = [wk[s] EXCEPT !.stale = @ \ {c}]
        PROVE  JudgedAt(s)'
    <3>1. recent'[s] = recent[s]
      BY <2>8 DEF MarkStale
    <3>2. /\ wk'[s].stage = wk[s].stage /\ wk'[s].stale \subseteq wk[s].stale /\ wk'[s].histOk = wk[s].histOk
          /\ wk'[s].known = wk[s].known /\ wk'[s].listing = wk[s].listing
      BY <1>1, <2>8 DEF Worker
    <3>3. QED
      BY <1>5, <3>1, <3>2
  <2>9. CASE EndStale(s) /\ wk'[s] = [wk[s] EXCEPT !.stage = "done"]
    <3>1. wk'[s].stage = "done" /\ wk'[s].stale = {}
      BY <1>1, <2>9 DEF Worker, EndStale
    <3>2. QED
      BY <1>4, <3>1
  <2>10. CASE wk'[s] = [Idle EXCEPT !.stage = "failed"]
    <3>1. wk'[s].stage = "failed" /\ wk'[s].stale = {}
      BY <2>10 DEF Idle
    <3>2. QED
      BY <1>4, <3>1
  <2>11. QED
    BY <1>8, <2>1, <2>2, <2>3, <2>4, <2>5, <2>6, <2>7, <2>8, <2>9, <2>10, OwnStep
<1>9. QED
  BY <1>6, <1>7, <1>8, StepCases

LEMMA HeldExists ==
  ASSUME IInv, NEW k, InLists(k) \/ InHands(k)
  PROVE  k \in Copy /\ k.id \in Ids /\ Exists(k.id)
<1>1. SoundCopy(k) /\ k \in Copy
  BY HeldSound DEF InLists, InHands, Listed, IInv, SoundMacView, SoundSiteView, TypeOK, MacList, SiteList, Worker, Lookup
<1>2. QED
  BY <1>1 DEF SoundCopy, SoundAt, Copy, Exists

LEMMA HeldBefore ==
  ASSUME IInv, [Next]_vars, NEW k, InLists(k)' \/ InHands(k)', nb'[k.id] # k.dev
  PROVE  InLists(k) \/ InHands(k)
BY ListsChange, HandsChange

\* A single worker that reads NetBox live holds no record when hardware is written.
LEMMA EmptyHands ==
  ASSUME IInv, Judged, NoLists', OneWorker, ~Prefetch, [Next]_vars, NEW s \in Sites, HardwareStore(s), NEW k
  PROVE  ~InLists(k)' /\ ~InHands(k)'
<1>1. ~InLists(k)'
  BY DEF NoLists, InLists, Listed, NoMacList, NoSiteList
<1>2. wk'[s] = Released(s) /\ wk[s].stage = "infra" /\ wk[s] \in Worker
  BY DEF HardwareStore, IInv, LockHeld, TypeOK
<1>3. wk'[s].hit = None /\ wk'[s].stale = {}
  BY <1>2 DEF Released, Worker, Judged, JudgedAt
<1>4. QED
  BY <1>1, <1>3 DEF InHands, OneWorker

\* No device disappears.
LEMMA TableKept ==
  ASSUME IInv, [Next]_vars, NEW id \in Ids, Exists(id)
  PROVE  nb'[id] # None
<1>1. nb[id] \in Device
  BY DEF IInv, TypeOK, Exists
<1>2. CASE ~\E s \in Sites : HardwareStore(s)
  BY <1>2, OnlyHardwareMoves, ConstantsAssumption DEF Unmoved
<1>3. CASE \E s \in Sites : HardwareStore(s)
  <2>1. PICK s \in Sites, i \in Ids : (\A j \in Ids \ {i} : nb'[j] = nb[j]) /\ (nb[i] = None \/ nb'[i] \in Device)
    BY <1>3, HardwareStored
  <2>2. QED
    BY <1>1, <2>1, ConstantsAssumption DEF Exists
<1>4. QED
  BY <1>2, <1>3

\* A record tells the address of its device, or the device has been taken for
\* adopted hardware since.
Drift(k) ==
    \/ nb[k.id].mac = k.dev.mac
    \/ AddressesApart /\ nb[k.id].mac \in Adoptable
Drifts == \A k \in Copy : InLists(k) \/ InHands(k) => Drift(k)

LEMMA DriftsKept ==
  ASSUME IInv, IInv', Planned, Judged, NoLists', Separate, Drifts, [Next]_vars
  PROVE  Drifts'
<1> SUFFICES ASSUME NEW k \in Copy, InLists(k)' \/ InHands(k)', nb'[k.id] # k.dev
             PROVE  Drift(k)'
  BY DEF Drifts, Drift
<1>1. (InLists(k) \/ InHands(k)) /\ Drift(k) /\ k.id \in Ids /\ Exists(k.id)
  BY HeldBefore, HeldExists DEF Drifts
<1>2. CASE ~\E s \in Sites : HardwareStore(s)
  BY <1>1, <1>2, OnlyHardwareMoves DEF Unmoved, Drift
<1>3. ASSUME NEW s \in Sites, HardwareStore(s)
      PROVE  Drift(k)'
  <2>1. AddressesApart
    BY <1>3, EmptyHands DEF Separate
  <2>2. CASE nb'[k.id].mac = nb[k.id].mac
    BY <1>1, <2>2 DEF Drift
  <2>3. CASE nb'[k.id].mac # nb[k.id].mac
    <3>1. nb'[k.id] # None
      BY <1>1, TableKept
    <3>2. PICK t \in Sites : /\ nb'[k.id].mac = wk[t].hit.at /\ wk[t].hit # None
                             /\ HardwareStore(t) \/ ClientStore(t)
      BY <1>1, <2>3, <3>1, NewAddress
    <3>3. lock = t
      BY <1>3, <3>2, ConstantsAssumption DEF HardwareStore, ClientStore
    <3>4. wk[t].stage = "infra" /\ PlannedAt(t) /\ wk[t] \in Worker
      BY <3>3 DEF IInv, LockHeld, Planned, TypeOK
    <3>5. wk[t].hit.at \in Adoptable
      BY <3>2, <3>4 DEF PlannedAt, Adoptable, Worker
    <3>6. QED
      BY <2>1, <3>2, <3>5 DEF Drift
  <2>4. QED
    BY <2>2, <2>3
<1>4. QED
  BY <1>2, <1>3

\* No step but a write of hardware makes a device infrastructure, and when a
\* single worker writes hardware no record is in hand.
RolesTold ==
    OneWorker /\ ~Prefetch
      => \A k \in Copy : InHands(k) /\ nb[k.id].role = "infra" => k.dev.role = "infra"

LEMMA RolesToldKept ==
  ASSUME IInv, Judged, NoLists, NoLists', RolesTold, [Next]_vars
  PROVE  RolesTold'
<1> SUFFICES ASSUME OneWorker, ~Prefetch, NEW k \in Copy, InHands(k)', nb'[k.id].role = "infra",
                    nb'[k.id] # k.dev
             PROVE  k.dev.role = "infra"
  BY DEF RolesTold
<1>1. InHands(k)
  BY HeldBefore DEF NoLists, InLists, Listed, NoMacList, NoSiteList
<1>2. ~\E s \in Sites : HardwareStore(s)
  BY EmptyHands
<1>3. nb[k.id].role = "infra"
  BY <1>1, <1>2, HeldExists, OnlyHardwareMoves DEF Unmoved
<1>4. QED
  BY <1>1, <1>3 DEF RolesTold

\* Nothing but a mark of the offline pass takes a device offline.
LEMMA MarkOf ==
  ASSUME IInv, [Next]_vars, NEW id \in Ids, OfflineMark(id)
  PROVE  \E s \in Sites : \E c \in wk[s].stale : MarkStale(s, c) /\ c.id = id /\ nb' # nb
<1>1. nb[id] \in Device /\ nb'[id] # nb[id]
  BY DEF OfflineMark, IInv, TypeOK
<1>2. ASSUME NEW s \in Sites, HardwareStore(s)
      PROVE  FALSE
  <2>1. PICK k \in Copy, want \in Device :
           /\ k = wk[s].hit.copy /\ k # None
           /\ want = HardwareWanted(k.dev, wk[s].hit.via, wk[s].hit.at, s)
           /\ \A f \in DOMAIN nb[id] : nb'[id][f] = Sent(k, want, f)
           /\ id = k.id
    BY <1>1, <1>2, HardwareStored, ConstantsAssumption
  <2>2. wk[s].hit.at \in Macs
    BY <1>2 DEF HardwareStore, IInv, LockHeld, TypeOK, Worker, Lookup
  <2>3. want.status \in {k.dev.status, HardwareStatus(s)}
    BY <2>1, <2>2, HardwareWantedFields DEF Copy
  <2>4. nb'[id].status = Sent(k, want, "status")
    BY <1>1, <2>1 DEF Device
  <2>5. nb'[id].status \in {nb[id].status, HardwareStatus(s)}
    BY <2>1, <2>3, <2>4 DEF Sent
  <2>6. QED
    BY <2>5 DEF OfflineMark, HardwareStatus
<1>3. ASSUME NEW s \in Sites, ClientStore(s)
      PROVE  FALSE
  <2>1. PICK k \in Copy, want \in Device :
           /\ id = k.id /\ want = ClientWanted(k.dev)
           /\ \A f \in DOMAIN nb[id] : nb'[id][f] = Sent(k, want, f)
    BY <1>1, <1>3, ClientStored, ConstantsAssumption
  <2>2. want.status \in {k.dev.status, "active"}
    BY <2>1, ClientWantedFields DEF Copy
  <2>3. nb'[id].status = Sent(k, want, "status")
    BY <1>1, <2>1 DEF Device
  <2>4. nb'[id].status \in {nb[id].status, "active"}
    BY <2>1, <2>2, <2>3 DEF Sent
  <2>5. QED
    BY <2>4 DEF OfflineMark
<1>4. ASSUME NEW i \in Ids, OperatorEdit(i)
      PROVE  FALSE
  BY <1>1, <1>4, EditStored DEF OfflineMark
<1>5. PICK s \in Sites : OfflineStore(s)
  BY <1>1, <1>2, <1>3, <1>4, TableChanges
<1>6. PICK c \in wk[s].stale : MarkStale(s, c)
  BY <1>5 DEF OfflineStore
<1>7. c.id = id
  <2>1. nb' # nb
    BY <1>1
  <2>2. nb' = [nb EXCEPT ![c.id] = [nb[c.id] EXCEPT !.status = "offline"]] /\ c.id \in Ids
    BY <1>6, <2>1, MarkStored
  <2>3. QED
    BY <1>1, <2>2 DEF IInv, TypeOK
<1>8. QED
  BY <1>1, <1>6, <1>7

PassInv == Judged /\ NoLists /\ Drifts /\ RolesTold

LEMMA InitPass == Init => PassInv
<1> SUFFICES ASSUME Init PROVE PassInv
  OBVIOUS
<1>1. \A s \in Sites : wk[s] = Idle /\ recent[s] = {}
  BY DEF Init
<1>2. Judged
  BY <1>1 DEF Judged, JudgedAt, Idle
<1>3. NoLists
  BY DEF Init, NoLists
<1>4. \A k : ~InLists(k) /\ ~InHands(k)
  BY <1>1 DEF Init, InLists, Listed, InHands, Idle, NoMacList, NoSiteList
<1>5. Drifts /\ RolesTold
  BY <1>4 DEF Drifts, RolesTold
<1>6. QED
  BY <1>2, <1>3, <1>5 DEF PassInv

\* No offline mark is put on a client whose last sighting, as its site was asked,
\* is within the grace when the mark is set, whatever fails, ages, is edited or is
\* renamed in between, provided the addresses of the workers are separate: what
\* the history says is about the address of the record in hand, and elsewhere the
\* device may have been given another client's address since.
THEOREM IdleClientsStay ==
  ASSUME Separate
  PROVE  Spec => IdleStaysActive
<1>1. Init => IInv /\ ToldInv /\ Judged /\ NoLists /\ Drifts
  BY InitSafe, InitTold, InitPass DEF PassInv
<1>2. IInv /\ ToldInv /\ Judged /\ NoLists /\ Drifts /\ [Next]_vars
        => (IInv /\ ToldInv /\ Judged /\ NoLists /\ Drifts)'
  <2>1. IInv /\ ToldInv /\ [Next]_vars => IInv' /\ ToldInv'
    BY NextSafe, ToldKept
  <2>2. IInv /\ ToldInv /\ Judged /\ NoLists /\ [Next]_vars => Judged' /\ NoLists'
    BY JudgedKept, NoListsKept DEF ToldInv
  <2>3. IInv /\ IInv' /\ ToldInv /\ Judged /\ NoLists' /\ Drifts /\ [Next]_vars => Drifts'
    BY DriftsKept DEF ToldInv
  <2>4. QED
    BY <2>1, <2>2, <2>3
<1>3. ASSUME IInv, Judged, Drifts, [Next]_vars, NEW s \in Sites, NEW id \in Ids,
             OfflineMark(id), wk'[s] # wk[s], nb[id].mac \in recent[s]
      PROVE  BlankController(s)
  <2>1. PICK t \in Sites, c \in Copy : c \in wk[t].stale /\ MarkStale(t, c) /\ c.id = id /\ nb' # nb
    <3>1. PICK t \in Sites : \E c \in wk[t].stale : MarkStale(t, c) /\ c.id = id /\ nb' # nb
      BY <1>3, MarkOf
    <3>2. wk[t].stale \subseteq Copy
      BY <1>3, HeldSound DEF Worker
    <3>3. QED
      BY <3>1, <3>2
  <2>2. t = s /\ wk[s].stage = "stale"
    BY <1>3, <2>1 DEF MarkStale, IInv, TypeOK
  <2>3. c.dev.mac # None /\ Offline(c.dev.mac, wk[s].known)
    BY <1>3, <2>1, <2>2, MarkStored
  <2>4. Drift(c)
    BY <1>3, <2>1, <2>2 DEF Drifts, InHands
  <2>5. recent[s] \subseteq ListedAt[s]
        /\ (BlankController(s) \/ \A m \in recent[s] : wk[s].known[m] \in {"stamped", "unstamped"})
    BY <1>3, <2>2 DEF Judged, JudgedAt
  <2>6. CASE nb[id].mac = c.dev.mac
    BY <1>3, <2>3, <2>5, <2>6 DEF Offline
  <2>7. CASE AddressesApart /\ nb[id].mac \in Adoptable
    BY <1>3, <2>5, <2>7 DEF AddressesApart
  <2>8. QED
    BY <2>1, <2>4, <2>6, <2>7 DEF Drift
<1>4. IInv /\ Judged /\ Drifts /\ [Next]_vars
        => [\A s \in Sites, id \in Ids :
              OfflineMark(id) /\ wk'[s] # wk[s] => nb[id].mac \notin recent[s] \/ BlankController(s)]_vars
  BY <1>3
<1>5. QED
  BY <1>1, <1>2, <1>4, PTL DEF Spec, IdleStaysActive

LEMMA RolesAlwaysTold == Spec => [](IInv /\ Judged /\ RolesTold)
<1>1. Init => IInv /\ Sources /\ Planned /\ Judged /\ NoLists /\ RolesTold
  BY InitSafe, InitTold, InitPass DEF ToldInv, PassInv
<1>2. IInv /\ Sources /\ Planned /\ Judged /\ NoLists /\ RolesTold /\ [Next]_vars
        => (IInv /\ Sources /\ Planned /\ Judged /\ NoLists /\ RolesTold)'
  <2>1. IInv /\ Sources /\ Planned /\ Judged /\ NoLists /\ [Next]_vars
          => IInv' /\ Sources' /\ Planned' /\ Judged' /\ NoLists'
    BY NextSafe, SourcesKept, PlannedKept, JudgedKept, NoListsKept
  <2>2. IInv /\ Judged /\ NoLists /\ NoLists' /\ RolesTold /\ [Next]_vars => RolesTold'
    BY RolesToldKept
  <2>3. QED
    BY <2>1, <2>2
<1>3. QED
  BY <1>1, <1>2, PTL DEF Spec

\* One worker that reads NetBox live never takes infrastructure offline, a
\* device it merged earlier in the run included: at the offline pass it asks
\* NetBox for the roles, and nothing becomes infrastructure after that.  With a
\* prefetch, or a second worker, the code does not promise it.
THEOREM InfraStays ==
  ASSUME OneWorker, ~Prefetch
  PROVE  Spec => InfraNeverOffline
<1>1. ASSUME IInv, Judged, RolesTold, [Next]_vars, NEW id \in Ids, OfflineMark(id)
      PROVE  nb[id].role # "infra"
  <2>1. PICK s \in Sites : \E c \in wk[s].stale : MarkStale(s, c) /\ c.id = id /\ nb' # nb
    BY <1>1, MarkOf
  <2>2. PICK c \in wk[s].stale : c.id = id
    BY <2>1
  <2>3. c \in Copy /\ InHands(c) /\ c.dev.role = "client"
    BY <1>1, HeldSound DEF Worker, InHands, Judged, JudgedAt
  <2>4. QED
    BY <1>1, <2>2, <2>3 DEF RolesTold
<1>2. IInv /\ Judged /\ RolesTold /\ [Next]_vars
        => [\A id \in Ids : OfflineMark(id) => nb[id].role # "infra"]_vars
  BY <1>1
<1>3. QED
  BY <1>2, RolesAlwaysTold, PTL DEF Spec, InfraNeverOffline

\* Under create-only, or for one worker that reads NetBox live, no step makes a
\* device that is infrastructure look like a client again.
THEOREM MergedStays ==
  ASSUME UpdatePolicy = "create-only" \/ (OneWorker /\ ~Prefetch)
  PROVE  Spec => MergedStaysMerged
<1>1. ASSUME IInv, Judged, RolesTold, [Next]_vars, NEW id \in Ids,
             Exists(id), nb[id].role = "infra", nb[id].type = "infra"
      PROVE  nb'[id].type = "infra"
  <2>0. nb[id] \in Device
    BY <1>1 DEF IInv, TypeOK, Exists
  <2>1. CASE nb'[id] = nb[id]
    BY <1>1, <2>1
  <2>2. ASSUME NEW s \in Sites, HardwareStore(s), nb'[id] # nb[id]
        PROVE  nb'[id].type = "infra"
    <3>1. PICK k \in Copy, want \in Device :
             /\ id = k.id /\ want = HardwareWanted(k.dev, wk[s].hit.via, wk[s].hit.at, s)
             /\ \A f \in DOMAIN nb[id] : nb'[id][f] = Sent(k, want, f)
      BY <1>1, <2>0, <2>2, HardwareStored, ConstantsAssumption
    <3>2. wk[s].hit.at \in Macs
      BY <1>1, <2>2 DEF HardwareStore, IInv, LockHeld, TypeOK, Worker, Lookup
    <3>3. want.type \in {k.dev.type, "infra"}
      BY <3>1, <3>2, HardwareWantedFields DEF Copy
    <3>4. nb'[id].type = Sent(k, want, "type")
      BY <2>0, <3>1 DEF Device
    <3>5. QED
      BY <1>1, <3>1, <3>3, <3>4 DEF Sent
  <2>3. ASSUME NEW s \in Sites, ClientStore(s), nb'[id] # nb[id]
        PROVE  nb'[id].type = "infra"
    <3>1. PICK k \in Copy, want \in Device :
             /\ k = wk[s].hit.copy /\ k # None
             /\ id = k.id /\ want = ClientWanted(k.dev) /\ OwnsPlaceholder(k.dev)
             /\ \A f \in DOMAIN nb[id] : nb'[id][f] = Sent(k, want, f)
      <4>1. PICK i \in Ids :
               /\ \A j \in Ids \ {i} : nb'[j] = nb[j]
               /\ \/ nb[i] = None
                  \/ \E k \in Copy, want \in Device :
                       /\ k = wk[s].hit.copy /\ k # None /\ i = k.id
                       /\ want = ClientWanted(k.dev) /\ OwnsPlaceholder(k.dev)
                       /\ \A f \in DOMAIN nb[i] : nb'[i][f] = Sent(k, want, f)
        BY <1>1, <2>3, ClientStored
      <4>2. i = id /\ nb[i] # None
        BY <2>0, <2>3, <4>1, ConstantsAssumption
      <4>3. QED
        BY <4>1, <4>2
    <3>2. nb'[id].type = Sent(k, want, "type")
      BY <2>0, <3>1 DEF Device
    <3>3. CASE UpdatePolicy = "create-only"
      <4>1. want = k.dev
        BY <3>1, <3>3 DEF ClientWanted
      <4>2. QED
        BY <1>1, <3>1, <3>2, <4>1 DEF Sent
    <3>4. CASE OneWorker /\ ~Prefetch
      <4>1. InHands(k)
        BY <2>3, <3>1 DEF ClientStore, ClientLookedUp, InHands
      <4>2. k.dev.role = "infra"
        BY <1>1, <3>1, <3>4, <4>1 DEF RolesTold
      <4>3. QED
        BY <3>1, <4>2 DEF OwnsPlaceholder
    <3>5. QED
      BY <3>3, <3>4
  <2>4. ASSUME NEW s \in Sites, OfflineStore(s), nb'[id] # nb[id]
        PROVE  nb'[id].type = "infra"
    <3>1. PICK c \in wk[s].stale : MarkStale(s, c)
      BY <2>4 DEF OfflineStore
    <3>2. nb' = [nb EXCEPT ![c.id] = [nb[c.id] EXCEPT !.status = "offline"]] /\ c.id \in Ids
      BY <1>1, <2>4, <3>1, MarkStored
    <3>3. nb'[id] = [nb[id] EXCEPT !.status = "offline"]
      BY <1>1, <2>4, <3>2 DEF IInv, TypeOK
    <3>4. QED
      BY <1>1, <2>0, <3>3 DEF Device
  <2>5. ASSUME NEW i \in Ids, OperatorEdit(i), nb'[id] # nb[id]
        PROVE  nb'[id].type = "infra"
    BY <1>1, <2>5, EditStored
  <2>6. QED
    BY <1>1, <2>1, <2>2, <2>3, <2>4, <2>5, TableChanges
<1>2. IInv /\ Judged /\ RolesTold /\ [Next]_vars
        => [\A id \in Ids : Exists(id) /\ nb[id].role = "infra" /\ nb[id].type = "infra"
                              => nb'[id].type = "infra"]_vars
  BY <1>1
<1>3. QED
  BY <1>2, RolesAlwaysTold, PTL DEF Spec, MergedStaysMerged

===============================================================================
