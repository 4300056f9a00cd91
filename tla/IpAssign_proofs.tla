--------------------------- MODULE IpAssign_proofs ---------------------------
(***************************************************************************)
(* Type correctness of IpAssign and the protection of primary addresses of *)
(* devices outside the sync, for every set of sites, devices and addresses.*)
(***************************************************************************)
EXTENDS IpAssign, TLAPS

Busy == {"find", "create", "move", "holders", "clear", "retry", "primary"}

\* A worker has a client exactly in the middle of one.
ClientInHand == \A s \in Sites : wk[s].client # None <=> wk[s].step \in Busy

\* The workers act for, and clear, only devices of the sync.
ActsForOurs ==
    running => \A s \in Sites : /\ wk[s].client # None => wk[s].client.dev \in ours
                                /\ wk[s].holders \subseteq ours

\* What is tagged, in NetBox or in the prefetched records, is known to be.
TagsKnown == running => \A d \in Devices : tagged[d] \/ view[d].tagged => d \in ours

\* NetBox: a device's primary is an address that it holds.
PrimaryIsHeld == \A d \in Devices : primary[d] # None => at[primary[d]] = d

IInv == TypeOK /\ ClientInHand /\ ActsForOurs /\ TagsKnown /\ PrimaryIsHeld

\* The initial tables satisfy the invariant.
LEMMA InitInv == Init => IInv
<1>1. SUFFICES ASSUME Init PROVE IInv
  OBVIOUS
<1>2. /\ at \in [Addrs -> Devices \cup {None}]
      /\ primary \in [Devices -> Addrs \cup {None}]
      /\ tagged \in [Devices -> BOOLEAN]
      /\ PrimaryIsHeld
  BY <1>1 DEF Init, PrimaryIsHeld
<1>3. reported \in [Devices -> Addrs \cup {None}]
  <2>1. reported \in [Devices -> Addrs \cup {None}]
    BY <1>1 DEF Init
  <2> QED  BY <2>1
<1>4. /\ running = FALSE /\ ours = {} /\ budget = Budget
      /\ view = [d \in Devices |-> Live(d)] /\ wk = [s \in Sites |-> Idle]
  BY <1>1 DEF Init
<1>5. view \in [Devices -> Held]
  BY <1>2, <1>4 DEF Live, Held
<1>6. wk \in [Sites -> Worker] /\ ClientInHand
  BY <1>4 DEF Idle, Worker, Steps, ClientInHand, Busy
<1>7. TypeOK
  <2>1. running \in BOOLEAN /\ ours \in SUBSET Devices
    BY <1>4
  <2>2. budget \in 0..Budget
    BY <1>4, AddressAssumption
  <2> QED  BY <1>2, <1>3, <1>5, <1>6, <2>1, <2>2, Zenon DEF TypeOK
<1>8. ActsForOurs /\ TagsKnown
  BY <1>4 DEF ActsForOurs, TagsKnown
<1> QED  BY <1>2, <1>6, <1>7, <1>8 DEF IInv

\* The worker of a client in hand is a device with an address.
LEMMA InHand ==
  ASSUME TypeOK, ClientInHand, NEW s \in Sites, wk[s].step \in Busy
  PROVE  wk[s].client \in Client /\ Mine(s) \in Devices /\ Ip(s) \in Addrs
BY DEF TypeOK, ClientInHand, Worker, Client, Mine, Ip

\* What a request leaves in NetBox is typed, consistent, and touches neither the
\* primary nor the primary's holder of a device outside the sync.
Keeps == /\ at' \in [Addrs -> Devices \cup {None}]
         /\ primary' \in [Devices -> Addrs \cup {None}]
         /\ PrimaryIsHeld'
         /\ \A d \in Devices \ ours : /\ primary'[d] = primary[d]
                                      /\ primary[d] # None => at'[primary[d]] = at[primary[d]]

LEMMA HoldKeeps ==
  ASSUME IInv, running, NEW s \in Sites, Creates(s) \/ Moves(s)
  PROVE  Keeps /\ UNCHANGED tagged
<1>1. wk[s].step \in Busy
  BY DEF Creates, Moves, Busy
<1>2. Mine(s) \in Devices /\ Ip(s) \in Addrs /\ Mine(s) \in ours
  BY <1>1, InHand DEF IInv, ActsForOurs, ClientInHand, Mine
<1>3. at' = [at EXCEPT ![Ip(s)] = Mine(s)] /\ UNCHANGED <<primary, tagged>>
  BY DEF Creates, Moves, Hold
<1>4. \A d \in Devices \ {Mine(s)} : primary[d] # Ip(s)
  <2>1. CASE Creates(s)
    BY <2>1, <1>2, AddressAssumption DEF Creates, IInv, PrimaryIsHeld
  <2>2. CASE Moves(s)
    BY <2>2 DEF Moves, Movable
  <2> QED  BY <2>1, <2>2
<1>5. at' \in [Addrs -> Devices \cup {None}] /\ primary' \in [Devices -> Addrs \cup {None}]
  BY <1>2, <1>3 DEF IInv, TypeOK
<1>6. PrimaryIsHeld'
  BY <1>2, <1>3, <1>4 DEF IInv, TypeOK, PrimaryIsHeld
<1>7. \A d \in Devices \ ours : primary'[d] = primary[d]
                                /\ (primary[d] # None => at'[primary[d]] = at[primary[d]])
  BY <1>2, <1>3, <1>4 DEF IInv, TypeOK
<1> QED  BY <1>3, <1>5, <1>6, <1>7 DEF Keeps

LEMMA ClearKeeps ==
  ASSUME IInv, running, NEW s \in Sites, NEW d \in Devices, Clears(s, d)
  PROVE  Keeps /\ UNCHANGED tagged
<1>1. d \in ours
  BY DEF Clears, IInv, ActsForOurs
<1>2. primary' = [primary EXCEPT ![d] = None] /\ UNCHANGED <<at, tagged>>
  BY DEF Clears
<1> QED  BY <1>1, <1>2 DEF Keeps, IInv, TypeOK, PrimaryIsHeld

LEMMA PrimaryKeeps ==
  ASSUME IInv, running, NEW s \in Sites, BecomesPrimary(s)
  PROVE  Keeps /\ UNCHANGED tagged
<1>1. wk[s].step \in Busy
  BY DEF BecomesPrimary, Busy
<1>2. Mine(s) \in Devices /\ Ip(s) \in Addrs /\ Mine(s) \in ours
  BY <1>1, InHand DEF IInv, ActsForOurs, ClientInHand, Mine
<1>3. at[Ip(s)] = Mine(s) /\ primary' = [primary EXCEPT ![Mine(s)] = Ip(s)] /\ UNCHANGED <<at, tagged>>
  BY DEF BecomesPrimary
<1> QED  BY <1>2, <1>3 DEF Keeps, IInv, TypeOK, PrimaryIsHeld

LEMMA NothingKeeps ==
  ASSUME IInv, UNCHANGED netbox
  PROVE  Keeps /\ UNCHANGED tagged
BY DEF Keeps, IInv, TypeOK, PrimaryIsHeld, netbox

\* What a worker may become: typed, with a client exactly in the middle of one,
\* and acting for devices of the sync.
SoundWorker(w) ==
    /\ w \in Worker
    /\ w.client # None <=> w.step \in Busy
    /\ w.client # None => w.client.dev \in ours
    /\ w.holders \subseteq ours

\* A step of one worker keeps the invariant when the request keeps NetBox and the
\* worker stays sound.
LEMMA StepKeeps ==
  ASSUME IInv, running, NEW s \in Sites, NEW w, SoundWorker(w),
         wk' = [wk EXCEPT ![s] = w], Keeps, UNCHANGED tagged,
         UNCHANGED <<reported, running, view, ours>>,
         budget' \in 0..Budget
  PROVE  IInv'
<1>1. TypeOK'
  BY DEF IInv, TypeOK, Keeps, SoundWorker
<1>2. ClientInHand'
  BY DEF IInv, TypeOK, ClientInHand, SoundWorker
<1>3. ActsForOurs'
  BY DEF IInv, TypeOK, ActsForOurs, SoundWorker
<1>4. TagsKnown' /\ PrimaryIsHeld'
  BY DEF IInv, TagsKnown, Keeps
<1> QED  BY <1>1, <1>2, <1>3, <1>4 DEF IInv

\* Workers that are done with a client, or only change their step, are sound.
LEMMA NextIsSound ==
  ASSUME IInv, running, NEW s \in Sites
  PROVE  SoundWorker([wk[s] EXCEPT !.step = "next", !.todo = @ \ {wk[s].client},
                                   !.client = None, !.holders = {}])
BY DEF IInv, TypeOK, SoundWorker, Worker, Steps, Busy

LEMMA GotoIsSound ==
  ASSUME IInv, running, NEW s \in Sites, wk[s].step \in Busy, NEW step \in Busy
  PROVE  SoundWorker([wk[s] EXCEPT !.step = step])
<1>1. step \in Steps
  BY DEF Busy, Steps
<1> QED  BY <1>1 DEF IInv, TypeOK, SoundWorker, Worker, ClientInHand, ActsForOurs

LEMMA RunStepsKeep ==
  ASSUME IInv, StartRun \/ EndRun
  PROVE  IInv'
<1>1. CASE StartRun
  <2> USE <1>1 DEF StartRun, netbox
  <2>1. TypeOK'
    BY DEF IInv, TypeOK, Live, Held, Idle, Worker, Steps, Tagged
  <2>2. ClientInHand'
    BY DEF ClientInHand, Idle, Busy
  <2>3. ActsForOurs' /\ TagsKnown' /\ PrimaryIsHeld'
    BY DEF IInv, TypeOK, ActsForOurs, TagsKnown, PrimaryIsHeld, Live, Idle, Tagged
  <2> QED  BY <2>1, <2>2, <2>3 DEF IInv
<1>2. CASE EndRun
  BY <1>2 DEF EndRun, netbox, IInv, TypeOK, ClientInHand, ActsForOurs, TagsKnown, PrimaryIsHeld
<1> QED  BY <1>1, <1>2

\* The steps that only read: the next state of the worker is sound.
LEMMA ReadingKeeps ==
  ASSUME IInv, NEW s \in Sites,
         \/ ListClients(s) \/ Finish(s) \/ (\E c \in wk[s].todo : Take(s, c))
         \/ Find(s) \/ MoveRefused(s) \/ FindHolders(s) \/ FindNamesakes(s) \/ Refused(s)
  PROVE  IInv' /\ Keeps
<1>0. /\ wk \in [Sites -> Worker] /\ budget \in 0..Budget
      /\ reported \in [Devices -> Addrs \cup {None}]
  BY DEF IInv, TypeOK
<1>1. CASE ListClients(s)
  <2> DEFINE todo == {[dev |-> d, ip |-> reported[d]] :
                        d \in {e \in Devices : SiteOf[e] = s /\ reported[e] # None}}
             w == [wk[s] EXCEPT !.step = "next", !.todo = todo]
  <2>1. running /\ wk' = [wk EXCEPT ![s] = w] /\ UNCHANGED <<netbox, reported, running, view, ours, budget>>
    BY <1>0, <1>1 DEF ListClients, Working
  <2>2. todo \subseteq Client
    BY <1>0 DEF Client
  <2>3. SoundWorker(w)
    <3>1. wk[s] \in Worker /\ wk[s].client = None
      BY <1>0, <1>1 DEF ListClients, Working, IInv, ClientInHand, Busy
    <3>2. wk[s].holders \subseteq ours
      BY <2>1 DEF IInv, ActsForOurs
    <3>3. w \in Worker /\ w.step = "next" /\ w.client = None /\ w.holders = wk[s].holders
      BY <2>2, <3>1 DEF Worker, Steps
    <3> HIDE DEF w
    <3> QED  BY <3>2, <3>3 DEF SoundWorker, Busy
  <2> HIDE DEF w
  <2> QED  BY <1>0, <2>1, <2>3, StepKeeps, NothingKeeps
<1>2. CASE Finish(s)
  <2> DEFINE w == [wk[s] EXCEPT !.step = "done"]
  <2>1. running /\ wk' = [wk EXCEPT ![s] = w] /\ UNCHANGED <<netbox, reported, running, view, ours, budget>>
    BY <1>0, <1>2 DEF Finish, Working, Goto
  <2>2. SoundWorker(w)
    BY <1>0, <1>2, <2>1 DEF Finish, Working, SoundWorker, Worker, Steps, Busy,
                        IInv, ClientInHand, ActsForOurs
  <2> HIDE DEF w
  <2> QED  BY <1>0, <2>1, <2>2, StepKeeps, NothingKeeps
<1>3. ASSUME NEW c \in wk[s].todo, Take(s, c) PROVE IInv' /\ Keeps
  <2> DEFINE held == IF Prefetch THEN view[c.dev] ELSE Live(c.dev)
             w == IF WantsAddress(held, c.ip)
                  THEN [wk[s] EXCEPT !.step = "find", !.client = c]
                  ELSE [wk[s] EXCEPT !.todo = @ \ {c}]
  <2>1. running /\ wk' = [wk EXCEPT ![s] = w] /\ UNCHANGED <<netbox, reported, running, view, ours, budget>>
    BY <1>0, <1>3 DEF Take, Working
  <2>2. c \in Client /\ c.dev \in Devices
    BY <1>0, <1>3 DEF Worker, Client
  <2>3. WantsAddress(held, c.ip) => c.dev \in ours
    BY <2>1, <2>2 DEF WantsAddress, Live, IInv, TagsKnown
  <2>4. c # None
    BY <2>2, AddressAssumption DEF Client
  <2>5. SoundWorker(w)
    BY <1>0, <1>3, <2>1, <2>2, <2>3, <2>4
       DEF Take, Working, SoundWorker, Worker, Steps, Busy, IInv, ClientInHand, ActsForOurs
  <2> HIDE DEF w
  <2> QED  BY <1>0, <2>1, <2>5, StepKeeps, NothingKeeps
<1>4. CASE Find(s) \/ MoveRefused(s)
  <2>1. PICK step \in Busy : wk' = [wk EXCEPT ![s].step = step]
    BY <1>4 DEF Find, MoveRefused, Goto, Busy
  <2>2. wk' = [wk EXCEPT ![s] = [wk[s] EXCEPT !.step = step]]
    BY <1>0, <2>1
  <2>3. running /\ wk[s].step \in Busy /\ UNCHANGED <<netbox, reported, running, view, ours, budget>>
    BY <1>4 DEF Find, MoveRefused, Working, Busy
  <2>4. SoundWorker([wk[s] EXCEPT !.step = step])
    BY <2>3, GotoIsSound
  <2> QED  BY <1>0, <2>2, <2>3, <2>4, StepKeeps, NothingKeeps
<1>5. ASSUME NEW found \in SUBSET Devices, Working(s, "holders"), ClearOrGiveUp(s, found),
             UNCHANGED <<netbox, reported, running, view, ours>>, budget' \in 0..Budget
      PROVE  IInv' /\ Keeps
  <2>1. CASE NextClient(s)
    <3> DEFINE w == [wk[s] EXCEPT !.step = "next", !.todo = @ \ {wk[s].client},
                                  !.client = None, !.holders = {}]
    <3>1. running /\ wk' = [wk EXCEPT ![s] = w]
      BY <1>0, <1>5, <2>1 DEF NextClient, Working
    <3>2. SoundWorker(w)
      BY <3>1, NextIsSound
    <3> HIDE DEF w
    <3> QED  BY <1>5, <3>1, <3>2, StepKeeps, NothingKeeps
  <2>2. CASE ~(found = {} \/ found \ Tagged # {})
    <3> DEFINE w == [wk[s] EXCEPT !.step = "clear", !.holders = found]
    <3>1. running /\ wk' = [wk EXCEPT ![s] = w]
      BY <1>0, <1>5, <2>2 DEF ClearOrGiveUp, Working
    <3>2. found \subseteq ours
      BY <2>2, <3>1 DEF Tagged, IInv, TagsKnown
    <3>3. SoundWorker(w)
      BY <1>0, <1>5, <3>1, <3>2 DEF Working, SoundWorker, Worker, Steps, Busy, IInv, ClientInHand, ActsForOurs
    <3> HIDE DEF w
    <3> QED  BY <1>5, <3>1, <3>3, StepKeeps, NothingKeeps
  <2> QED  BY <1>5, <2>1, <2>2 DEF ClearOrGiveUp
<1>6. CASE FindHolders(s)
  BY <1>0, <1>5, <1>6 DEF FindHolders, Holders
<1>7. CASE FindNamesakes(s)
  <2>1. PICK others \in SUBSET Devices : ClearOrGiveUp(s, Holders(s) \cup others)
    BY <1>7 DEF FindNamesakes
  <2>2. budget' \in 0..Budget
    BY <1>0, <1>7, AddressAssumption DEF FindNamesakes
  <2> QED  BY <1>5, <1>7, <2>1, <2>2 DEF FindNamesakes, Holders
<1>8. CASE Refused(s)
  <2> DEFINE w == [wk[s] EXCEPT !.step = "next", !.todo = @ \ {wk[s].client},
                                !.client = None, !.holders = {}]
  <2>1. running /\ wk' = [wk EXCEPT ![s] = w] /\ UNCHANGED <<netbox, reported, running, view, ours, budget>>
    BY <1>0, <1>8 DEF Refused, NextClient
  <2>2. SoundWorker(w)
    BY <2>1, NextIsSound
  <2> HIDE DEF w
  <2> QED  BY <1>0, <2>1, <2>2, StepKeeps, NothingKeeps
<1> QED  BY <1>1, <1>2, <1>3, <1>4, <1>6, <1>7, <1>8

\* The steps that write, answered or not.
LEMMA WritingKeeps ==
  ASSUME IInv, NEW s \in Sites,
         \/ Create(s) \/ Move(s) \/ (\E d \in Devices : Clear(s, d)) \/ SetPrimary(s)
         \/ RequestFails(s)
  PROVE  IInv' /\ Keeps
<1>0. wk \in [Sites -> Worker] /\ budget \in 0..Budget
  BY DEF IInv, TypeOK
<1>1. CASE Create(s) \/ Move(s)
  <2>1. running /\ (Creates(s) \/ Moves(s)) /\ wk[s].step \in Busy
    BY <1>1 DEF Create, Move, Creates, Moves, Busy
  <2>2. wk' = [wk EXCEPT ![s] = [wk[s] EXCEPT !.step = "primary"]]
    BY <1>0, <1>1 DEF Create, Move, Goto
  <2>3. UNCHANGED <<reported, running, view, ours, budget>>
    BY <1>1 DEF Create, Move
  <2>4. SoundWorker([wk[s] EXCEPT !.step = "primary"])
    BY <2>1, GotoIsSound DEF Busy
  <2>5. Keeps /\ UNCHANGED tagged
    BY <2>1, HoldKeeps
  <2> QED  BY <1>0, <2>1, <2>2, <2>3, <2>4, <2>5, StepKeeps
<1>2. ASSUME NEW d \in Devices, Clear(s, d) PROVE IInv' /\ Keeps
  <2> DEFINE w == [wk[s] EXCEPT !.holders = @ \ {d},
                                !.step = IF wk[s].holders = {d} THEN "retry" ELSE "clear"]
  <2>1. running /\ Clears(s, d) /\ wk' = [wk EXCEPT ![s] = w] /\ UNCHANGED <<reported, running, view, ours, budget>>
    BY <1>0, <1>2 DEF Clear
  <2>2. SoundWorker(w)
    BY <1>0, <2>1 DEF Clears, SoundWorker, Worker, Steps, Busy, IInv, ClientInHand, ActsForOurs
  <2>3. Keeps /\ UNCHANGED tagged
    BY <2>1, ClearKeeps
  <2> HIDE DEF w
  <2> QED  BY <1>0, <2>1, <2>2, <2>3, StepKeeps
<1>3. CASE SetPrimary(s) \/ RequestFails(s)
  <2> DEFINE w == [wk[s] EXCEPT !.step = "next", !.todo = @ \ {wk[s].client},
                                !.client = None, !.holders = {}]
  <2>1. running /\ wk' = [wk EXCEPT ![s] = w] /\ UNCHANGED <<reported, running, view, ours>>
    BY <1>0, <1>3 DEF SetPrimary, RequestFails, NextClient
  <2>2. budget' \in 0..Budget
    BY <1>0, <1>3, AddressAssumption DEF SetPrimary, RequestFails
  <2>3. SoundWorker(w)
    BY <2>1, NextIsSound
  <2>4. Keeps /\ UNCHANGED tagged
    BY <1>3, <2>1, HoldKeeps, ClearKeeps, PrimaryKeeps, NothingKeeps DEF SetPrimary, RequestFails
  <2> HIDE DEF w
  <2> QED  BY <2>1, <2>2, <2>3, <2>4, StepKeeps
<1> QED  BY <1>1, <1>2, <1>3

\* People and UniFi keep the invariant; they leave the workers alone.
LEMMA OthersKeep ==
  ASSUME IInv,
         \/ \E d \in Devices : OperatorTags(d)
         \/ \E d \in Devices, a \in Addrs : OperatorAssigns(d, a)
         \/ \E d \in Clients, a \in Addrs \cup {None} : ClientChanges(d, a)
  PROVE  IInv' /\ wk' = wk
<1>1. ASSUME NEW d \in Devices, OperatorTags(d) PROVE IInv' /\ wk' = wk
  <2> USE <1>1 DEF OperatorTags
  <2>1. TypeOK'
    BY AddressAssumption DEF IInv, TypeOK
  <2>2. ClientInHand' /\ ActsForOurs' /\ TagsKnown' /\ PrimaryIsHeld'
    BY DEF IInv, TypeOK, ClientInHand, ActsForOurs, TagsKnown, PrimaryIsHeld
  <2> QED  BY <2>1, <2>2 DEF IInv
<1>2. ASSUME NEW d \in Devices, NEW a \in Addrs, OperatorAssigns(d, a) PROVE IInv' /\ wk' = wk
  <2> USE <1>2 DEF OperatorAssigns
  <2>0. PICK p \in {primary[d], a} : primary' = [primary EXCEPT ![d] = p]
    OBVIOUS
  <2>1. TypeOK'
    BY <2>0, AddressAssumption DEF IInv, TypeOK
  <2>2. PrimaryIsHeld'
    BY <2>0 DEF IInv, TypeOK, PrimaryIsHeld
  <2>3. ClientInHand' /\ ActsForOurs' /\ TagsKnown'
    BY DEF IInv, ClientInHand, ActsForOurs, TagsKnown
  <2> QED  BY <2>1, <2>2, <2>3 DEF IInv
<1>3. ASSUME NEW d \in Clients, NEW a \in Addrs \cup {None}, ClientChanges(d, a) PROVE IInv' /\ wk' = wk
  <2> USE <1>3 DEF ClientChanges, netbox
  <2>1. TypeOK'
    BY AddressAssumption DEF IInv, TypeOK, Clients
  <2>2. ClientInHand' /\ ActsForOurs' /\ TagsKnown' /\ PrimaryIsHeld'
    BY DEF IInv, ClientInHand, ActsForOurs, TagsKnown, PrimaryIsHeld
  <2> QED  BY <2>1, <2>2 DEF IInv
<1> QED  BY <1>1, <1>2, <1>3

\* The invariant is kept, and whatever the sync does keeps the primaries of the
\* devices outside it.
LEMMA NextKeeps ==
  ASSUME IInv, Next
  PROVE  IInv' /\ (SyncStep => Keeps)
<1>1. CASE StartRun \/ EndRun
  <2>1. IInv'
    BY <1>1, RunStepsKeep
  <2>2. UNCHANGED netbox
    BY <1>1 DEF StartRun, EndRun
  <2> QED  BY <2>1, <2>2, NothingKeeps
<1>2. CASE \E s \in Sites : WorkerStep(s) \/ RequestFails(s) \/ FindNamesakes(s)
  BY <1>2, ReadingKeeps, WritingKeeps DEF WorkerStep
<1>3. CASE \/ \E d \in Devices : OperatorTags(d)
           \/ \E d \in Devices, a \in Addrs : OperatorAssigns(d, a)
           \/ \E d \in Clients, a \in Addrs \cup {None} : ClientChanges(d, a)
  BY <1>3, OthersKeep DEF SyncStep
<1> QED  BY <1>1, <1>2, <1>3 DEF Next, Environment

LEMMA StutterKeeps == ASSUME IInv, UNCHANGED vars PROVE IInv'
BY DEF IInv, TypeOK, ClientInHand, ActsForOurs, TagsKnown, PrimaryIsHeld, vars

\* Every reachable state satisfies the invariant, TypeOK included.
THEOREM AddressInvariant == Spec => []IInv
<1>1. Init => IInv
  BY InitInv
<1>2. IInv /\ [Next]_vars => IInv'
  BY NextKeeps, StutterKeeps
<1> QED  BY <1>1, <1>2, PTL DEF Spec

\* No worker, however many there are and however old its record is, changes the
\* primary address of a device that was outside the sync during the whole run, or
\* moves that address away.
THEOREM ManualPrimariesAreSafe == Spec => ManualPrimaryKept
<1>1. IInv /\ [Next]_vars
        => [\A d \in Devices :
              SyncStep /\ d \notin ours
                => /\ primary'[d] = primary[d]
                   /\ primary[d] # None => at'[primary[d]] = at[primary[d]]]_vars
  BY NextKeeps DEF Keeps
<1>2. Spec => []IInv
  BY AddressInvariant
<1> QED  BY <1>1, <1>2, PTL DEF Spec, ManualPrimaryKept

===============================================================================
