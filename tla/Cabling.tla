-------------------------------- MODULE Cabling --------------------------------
(***************************************************************************)
(* The cables of the sync: the drop of every wired client (_wire_cable),   *)
(* the uplinks of adopted devices once every site is done                  *)
(* (_finish_uplink_cables), both through ensure_cable, and the cable that  *)
(* a merge of a legacy client record moves off eth0 (_retire_eth0).        *)
(*                                                                         *)
(* An end is a NetBox interface, a link is a set of two ends.  Every       *)
(* request that reads or writes a cable is a step, except that the check   *)
(* of a cable's tag and its deletion are one: tags of cables stay as they  *)
(* are, and a cable that goes meanwhile makes the deletion fail.           *)
(* The match of port numbers to interfaces is given by constants; a client *)
(* record being merged has eth0 alone, its new type Down as first port.    *)
(***************************************************************************)
EXTENDS Naturals, FiniteSets

CONSTANTS
    Sites, Main,       \* one worker per site, and the uplink pass after them
    Clients, Uplinks,  \* wired clients; adopted devices that report an uplink
    Ends, None,
    SiteOf,            \* Clients \cup Uplinks -> Sites
    Nic,               \* Clients -> Ends, the client's interface
    MayPlug,           \* Clients -> switch ports that UniFi may report for it
    UplinkPorts,       \* switch ports that the controller marks is_uplink
    Down, Up,          \* Uplinks -> Ends: the port at the device, and upstream
    Eth0,              \* Uplinks -> the placeholder of its client record, or None
    Box, Rank,         \* Uplinks -> the NetBox device it matches, and how well
    HandLinks,         \* links that people make
    InitialCables,     \* sets of cables
    Budget             \* bound: changes by people and UniFi, and faults

ASSUME CablingAssumption ==
    /\ Main \notin Sites /\ None \notin Ends
    /\ SiteOf \in [Clients \cup Uplinks -> Sites]
    /\ Nic \in [Clients -> Ends] /\ MayPlug \in [Clients -> SUBSET Ends]
    /\ UplinkPorts \subseteq Ends
    /\ Down \in [Uplinks -> Ends] /\ Up \in [Uplinks -> Ends]
    /\ Eth0 \in [Uplinks -> Ends \cup {None}] /\ Rank \in [Uplinks -> Nat]
    /\ HandLinks \subseteq SUBSET Ends
    /\ InitialCables \subseteq SUBSET [ends : SUBSET Ends, tagged : BOOLEAN]
    /\ Budget \in Nat

Cable   == [ends : SUBSET Ends, tagged : BOOLEAN]
Workers == Sites \cup {Main}
Steps   == {"infra", "cut", "relink", "next", "readA", "cutA", "readB", "cutB", "create", "done", "wait"}
Joins   == (Ends \cup {None}) \X Ends
Worker  == [step : Steps,
            todo : SUBSET (Uplinks \cup Joins),           \* merges, then links to make
            a    : Ends \cup {None},
            b    : Ends \cup {None},
            old  : SUBSET Cable]                          \* the cable in the way

VARIABLES
    cables,   \* NetBox
    legacy,   \* NetBox: uplinks whose device is still a client record
    eth0s,    \* NetBox: uplinks whose device still has the placeholder
    plugged,  \* UniFi: the port a client is reported at, None when it is away
    policy,   \* CABLE_CONFLICT_POLICY
    running,
    loaded,   \* the interfaces were prefetched
    view,     \* the cables they showed
    merged,   \* uplinks merged in this run
    wk,
    budget

vars   == <<cables, legacy, eth0s, plugged, policy, running, loaded, view, merged, wk, budget>>
netbox == <<cables, legacy, eth0s>>

At(e)     == {c \in cables : e \in c.ends}
Free(e)   == At(e) = {}
Existing  == Ends \ {Eth0[u] : u \in Uplinks \ eth0s}
Idle(step, todo) == [step |-> step, todo |-> todo, a |-> None, b |-> None, old |-> {}]

Start(s) == Idle("infra", {u \in legacy : SiteOf[u] = s})
Init ==
    /\ cables \in InitialCables
    /\ legacy = {u \in Uplinks : Eth0[u] # None} /\ eth0s = legacy
    /\ plugged \in {f \in [Clients -> Ends \cup {None}] : \A c \in Clients : f[c] \in MayPlug[c] \cup {None}}
    /\ policy \in {"skip", "replace"}
    /\ running = FALSE /\ loaded = FALSE /\ view = {} /\ merged = {}
    /\ wk = [w \in Workers |-> Idle("done", {})]
    /\ budget = Budget

StartRun(prefetched) ==
    /\ ~running
    /\ running' = TRUE /\ loaded' = prefetched /\ merged' = {}
    /\ view' = IF prefetched THEN cables ELSE {}
    /\ wk' = [w \in Workers |-> IF w = Main THEN Idle("wait", {}) ELSE Start(w)]
    /\ UNCHANGED <<netbox, plugged, policy, budget>>

EndRun ==
    /\ running /\ \A w \in Workers : wk[w].step = "done"
    /\ running' = FALSE /\ loaded' = FALSE /\ view' = {} /\ merged' = {}
    /\ UNCHANGED <<netbox, plugged, policy, wk, budget>>

Doing(w, step)  == running /\ wk[w].step = step
Goto(w, step) == wk' = [wk EXCEPT ![w].step = step]
\* The next link or, for a site that is still at its devices, the next merge.
Resume(w) ==
    wk' = [wk EXCEPT ![w] = Idle(IF @.step \in {"cut", "relink"} THEN "infra" ELSE "next", @.todo)]
Quiet     == UNCHANGED <<plugged, policy, running, loaded, view, budget>>

\* What a request may do.  A deletion is for tagged cables, except in a merge; an
\* interface takes one cable.
MutantAnyCable(w) == wk[w].old
Removable(w) == IF wk[w].step = "cut" THEN wk[w].old ELSE {c \in wk[w].old : c.tagged}
Removes(w) ==
    /\ wk[w].step \in {"cut", "cutA", "cutB"} /\ wk[w].old \subseteq cables \cap Removable(w)
    /\ cables' = cables \ wk[w].old
    /\ UNCHANGED <<legacy, eth0s>>
MutantWithoutTag(w) ==
    /\ wk[w].step \in {"relink", "create"} /\ Free(wk[w].a) /\ Free(wk[w].b)
    /\ cables' = cables \cup {[ends |-> {wk[w].a, wk[w].b}, tagged |-> None]}
    /\ UNCHANGED legacy
Adds(w) ==
    /\ wk[w].step \in {"relink", "create"} /\ Free(wk[w].a) /\ Free(wk[w].b)
    /\ cables' = cables \cup {[ends |-> {wk[w].a, wk[w].b}, tagged |-> TRUE]}
    /\ UNCHANGED legacy

-------------------------------------------------------------------------------
(* The merge of a client record: the PATCH that changes its role, then        *)
(* _retire_eth0.  Afterwards the record is no legacy client, finished or not. *)

Merge(s, u) ==
    /\ Doing(s, "infra") /\ u \in wk[s].todo
    /\ legacy' = legacy \ {u} /\ merged' = merged \cup {u}
    /\ LET old == At(Eth0[u])
           rest == wk[s].todo \ {u} IN
         IF old = {} \/ ~Free(Down[u])
         THEN /\ wk' = [wk EXCEPT ![s].todo = rest]
              /\ eth0s' = IF old = {} THEN eth0s \ {u} ELSE eth0s
         ELSE /\ \E c \in old : \E peer \in c.ends \ {Eth0[u]} :
                   wk' = [wk EXCEPT ![s] = [step |-> "cut", todo |-> rest,
                                            a |-> Down[u], b |-> peer, old |-> old]]
              /\ UNCHANGED eth0s
    /\ UNCHANGED cables /\ Quiet

\* A request of the merge fails, before or after the PATCH.
MergeFails(s, u) ==
    /\ Doing(s, "infra") /\ u \in wk[s].todo /\ budget > 0
    /\ budget' = budget - 1
    /\ \/ UNCHANGED <<legacy, merged>>
       \/ legacy' = legacy \ {u} /\ merged' = merged \cup {u}
    /\ wk' = [wk EXCEPT ![s].todo = @ \ {u}]
    /\ UNCHANGED <<cables, eth0s, plugged, policy, running, loaded, view>>

Cut(s) ==
    /\ Doing(s, "cut") /\ Removes(s)
    /\ Goto(s, "relink")
    /\ UNCHANGED merged /\ Quiet
Relink(s) ==
    /\ Doing(s, "relink") /\ Adds(s)
    /\ eth0s' = {u \in eth0s : \A c \in wk[s].old : Eth0[u] \notin c.ends}
    /\ Resume(s)
    /\ UNCHANGED merged /\ Quiet

-------------------------------------------------------------------------------
(* The drops of a site, from one list of its clients, and the uplinks.        *)

\* _resolve_cable: no drop at a port that clients of the site share or that the
\* controller marks as an uplink.
Alone(c) == \A d \in Clients \ {c} : SiteOf[d] = SiteOf[c] => plugged[d] # plugged[c]
Drops(s) == {<<Nic[c], plugged[c]>> :
               c \in {d \in Clients : /\ SiteOf[d] = s /\ plugged[d] \notin UplinkPorts \cup {None}
                                      /\ Alone(d)}}

MutantListsShared(s) ==
    /\ Doing(s, "infra") /\ wk[s].todo = {}
    /\ wk' = [wk EXCEPT ![s] = Idle("next", {<<Nic[c], plugged[c]>> :
                                 c \in {d \in Clients : SiteOf[d] = s /\ plugged[d] # None}})]
    /\ UNCHANGED <<netbox, merged>> /\ Quiet
ListClients(s) ==
    /\ Doing(s, "infra") /\ wk[s].todo = {}
    /\ wk' = [wk EXCEPT ![s] = Idle("next", Drops(s))]
    /\ UNCHANGED <<netbox, merged>> /\ Quiet

\* _resolve_uplink_port for local port 1: on a record that shows eth0 alone it is
\* eth0, by the zero-based shift; next to the ports of the type it is ambiguous.
\* The prefetched interfaces of a device merged in this run show eth0 alone.
UplinkOf(u) ==
    CASE u \in legacy \/ (u \in merged /\ loaded) -> {<<Eth0[u], Up[u]>>}
      [] u \in eth0s \ legacy /\ ~(u \in merged /\ loaded) -> {}
      [] OTHER -> {<<Down[u], Up[u]>>}

\* _uplink_duplicate_macs: of the uplinks matched to one device the best match,
\* and of equal ones the first of the queue, which the workers fill as they go.
Leading    == {u \in Uplinks : \A v \in Uplinks : Box[v] = Box[u] => Rank[u] <= Rank[v]}
Winners(W) == W \subseteq Leading /\ \A u \in Leading : \E v \in W : {v} = {w \in W : Box[w] = Box[u]}

MutantKeepsDuplicates ==
    /\ Doing(Main, "wait") /\ \A s \in Sites : wk[s].step = "done"
    /\ wk' = [wk EXCEPT ![Main] = Idle("next", UNION {UplinkOf(u) : u \in Uplinks})]
    /\ UNCHANGED <<netbox, merged>> /\ Quiet
BeginUplinks ==
    /\ Doing(Main, "wait") /\ \A s \in Sites : wk[s].step = "done"
    /\ \E W \in SUBSET Uplinks :
         /\ Winners(W)
         /\ wk' = [wk EXCEPT ![Main] = Idle("next", UNION {UplinkOf(u) : u \in W})]
    /\ UNCHANGED <<netbox, merged>> /\ Quiet

\* _already_cabled_to, on the interface as it was loaded.
Shown == IF loaded THEN view ELSE cables
Take(w, link) ==
    /\ Doing(w, "next") /\ link \in wk[w].todo
    /\ wk' = IF \E c \in Shown : c.ends = {link[1], link[2]}
             THEN [wk EXCEPT ![w].todo = @ \ {link}]
             ELSE [wk EXCEPT ![w] = [Idle("readA", @.todo \ {link}) EXCEPT !.a = link[1], !.b = link[2]]]
    /\ UNCHANGED <<netbox, merged>> /\ Quiet
Finish(w) ==
    /\ Doing(w, "next") /\ wk[w].todo = {}
    /\ Goto(w, "done")
    /\ UNCHANGED <<netbox, merged>> /\ Quiet

\* ensure_cable: a cable at the first end that leads to the second is right, any
\* other goes under "replace"; the second end is read only then.
RightAlready(w) == \E c \in At(wk[w].a) : c.ends = {wk[w].a, wk[w].b}
ReadA(w) ==
    /\ Doing(w, "readA") /\ wk[w].a \in Existing
    /\ IF RightAlready(w) \/ (policy = "skip" /\ ~Free(wk[w].a))
       THEN Resume(w)
       ELSE wk' = [wk EXCEPT ![w].step = IF Free(wk[w].a) THEN "readB" ELSE "cutA",
                             ![w].old = At(wk[w].a)]
    /\ UNCHANGED <<netbox, merged>> /\ Quiet
ReadB(w) ==
    /\ Doing(w, "readB")
    /\ IF policy = "skip" /\ ~Free(wk[w].b)
       THEN Resume(w)
       ELSE wk' = [wk EXCEPT ![w].step = IF Free(wk[w].b) THEN "create" ELSE "cutB",
                             ![w].old = At(wk[w].b)]
    /\ UNCHANGED <<netbox, merged>> /\ Quiet

\* The interface that a stale list names is gone: None has no cable, the error is
\* none of EXPECTED_CLIENT_ERRORS and the whole uplink pass ends.
PassAborts ==
    /\ Doing(Main, "readA") /\ wk[Main].a \notin Existing
    /\ wk' = [wk EXCEPT ![Main] = Idle("done", {})]
    /\ UNCHANGED <<netbox, merged>> /\ Quiet

\* _delete_cable_if_managed: delete it, leave a manual one, or find it gone.
After(step) == IF step = "cutA" THEN "readB" ELSE "create"
Delete(w) ==
    /\ running /\ wk[w].step \in {"cutA", "cutB"} /\ Removes(w)
    /\ Goto(w, After(wk[w].step))
    /\ UNCHANGED merged /\ Quiet
LeaveManual(w) ==
    /\ running /\ wk[w].step \in {"cutA", "cutB"}
    /\ wk[w].old \subseteq cables /\ wk[w].old \cap Removable(w) = {}
    /\ Resume(w)
    /\ UNCHANGED <<netbox, merged>> /\ Quiet
FindGone(w) ==
    /\ running /\ wk[w].step \in {"cutA", "cutB"} /\ ~(wk[w].old \subseteq cables)
    /\ Goto(w, After(wk[w].step))
    /\ UNCHANGED <<netbox, merged>> /\ Quiet

Create(w) ==
    /\ Doing(w, "create") /\ Adds(w)
    /\ Resume(w)
    /\ UNCHANGED <<eth0s, merged>> /\ Quiet

\* NetBox refuses: a second cable at an end, or a cable that is gone.
Refused(w) ==
    /\ running
    /\ \/ wk[w].step \in {"relink", "create"} /\ ~(Free(wk[w].a) /\ Free(wk[w].b))
       \/ wk[w].step \in {"cut", "cutA", "cutB"} /\ ~(wk[w].old \subseteq cables)
    /\ Resume(w)
    /\ UNCHANGED <<netbox, merged>> /\ Quiet

-------------------------------------------------------------------------------
(* Faults, people and UniFi.                                                  *)

RequestFails(w) ==
    /\ running /\ wk[w].a # None /\ budget > 0
    /\ budget' = budget - 1
    /\ \/ UNCHANGED netbox
       \/ Removes(w)
       \/ Adds(w) /\ UNCHANGED eth0s
    /\ Resume(w)
    /\ UNCHANGED <<plugged, policy, running, loaded, view, merged>>

ByHand == /\ budget > 0 /\ budget' = budget - 1
          /\ UNCHANGED <<legacy, eth0s, policy, running, loaded, view, merged, wk>>
OperatorPlugs(link) ==
    /\ ByHand /\ \A e \in link : Free(e)
    /\ cables' = cables \cup {[ends |-> link, tagged |-> FALSE]}
    /\ UNCHANGED plugged
OperatorUnplugs(c) ==
    /\ ByHand /\ cables' = cables \ {c}
    /\ UNCHANGED plugged
ClientMoves(c, e) ==
    /\ ByHand /\ plugged[c] # e
    /\ plugged' = [plugged EXCEPT ![c] = e]
    /\ UNCHANGED cables

EnsureCable(w) ==
    \/ \E link \in wk[w].todo : Take(w, link)
    \/ Finish(w) \/ ReadA(w) \/ ReadB(w) \/ Delete(w) \/ LeaveManual(w) \/ FindGone(w)
    \/ Create(w) \/ Refused(w)
SiteStep(s) ==
    (\E u \in wk[s].todo : Merge(s, u)) \/ Cut(s) \/ Relink(s) \/ ListClients(s) \/ EnsureCable(s)
MainStep == BeginUplinks \/ PassAborts \/ EnsureCable(Main)

Environment ==
    \/ \E s \in Sites : \E u \in wk[s].todo : MergeFails(s, u)
    \/ \E w \in Workers : RequestFails(w)
    \/ \E link \in HandLinks : OperatorPlugs(link)
    \/ \E c \in cables : OperatorUnplugs(c)
    \/ \E c \in Clients : \E e \in MayPlug[c] \cup {None} : ClientMoves(c, e)

Runs == EndRun \/ \E prefetched \in BOOLEAN : StartRun(prefetched)
Next == Runs \/ (\E s \in Sites : SiteStep(s)) \/ MainStep \/ Environment
Spec == Init /\ [][Next]_vars

\* The pool keeps every worker going and the container starts run after run.
Fairness == WF_vars(Runs) /\ WF_vars(MainStep) /\ \A s \in Sites : WF_vars(SiteStep(s))
FairSpec == Spec /\ Fairness

-------------------------------------------------------------------------------
(* Properties.                                                               *)

TypeOK ==
    /\ cables \in SUBSET Cable
    /\ legacy \in SUBSET Uplinks /\ eth0s \in SUBSET Uplinks /\ merged \in SUBSET Uplinks
    /\ plugged \in [Clients -> Ends \cup {None}]
    /\ policy \in {"skip", "replace"}
    /\ running \in BOOLEAN /\ loaded \in BOOLEAN
    /\ view \in SUBSET Cable
    /\ wk \in [Workers -> Worker]
    /\ budget \in 0..Budget

SyncStep == wk' # wk /\ running

\* Outside the merge of a client record no worker removes a cable that a person
\* made, whatever changed since it read the interface, and none at all under
\* "skip" (README, CABLE_CONFLICT_POLICY).
Placeholders == {Eth0[u] : u \in Uplinks}
OnlyReplacedRemoved ==
    [][\A c \in cables \ cables' :
         SyncStep => \/ c.tagged /\ policy = "replace"
                     \/ c.ends \cap Placeholders # {}]_vars

\* What UniFi reports, in terms of NetBox: the links the sync is to have.  A
\* device that keeps eth0 has no uplink that a port could be matched for.
Wanted == {{l[1], l[2]} : l \in UNION {Drops(s) : s \in Sites}}
          \cup {{Down[u], Up[u]} : u \in Leading \ eth0s}
Uncontested == \A l, m \in Wanted : l # m => l \cap m = {}

\* A link that UniFi reports for good, with no other that wants one of its ends
\* and no cable at them that the policy protects, is cabled in the end, after any
\* lost answers, races between sites, merges and stale interface lists.
Undisputed(l) ==
    /\ l \in Wanted /\ \A m \in Wanted \ {l} : m \cap l = {}
    /\ \A c \in cables : c.ends \cap l # {} => c.ends = l \/ (policy = "replace" /\ c.tagged)
Links == {{Nic[c], e} : c \in Clients, e \in UNION {MayPlug[d] : d \in Clients}}
         \cup {{Down[u], Up[u]} : u \in Uplinks}
LinksCabled ==
    \A l \in Links : <>[]Undisputed(l) => <>[](\E c \in cables : c.ends = l)

\* Where no two of the reported links compete for a port, the cables come to
\* rest: whatever was replaced, no later run keeps replacing it.
UncontestedSettles == <>[]Uncontested => <>[][cables' = cables]_vars

===============================================================================
