----------------------------- MODULE CableEnds -----------------------------
(***************************************************************************)
(* Which interface a cable of the sync ends at: the switch is looked up    *)
(* through the caches of a run (caching.py), its interfaces are listed,    *)
(* and PortMatch decides.  A site worker first establishes its hardware,   *)
(* then resolves the ports of its clients (_resolve_cable); when all are   *)
(* done the main thread resolves the uplinks (_finish_uplink_cables).      *)
(* Runs follow each other, each with caches of its own.                    *)
(***************************************************************************)
EXTENDS PortMatch

CONSTANTS
    Sites, Switches,     \* NetBox sites; UniFi addresses of switches
    Adopts,              \* Adopts[s]: the switches that site s adopts
    Drops,               \* Drops[s]: <<switch, port>> of each client of s
    Links,               \* <<switch, port>> at the ends of uplinks
    Ports,               \* port indexes of UniFi
    Templates,           \* PORT_NAME_TEMPLATES
    Cages, Uplinked,     \* ports that are SFP cages; ports UniFi marks as uplink
    OwnNames,            \* UniFi's own names of a port, as a sequence
    Deployments,         \* the boxes a deployment may have
    Main, Unknown, Open, Budget

ASSUME CableEndsAssumption ==
    /\ Main \notin Sites
    /\ Budget \in Nat
    /\ None \notin Names /\ Open \notin Names \cup {None}
    /\ Ports \subseteq Nat \ {0}
    /\ Adopts \in [Sites -> SUBSET Switches]
    /\ Drops \in [Sites -> SUBSET (Switches \X Ports)]
    /\ Links \subseteq Switches \X (Ports \cup {None})

PortTemplates == [text : Texts, of : {"port", "sfp"}, form : Forms]
Devices == [names : SUBSET Names, virtual : SUBSET Names, guess : BOOLEAN, pins : Seq(PortTemplates),
            reachable : BOOLEAN, readable : SUBSET (Ports \cup {None}), label : [Ports \cup {None} -> Names \cup {None}]]

ASSUME DeviceAssumption ==
    /\ Templates \in Seq(PortTemplates)
    /\ OwnNames \in [Switches -> [Ports \cup {None} -> Seq(Names)]]
    /\ Deployments \subseteq [Switches -> Devices]

VARIABLES
    box,       \* box[m]: the NetBox device of switch m: its interfaces, those of
               \* a virtual type, whether its vendor allows number-only guesses,
               \* the model's own templates, whether a join that asks NetBox at
               \* once (interface MAC, serial, name) finds it (reachable); for the
               \* properties: what a port really is (label), and which ports the
               \* names tell (readable)
    there,     \* the switches that NetBox has
    findable,  \* the switches that a join finds in this run once NetBox has them
    switches,  \* CachingNetboxGateway._switches
    located,   \* CachingNetboxGateway._switch_strategy: the keys it has
    wk,        \* wk[w]: a site worker or the main thread
    drop,      \* drop[s]: the ends found for the clients of s
    link,      \* the ends found for the uplinks
    budget     \* bound on faults

vars == <<box, there, findable, switches, located, wk, drop, link, budget>>

Workers == Sites \cup {Main}

\* A worker: where it is, what it has left, what is in hand, the answer of
\* the lookup in progress.
Worker(at, todo) == [at |-> at, todo |-> todo, item |-> None, answer |-> FALSE]
Idle == Worker("idle", {})

Init ==
    /\ box \in Deployments
    /\ there \in SUBSET Switches
    /\ findable = Switches
    /\ switches = [m \in Switches |-> Unknown]
    /\ located = {}
    /\ wk = [w \in Workers |-> Idle]
    /\ drop = [s \in Sites |-> [d \in Drops[s] |-> Open]]
    /\ link = [l \in Links |-> Open]
    /\ budget = Budget

Go(w, worker) == wk' = [wk EXCEPT ![w] = worker]

\* The worker with an item in hand; the rest of its list stays.
Busy(w, at, item, answer) == [at |-> at, todo |-> wk[w].todo, item |-> item, answer |-> answer]

\* note_prefetched_devices: a prefetch that loads the whole list of devices answers
\* the join by unifi_mac from it until the run ends, so that only a join that asks
\* NetBox at once finds a switch made later.  Without one, each join asks NetBox.
Findable == {Switches, there \cup {m \in Switches : box[m].reachable}}

\* A run: new caches, one worker per site.
StartRun ==
    /\ \A w \in Workers : wk[w].at = "idle"
    /\ findable' \in Findable
    /\ switches' = [m \in Switches |-> Unknown]
    /\ located' = {}
    /\ drop' = [s \in Sites |-> [d \in Drops[s] |-> Open]]
    /\ link' = [l \in Links |-> Open]
    /\ wk' = [w \in Workers |-> IF w = Main THEN Worker("waiting", {}) ELSE Worker("hardware", Adopts[w])]
    /\ UNCHANGED <<box, there, budget>>

----------------------------------------------------------------------------
\* The hardware of a site (_sync_unifi_devices)

\* A switch that NetBox has as it should be is left alone.
LeaveSwitch(s, m) ==
    /\ wk[s].at = "hardware" /\ m \in wk[s].todo \cap there
    /\ Go(s, [wk[s] EXCEPT !.todo = @ \ {m}])
    /\ UNCHANGED <<box, there, findable, switches, located, drop, link, budget>>

\* Any other is created, merged or moved, and then forgotten by the cache.
Establish(s, m) ==
    /\ wk[s].at = "hardware" /\ m \in wk[s].todo
    /\ there' = there \cup {m}
    /\ Go(s, Busy(s, "forget", m, FALSE))
    /\ UNCHANGED <<box, findable, switches, located, drop, link, budget>>

\* forget_switch
Forget(s) ==
    /\ wk[s].at = "forget"
    /\ switches' = [switches EXCEPT ![wk[s].item] = Unknown]
    /\ located' = located \ {wk[s].item}
    /\ Go(s, Worker("hardware", wk[s].todo \ {wk[s].item}))
    /\ UNCHANGED <<box, there, findable, drop, link, budget>>

\* The creation fails; the site goes on without the switch.
EstablishFails(s, m) ==
    /\ budget > 0 /\ wk[s].at = "hardware" /\ m \in wk[s].todo \ there
    /\ budget' = budget - 1
    /\ Go(s, [wk[s] EXCEPT !.todo = @ \ {m}])
    /\ UNCHANGED <<box, there, findable, switches, located, drop, link>>

HardwareDone(s) ==
    /\ wk[s].at = "hardware" /\ wk[s].todo = {}
    /\ Go(s, Worker("clients", Drops[s]))
    /\ UNCHANGED <<box, there, findable, switches, located, drop, link, budget>>

----------------------------------------------------------------------------
\* match_switch_device, all its joins
Matched(m) == m \in there \cap findable

\* A client of a site (_resolve_cable)

\* find_switch_device_by_mac: a cached answer is taken, be it negative.
Lookup(s, d) ==
    /\ wk[s].at = "clients" /\ d \in wk[s].todo
    /\ IF switches[d[1]] = Unknown
       THEN Go(s, Busy(s, "asking", d, FALSE))
       ELSE Go(s, Busy(s, "found", d, switches[d[1]]))
    /\ UNCHANGED <<box, there, findable, switches, located, drop, link, budget>>

\* NetBox answers ...
Answer(s) ==
    /\ wk[s].at = "asking"
    /\ Go(s, Busy(s, "storing", wk[s].item, Matched(wk[s].item[1])))
    /\ UNCHANGED <<box, there, findable, switches, located, drop, link, budget>>

\* ... and the answer is cached, whatever happened in between.
Store(s) ==
    /\ wk[s].at = "storing"
    /\ switches' = [switches EXCEPT ![wk[s].item[1]] = wk[s].answer]
    /\ Go(s, [wk[s] EXCEPT !.at = "found"])
    /\ UNCHANGED <<box, there, findable, located, drop, link, budget>>

\* What _resolve_cable makes of a port of a switch that it has found.
DropEnd == [boxes \in Deployments |-> [m \in Switches |-> [port \in Ports |->
    LET sfp == SfpOrdinal(Cages[m], port)
        own == boxes[m].pins
    IN  IF port \in Uplinked[m] THEN None
        ELSE ClientMatch(boxes[m].names, CandidateNames(own, Templates, port, sfp, OwnNames[m][port]),
                         port, sfp, own = <<>> /\ boxes[m].guess).name]]]

Resolve(s) ==
    /\ wk[s].at = "found"
    /\ drop' = [drop EXCEPT ![s][wk[s].item] =
                   IF wk[s].answer THEN DropEnd[box][wk[s].item[1]][wk[s].item[2]] ELSE None]
    /\ Go(s, Worker("clients", wk[s].todo \ {wk[s].item}))
    /\ UNCHANGED <<box, there, findable, switches, located, link, budget>>

\* The lookup or the list of interfaces fails: an error of the client.
RequestFails(s) ==
    /\ budget > 0 /\ wk[s].at \in {"asking", "found"}
    /\ budget' = budget - 1
    /\ Go(s, Worker("clients", wk[s].todo \ {wk[s].item}))
    /\ UNCHANGED <<box, there, findable, switches, located, drop, link>>

SiteDone(s) ==
    /\ wk[s].at = "clients" /\ wk[s].todo = {}
    /\ Go(s, Idle)
    /\ UNCHANGED <<box, there, findable, switches, located, drop, link, budget>>

----------------------------------------------------------------------------
\* The uplink pass (_finish_uplink_cables)

Queued == UNION {Adopts[s] : s \in Sites}

\* Mutant of Locate: the answers that the site workers cached are kept.
LocateCached ==
    /\ wk[Main].at = "waiting" /\ \A s \in Sites : wk[s].at = "idle"
    /\ switches' = [m \in Switches |-> IF m \in Queued /\ switches[m] = Unknown THEN Matched(m)
                                       ELSE switches[m]]
    /\ located' = located \cup Queued
    /\ Go(Main, Worker("uplinks", Links))
    /\ UNCHANGED <<box, there, findable, drop, link, budget>>

\* Mutant of Locate: the strategies are cached per link end.
LocateLinks ==
    /\ wk[Main].at = "waiting" /\ \A s \in Sites : wk[s].at = "idle"
    /\ switches' = [m \in Switches |-> IF m \in Queued \ located THEN Matched(m) ELSE switches[m]]
    /\ located' = located \cup Links
    /\ Go(Main, Worker("uplinks", Links))
    /\ UNCHANGED <<box, there, findable, drop, link, budget>>

\* _uplink_duplicate_macs: match_switch_device for each queued device, a
\* cache of its own; its answers replace those of the site workers.
Locate ==
    /\ wk[Main].at = "waiting" /\ \A s \in Sites : wk[s].at = "idle"
    /\ switches' = [m \in Switches |-> IF m \in Queued \ located THEN Matched(m) ELSE switches[m]]
    /\ located' = located \cup Queued
    /\ Go(Main, Worker("uplinks", Links))
    /\ UNCHANGED <<box, there, findable, drop, link, budget>>

\* _resolve_uplink_port; a local port that UniFi does not report is None.
Wired(boxes, m) == {n \in boxes[m].names \ boxes[m].virtual : IsPhysical(n)}

LinkEnd == [boxes \in Deployments |-> [m \in Switches |-> [port \in Ports \cup {None} |->
    LET sfp == SfpOrdinal(Cages[m], port)
        own == boxes[m].pins
    IN  UplinkMatch(Wired(boxes, m), Rendered(own, port, sfp),
                    CandidateNames(own, Templates, port, sfp, OwnNames[m][port]),
                    port, sfp, own = <<>> /\ boxes[m].guess).name]]]

\* One end of an uplink; a switch that is not cached is asked for.
ResolveUplink(l) ==
    LET seen == IF switches[l[1]] = Unknown THEN Matched(l[1]) ELSE switches[l[1]] IN
    /\ wk[Main].at = "uplinks" /\ l \in wk[Main].todo
    /\ switches' = [switches EXCEPT ![l[1]] = seen]
    /\ link' = [link EXCEPT ![l] = IF seen THEN LinkEnd[box][l[1]][l[2]] ELSE None]
    /\ Go(Main, [wk[Main] EXCEPT !.todo = @ \ {l}])
    /\ UNCHANGED <<box, there, findable, located, drop, budget>>

\* The duplicate check fails, and with it the pass.
LocateFails ==
    /\ budget > 0 /\ wk[Main].at = "waiting" /\ \A s \in Sites : wk[s].at = "idle"
    /\ budget' = budget - 1
    /\ Go(Main, Worker("uplinks", {}))
    /\ UNCHANGED <<box, there, findable, switches, located, drop, link>>

UplinkFails(l) ==
    /\ budget > 0 /\ wk[Main].at = "uplinks" /\ l \in wk[Main].todo
    /\ budget' = budget - 1
    /\ Go(Main, [wk[Main] EXCEPT !.todo = @ \ {l}])
    /\ UNCHANGED <<box, there, findable, switches, located, drop, link>>

EndRun ==
    /\ wk[Main].at = "uplinks" /\ wk[Main].todo = {}
    /\ Go(Main, Idle)
    /\ UNCHANGED <<box, there, findable, switches, located, drop, link, budget>>

----------------------------------------------------------------------------

SiteStep(s) ==
    \/ \E m \in Switches : LeaveSwitch(s, m) \/ Establish(s, m)
    \/ Forget(s) \/ HardwareDone(s)
    \/ \E d \in Drops[s] : Lookup(s, d)
    \/ Answer(s) \/ Store(s) \/ Resolve(s) \/ SiteDone(s)

MainStep == StartRun \/ Locate \/ EndRun \/ \E l \in Links : ResolveUplink(l)

Faults ==
    \/ \E s \in Sites : RequestFails(s) \/ \E m \in Switches : EstablishFails(s, m)
    \/ LocateFails
    \/ \E l \in Links : UplinkFails(l)

Work == MainStep \/ \E s \in Sites : SiteStep(s)

Next == Work \/ Faults

Spec == Init /\ [][Next]_vars

\* Some worker that can move does; a run is finite, so each gets its turn.
FairSpec == Spec /\ WF_vars(Work)

----------------------------------------------------------------------------
\* Properties

AtHardware == {"hardware", "forget"}
AtClients  == {"clients", "asking", "storing", "found"}
AtMain     == {"idle", "waiting", "uplinks"}
Workings   == [at : AtHardware \cup AtClients \cup AtMain, item : Switches \cup (Switches \X Ports) \cup {None},
               todo : SUBSET (Switches \cup (Switches \X Ports) \cup Links), answer : BOOLEAN]

\* What a site worker has in hand is its own: a switch that its site adopts,
\* or a port of one of its clients; the main thread has uplinks.
TypeOK ==
    /\ there \subseteq Switches /\ findable \subseteq Switches /\ located \subseteq Switches
    /\ switches \in [Switches -> BOOLEAN \cup {Unknown}]
    /\ wk \in [Workers -> Workings]
    /\ \A s \in Sites :
        /\ wk[s].at \in AtHardware => wk[s].todo \subseteq Adopts[s]
        /\ wk[s].at = "forget" => wk[s].item \in Adopts[s]
        /\ wk[s].at \in AtClients => wk[s].todo \subseteq Drops[s]
        /\ wk[s].at \in {"asking", "storing", "found"} => wk[s].item \in Drops[s]
        /\ wk[s].at \notin {"waiting", "uplinks"}
    /\ wk[Main].at \in AtMain /\ wk[Main].todo \subseteq Links
    /\ budget \in 0 .. Budget

\* A family of the box starts at 0: client ports are not shifted there, on
\* purpose, and mean another port than uplink ports do.
ZeroBased(m) == ZeroBasedPrefixes(box[m].names \ box[m].virtual) # {}

\* An end that is found is the interface that the port is, or none at all:
\* whatever the names of a device, other interfaces beside the ports (radios,
\* lags, management, other stack members) included, no cable is put on
\* another port's interface, and no client on a port marked as an uplink.
NeverWrongPort ==
    /\ \A s \in Sites : \A d \in Drops[s] :
        drop[s][d] \notin {Open, None} =>
            /\ d[2] \notin Uplinked[d[1]]
            /\ ZeroBased(d[1]) \/ drop[s][d] = box[d[1]].label[d[2]]
    /\ \A l \in Links : link[l] \notin {Open, None} => link[l] = box[l[1]].label[l[2]]

\* The uplink pass misses no port of a readable device that a site of the run
\* adopts and that NetBox had when the run began, or has now under a port's MAC,
\* a serial or a name that find it, whatever answers the site workers left in the
\* cache.
UplinksFound ==
    \A l \in Links :
        /\ l[1] \in Queued /\ Matched(l[1]) /\ l[2] \in box[l[1]].readable
        /\ wk[Main].at = "uplinks"
        => link[l] # None

\* A client's port on a readable switch is found again and again, although a
\* lookup in flight may hide a new switch for the rest of a run.
DropsFound ==
    \A s \in Sites : \A d \in Drops[s] :
        [](/\ d[1] \in there /\ d[2] \in box[d[1]].readable /\ ~ZeroBased(d[1])
           /\ box[d[1]].virtual = {} /\ d[2] \notin Uplinked[d[1]]
           => <>(drop[s][d] = box[d[1]].label[d[2]]))

=============================================================================
