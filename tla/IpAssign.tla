------------------------------- MODULE IpAssign -------------------------------
(***************************************************************************)
(* The addresses of client devices: _may_assign_ip, assign_ip, _move_ip    *)
(* and the clearing of primary addresses, as the workers of several sites  *)
(* perform them run after run against one global address table.            *)
(*                                                                         *)
(* Every NetBox request is a step of its own, since another worker or a    *)
(* person may act between two of them.  Where a device holds an address on *)
(* one of its interfaces only the device matters: NetBox lets a primary    *)
(* address move between interfaces of one device, not to another device.   *)
(***************************************************************************)
EXTENDS Naturals, FiniteSets

CONSTANTS
    Sites,       \* NetBox sites, one worker each
    Devices,     \* client devices and devices that people entered
    Addrs,
    None,        \* no device, no address, no address object
    SiteOf,      \* Devices -> Sites
    MayReport,   \* Devices -> the addresses UniFi may report for that client
    Prefetch,    \* NETBOX_PREFETCH
    Budget       \* bound: operator edits, UniFi changes and faults

ASSUME AddressAssumption ==
    /\ None \notin Devices /\ None \notin Addrs
    /\ None \notin [dev : Devices, ip : Addrs]
    /\ SiteOf \in [Devices -> Sites]
    /\ MayReport \in [Devices -> SUBSET Addrs]
    /\ Prefetch \in BOOLEAN
    /\ Budget \in Nat

\* A client of the active list, with the address it was listed with; and what
\* the process holds of its device.
Client == [dev : Devices, ip : Addrs]
Held   == [primary : Addrs \cup {None}, tagged : BOOLEAN]

Steps  == {"list", "next", "find", "create", "move", "holders", "clear", "retry", "primary", "done"}
Worker == [step    : Steps,
           todo    : SUBSET Client,
           client  : Client \cup {None},
           holders : SUBSET Devices]    \* devices whose primary is still to be cleared

VARIABLES
    at,        \* NetBox: address -> the device that holds it; None where there is
               \* no address object (NetBox allows one per address)
    primary,   \* NetBox: device -> primary_ip4
    tagged,    \* NetBox: device -> carries SYNC_TAG, in a role the sync manages
    reported,  \* UniFi: device -> the address of the client, None when it is away
    running,
    view,      \* device -> the record the prefetch loaded
    wk,        \* site -> its worker
    ours,      \* history: devices that carried the tag at some point of this run
    budget

vars   == <<at, primary, tagged, reported, running, view, wk, ours, budget>>
netbox == <<at, primary, tagged>>

Live(d)  == [primary |-> primary[d], tagged |-> tagged[d]]
Tagged   == {d \in Devices : tagged[d]}
Clients  == {d \in Devices : MayReport[d] # {}}
Idle     == [step |-> "list", todo |-> {}, client |-> None, holders |-> {}]

\* A primary address is one that the device holds: NetBox accepts no other.
Init ==
    /\ tagged \in {t \in [Devices -> BOOLEAN] : \A d \in Clients : t[d]}
    /\ at \in [Addrs -> Devices \cup {None}]
    /\ primary \in {p \in [Devices -> Addrs \cup {None}] :
                      \A d \in Devices : p[d] # None => at[p[d]] = d}
    /\ reported \in {r \in [Devices -> Addrs \cup {None}] :
                       \A d \in Devices : r[d] \in MayReport[d] \cup {None}}
    /\ running = FALSE
    /\ view = [d \in Devices |-> Live(d)]
    /\ wk = [s \in Sites |-> Idle]
    /\ ours = {}
    /\ budget = Budget

StartRun ==
    /\ ~running
    /\ running' = TRUE
    /\ view' = [d \in Devices |-> Live(d)]
    /\ wk' = [s \in Sites |-> Idle]
    /\ ours' = Tagged
    /\ UNCHANGED <<netbox, reported, budget>>

EndRun ==
    /\ running /\ \A s \in Sites : wk[s].step = "done"
    /\ running' = FALSE
    /\ ours' = {}
    /\ UNCHANGED <<netbox, reported, view, wk, budget>>

Goto(s, step) == wk' = [wk EXCEPT ![s].step = step]
NextClient(s) ==
    wk' = [wk EXCEPT ![s].step = "next", ![s].todo = @ \ {wk[s].client},
                     ![s].client = None, ![s].holders = {}]
Working(s, step) == running /\ wk[s].step = step

ListClients(s) ==
    /\ Working(s, "list")
    /\ wk' = [wk EXCEPT ![s].step = "next",
                        ![s].todo = {[dev |-> d, ip |-> reported[d]] :
                                       d \in {e \in Devices : SiteOf[e] = s /\ reported[e] # None}}]
    /\ UNCHANGED <<netbox, reported, running, view, ours, budget>>

\* _sync_client up to assign_ip, on the record of the prefetch or a live one:
\* an untagged device is left alone, and so is one whose primary already is the
\* address (_primary_ip_matches).
WantsAddress(held, ip) == held.tagged /\ held.primary # ip

Take(s, c) ==
    /\ Working(s, "next") /\ c \in wk[s].todo
    /\ LET held == IF Prefetch THEN view[c.dev] ELSE Live(c.dev) IN
         wk' = IF WantsAddress(held, c.ip)
               THEN [wk EXCEPT ![s].step = "find", ![s].client = c]
               ELSE [wk EXCEPT ![s].todo = @ \ {c}]
    /\ UNCHANGED <<netbox, reported, running, view, ours, budget>>

Finish(s) ==
    /\ Working(s, "next") /\ wk[s].todo = {}
    /\ Goto(s, "done")
    /\ UNCHANGED <<netbox, reported, running, view, ours, budget>>

Mine(s) == wk[s].client.dev
Ip(s)   == wk[s].client.ip

\* assign_ip: the filter by address.
Find(s) ==
    /\ Working(s, "find")
    /\ Goto(s, CASE at[Ip(s)] = None    -> "create"
                 [] at[Ip(s)] = Mine(s) -> "primary"
                 [] OTHER               -> "move")
    /\ UNCHANGED <<netbox, reported, running, view, ours, budget>>

\* What a request may do to NetBox.  A second object for one address is refused,
\* and so are the move of an address that is another device's primary and a
\* primary that the device does not hold.
Hold(s) == at' = [at EXCEPT ![Ip(s)] = Mine(s)] /\ UNCHANGED <<primary, tagged>>
Movable(s)     == \A d \in Devices \ {Mine(s)} : primary[d] # Ip(s)
Creates(s)     == wk[s].step = "create" /\ at[Ip(s)] = None /\ Hold(s)
Moves(s)       == wk[s].step \in {"move", "retry"} /\ Movable(s) /\ Hold(s)
Clears(s, d)   == /\ wk[s].step = "clear" /\ d \in wk[s].holders
                  /\ primary' = [primary EXCEPT ![d] = None] /\ UNCHANGED <<at, tagged>>
BecomesPrimary(s) ==
    /\ wk[s].step = "primary" /\ at[Ip(s)] = Mine(s)
    /\ primary' = [primary EXCEPT ![Mine(s)] = Ip(s)] /\ UNCHANGED <<at, tagged>>

Create(s) ==
    /\ running /\ Creates(s)
    /\ Goto(s, "primary")
    /\ UNCHANGED <<reported, running, view, ours, budget>>
Move(s) ==
    /\ running /\ Moves(s)
    /\ Goto(s, "primary")
    /\ UNCHANGED <<reported, running, view, ours, budget>>

\* The first save was refused because the address is somebody's primary.
MoveRefused(s) ==
    /\ Working(s, "move") /\ ~Movable(s)
    /\ Goto(s, "holders")
    /\ UNCHANGED <<netbox, reported, running, view, ours, budget>>

\* _primary_holders: a live list; when that query fails, every device that has
\* the name in NetBox's refusal, at whatever site.  One of them without the tag
\* keeps the address where it is.
Holders(s) == {d \in Devices : primary[d] = Ip(s)}

MutantClearAll(s, found) ==
    IF found = {} THEN NextClient(s)
    ELSE wk' = [wk EXCEPT ![s].step = "clear", ![s].holders = found]
MutantNeverClears(s, found) == NextClient(s)
ClearOrGiveUp(s, found) ==
    IF found = {} \/ found \ Tagged # {} THEN NextClient(s)
    ELSE wk' = [wk EXCEPT ![s].step = "clear", ![s].holders = found]

FindHolders(s) ==
    /\ Working(s, "holders")
    /\ ClearOrGiveUp(s, Holders(s))
    /\ UNCHANGED <<netbox, reported, running, view, ours, budget>>
FindNamesakes(s) ==
    /\ Working(s, "holders") /\ budget > 0
    /\ budget' = budget - 1
    /\ \E others \in SUBSET Devices : ClearOrGiveUp(s, Holders(s) \cup others)
    /\ UNCHANGED <<netbox, reported, running, view, ours>>

\* The PATCH clears whatever primary the holder has by then.
Clear(s, d) ==
    /\ running /\ Clears(s, d)
    /\ wk' = [wk EXCEPT ![s].holders = @ \ {d},
                        ![s].step = IF wk[s].holders = {d} THEN "retry" ELSE "clear"]
    /\ UNCHANGED <<reported, running, view, ours, budget>>

SetPrimary(s) ==
    /\ running /\ BecomesPrimary(s)
    /\ NextClient(s)
    /\ UNCHANGED <<reported, running, view, ours, budget>>

\* A request that NetBox refuses where the code expects none, and a request that
\* fails or whose answer is lost: the error is recorded and the next client runs.
Refused(s) ==
    /\ running
    /\ \/ wk[s].step = "create" /\ at[Ip(s)] # None
       \/ wk[s].step = "retry" /\ ~Movable(s)
       \/ wk[s].step = "primary" /\ at[Ip(s)] # Mine(s)
    /\ NextClient(s)
    /\ UNCHANGED <<netbox, reported, running, view, ours, budget>>

RequestFails(s) ==
    /\ running /\ wk[s].client # None /\ budget > 0
    /\ budget' = budget - 1
    /\ \/ UNCHANGED netbox
       \/ Creates(s) \/ Moves(s) \/ BecomesPrimary(s)
       \/ \E d \in Devices : Clears(s, d)
    /\ NextClient(s)
    /\ UNCHANGED <<reported, running, view, ours>>

-------------------------------------------------------------------------------
(* The environment.                                                          *)

\* A person tags a device or removes the tag, or assigns an address to a device
\* of their own, as its primary or not.
OperatorTags(d) ==
    /\ budget > 0
    /\ budget' = budget - 1
    /\ tagged' = [tagged EXCEPT ![d] = ~@]
    /\ ours' = IF running THEN ours \cup {d} ELSE ours
    /\ UNCHANGED <<at, primary, reported, running, view, wk>>

OperatorAssigns(d, a) ==
    /\ budget > 0 /\ d \notin Clients /\ at[a] # d
    /\ \A e \in Devices : primary[e] # a
    /\ budget' = budget - 1
    /\ at' = [at EXCEPT ![a] = d]
    /\ \E p \in {primary[d], a} : primary' = [primary EXCEPT ![d] = p]
    /\ UNCHANGED <<tagged, reported, running, view, wk, ours>>

\* DHCP gives the client another address, or it leaves.
ClientChanges(d, a) ==
    /\ budget > 0 /\ reported[d] # a /\ a \in MayReport[d] \cup {None}
    /\ budget' = budget - 1
    /\ reported' = [reported EXCEPT ![d] = a]
    /\ UNCHANGED <<netbox, running, view, wk, ours>>

WorkerStep(s) ==
    \/ ListClients(s) \/ Finish(s) \/ (\E c \in wk[s].todo : Take(s, c))
    \/ Find(s) \/ Create(s) \/ Move(s) \/ MoveRefused(s) \/ FindHolders(s)
    \/ (\E d \in Devices : Clear(s, d)) \/ SetPrimary(s) \/ Refused(s)

Environment ==
    \/ \E s \in Sites : RequestFails(s) \/ FindNamesakes(s)
    \/ \E d \in Devices : OperatorTags(d)
    \/ \E d \in Devices, a \in Addrs : OperatorAssigns(d, a)
    \/ \E d \in Clients, a \in Addrs \cup {None} : ClientChanges(d, a)

Next == StartRun \/ EndRun \/ (\E s \in Sites : WorkerStep(s)) \/ Environment

Spec == Init /\ [][Next]_vars

\* The pool keeps every worker going and the container starts run after run.
Fairness == WF_vars(StartRun) /\ WF_vars(EndRun) /\ \A s \in Sites : WF_vars(WorkerStep(s))
FairSpec == Spec /\ Fairness

-------------------------------------------------------------------------------
(* Properties.                                                               *)

TypeOK ==
    /\ at \in [Addrs -> Devices \cup {None}]
    /\ primary \in [Devices -> Addrs \cup {None}]
    /\ tagged \in [Devices -> BOOLEAN]
    /\ reported \in [Devices -> Addrs \cup {None}]
    /\ running \in BOOLEAN
    /\ view \in [Devices -> Held]
    /\ wk \in [Sites -> Worker]
    /\ ours \in SUBSET Devices
    /\ budget \in 0..Budget

SyncStep == wk' # wk /\ running

\* The primary address of a device that did not carry the tag at any point of the
\* run stays where it is, whatever workers clear and move around it and however
\* old the record is that they decide on (README, Primary IP moves: "If it is not,
\* the address is left where it is").
ManualPrimaryKept ==
    [][\A d \in Devices :
         SyncStep /\ d \notin ours
           => /\ primary'[d] = primary[d]
              /\ primary[d] # None => at'[primary[d]] = at[primary[d]]]_vars

\* A client that keeps its address, which no other client shares and which is not
\* the primary of a device outside the sync, ends up holding it as its primary,
\* after any number of lost answers, races and moves.
Undisputed(d, a) ==
    /\ reported[d] = a /\ tagged[d]
    /\ \A e \in Devices \ {d} : reported[e] # a /\ (primary[e] = a => tagged[e])
AddressSettles ==
    \A d \in Clients : \A a \in MayReport[d] :
      <>[]Undisputed(d, a) => <>[](at[a] = d /\ primary[d] = a)

===============================================================================
