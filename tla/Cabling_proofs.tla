---------------------------- MODULE Cabling_proofs ----------------------------
(***************************************************************************)
(* Type correctness of Cabling and the protection of cables that people    *)
(* made, for every network, policy, table of cables and bound.             *)
(***************************************************************************)
EXTENDS Cabling, TLAPS

Merging == {"infra", "cut", "relink"}
Joining == {"readB", "cutA", "cutB", "create"}

\* What a worker holds is of the kind its step takes; what it is about to delete
\* goes under "replace" only, or is a cable at the placeholder of a client record.
SoundWorker(v) ==
    /\ v \in Worker
    /\ v.todo \in IF v.step \in Merging THEN SUBSET Uplinks ELSE SUBSET Joins
    /\ v.step \in {"cut", "relink"} \cup Joining => v.a \in Ends /\ v.b \in Ends
    /\ v.step = "readA" => v.b \in Ends
    /\ v.step = "infra" => v.a = None
    /\ v.step \in {"cutA", "cutB"} => policy = "replace"
    /\ v.step = "cut" => \A c \in v.old : c.ends \cap Placeholders # {}

IInv == TypeOK /\ \A w \in Workers : SoundWorker(wk[w])

\* Records of a worker between two tasks are sound.
LEMMA IdleIsSound ==
  ASSUME NEW step \in {"infra", "next", "done", "wait"}, NEW todo,
         todo \in IF step = "infra" THEN SUBSET Uplinks ELSE SUBSET Joins
  PROVE  SoundWorker(Idle(step, todo))
BY DEF SoundWorker, Idle, Worker, Steps, Merging, Joining

\* The links to make are pairs of ends.
LEMMA LinksAreTyped ==
  ASSUME TypeOK
  PROVE  /\ \A s \in Sites : Drops(s) \in SUBSET Joins
         /\ \A u \in Uplinks : UplinkOf(u) \in SUBSET Joins
<1>1. \A c \in Clients : Nic[c] \in Ends /\ plugged[c] \in Ends \cup {None}
  BY CablingAssumption DEF TypeOK
<1>2. ASSUME NEW s \in Sites PROVE Drops(s) \in SUBSET Joins
  <2>1. \A c \in Clients : plugged[c] \notin UplinkPorts \cup {None}
                             => <<Nic[c], plugged[c]>> \in Joins
    BY <1>1 DEF Joins
  <2> QED  BY <2>1 DEF Drops
<1>3. ASSUME NEW u \in Uplinks PROVE UplinkOf(u) \in SUBSET Joins
  <2>1. Up[u] \in Ends /\ Down[u] \in Ends /\ Eth0[u] \in Ends \cup {None}
    BY CablingAssumption
  <2>2. <<Eth0[u], Up[u]>> \in Joins /\ <<Down[u], Up[u]>> \in Joins
    BY <2>1 DEF Joins
  <2>3. UplinkOf(u) \in {{<<Eth0[u], Up[u]>>}, {<<Down[u], Up[u]>>}, {}}
    BY DEF UplinkOf
  <2> QED  BY <2>2, <2>3
<1> QED  BY <1>2, <1>3

\* The initial tables satisfy the invariant.
LEMMA InitInv == Init => IInv
<1>1. SUFFICES ASSUME Init PROVE IInv
  OBVIOUS
<1>2. cables \in SUBSET Cable
  BY <1>1, CablingAssumption DEF Init, Cable
<1>3. plugged \in [Clients -> Ends \cup {None}]
  BY <1>1 DEF Init
<1>4. \A w \in Workers : wk[w] = Idle("done", {})
  BY <1>1 DEF Init
<1>5. \A w \in Workers : SoundWorker(wk[w])
  BY <1>4, IdleIsSound
<1>6. wk \in [Workers -> Worker]
  BY <1>1, <1>5 DEF Init, SoundWorker
<1>7. /\ legacy \in SUBSET Uplinks /\ eth0s \in SUBSET Uplinks /\ merged \in SUBSET Uplinks
      /\ running \in BOOLEAN /\ loaded \in BOOLEAN /\ view \in SUBSET Cable
      /\ policy \in {"skip", "replace"}
  BY <1>1 DEF Init
<1>8. budget \in 0..Budget
  BY <1>1, CablingAssumption DEF Init
<1>9. TypeOK
  BY <1>2, <1>3, <1>6, <1>7, <1>8, Zenon DEF TypeOK
<1> QED  BY <1>5, <1>9 DEF IInv

\* A step of one worker that leaves it sound and NetBox typed keeps the invariant.
LEMMA StepKeeps ==
  ASSUME IInv, NEW w \in Workers, NEW v, SoundWorker(v),
         wk' = [wk EXCEPT ![w] = v],
         cables' \in SUBSET Cable, legacy' \in SUBSET Uplinks,
         eth0s' \in SUBSET Uplinks, merged' \in SUBSET Uplinks,
         UNCHANGED <<plugged, policy, running, loaded, view>>, budget' \in 0..Budget
  PROVE  IInv'
<1>1. TypeOK'
  BY DEF IInv, TypeOK, SoundWorker
<1>2. ASSUME NEW x \in Workers PROVE SoundWorker(wk[x])'
  <2>1. wk'[x] = IF x = w THEN v ELSE wk[x]
    BY DEF IInv, TypeOK
  <2>2. SoundWorker(wk[x])
    BY DEF IInv
  <2> QED  BY <2>1, <2>2 DEF SoundWorker
<1> QED  BY <1>1, <1>2 DEF IInv

\* The worker after the task at hand.
LEMMA ResumeIsSound ==
  ASSUME IInv, NEW w \in Workers, Resume(w), wk[w].step # "infra"
  PROVE  \E v : SoundWorker(v) /\ wk' = [wk EXCEPT ![w] = v]
<1> DEFINE step == IF wk[w].step \in {"cut", "relink"} THEN "infra" ELSE "next"
           v == Idle(step, wk[w].todo)
<1>1. wk' = [wk EXCEPT ![w] = v]
  BY DEF Resume, IInv, TypeOK
<1>2. wk[w].todo \in IF step = "infra" THEN SUBSET Uplinks ELSE SUBSET Joins
  BY DEF IInv, SoundWorker, Merging
<1>3. SoundWorker(v)
  BY <1>2, IdleIsSound
<1> HIDE DEF v
<1> QED  BY <1>1, <1>3

\* A request removes only what it may, and leaves the table of cables typed.
Safe == \A c \in cables \ cables' : (c.tagged /\ policy = "replace") \/ c.ends \cap Placeholders # {}

LEMMA RemovesIsSafe ==
  ASSUME IInv, NEW w \in Workers, Removes(w)
  PROVE  Safe /\ cables' \in SUBSET Cable /\ UNCHANGED <<legacy, eth0s>>
<1>1. SoundWorker(wk[w])
  BY DEF IInv
<1> QED  BY <1>1 DEF Removes, Removable, Safe, SoundWorker, IInv, TypeOK

LEMMA AddsIsSafe ==
  ASSUME IInv, NEW w \in Workers, Adds(w)
  PROVE  Safe /\ cables' \in SUBSET Cable /\ UNCHANGED legacy
<1>1. wk[w].a \in Ends /\ wk[w].b \in Ends
  BY DEF Adds, IInv, SoundWorker, Joining
<1>2. [ends |-> {wk[w].a, wk[w].b}, tagged |-> TRUE] \in Cable
  BY <1>1 DEF Cable
<1> QED  BY <1>2 DEF Adds, Safe, IInv, TypeOK

\* The merge of a client record.
LEMMA MergingKeeps ==
  ASSUME IInv, NEW s \in Sites,
         \/ \E u \in wk[s].todo : Merge(s, u) \/ MergeFails(s, u)
         \/ Cut(s) \/ Relink(s)
  PROVE  IInv' /\ Safe
<1> USE DEF Quiet
<1>0. /\ s \in Workers /\ SoundWorker(wk[s]) /\ TypeOK
      /\ wk \in [Workers -> Worker] /\ wk[s] \in Worker /\ budget \in 0..Budget
  BY DEF IInv, TypeOK, Workers, SoundWorker
<1>1. ASSUME NEW u \in wk[s].todo, Merge(s, u) PROVE IInv' /\ Safe
  <2> DEFINE old == At(Eth0[u])
             rest == wk[s].todo \ {u}
  <2>1. wk[s].step = "infra" /\ u \in Uplinks /\ rest \in SUBSET Uplinks
    BY <1>0, <1>1 DEF Merge, Doing, SoundWorker, Merging
  <2>2. /\ legacy' \in SUBSET Uplinks /\ merged' \in SUBSET Uplinks
        /\ cables' \in SUBSET Cable /\ Safe
        /\ UNCHANGED <<plugged, policy, running, loaded, view>> /\ budget' \in 0..Budget
    BY <1>0, <1>1, <2>1 DEF Merge, TypeOK, Safe
  <2>3. CASE old = {} \/ ~Free(Down[u])
    <3> DEFINE v == [wk[s] EXCEPT !.todo = rest]
    <3>1. wk' = [wk EXCEPT ![s] = v] /\ eth0s' \in SUBSET Uplinks
      BY <1>0, <1>1, <2>3 DEF Merge, TypeOK
    <3>2. SoundWorker(v)
      BY <1>0, <2>1 DEF SoundWorker, Worker, Merging, Joining
    <3> HIDE DEF v
    <3> QED  BY <1>0, <2>2, <3>1, <3>2, StepKeeps
  <2>4. CASE ~(old = {} \/ ~Free(Down[u]))
    <3>1. PICK c \in old : \E peer \in c.ends \ {Eth0[u]} :
            wk' = [wk EXCEPT ![s] = [step |-> "cut", todo |-> rest, a |-> Down[u], b |-> peer, old |-> old]]
      BY <1>1, <2>4 DEF Merge
    <3>2. PICK peer \in c.ends \ {Eth0[u]} :
            wk' = [wk EXCEPT ![s] = [step |-> "cut", todo |-> rest, a |-> Down[u], b |-> peer, old |-> old]]
      BY <3>1
    <3> DEFINE v == [step |-> "cut", todo |-> rest, a |-> Down[u], b |-> peer, old |-> old]
    <3>3. old \in SUBSET Cable /\ \A x \in old : x.ends \cap Placeholders # {}
      BY <1>0, <2>1 DEF At, TypeOK, Placeholders
    <3>4. Down[u] \in Ends /\ peer \in Ends
      BY <2>1, <3>1, <3>2, <3>3, CablingAssumption DEF Cable
    <3>5. SoundWorker(v)
      <4> HIDE DEF old, rest
      <4>1. v \in Worker
        BY <2>1, <3>3, <3>4 DEF Worker, Steps
      <4> QED  BY <2>1, <3>3, <3>4, <4>1 DEF SoundWorker, Merging, Joining
    <3>6. wk' = [wk EXCEPT ![s] = v] /\ UNCHANGED eth0s
      BY <1>1, <2>4, <3>2 DEF Merge
    <3> HIDE DEF v
    <3> QED  BY <1>0, <2>2, <3>5, <3>6, StepKeeps DEF TypeOK
  <2> QED  BY <2>3, <2>4
<1>2. ASSUME NEW u \in wk[s].todo, MergeFails(s, u) PROVE IInv' /\ Safe
  <2> DEFINE v == [wk[s] EXCEPT !.todo = @ \ {u}]
  <2>1. wk[s].step = "infra" /\ u \in Uplinks
    BY <1>0, <1>2 DEF MergeFails, Doing, SoundWorker, Merging
  <2>2. SoundWorker(v)
    BY <1>0, <2>1 DEF SoundWorker, Worker, Merging, Joining
  <2>3. wk' = [wk EXCEPT ![s] = v]
    BY <1>0, <1>2 DEF MergeFails
  <2>4. /\ legacy' \in SUBSET Uplinks /\ merged' \in SUBSET Uplinks
        /\ UNCHANGED <<cables, eth0s, plugged, policy, running, loaded, view>>
    BY <1>0, <1>2, <2>1 DEF MergeFails, TypeOK
  <2>5. budget' \in 0..Budget
    BY <1>0, <1>2, CablingAssumption DEF MergeFails
  <2> HIDE DEF v
  <2> QED  BY <1>0, <2>2, <2>3, <2>4, <2>5, StepKeeps DEF TypeOK, Safe
<1>3. CASE Cut(s)
  <2> DEFINE v == [wk[s] EXCEPT !.step = "relink"]
  <2>1. wk[s].step = "cut" /\ wk' = [wk EXCEPT ![s] = v] /\ Removes(s)
        /\ UNCHANGED <<merged, plugged, policy, running, loaded, view, budget>>
    BY <1>0, <1>3 DEF Cut, Doing, Goto
  <2>2. SoundWorker(v)
    BY <1>0, <2>1 DEF SoundWorker, Worker, Steps, Merging, Joining
  <2>3. Safe /\ cables' \in SUBSET Cable /\ UNCHANGED <<legacy, eth0s>>
    BY <1>0, <2>1, RemovesIsSafe
  <2> HIDE DEF v
  <2> QED  BY <1>0, <2>1, <2>2, <2>3, StepKeeps DEF TypeOK
<1>4. CASE Relink(s)
  <2>1. wk[s].step = "relink" /\ Resume(s) /\ Adds(s) /\ eth0s' \in SUBSET Uplinks
        /\ UNCHANGED <<merged, plugged, policy, running, loaded, view, budget>>
    BY <1>0, <1>4 DEF Relink, Doing, TypeOK
  <2>2. PICK v : SoundWorker(v) /\ wk' = [wk EXCEPT ![s] = v]
    BY <1>0, <2>1, ResumeIsSound
  <2>3. Safe /\ cables' \in SUBSET Cable /\ UNCHANGED legacy
    BY <1>0, <2>1, AddsIsSafe
  <2> QED  BY <1>0, <2>1, <2>2, <2>3, StepKeeps DEF TypeOK
<1> QED  BY <1>1, <1>2, <1>3, <1>4

\* The steps of ensure_cable and of the lists of links, which change at most the
\* table of cables.
LEMMA JoiningKeeps ==
  ASSUME IInv, NEW w \in Workers, EnsureCable(w)
  PROVE  IInv' /\ Safe
<1> USE DEF Quiet
<1>0. /\ SoundWorker(wk[w]) /\ wk \in [Workers -> Worker] /\ wk[w] \in Worker /\ budget \in 0..Budget
      /\ cables \in SUBSET Cable /\ legacy \in SUBSET Uplinks
      /\ eth0s \in SUBSET Uplinks /\ merged \in SUBSET Uplinks
  BY DEF IInv, TypeOK
<1>1. \A e : At(e) \in SUBSET Cable
  BY <1>0 DEF At
<1>2. ASSUME NEW v, SoundWorker(v), wk' = [wk EXCEPT ![w] = v], UNCHANGED <<netbox, merged>>, Quiet
      PROVE  IInv' /\ Safe
  BY <1>0, <1>2, StepKeeps DEF netbox, Safe
<1>3. ASSUME wk[w].step # "infra", Resume(w), UNCHANGED <<netbox, merged>>, Quiet
      PROVE  IInv' /\ Safe
  <2>1. PICK v : SoundWorker(v) /\ wk' = [wk EXCEPT ![w] = v]
    BY <1>3, ResumeIsSound
  <2> QED  BY <1>2, <1>3, <2>1
<1>4. ASSUME NEW link \in wk[w].todo, Take(w, link) PROVE IInv' /\ Safe
  <2> DEFINE rest == wk[w].todo \ {link}
             v == [wk[w] EXCEPT !.todo = rest]
             x == [Idle("readA", rest) EXCEPT !.a = link[1], !.b = link[2]]
  <2>1. wk[w].step = "next" /\ rest \in SUBSET Joins /\ link[1] \in Ends \cup {None} /\ link[2] \in Ends
    BY <1>0, <1>4 DEF Take, Doing, SoundWorker, Merging, Joins
  <2>2. SoundWorker(v)
    BY <1>0, <2>1 DEF SoundWorker, Worker, Merging, Joining
  <2>3. SoundWorker(x)
    BY <2>1 DEF SoundWorker, Worker, Idle, Steps, Merging, Joining
  <2>4. wk' = [wk EXCEPT ![w] = v] \/ wk' = [wk EXCEPT ![w] = x]
    BY <1>0, <1>4 DEF Take
  <2>5. UNCHANGED <<netbox, merged>> /\ Quiet
    BY <1>4 DEF Take
  <2> HIDE DEF v, x
  <2> QED  BY <1>2, <2>2, <2>3, <2>4, <2>5
<1>5. CASE Finish(w)
  <2> DEFINE v == [wk[w] EXCEPT !.step = "done"]
  <2>1. wk[w].step = "next" /\ wk' = [wk EXCEPT ![w] = v] /\ UNCHANGED <<netbox, merged>> /\ Quiet
    BY <1>0, <1>5 DEF Finish, Doing, Goto
  <2>2. SoundWorker(v)
    BY <1>0, <2>1 DEF SoundWorker, Worker, Steps, Merging, Joining
  <2> HIDE DEF v
  <2> QED  BY <1>2, <2>1, <2>2
<1>6. CASE ReadA(w)
  <2>1. wk[w].step = "readA" /\ wk[w].a \in Ends /\ UNCHANGED <<netbox, merged>> /\ Quiet
    BY <1>6 DEF ReadA, Doing, Existing
  <2>2. CASE Resume(w)
    BY <1>3, <2>1, <2>2
  <2>3. CASE ~(RightAlready(w) \/ (policy = "skip" /\ ~Free(wk[w].a)))
    <3> DEFINE step == IF Free(wk[w].a) THEN "readB" ELSE "cutA"
               v == [wk[w] EXCEPT !.step = step, !.old = At(wk[w].a)]
    <3>1. wk' = [wk EXCEPT ![w] = v]
      BY <1>0, <1>6, <2>3 DEF ReadA
    <3>2. step = "cutA" => policy = "replace"
      BY <2>3 DEF IInv, TypeOK
    <3>3. step \in {"readB", "cutA"}
      OBVIOUS
    <3>4. SoundWorker(v)
      <4> HIDE DEF step
      <4> QED  BY <1>0, <1>1, <2>1, <3>2, <3>3 DEF SoundWorker, Worker, Steps, Merging, Joining
    <3> HIDE DEF v
    <3> QED  BY <1>2, <2>1, <3>1, <3>4
  <2> QED  BY <1>6, <2>2, <2>3 DEF ReadA
<1>7. CASE ReadB(w)
  <2>1. wk[w].step = "readB" /\ UNCHANGED <<netbox, merged>> /\ Quiet
    BY <1>7 DEF ReadB, Doing
  <2>2. CASE Resume(w)
    BY <1>3, <2>1, <2>2
  <2>3. CASE ~(policy = "skip" /\ ~Free(wk[w].b))
    <3> DEFINE step == IF Free(wk[w].b) THEN "create" ELSE "cutB"
               v == [wk[w] EXCEPT !.step = step, !.old = At(wk[w].b)]
    <3>1. wk' = [wk EXCEPT ![w] = v]
      BY <1>0, <1>7, <2>3 DEF ReadB
    <3>2. step = "cutB" => policy = "replace"
      BY <2>3 DEF IInv, TypeOK
    <3>3. step \in {"create", "cutB"}
      OBVIOUS
    <3>4. SoundWorker(v)
      <4> HIDE DEF step
      <4> QED  BY <1>0, <1>1, <2>1, <3>2, <3>3 DEF SoundWorker, Worker, Steps, Merging, Joining
    <3> HIDE DEF v
    <3> QED  BY <1>2, <2>1, <3>1, <3>4
  <2> QED  BY <1>7, <2>2, <2>3 DEF ReadB
<1>8. CASE Delete(w) \/ FindGone(w)
  <2> DEFINE v == [wk[w] EXCEPT !.step = After(wk[w].step)]
  <2>1. /\ wk[w].step \in {"cutA", "cutB"} /\ wk' = [wk EXCEPT ![w] = v]
        /\ UNCHANGED merged /\ Quiet /\ (Removes(w) \/ UNCHANGED netbox)
    BY <1>0, <1>8 DEF Delete, FindGone, Goto
  <2>2. SoundWorker(v)
    BY <1>0, <2>1 DEF After, SoundWorker, Worker, Steps, Merging, Joining
  <2> HIDE DEF v
  <2>3. CASE UNCHANGED netbox
    BY <1>2, <2>1, <2>2, <2>3
  <2>4. CASE Removes(w)
    <3>1. Safe /\ cables' \in SUBSET Cable /\ UNCHANGED <<legacy, eth0s>>
      BY <2>4, RemovesIsSafe
    <3> QED  BY <1>0, <2>1, <2>2, <3>1, StepKeeps
  <2> QED  BY <2>1, <2>3, <2>4
<1>9. CASE LeaveManual(w) \/ Refused(w)
  <2>1. wk[w].step # "infra" /\ Resume(w) /\ UNCHANGED <<netbox, merged>> /\ Quiet
    BY <1>9 DEF LeaveManual, Refused
  <2> QED  BY <1>3, <2>1
<1>10. CASE Create(w)
  <2>1. wk[w].step # "infra" /\ Resume(w) /\ Adds(w) /\ UNCHANGED <<eth0s, merged>> /\ Quiet
    BY <1>10 DEF Create, Doing
  <2>2. PICK v : SoundWorker(v) /\ wk' = [wk EXCEPT ![w] = v]
    BY <2>1, ResumeIsSound
  <2>3. Safe /\ cables' \in SUBSET Cable /\ UNCHANGED legacy
    BY <2>1, AddsIsSafe
  <2> QED  BY <1>0, <2>1, <2>2, <2>3, StepKeeps
<1> QED  BY <1>4, <1>5, <1>6, <1>7, <1>8, <1>9, <1>10 DEF EnsureCable

\* The lists of links, the end of the uplink pass and a request that fails.
LEMMA ListingKeeps ==
  ASSUME IInv,
         (\E s \in Sites : ListClients(s)) \/ BeginUplinks \/ PassAborts
         \/ \E w \in Workers : RequestFails(w)
  PROVE  IInv' /\ Safe
<1> USE DEF Quiet
<1>0. /\ wk \in [Workers -> Worker] /\ budget \in 0..Budget /\ Main \in Workers
      /\ cables \in SUBSET Cable /\ legacy \in SUBSET Uplinks
      /\ eth0s \in SUBSET Uplinks /\ merged \in SUBSET Uplinks
  BY DEF IInv, TypeOK, Workers
<1>1. ASSUME NEW w \in Workers, NEW v, SoundWorker(v), wk' = [wk EXCEPT ![w] = v],
             UNCHANGED <<netbox, merged>>, Quiet
      PROVE  IInv' /\ Safe
  BY <1>0, <1>1, StepKeeps DEF netbox, Safe
<1>2. ASSUME NEW s \in Sites, ListClients(s) PROVE IInv' /\ Safe
  <2>1. SoundWorker(Idle("next", Drops(s)))
    BY LinksAreTyped, IdleIsSound DEF IInv
  <2> QED  BY <1>1, <1>2, <2>1 DEF ListClients, Workers
<1>3. CASE BeginUplinks
  <2>1. PICK W \in SUBSET Uplinks :
          wk' = [wk EXCEPT ![Main] = Idle("next", UNION {UplinkOf(u) : u \in W})]
    BY <1>3 DEF BeginUplinks
  <2>2. UNION {UplinkOf(u) : u \in W} \in SUBSET Joins
    BY LinksAreTyped DEF IInv
  <2>3. SoundWorker(Idle("next", UNION {UplinkOf(u) : u \in W}))
    BY <2>2, IdleIsSound
  <2> QED  BY <1>0, <1>1, <1>3, <2>1, <2>3 DEF BeginUplinks
<1>4. CASE PassAborts
  <2>1. SoundWorker(Idle("done", {}))
    BY IdleIsSound
  <2> QED  BY <1>0, <1>1, <1>4, <2>1 DEF PassAborts
<1>5. ASSUME NEW w \in Workers, RequestFails(w) PROVE IInv' /\ Safe
  <2>1. /\ Resume(w) /\ UNCHANGED <<plugged, policy, running, loaded, view, merged>>
        /\ UNCHANGED netbox \/ Removes(w) \/ (Adds(w) /\ UNCHANGED eth0s)
    BY <1>5 DEF RequestFails
  <2>2. budget' \in 0..Budget
    BY <1>0, <1>5, CablingAssumption DEF RequestFails
  <2>3. wk[w].step # "infra"
    BY <1>5 DEF RequestFails, IInv, SoundWorker
  <2>4. PICK v : SoundWorker(v) /\ wk' = [wk EXCEPT ![w] = v]
    BY <2>1, <2>3, ResumeIsSound
  <2>5. Safe /\ cables' \in SUBSET Cable /\ legacy' \in SUBSET Uplinks /\ eth0s' \in SUBSET Uplinks
    BY <1>0, <2>1, RemovesIsSafe, AddsIsSafe DEF netbox, Safe
  <2> QED  BY <1>0, <2>1, <2>2, <2>4, <2>5, StepKeeps
<1> QED  BY <1>2, <1>3, <1>4, <1>5

\* A run begins and ends; people and UniFi act.  None of them is a step of the sync
\* on the table of cables.
LEMMA OthersKeep ==
  ASSUME IInv,
         \/ Runs
         \/ \E link \in HandLinks : OperatorPlugs(link)
         \/ \E c \in cables : OperatorUnplugs(c)
         \/ \E c \in Clients : \E e \in MayPlug[c] \cup {None} : ClientMoves(c, e)
  PROVE  IInv' /\ (SyncStep => Safe)
<1>0. TypeOK /\ \A w \in Workers : SoundWorker(wk[w])
  BY DEF IInv
<1>1. ASSUME NEW prefetched \in BOOLEAN, StartRun(prefetched) PROVE IInv' /\ (SyncStep => Safe)
  <2> USE <1>1 DEF StartRun, netbox
  <2>1. /\ cables' = cables /\ policy' = policy /\ UNCHANGED <<legacy, eth0s, plugged, budget>>
        /\ running' = TRUE /\ loaded' \in BOOLEAN /\ merged' = {} /\ view' \in SUBSET Cable
    BY <1>0 DEF TypeOK
  <2>2. ASSUME NEW w \in Workers PROVE SoundWorker(wk'[w])
    <3>1. {u \in legacy : SiteOf[u] = w} \in SUBSET Uplinks
      BY <1>0 DEF TypeOK
    <3>2. SoundWorker(Start(w)) /\ SoundWorker(Idle("wait", {}))
      BY <3>1, IdleIsSound DEF Start
    <3> QED  BY <3>2
  <2>3. \A w \in Workers : SoundWorker(wk[w])'
    BY <2>1, <2>2 DEF SoundWorker
  <2>4. wk' \in [Workers -> Worker]
    BY <2>2 DEF SoundWorker
  <2>5. TypeOK'
    BY <1>0, <2>1, <2>4 DEF TypeOK
  <2> QED  BY <2>1, <2>3, <2>5 DEF IInv, Safe
<1>2. CASE EndRun
  <2>1. UNCHANGED <<cables, legacy, eth0s, plugged, policy, wk, budget>>
        /\ running' = FALSE /\ loaded' = FALSE /\ view' = {} /\ merged' = {}
    BY <1>2 DEF EndRun, netbox
  <2> QED  BY <1>0, <2>1 DEF IInv, TypeOK, SoundWorker, Safe
<1>3. ASSUME ByHand, cables' \in SUBSET Cable, plugged' \in [Clients -> Ends \cup {None}]
      PROVE  IInv' /\ (SyncStep => Safe)
  <2>1. budget' \in 0..Budget /\ UNCHANGED <<legacy, eth0s, policy, running, loaded, view, merged, wk>>
    BY <1>0, <1>3, CablingAssumption DEF ByHand, TypeOK
  <2> QED  BY <1>0, <1>3, <2>1 DEF IInv, TypeOK, SoundWorker, SyncStep
<1>4. ASSUME NEW link \in HandLinks, OperatorPlugs(link) PROVE IInv' /\ (SyncStep => Safe)
  <2>1. [ends |-> link, tagged |-> FALSE] \in Cable
    BY CablingAssumption DEF Cable
  <2> QED  BY <1>0, <1>3, <1>4, <2>1 DEF OperatorPlugs, TypeOK
<1>5. ASSUME NEW c \in cables, OperatorUnplugs(c) PROVE IInv' /\ (SyncStep => Safe)
  BY <1>0, <1>3, <1>5 DEF OperatorUnplugs, TypeOK
<1>6. ASSUME NEW c \in Clients, NEW e \in MayPlug[c] \cup {None}, ClientMoves(c, e)
      PROVE  IInv' /\ (SyncStep => Safe)
  <2>1. e \in Ends \cup {None}
    BY CablingAssumption
  <2> QED  BY <1>0, <1>3, <1>6, <2>1 DEF ClientMoves, TypeOK
<1> QED  BY <1>1, <1>2, <1>4, <1>5, <1>6 DEF Runs

LEMMA NextKeeps ==
  ASSUME IInv, Next
  PROVE  IInv' /\ (SyncStep => Safe)
<1>1. CASE \/ Runs
           \/ \E link \in HandLinks : OperatorPlugs(link)
           \/ \E c \in cables : OperatorUnplugs(c)
           \/ \E c \in Clients : \E e \in MayPlug[c] \cup {None} : ClientMoves(c, e)
  BY <1>1, OthersKeep
<1>2. CASE \E s \in Sites : SiteStep(s) \/ \E u \in wk[s].todo : MergeFails(s, u)
  BY <1>2, MergingKeeps, JoiningKeeps, ListingKeeps DEF SiteStep, Workers
<1>3. CASE MainStep \/ \E w \in Workers : RequestFails(w)
  BY <1>3, JoiningKeeps, ListingKeeps DEF MainStep, Workers
<1> QED  BY <1>1, <1>2, <1>3 DEF Next, Environment

LEMMA StutterKeeps == ASSUME IInv, UNCHANGED vars PROVE IInv' /\ Safe
BY DEF IInv, TypeOK, SoundWorker, Safe, vars

\* Every reachable state is well typed, and whatever a worker is about to delete
\* it may delete.
THEOREM CablingInvariant == Spec => []IInv
<1>1. Init => IInv
  BY InitInv
<1>2. IInv /\ [Next]_vars => IInv'
  BY NextKeeps, StutterKeeps
<1> QED  BY <1>1, <1>2, PTL DEF Spec

\* Workers, cables and client records keep their types, and people and faults
\* stay within their bound.
THEOREM CablingTypes == Spec => []TypeOK
<1>1. IInv => TypeOK
  BY DEF IInv
<1> QED  BY <1>1, CablingInvariant, PTL

\* For any network and any number of workers: outside the merge of a client record
\* no cable made by hand is removed, and none at all under "skip".
THEOREM OnlyReplacedAreRemoved == Spec => OnlyReplacedRemoved
<1>1. IInv /\ [Next]_vars
        => [\A c \in cables \ cables' :
              SyncStep => \/ c.tagged /\ policy = "replace"
                          \/ c.ends \cap Placeholders # {}]_vars
  BY NextKeeps DEF Safe
<1>2. Spec => []IInv
  BY CablingInvariant
<1> QED  BY <1>1, <1>2, PTL DEF Spec, OnlyReplacedRemoved

===============================================================================
