------------------------ MODULE SchemaEnsure_proofs -------------------------
(* Proofs about SchemaEnsure, for any callers, objects and faults. *)
EXTENDS SchemaEnsure, TLAPS

----------------------------------------------------------------------------
\* The session: what every step does to a call

SessionTypes ==
    /\ at \in [Callers -> States] /\ write \in [Callers -> BOOLEAN]
    /\ tries \in [Callers -> Nat] /\ rated \in [Callers -> Nat] /\ handled \in [Callers -> Nat]
    /\ permits \in Nat /\ late \subseteq Callers /\ budget \in Nat

\* A write of the call in hand was handled once its answer is under way, and
\* never before.
HandledOnce == \A w \in Callers :
    /\ write[w] /\ at[w] \in {"handled", "answered"} => handled[w] = 1
    /\ at[w] \in {"idle", "waiting", "flying", "paused"} \/ ~write[w] => handled[w] = 0

SessionStep(w) ==
    \/ \E isWrite \in BOOLEAN : Request(w, isWrite)
    \/ Acquire(w) \/ Handle(w) \/ Respond(w) \/ TooMany(w) \/ Lose(w) \/ Wake(w)
    \/ Collect(w) \/ HandleLate(w)
\* People and other processes spend the budget, too.
Elsewhere == UNCHANGED <<at, write, tries, rated, handled, permits, late>> /\ budget' \in Nat

\* Every step of the model is a step of one call, or none of the session's.
LEMMA SessionSteps ==
  ASSUME SessionTypes, [Next]_vars
  PROVE  Elsewhere \/ \E w \in Callers : SessionStep(w)
<1> USE DEF SessionStep, Elsewhere, SessionTypes
<1>1. CASE StartRun \/ StartSites  BY <1>1 DEF StartRun, StartSites, session
<1>2. ASSUME NEW w \in Callers,
             Begin(w) \/ Ask(w) \/ Serve(w) \/ Wait(w) \/ LoseRequest(w) \/ Refuse(w) \/ ServeLate(w)
      PROVE  Elsewhere \/ SessionStep(w)
  <2>1. CASE Begin(w)  BY <2>1 DEF Begin, session
  <2>2. CASE Ask(w)
    <3>1. (job[w].step \in Writes) \in BOOLEAN  OBVIOUS
    <3> QED  BY <2>2, <3>1 DEF Ask
  <2>3. CASE Serve(w) \/ Wait(w) \/ LoseRequest(w) \/ Refuse(w) \/ ServeLate(w)
    BY <2>3 DEF Serve, Wait, LoseRequest, Refuse, ServeLate
  <2> QED  BY <1>2, <2>1, <2>2, <2>3
<1>3. ASSUME NEW w \in Callers,
             Absent(w) \/ Exists(w) \/ Extend(w) \/ AddTemplates(w) \/ Done(w) \/ Fails(w)
      PROVE  SessionStep(w)
  BY <1>3 DEF Absent, Exists, Extend, AddTemplates, Done, Fails, Hear
<1>4. ASSUME NEW object \in Objects, OthersCreate(object) \/ PersonDeletes(object)
      PROVE  Elsewhere
  BY <1>4 DEF OthersCreate, PersonDeletes
<1>5. CASE UNCHANGED vars  BY <1>5 DEF vars, session
<1> QED  BY <1>1, <1>2, <1>3, <1>4, <1>5 DEF Next, Work

\* A call keeps its types and counts what NetBox does with its write.
LEMMA CallsCount ==
  ASSUME SessionTypes, HandledOnce, [Next]_vars
  PROVE  SessionTypes' /\ HandledOnce'
<1> USE HttpSessionAssumption DEF SessionTypes, States, HandledOnce
<1>1. CASE Elsewhere  BY <1>1 DEF Elsewhere
<1>2. ASSUME NEW w \in Callers, SessionStep(w)
      PROVE  SessionTypes' /\ HandledOnce'
  <2>1. CASE \E isWrite \in BOOLEAN : Request(w, isWrite)  BY <2>1 DEF Request, Goto
  <2>2. CASE Acquire(w) \/ Wake(w)  BY <2>2 DEF Acquire, Wake, Goto
  <2>3. CASE Handle(w)  BY <2>3 DEF Handle, Goto
  <2>4. CASE Respond(w)  BY <2>4 DEF Respond, Goto, Release
  <2>5. CASE TooMany(w)  BY <2>5 DEF TooMany, Goto, Release
  <2>6. CASE Lose(w)
    <3>1. /\ permits' \in Nat /\ budget' \in Nat /\ late' \subseteq Callers
          /\ tries' \in [Callers -> Nat] /\ UNCHANGED <<write, rated, handled>>
      BY <2>6 DEF Lose, Release
    <3>2. CASE Retries(w)
      <4>1. at' = [at EXCEPT ![w] = "paused"]  BY <2>6, <3>2 DEF Lose, Goto
      <4>2. ~write[w]  BY <3>2 DEF Retries
      <4> QED  BY <3>1, <4>1, <4>2
    <3>3. CASE ~Retries(w)
      <4>1. at' = [at EXCEPT ![w] = "failed"]  BY <2>6, <3>3 DEF Lose, Goto
      <4> QED  BY <3>1, <4>1
    <3> QED  BY <3>2, <3>3
  <2>7. CASE Collect(w)
    BY <2>7 DEF Collect, Goto
  <2>8. CASE HandleLate(w)
    BY <2>8 DEF HandleLate
  <2> QED  BY <1>2, <2>8, <2>1, <2>2, <2>3, <2>4, <2>5, <2>6, <2>7 DEF SessionStep
<1> QED  BY <1>1, <1>2, SessionSteps

\* ... and its step is one that TimeoutSession promises, or none.
LEMMA CallsKeepPromise ==
  ASSUME SessionTypes, HandledOnce, [Next]_vars
  PROVE  [Promised!Next]_(Promised!vars)
<1> USE DEF SessionTypes, States, HandledOnce, Promised!vars
<1>1. CASE Elsewhere  BY <1>1 DEF Elsewhere, Outcome
<1>2. ASSUME NEW w \in Callers, SessionStep(w)
      PROVE  \/ UNCHANGED Promised!vars
             \/ \E isWrite \in BOOLEAN : Promised!Begin(w, isWrite)
             \/ Promised!Apply(w) \/ Promised!Answer(w) \/ Promised!Fail(w)
             \/ Promised!ApplyLate(w) \/ Promised!Take(w)
  <2>1. ASSUME NEW isWrite \in BOOLEAN, Request(w, isWrite)
        PROVE  Promised!Begin(w, isWrite)
    BY <2>1 DEF Request, Goto, Outcome, Promised!Begin
  <2>2. CASE Acquire(w) \/ Wake(w)  BY <2>2 DEF Acquire, Wake, Goto, Outcome
  <2>3. CASE Handle(w)
    <3>1. Outcome' = Outcome  BY <2>3 DEF Handle, Goto, Outcome
    <3>2. CASE write[w]
      <4>1. Outcome[w] = "open" /\ handled[w] = 0  BY <2>3 DEF Handle, Outcome
      <4>2. handled' = [handled EXCEPT ![w] = 1]  BY <2>3, <3>2, <4>1 DEF Handle
      <4> QED  BY <2>3, <3>1, <3>2, <4>1, <4>2 DEF Handle, Promised!Apply
    <3>3. CASE ~write[w]  BY <2>3, <3>1, <3>3 DEF Handle
    <3> QED  BY <3>2, <3>3
  <2>4. CASE Respond(w)  BY <2>4 DEF Respond, Goto, Outcome, Promised!Answer
  <2>5. CASE TooMany(w)  BY <2>5 DEF TooMany, Goto, Outcome, Promised!Fail
  <2>6. CASE Lose(w)  BY <2>6 DEF Lose, Goto, Outcome, Promised!Fail
  <2>7. CASE Collect(w)  BY <2>7 DEF Collect, Goto, Outcome, Promised!Take
  <2>8. CASE HandleLate(w)  BY <2>8 DEF HandleLate, Outcome, Promised!ApplyLate
  <2> QED  BY <1>2, <2>1, <2>2, <2>3, <2>4, <2>5, <2>6, <2>7, <2>8 DEF SessionStep
<1> QED  BY <1>1, <1>2, SessionSteps DEF Promised!Next

\* Whatever NetBox and the network do, a write is applied at most once per
\* call, and an answered one was applied.
THEOREM SessionKeepsPromise == Spec => WritesOnce
<1>1. Init => SessionTypes /\ HandledOnce
  BY HttpSessionAssumption DEF Init, SessionInit, SessionTypes, States, HandledOnce
<1>2. Init => Promised!Init
  BY DEF Init, SessionInit, Promised!Init, Outcome
<1>3. SessionTypes /\ HandledOnce /\ [Next]_vars => SessionTypes' /\ HandledOnce'
  BY CallsCount
<1>4. SessionTypes /\ HandledOnce /\ [Next]_vars => [Promised!Next]_(Promised!vars)
  BY CallsKeepPromise
<1> QED  BY <1>1, <1>2, <1>3, <1>4, PTL DEF Spec, WritesOnce, Promised!Spec

----------------------------------------------------------------------------
\* The inductive invariant

InHand(w, h) == job[w].object = h \/ job[w].for = h

\* A hardware type is in the hands of the holder of the lock, and not yet
\* remembered.
LockCovers == \A w \in Callers : \A h \in Hardware :
    InHand(w, h) => lock = w /\ job[w].step # "next" /\ h \notin memo
LockHeld == lock # None => job[lock].step # "next"

\* What w sends is what its step says.
VerbOfStep == \A w \in Callers :
    at[w] # "idle" => job[w].step # "next" /\ (write[w] <=> job[w].step \in Writes)

\* NetBox has said that what w asked for is there.
Confirmed(w) == at[w] \in {"handled", "answered"} /\ reply[w] = "there"

\* w has the making of h in hand: its creation may have reached NetBox, its
\* templates are not confirmed.
Unfinished(w, h) ==
    /\ job[w].object = h
    /\ \/ job[w].step = "create" /\ (at[w] = "failed" \/ Confirmed(w))
       \/ job[w].step = "template" /\ ~Confirmed(w)

\* A hardware type without templates is being made, or was left unfinished.
BareKnown == \A h \in Hardware \cap objects :
    h \in templated \cup bare \/ \E w \in Callers : Unfinished(w, h)

\* So is one that a lost request may still make.
LettersKnown == \A w \in late : \A h \in Hardware :
    sent[w].object = h /\ sent[w].step = "create" =>
        \/ h \in bare
        \/ job[w].object = h /\ job[w].step = "create" /\ at[w] = "failed"

\* The main thread works alone.
MainAlone == job[Main] = Over \/ \A w \in Sites : job[w] = Over

\* Whoever has something to do has an object for it, on the way as well.
ObjectsInHand ==
    /\ \A w \in Callers : job[w].step # "next" => job[w].object \in Objects
    /\ \A w \in late : sent[w].object \in Objects

IInv == TypeOK /\ HandledOnce /\ LockCovers /\ LockHeld /\ VerbOfStep /\ BareKnown
        /\ LettersKnown /\ MainAlone /\ ObjectsInHand

----------------------------------------------------------------------------
\* The steps of one thread, and what they leave to the others

Asks(w)   == Begin(w) \/ Ask(w) \/ Serve(w) \/ Wait(w) \/ LoseRequest(w) \/ Refuse(w) \/ ServeLate(w)
Learns(w) == Absent(w) \/ Exists(w) \/ Extend(w) \/ AddTemplates(w) \/ Done(w) \/ Fails(w)

OthersWait(w) == \A u \in Callers \ {w} :
    /\ job'[u] = job[u] /\ at'[u] = at[u] /\ write'[u] = write[u]
    /\ reply'[u] = reply[u] /\ sent'[u] = sent[u] /\ (u \in late' => u \in late)

LEMMA ThreadsAreApart ==
  ASSUME TypeOK, NEW w \in Callers, Asks(w) \/ Learns(w)
  PROVE  OthersWait(w)
<1> USE DEF TypeOK, OthersWait
<1>1. CASE Begin(w)  BY <1>1 DEF Begin, Become, session
<1>2. CASE Ask(w)  BY <1>2 DEF Ask, Request, Goto, schema
<1>3. CASE Serve(w)  BY <1>3 DEF Serve, Handle, Goto
<1>4. CASE Wait(w)  BY <1>4 DEF Wait, Acquire, Respond, Wake, Goto, schema
<1>5. CASE LoseRequest(w)  BY <1>5 DEF LoseRequest, Lose, Goto
<1>6. CASE Refuse(w)  BY <1>6 DEF Refuse, TooMany, Goto, schema
<1>7. CASE ServeLate(w)  BY <1>7 DEF ServeLate, HandleLate
<1>8. CASE Learns(w)
  BY <1>8 DEF Learns, Absent, Exists, Extend, AddTemplates, Done, Fails, Hear, Collect, Goto, Become
<1> QED  BY <1>1, <1>2, <1>3, <1>4, <1>5, <1>6, <1>7, <1>8 DEF Asks

\* What happens without a thread: the start of a run and of its sites, people.
Apart == StartRun \/ StartSites \/ \E object \in Objects : OthersCreate(object) \/ PersonDeletes(object)

LEMMA NextSteps ==
  ASSUME [Next]_vars
  PROVE  UNCHANGED vars \/ Apart \/ \E w \in Callers : Asks(w) \/ Learns(w)
BY DEF Next, Work, Apart, Asks, Learns

----------------------------------------------------------------------------
\* The steps preserve each part of the invariant

Jobs == [todo : Seq(Objects \cup {None}), object : Objects \cup {None},
         for : Objects \cup {None}, step : Steps]
SchemaTypes ==
    /\ objects \subseteq Objects /\ types \in [Fields -> SUBSET Extra]
    /\ templated \subseteq Objects /\ memo \subseteq Memoized /\ bare \subseteq Hardware
    /\ lock \in Callers \cup {None}
    /\ job \in [Callers -> Jobs]
    /\ reply \in [Callers -> {"none", "there", "absent", "exists", "error"}]
    /\ seen \in [Callers -> SUBSET Extra]
    /\ sent \in [Callers -> [object : Objects \cup {None}, step : Steps, sees : SUBSET Extra]]
    /\ errors \subseteq Objects /\ disturbed \subseteq Callers

LEMMA TypesSplit == TypeOK <=> SessionTypes /\ SchemaTypes
BY DEF TypeOK, SessionTypes, SchemaTypes, Jobs

LEMMA JobTypes ==
  ASSUME NEW todo \in Seq(Objects \cup {None}), NEW object \in Objects \cup {None},
         NEW for \in Objects \cup {None}, NEW step \in Steps
  PROVE  /\ Job(todo, object, for, step) \in Jobs
         /\ Rest(todo) \in Jobs
         /\ todo # <<>> => Head(todo) \in Objects \cup {None} /\ Tail(todo) \in Seq(Objects \cup {None})
BY DEF Job, Rest, Jobs, Steps

LEMMA EffectTypes ==
  ASSUME SchemaTypes, NEW object \in Objects, NEW step \in Steps, NEW sees \in SUBSET Extra,
         Effect(object, step, sees)
  PROVE  /\ objects' \subseteq Objects /\ templated' \subseteq Objects
         /\ types' \in [Fields -> SUBSET Extra]
BY SchemaAssumption DEF Effect, SchemaTypes

LEMMA TypesKept ==
  ASSUME SessionTypes, SchemaTypes, HandledOnce, VerbOfStep, ObjectsInHand, [Next]_vars
  PROVE  SchemaTypes'
<1> SUFFICES ASSUME ~UNCHANGED vars PROVE SchemaTypes'
  BY DEF SchemaTypes, vars, schema
<1>1. CASE StartRun
  <2>1. Rest(Prerequisites \o <<None>>) \in Jobs
    <3>1. Prerequisites \o <<None>> \in Seq(Objects \cup {None})  BY SchemaAssumption
    <3> QED  BY <3>1, JobTypes DEF Steps
  <2> QED  BY <1>1, <2>1 DEF StartRun, Become, SchemaTypes
<1>2. CASE StartSites
  <2>1. Over \in Jobs
    <3>1. <<>> \in Seq(Objects \cup {None})  OBVIOUS
    <3> QED  BY <3>1, JobTypes DEF Over, Steps
  <2>2. \A w \in Callers \ {Main} : Rest(Wanted[w]) \in Jobs
    <3> TAKE w \in Callers \ {Main}
    <3>1. Wanted[w] \in Seq(Objects \cup {None})  BY SchemaAssumption
    <3> QED  BY <3>1, JobTypes DEF Steps
  <2> QED  BY <1>2, <2>1, <2>2 DEF StartSites, SchemaTypes
<1>3. ASSUME NEW object \in Objects, OthersCreate(object) \/ PersonDeletes(object)
      PROVE  SchemaTypes'
  <2>1. CASE OthersCreate(object)  BY <2>1 DEF OthersCreate, SchemaTypes
  <2>2. CASE PersonDeletes(object)  BY <2>2 DEF PersonDeletes, SchemaTypes
  <2> QED  BY <1>3, <2>1, <2>2
<1>4. ASSUME NEW w \in Callers, Asks(w)
      PROVE  SchemaTypes'
  <2>0. job[w] \in Jobs /\ job[w].todo \in Seq(Objects \cup {None}) /\ job[w].step \in Steps
    BY DEF SchemaTypes, Jobs
  <2>1. CASE Begin(w)
    <3>1. Upcoming(w) \in Objects /\ Tail(job[w].todo) \in Seq(Objects \cup {None})
      BY <2>0, <2>1, JobTypes DEF Begin, Upcoming, Steps
    <3>2. Rest(Tail(job[w].todo)) \in Jobs /\ Job(Tail(job[w].todo), Upcoming(w), None, "find") \in Jobs
      BY <3>1, JobTypes DEF Steps
    <3> QED  BY <2>1, <3>2 DEF Begin, Become, TakesLock, SchemaTypes
  <2>2. CASE Ask(w) \/ Wait(w) \/ Refuse(w)
    BY <2>2 DEF Ask, Wait, Refuse, schema, SchemaTypes
  <2>3. CASE Serve(w)
    <3>1. job[w].object \in Objects  BY <2>3 DEF Serve, Handle, VerbOfStep, ObjectsInHand
    <3>2. /\ objects' \subseteq Objects /\ templated' \subseteq Objects
          /\ types' \in [Fields -> SUBSET Extra]
      BY <2>0, <2>3, <3>1, EffectTypes DEF Serve, SchemaTypes
    <3>3. Says(job[w].object, job[w].step) \in {"none", "there", "absent", "exists", "error"}
      BY DEF Says
    <3>4. seen' \in [Callers -> SUBSET Extra]
      <4>1. \A f \in Fields : Needed[f] \in SUBSET Extra /\ types[f] \in SUBSET Extra
        BY SchemaAssumption DEF SchemaTypes
      <4> QED  BY <2>3, <4>1 DEF Serve, SchemaTypes
    <3> QED  BY <2>3, <3>2, <3>3, <3>4 DEF Serve, SchemaTypes
  <2>4. CASE LoseRequest(w)
    <3>1. Letter(job[w].object, job[w].step, seen[w])
            \in [object : Objects \cup {None}, step : Steps, sees : SUBSET Extra]
      BY DEF Letter, SchemaTypes, Jobs
    <3> QED  BY <2>4, <3>1 DEF LoseRequest, SchemaTypes
  <2>5. CASE ServeLate(w)
    <3>1. sent[w].object \in Objects /\ sent[w].step \in Steps /\ sent[w].sees \in SUBSET Extra
      BY <2>5 DEF ServeLate, HandleLate, ObjectsInHand, SchemaTypes
    <3>2. /\ objects' \subseteq Objects /\ templated' \subseteq Objects
          /\ types' \in [Fields -> SUBSET Extra]
      BY <2>5, <3>1, EffectTypes DEF ServeLate
    <3>3. NoLetter \in [object : Objects \cup {None}, step : Steps, sees : SUBSET Extra]
      BY DEF NoLetter, Letter, Steps
    <3> QED  BY <2>5, <3>2, <3>3 DEF ServeLate, SchemaTypes
  <2> QED  BY <1>4, <2>1, <2>2, <2>3, <2>4, <2>5 DEF Asks
<1>5. ASSUME NEW w \in Callers, Learns(w)
      PROVE  SchemaTypes'
  <2>0. /\ job[w] \in Jobs /\ job[w].todo \in Seq(Objects \cup {None})
        /\ job[w].object \in Objects \cup {None} /\ job[w].for \in Objects \cup {None}
    BY DEF SchemaTypes, Jobs
  <2>1. /\ \A step \in Steps : At(w, step) \in Jobs
        /\ Rest(job[w].todo) \in Jobs
        /\ Job(job[w].todo, job[w].for, None, "create") \in Jobs
    BY <2>0, JobTypes DEF At, Steps
  <2>2. Over \in Jobs
    <3>1. <<>> \in Seq(Objects \cup {None})  OBVIOUS
    <3> QED  BY <3>1, JobTypes DEF Over, Steps
  <2>3. reply' \in [Callers -> {"none", "there", "absent", "exists", "error"}]
    BY <1>5 DEF Learns, Absent, Exists, Extend, AddTemplates, Done, Fails, Hear, SchemaTypes
  <2>4. job[w].step # "next" /\ job[w].object \in Objects
    BY <1>5 DEF Learns, Absent, Exists, Extend, AddTemplates, Done, Fails, Hear, Collect,
                VerbOfStep, ObjectsInHand
  <2>5. CASE Absent(w)
    <3>1. Parent[job[w].object] \in Objects \cup {None}  BY <2>4, SchemaAssumption
    <3>2. Job(job[w].todo, Parent[job[w].object], job[w].object, "find") \in Jobs
      BY <2>0, <3>1, JobTypes DEF Steps
    <3>3. job' \in [Callers -> Jobs]
      <4>1. CASE Parent[job[w].object] # None
        <5>1. job' = [job EXCEPT ![w] = Job(job[w].todo, Parent[job[w].object], job[w].object, "find")]
          BY <2>5, <4>1, Zenon DEF Absent, Become
        <5> QED  BY <3>2, <5>1 DEF SchemaTypes
      <4>2. CASE Parent[job[w].object] = None
        <5>1. At(w, "create") \in Jobs  BY <2>1 DEF Steps
        <5> QED  BY <2>5, <4>2, <5>1 DEF Absent, Become, SchemaTypes
      <4> QED  BY <4>1, <4>2
    <3> QED  BY <2>3, <2>5, <3>3 DEF Absent, SchemaTypes
  <2>6. CASE Exists(w) \/ Extend(w) \/ AddTemplates(w)
    <3>1. At(w, "refetch") \in Jobs /\ At(w, "extend") \in Jobs /\ At(w, "template") \in Jobs
      BY <2>1 DEF Steps
    <3>2. job' \in [Callers -> Jobs]
      BY <2>6, <3>1 DEF Exists, Extend, AddTemplates, Become, SchemaTypes
    <3> QED  BY <2>3, <2>6, <3>2 DEF Exists, Extend, AddTemplates, SchemaTypes
  <2>7. CASE Done(w)
    <3>1. job' \in [Callers -> Jobs]  BY <2>1, <2>7 DEF Done, Become, SchemaTypes
    <3>2. CASE job[w].for # None  BY <2>3, <2>7, <3>1, <3>2 DEF Done, SchemaTypes
    <3>3. CASE job[w].for = None
      <4>1. /\ memo' \subseteq Memoized /\ lock' \in Callers \cup {None}
            /\ seen' \in [Callers -> SUBSET Extra] /\ disturbed' \subseteq Callers
        BY <2>7, <3>3 DEF Done, Leave, Unlock, SchemaTypes
      <4> QED  BY <2>3, <2>7, <3>1, <4>1 DEF Done, SchemaTypes
    <3> QED  BY <3>2, <3>3
  <2>8. CASE Fails(w)
    BY <2>1, <2>2, <2>3, <2>4, <2>8 DEF Fails, Leave, Unlock, Become, SchemaTypes
  <2> QED  BY <1>5, <2>5, <2>6, <2>7, <2>8 DEF Learns
<1> QED  BY <1>1, <1>2, <1>3, <1>4, <1>5, NextSteps DEF Apart


\* What learning from an answer does to the thread.
LEMMA LearningEndsCall ==
  ASSUME TypeOK, VerbOfStep, NEW w \in Callers, Learns(w)
  PROVE  /\ at[w] \in {"answered", "refused", "failed"} /\ at'[w] = "idle"
         /\ job[w].step # "next" /\ sent' = sent /\ late' = late /\ objects' = objects
BY DEF Learns, Absent, Exists, Extend, AddTemplates, Done, Fails, Hear, Collect, Goto, TypeOK, VerbOfStep

\* What asking and waiting for one leaves alone.
LEMMA AskingKeepsJob ==
  ASSUME NEW w \in Callers, Asks(w), ~Begin(w)
  PROVE  job' = job /\ lock' = lock /\ memo' = memo /\ bare' = bare
BY DEF Asks, Ask, Serve, Wait, LoseRequest, Refuse, ServeLate, schema

\* When the main thread starts something, nobody has anything in hand.
LEMMA AllPaused ==
  ASSUME MainAlone, StartRun \/ StartSites
  PROVE  \A u \in Callers : job[u].step = "next"
<1>1. CASE StartRun  BY <1>1 DEF StartRun, Over, Rest, Job
<1>2. CASE StartSites
  <2>1. <<None>> # <<>>  OBVIOUS
  <2>2. job[Main] # Over /\ job[Main].step = "next"
    BY <1>2, <2>1 DEF StartSites, Over, Rest, Job
  <2> QED  BY <2>2 DEF MainAlone, Sites, Over, Rest, Job
<1> QED  BY <1>1, <1>2

LEMMA VerbKept ==
  ASSUME TypeOK, VerbOfStep, MainAlone, [Next]_vars
  PROVE  VerbOfStep'
<1>1. CASE UNCHANGED vars  BY <1>1 DEF VerbOfStep, vars, schema, session
<1>2. ASSUME NEW w \in Callers, Asks(w) \/ Learns(w)
      PROVE  VerbOfStep'
  <2>1. OthersWait(w)  BY <1>2, ThreadsAreApart
  <2> SUFFICES at'[w] # "idle" => job'[w].step # "next" /\ (write'[w] <=> job'[w].step \in Writes)
    BY <2>1 DEF VerbOfStep, OthersWait
  <2>2. CASE Begin(w)
    <3>1. at[w] = "idle" /\ at'[w] = at[w]  BY <2>2 DEF Begin, session, VerbOfStep
    <3> QED  BY <3>1
  <2>3. CASE Ask(w)
    <3>1. write'[w] = (job[w].step \in Writes) /\ job' = job /\ job[w].step # "next"
      BY <2>3 DEF Ask, Request, schema, TypeOK
    <3> QED  BY <3>1
  <2>4. CASE Serve(w) \/ Wait(w) \/ LoseRequest(w) \/ Refuse(w) \/ ServeLate(w)
    <3>1. write' = write /\ job' = job
      BY <2>4 DEF Serve, Wait, LoseRequest, Refuse, ServeLate, schema,
                  Handle, Acquire, Respond, Wake, Lose, TooMany, HandleLate
    <3>2. at'[w] # "idle" => at[w] # "idle"
      BY <2>4 DEF Serve, Wait, LoseRequest, Refuse, ServeLate,
                  Handle, Acquire, Respond, Wake, Lose, TooMany, HandleLate
    <3> QED  BY <3>1, <3>2 DEF VerbOfStep
  <2>5. CASE Learns(w)  BY <2>5, LearningEndsCall
  <2> QED  BY <1>2, <2>2, <2>3, <2>4, <2>5 DEF Asks
<1>3. CASE StartRun \/ StartSites
  <2>1. \A u \in Callers : job[u].step = "next"  BY <1>3, AllPaused
  <2> QED  BY <1>3, <2>1 DEF StartRun, StartSites, session, VerbOfStep
<1>4. ASSUME NEW object \in Objects, OthersCreate(object) \/ PersonDeletes(object)
      PROVE  VerbOfStep'
  BY <1>4 DEF OthersCreate, PersonDeletes, VerbOfStep
<1> QED  BY <1>1, <1>2, <1>3, <1>4, NextSteps DEF Apart

LEMMA MainKept ==
  ASSUME TypeOK, VerbOfStep, MainAlone, [Next]_vars
  PROVE  MainAlone'
<1>1. CASE UNCHANGED vars  BY <1>1 DEF MainAlone, vars, schema
<1>2. ASSUME NEW w \in Callers, Asks(w) \/ Learns(w)
      PROVE  MainAlone'
  <2>1. OthersWait(w)  BY <1>2, ThreadsAreApart
  <2>2. job[w] = Over => job'[w] = Over
    <3>1. CASE Begin(w)  BY <3>1 DEF Begin, Over, Rest, Job
    <3>2. CASE Learns(w)  BY <3>2, LearningEndsCall DEF Over, Rest, Job
    <3> QED  BY <1>2, <3>1, <3>2, AskingKeepsJob
  <2> QED  BY <2>1, <2>2, SchemaAssumption DEF MainAlone, OthersWait, Sites
<1>3. CASE StartRun
  BY <1>3 DEF StartRun, Become, MainAlone, Sites, TypeOK
<1>4. CASE StartSites
  BY <1>4, SchemaAssumption DEF StartSites, MainAlone
<1>5. ASSUME NEW object \in Objects, OthersCreate(object) \/ PersonDeletes(object)
      PROVE  MainAlone'
  BY <1>5 DEF OthersCreate, PersonDeletes, MainAlone
<1> QED  BY <1>1, <1>2, <1>3, <1>4, <1>5, NextSteps DEF Apart

LEMMA ObjectsKept ==
  ASSUME TypeOK, HandledOnce, VerbOfStep, ObjectsInHand, [Next]_vars
  PROVE  ObjectsInHand'
<1> USE SchemaAssumption
<1>1. CASE UNCHANGED vars  BY <1>1 DEF ObjectsInHand, vars, schema, session
<1>2. ASSUME NEW w \in Callers, Asks(w) \/ Learns(w)
      PROVE  ObjectsInHand'
  <2>1. OthersWait(w)  BY <1>2, ThreadsAreApart
  <2> SUFFICES /\ job'[w].step # "next" => job'[w].object \in Objects
               /\ w \in late' => sent'[w].object \in Objects
    <3>1. late' \subseteq Callers  BY CallsCount, TypesSplit DEF SessionTypes
    <3> QED  BY <2>1, <3>1 DEF ObjectsInHand, OthersWait
  <2>2. CASE Begin(w)
    <3>1. late' = late /\ sent' = sent  BY <2>2 DEF Begin, session
    <3>2. job[w].todo \in Seq(Objects \cup {None}) /\ job \in [Callers -> Jobs]  BY DEF TypeOK, Jobs
    <3>3. Upcoming(w) \in Objects  BY <2>2, <3>2, JobTypes DEF Begin, Upcoming, Steps
    <3>4. job'[w].step # "next" => job'[w].object \in Objects
      BY <2>2, <3>2, <3>3 DEF Begin, Become, Rest, Job
    <3> QED  BY <3>1, <3>4 DEF ObjectsInHand
  <2>3. CASE Ask(w) \/ Serve(w) \/ Wait(w) \/ Refuse(w)
    <3>1. job' = job /\ sent' = sent /\ late' = late
      BY <2>3 DEF Ask, Request, Serve, Handle, Wait, Acquire, Respond, Wake, Refuse, TooMany, schema
    <3> QED  BY <3>1 DEF ObjectsInHand
  <2>4. CASE LoseRequest(w)
    <3>1. job' = job /\ job[w].object \in Objects
      BY <2>4 DEF LoseRequest, Lose, VerbOfStep, ObjectsInHand
    <3>2. w \in late' => sent'[w].object \in Objects
      <4>1. CASE w \in late' \ late
        <5>1. sent'[w] = Letter(job[w].object, job[w].step, seen[w])
          BY <2>4, <4>1 DEF LoseRequest, TypeOK
        <5> QED  BY <3>1, <5>1 DEF Letter
      <4>2. CASE w \in late /\ sent' = sent  BY <4>2 DEF ObjectsInHand
      <4> QED  BY <2>4, <4>1, <4>2 DEF LoseRequest
    <3> QED  BY <3>1, <3>2 DEF ObjectsInHand
  <2>5. CASE ServeLate(w)
    BY <2>5 DEF ServeLate, HandleLate, ObjectsInHand
  <2>6. CASE Learns(w)
    <3>1. late' = late /\ sent' = sent /\ job[w].step # "next" /\ job[w].object \in Objects
      BY <2>6, LearningEndsCall DEF ObjectsInHand
    <3>2. job'[w].step # "next" => job'[w].object \in Objects
      <4>1. CASE Absent(w)
        <5>1. Parent[job[w].object] # None => Parent[job[w].object] \in Objects  BY <3>1
        <5>2. \/ job'[w] = Job(job[w].todo, Parent[job[w].object], job[w].object, "find")
                 /\ Parent[job[w].object] # None
              \/ job'[w] = At(w, "create")
          BY <4>1 DEF Absent, Become, TypeOK
        <5> QED  BY <3>1, <5>1, <5>2 DEF At, Job
      <4>2. CASE Exists(w) \/ Extend(w) \/ AddTemplates(w)
        BY <3>1, <4>2 DEF Exists, Extend, AddTemplates, Become, At, Job, TypeOK
      <4>3. CASE Done(w)
        BY <4>3 DEF Done, Become, Rest, Job, TypeOK
      <4>4. CASE Fails(w)
        BY <4>4 DEF Fails, Become, Over, Rest, Job, TypeOK
      <4> QED  BY <2>6, <4>1, <4>2, <4>3, <4>4 DEF Learns
    <3> QED  BY <3>1, <3>2 DEF ObjectsInHand
  <2> QED  BY <1>2, <2>2, <2>3, <2>4, <2>5, <2>6 DEF Asks
<1>3. CASE StartRun
  BY <1>3 DEF StartRun, Become, Rest, Job, ObjectsInHand, TypeOK, session
<1>4. CASE StartSites
  BY <1>4 DEF StartSites, Over, Rest, Job, ObjectsInHand, session
<1>5. ASSUME NEW object \in Objects, OthersCreate(object) \/ PersonDeletes(object)
      PROVE  ObjectsInHand'
  BY <1>5 DEF OthersCreate, PersonDeletes, ObjectsInHand
<1> QED  BY <1>1, <1>2, <1>3, <1>4, <1>5, NextSteps DEF Apart

\* A thread between two ensures has nothing in hand.
LEMMA NothingInHand ==
  ASSUME NEW todo, NEW h \in Hardware
  PROVE  Rest(todo).object # h /\ Rest(todo).for # h /\ Rest(todo).step = "next"
BY SchemaAssumption DEF Rest, Job

\* When one thread moves, the lock keeps covering what is in hand if that
\* thread sees to it.
LEMMA LockMoves ==
  ASSUME LockCovers, LockHeld, None \notin Callers, NEW w \in Callers,
         \A u \in Callers \ {w} : job'[u] = job[u],
         lock' \in Callers \cup {None},
         \A h \in Hardware : InHand(w, h)' => lock' = w /\ job'[w].step # "next" /\ h \notin memo',
         \A u \in Callers \ {w} : \A h \in Hardware : InHand(u, h) => lock' = lock /\ h \notin memo',
         lock' = w => job'[w].step # "next",
         lock' \in {lock, w, None}
  PROVE  LockCovers' /\ LockHeld'
<1>1. ASSUME NEW u \in Callers, NEW h \in Hardware, InHand(u, h)'
      PROVE  lock' = u /\ job'[u].step # "next" /\ h \notin memo'
  <2>1. CASE u = w  BY <1>1, <2>1
  <2>2. CASE u # w
    <3>1. InHand(u, h)  BY <1>1, <2>2 DEF InHand
    <3> QED  BY <2>2, <3>1 DEF LockCovers
  <2> QED  BY <2>1, <2>2
<1>2. LockHeld'
  <2>1. CASE lock' = w  BY <2>1 DEF LockHeld
  <2>2. CASE lock' # w /\ lock' = lock  BY <2>2 DEF LockHeld
  <2>3. CASE lock' = None  BY <2>3 DEF LockHeld
  <2> QED  BY <2>1, <2>2, <2>3
<1> QED  BY <1>1, <1>2 DEF LockCovers

LEMMA LockKept ==
  ASSUME IInv, [Next]_vars
  PROVE  LockCovers' /\ LockHeld'
<1>0. TypeOK /\ LockCovers /\ LockHeld /\ VerbOfStep /\ MainAlone /\ ObjectsInHand
  BY DEF IInv
<1>1. CASE UNCHANGED vars
  BY <1>0, <1>1 DEF vars, schema, LockCovers, LockHeld, InHand
<1>2. ASSUME NEW w \in Callers, Asks(w) \/ Learns(w)
      PROVE  LockCovers' /\ LockHeld'
  <2>0. /\ None \notin Callers /\ lock \in Callers \cup {None}
        /\ \A u \in Callers \ {w} : job'[u] = job[u]
    BY <1>0, <1>2, ThreadsAreApart, SchemaAssumption DEF OthersWait, TypeOK
  <2>1. \A u \in Callers, h \in Hardware : InHand(u, h) => lock = u /\ h \notin memo
    BY <1>0 DEF LockCovers
  <2>2. CASE Begin(w)
    <3>1. memo' = memo /\ job[w].step = "next" /\ lock # w
      BY <1>0, <2>0, <2>2 DEF Begin, LockHeld
    <3>2. CASE Upcoming(w) \in memo
      <4>1. lock' = lock /\ job'[w] = Rest(Tail(job[w].todo))
        BY <1>0, <2>2, <3>2 DEF Begin, Become, TypeOK
      <4>2. \A h \in Hardware : ~InHand(w, h)'  BY <4>1, NothingInHand DEF InHand
      <4> QED  BY <1>0, <2>0, <2>1, <3>1, <4>1, <4>2, LockMoves
    <3>3. CASE Upcoming(w) \notin memo
      <4>1. job'[w] = Job(Tail(job[w].todo), Upcoming(w), None, "find") /\ TakesLock(w)
        BY <1>0, <2>2, <3>3 DEF Begin, Become, TypeOK
      <4>2. job'[w].object = Upcoming(w) /\ job'[w].for = None /\ job'[w].step = "find"
        BY <4>1 DEF Job
      <4>3. \A h \in Hardware : InHand(w, h)' => h = Upcoming(w)
        BY <4>2, SchemaAssumption DEF InHand
      <4>4. CASE Upcoming(w) \in Hardware
        <5>1. lock = None /\ lock' = w  BY <4>1, <4>4 DEF TakesLock
        <5> QED  BY <1>0, <2>0, <2>1, <3>1, <3>3, <4>2, <4>3, <5>1, LockMoves
      <4>5. CASE Upcoming(w) \notin Hardware
        <5>1. lock' = lock  BY <4>1, <4>5 DEF TakesLock
        <5> QED  BY <1>0, <2>0, <2>1, <3>1, <4>2, <4>3, <4>5, <5>1, LockMoves
      <4> QED  BY <4>4, <4>5
    <3> QED  BY <3>2, <3>3
  <2>3. CASE Asks(w) /\ ~Begin(w)
    BY <1>0, <2>3, AskingKeepsJob DEF LockCovers, LockHeld, InHand
  <2>4. CASE Learns(w)
    <3>1. job[w].step # "next" /\ job[w].object \in Objects
      BY <1>0, <2>4, LearningEndsCall DEF ObjectsInHand
    <3>2. ASSUME memo' = memo, lock' = lock, job'[w].step # "next",
                 \A h \in Hardware : InHand(w, h)' => InHand(w, h)
          PROVE  LockCovers' /\ LockHeld'
      BY <1>0, <2>0, <2>1, <3>2, LockMoves
    <3>3. ASSUME lock' = IF lock = w THEN None ELSE lock, memo' \subseteq memo \cup {job[w].object},
                 NEW todo, job'[w] = Rest(todo)
          PROVE  LockCovers' /\ LockHeld'
      <4>1. \A h \in Hardware : ~InHand(w, h)'  BY <3>3, NothingInHand DEF InHand
      <4>2. \A u \in Callers \ {w} : \A h \in Hardware : InHand(u, h) => lock' = lock /\ h \notin memo'
        <5> TAKE u \in Callers \ {w}
        <5> TAKE h \in Hardware
        <5> HAVE InHand(u, h)
        <5>1. lock = u /\ h \notin memo  BY <2>1
        <5>2. h # job[w].object  BY <2>1, <5>1 DEF InHand
        <5> QED  BY <3>3, <5>1, <5>2
      <4> QED  BY <1>0, <2>0, <3>3, <4>1, <4>2, LockMoves
    <3>4. CASE Absent(w)
      <4>1. \/ job'[w] = Job(job[w].todo, Parent[job[w].object], job[w].object, "find")
               /\ Parent[job[w].object] # None
            \/ job'[w] = At(w, "create")
        BY <1>0, <3>4 DEF Absent, Become, TypeOK
      <4>2. memo' = memo /\ lock' = lock  BY <3>4 DEF Absent
      <4>3. \A h \in Hardware : InHand(w, h)' => InHand(w, h)
        BY <3>1, <4>1, SchemaAssumption DEF At, Job, InHand
      <4>4. job'[w].step # "next"  BY <4>1 DEF At, Job
      <4> QED  BY <3>2, <4>2, <4>3, <4>4
    <3>5. CASE Exists(w) \/ Extend(w) \/ AddTemplates(w)
      <4>1. memo' = memo /\ lock' = lock  BY <3>5 DEF Exists, Extend, AddTemplates
      <4>2. job'[w].step # "next" /\ job'[w].object = job[w].object /\ job'[w].for = job[w].for
        BY <1>0, <3>5 DEF Exists, Extend, AddTemplates, Become, At, Job, TypeOK
      <4> QED  BY <3>2, <4>1, <4>2 DEF InHand
    <3>6. CASE Done(w) /\ job[w].for # None
      <4>1. memo' = memo /\ lock' = lock  BY <3>6 DEF Done
      <4>2. job'[w].step = "create" /\ job'[w].object = job[w].for /\ job'[w].for = None
        BY <1>0, <3>6 DEF Done, Become, Job, TypeOK
      <4> QED  BY <3>2, <4>1, <4>2, SchemaAssumption DEF InHand
    <3>7. CASE Done(w) /\ job[w].for = None
      <4>1. job'[w] = Rest(job[w].todo) /\ memo' \subseteq memo \cup {job[w].object}
        BY <1>0, <3>7 DEF Done, Become, TypeOK
      <4>2. lock' = IF lock = w THEN None ELSE lock  BY <3>7 DEF Done, Leave, Unlock
      <4> QED  BY <3>3, <4>1, <4>2
    <3>8. CASE Fails(w)
      <4>1. (job'[w] = Rest(<<>>) \/ job'[w] = Rest(job[w].todo)) /\ memo' = memo
        BY <1>0, <3>8 DEF Fails, Become, Over, TypeOK
      <4>2. lock' = IF lock = w THEN None ELSE lock  BY <3>8 DEF Fails, Leave, Unlock
      <4> QED  BY <3>3, <4>1, <4>2
    <3> QED  BY <2>4, <3>4, <3>5, <3>6, <3>7, <3>8 DEF Learns
  <2> QED  BY <1>2, <2>2, <2>3, <2>4
<1>3. CASE StartRun \/ StartSites
  <2>1. lock = None /\ lock' = lock
    BY <1>0, <1>3, AllPaused DEF StartRun, StartSites, TypeOK, LockHeld
  <2>2. \A u \in Callers : \E todo : job'[u] = Rest(todo)
    <3>1. CASE StartRun
      <4>1. \A u \in Callers : job[u] = Over  BY <3>1 DEF StartRun
      <4>2. job' = [job EXCEPT ![Main] = Rest(Prerequisites \o <<None>>)]  BY <3>1 DEF StartRun, Become
      <4> QED  BY <1>0, <4>1, <4>2 DEF Over, TypeOK
    <3>2. CASE StartSites
      <4>1. \A u \in Callers : job'[u] = IF u = Main THEN Over ELSE Rest(Wanted[u])
        BY <3>2 DEF StartSites
      <4> QED  BY <4>1 DEF Over
    <3> QED  BY <1>3, <3>1, <3>2
  <2>3. \A u \in Callers, h \in Hardware : ~InHand(u, h)'  BY <2>2, NothingInHand DEF InHand
  <2> QED  BY <2>1, <2>3 DEF LockCovers, LockHeld
<1>4. ASSUME NEW object \in Objects, OthersCreate(object) \/ PersonDeletes(object)
      PROVE  LockCovers' /\ LockHeld'
  BY <1>0, <1>4 DEF OthersCreate, PersonDeletes, LockCovers, LockHeld, InHand
<1> QED  BY <1>1, <1>2, <1>3, <1>4, NextSteps DEF Apart

\* A thread that serves a write, or fails, leaves what is known known.
LEMMA KnownGrows ==
  ASSUME NEW w \in Callers, Asks(w) \/ Learns(w)
  PROVE  templated \subseteq templated' /\ bare \subseteq bare'
<1>1. CASE Asks(w)
  BY <1>1 DEF Asks, Begin, Ask, Serve, Wait, LoseRequest, Refuse, ServeLate, Effect, schema
<1>2. CASE Learns(w)
  BY <1>2 DEF Learns, Absent, Exists, Extend, AddTemplates, Done, Fails
<1> QED  BY <1>1, <1>2

LEMMA BareKept ==
  ASSUME IInv, [Next]_vars
  PROVE  BareKnown'
<1>0. TypeOK /\ VerbOfStep /\ BareKnown /\ LettersKnown /\ MainAlone  BY DEF IInv
<1>1. CASE UNCHANGED vars
  BY <1>0, <1>1 DEF vars, schema, session, BareKnown, Unfinished, Confirmed
<1>2. ASSUME NEW w \in Callers, Asks(w) \/ Learns(w)
      PROVE  BareKnown'
  <2>1. OthersWait(w)  BY <1>0, <1>2, ThreadsAreApart
  <2>2. templated \subseteq templated' /\ bare \subseteq bare'  BY <1>2, KnownGrows
  <2>3. \A u \in Callers \ {w} : \A h \in Hardware : Unfinished(u, h) => Unfinished(u, h)'
    BY <2>1 DEF OthersWait, Unfinished, Confirmed
  <2> SUFFICES ASSUME NEW h \in Hardware,
                      \/ h \in objects /\ Unfinished(w, h)
                      \/ h \in objects' \ objects
               PROVE  h \in templated' \cup bare' \/ Unfinished(w, h)'
    BY <1>0, <2>2, <2>3 DEF BareKnown
  <2>4. CASE Begin(w)
    BY <2>4 DEF Begin, Unfinished
  <2>5. CASE Ask(w) \/ Wait(w) \/ Refuse(w)
    <3>1. job' = job /\ reply' = reply /\ objects' = objects
      BY <2>5 DEF Ask, Wait, Refuse, schema
    <3>2. Confirmed(w)' => Confirmed(w)
      BY <1>0, <2>5, <3>1 DEF Ask, Wait, Refuse, Request, Acquire, Respond, Wake, TooMany, Goto, Confirmed, TypeOK
    <3>3. at[w] = "failed" \/ Confirmed(w) => Confirmed(w)'
      BY <1>0, <2>5, <3>1 DEF Ask, Wait, Refuse, Request, Acquire, Respond, Wake, TooMany, Goto, Confirmed, TypeOK
    <3> QED  BY <3>1, <3>2, <3>3 DEF Unfinished
  <2>6. CASE LoseRequest(w)
    <3>1. job' = job /\ objects' = objects /\ at[w] \in {"flying", "handled"}
      BY <2>6 DEF LoseRequest, Lose
    <3>2. at'[w] \in {"paused", "failed"}
      BY <1>0, <2>6 DEF LoseRequest, Lose, Goto, TypeOK
    <3>3. CASE job[w].step = "create"
      <4>1. write[w]  BY <1>0, <3>1, <3>3 DEF VerbOfStep, Writes
      <4>2. at'[w] = "failed"
        <5>1. ~Retries(w)  BY <4>1 DEF Retries
        <5> QED  BY <1>0, <2>6, <5>1 DEF LoseRequest, Lose, Goto, TypeOK
      <4> QED  BY <3>1, <3>3, <4>2 DEF Unfinished
    <3>4. CASE job[w].step # "create"
      BY <3>1, <3>2, <3>4 DEF Unfinished, Confirmed
    <3> QED  BY <3>3, <3>4
  <2>7. CASE Serve(w)
    <3>1. /\ job' = job /\ at[w] = "flying" /\ at'[w] = "handled"
          /\ reply'[w] = Says(job[w].object, job[w].step)
          /\ Effect(job[w].object, job[w].step, seen[w])
      BY <1>0, <2>7 DEF Serve, Handle, Goto, TypeOK
    <3>2. CASE h \in objects /\ Unfinished(w, h)
      <4>1. job[w].object = h /\ job[w].step = "template"  BY <3>1, <3>2 DEF Unfinished, Confirmed
      <4> QED  BY <3>1, <3>2, <4>1 DEF Effect
    <3>3. CASE h \in objects' \ objects
      <4>1. job[w].object = h /\ job[w].step = "create" /\ HasParent(h)  BY <3>1, <3>3 DEF Effect
      <4>2. reply'[w] = "there"  BY <3>1, <3>3, <4>1 DEF Says
      <4> QED  BY <3>1, <4>1, <4>2 DEF Unfinished, Confirmed
    <3> QED  BY <3>2, <3>3
  <2>8. CASE ServeLate(w)
    <3>1. job' = job /\ at' = at /\ reply' = reply /\ w \in late
          /\ Effect(sent[w].object, sent[w].step, sent[w].sees)
      BY <2>8 DEF ServeLate, HandleLate
    <3>2. CASE h \in objects /\ Unfinished(w, h)  BY <3>1, <3>2 DEF Unfinished, Confirmed
    <3>3. CASE h \in objects' \ objects
      <4>1. sent[w].object = h /\ sent[w].step = "create"  BY <3>1, <3>3 DEF Effect
      <4>2. h \in bare \/ (job[w].object = h /\ job[w].step = "create" /\ at[w] = "failed")
        BY <1>0, <3>1, <4>1 DEF LettersKnown
      <4> QED  BY <2>2, <3>1, <4>2 DEF Unfinished
    <3> QED  BY <3>2, <3>3
  <2>9. CASE Learns(w)
    <3>1. at'[w] = "idle" /\ objects' = objects  BY <1>0, <2>9, LearningEndsCall
    <3>2. Unfinished(w, h)  BY <3>1
    <3>3. CASE Absent(w) \/ Exists(w) \/ Extend(w)
      BY <3>2, <3>3 DEF Absent, Exists, Extend, Found, Answered, Unfinished, Confirmed
    <3>4. CASE AddTemplates(w)
      <4>1. job'[w].object = job[w].object /\ job'[w].step = "template"
        BY <1>0, <3>4 DEF AddTemplates, Become, At, Job, TypeOK
      <4> QED  BY <3>1, <3>2, <4>1 DEF Unfinished, Confirmed
    <3>5. CASE Done(w)
      BY <3>2, <3>5 DEF Done, Ensured, Found, TemplatesAdded, Answered, Unfinished, Confirmed
    <3>6. CASE Fails(w)
      BY <3>2, <3>6 DEF Fails, Unfinished, Writes
    <3> QED  BY <2>9, <3>3, <3>4, <3>5, <3>6 DEF Learns
  <2> QED  BY <1>2, <2>4, <2>5, <2>6, <2>7, <2>8, <2>9 DEF Asks
<1>3. CASE StartRun \/ StartSites
  <2>1. \A u \in Callers, h \in Hardware : ~Unfinished(u, h)
    BY <1>0, <1>3, AllPaused DEF Unfinished
  <2> QED  BY <1>0, <1>3, <2>1 DEF StartRun, StartSites, BareKnown
<1>4. ASSUME NEW object \in Objects, OthersCreate(object) \/ PersonDeletes(object)
      PROVE  BareKnown'
  <2>1. CASE OthersCreate(object)
    BY <1>0, <2>1 DEF OthersCreate, BareKnown, Unfinished, Confirmed
  <2>2. CASE PersonDeletes(object)
    BY <1>0, <2>2 DEF PersonDeletes, BareKnown, Unfinished, Confirmed
  <2> QED  BY <1>4, <2>1, <2>2
<1> QED  BY <1>1, <1>2, <1>3, <1>4, NextSteps DEF Apart

LEMMA LettersKept ==
  ASSUME IInv, [Next]_vars
  PROVE  LettersKnown'
<1>0. TypeOK /\ HandledOnce /\ VerbOfStep /\ LettersKnown /\ MainAlone  BY DEF IInv
<1>1. CASE UNCHANGED vars
  BY <1>0, <1>1 DEF vars, schema, session, LettersKnown
<1>2. ASSUME NEW w \in Callers, Asks(w) \/ Learns(w)
      PROVE  LettersKnown'
  <2>1. OthersWait(w)  BY <1>0, <1>2, ThreadsAreApart
  <2>2. bare \subseteq bare'  BY <1>2, KnownGrows
  <2>3. late' \subseteq Callers  BY <1>0, CallsCount, TypesSplit DEF SessionTypes
  <2> SUFFICES ASSUME w \in late', NEW h \in Hardware, sent'[w].object = h, sent'[w].step = "create"
               PROVE  h \in bare' \/ (job'[w].object = h /\ job'[w].step = "create" /\ at'[w] = "failed")
    BY <1>0, <2>1, <2>2, <2>3 DEF LettersKnown, OthersWait
  <2>4. CASE Begin(w)
    BY <1>0, <2>4 DEF Begin, session, LettersKnown
  <2>5. CASE Ask(w) \/ Serve(w) \/ Wait(w) \/ Refuse(w)
    <3>1. late' = late /\ sent' = sent /\ bare' = bare /\ at[w] # "failed"
      BY <2>5 DEF Ask, Request, Serve, Handle, Wait, Acquire, Respond, Wake, Refuse, TooMany, schema
    <3> QED  BY <1>0, <3>1 DEF LettersKnown
  <2>6. CASE LoseRequest(w)
    <3>1. job' = job /\ bare' = bare /\ at[w] # "failed"  BY <2>6 DEF LoseRequest, Lose
    <3>2. CASE w \in late
      <4>1. sent' = sent  BY <2>6, <3>2 DEF LoseRequest
      <4> QED  BY <1>0, <3>1, <3>2, <4>1 DEF LettersKnown
    <3>3. CASE w \notin late
      <4>1. sent'[w] = Letter(job[w].object, job[w].step, seen[w])
        BY <1>0, <2>6, <3>3 DEF LoseRequest, TypeOK
      <4>2. at'[w] = "failed"
        <5>1. ~Retries(w)  BY <2>6, <3>3 DEF LoseRequest, Lose
        <5> QED  BY <1>0, <2>6, <5>1 DEF LoseRequest, Lose, Goto, TypeOK
      <4> QED  BY <3>1, <4>1, <4>2 DEF Letter
    <3> QED  BY <3>2, <3>3
  <2>7. CASE ServeLate(w)  BY <2>7 DEF ServeLate, HandleLate
  <2>8. CASE Learns(w)
    <3>1. late' = late /\ sent' = sent  BY <1>0, <2>8, LearningEndsCall
    <3>2. h \in bare \/ (job[w].object = h /\ job[w].step = "create" /\ at[w] = "failed")
      BY <1>0, <3>1 DEF LettersKnown
    <3>3. CASE h \in bare  BY <2>2, <3>3
    <3>4. CASE job[w].object = h /\ job[w].step = "create" /\ at[w] = "failed"
      <4>1. Fails(w)
        BY <2>8, <3>4 DEF Learns, Absent, Exists, Extend, AddTemplates, Done, Ensured, Found,
                          TemplatesAdded, Answered
      <4> QED  BY <3>4, <4>1 DEF Fails, Writes
    <3> QED  BY <3>2, <3>3, <3>4
  <2> QED  BY <1>2, <2>4, <2>5, <2>6, <2>7, <2>8 DEF Asks
<1>3. CASE StartRun \/ StartSites
  <2>1. \A u \in Callers : job[u].step = "next"  BY <1>0, <1>3, AllPaused
  <2>2. late' = late /\ sent' = sent /\ bare' = bare  BY <1>3 DEF StartRun, StartSites, session
  <2> QED  BY <1>0, <2>1, <2>2 DEF LettersKnown, TypeOK
<1>4. ASSUME NEW object \in Objects, OthersCreate(object) \/ PersonDeletes(object)
      PROVE  LettersKnown'
  BY <1>0, <1>4 DEF OthersCreate, PersonDeletes, LettersKnown
<1> QED  BY <1>1, <1>2, <1>3, <1>4, NextSteps DEF Apart

----------------------------------------------------------------------------
\* The theorems

LEMMA IInvInit == Init => IInv
<1> SUFFICES ASSUME Init PROVE IInv  OBVIOUS
<1>1. SessionTypes /\ HandledOnce
  BY HttpSessionAssumption DEF Init, SessionInit, SessionTypes, States, HandledOnce
<1>2. Over \in Jobs
  <2>1. <<>> \in Seq(Objects \cup {None})  OBVIOUS
  <2> QED  BY <2>1, JobTypes DEF Over, Steps
<1>3. SchemaTypes
  <2>1. NoLetter \in [object : Objects \cup {None}, step : Steps, sees : SUBSET Extra]
    BY DEF NoLetter, Letter, Steps
  <2>2. /\ objects \subseteq Objects /\ types \in [Fields -> SUBSET Extra]
        /\ templated \subseteq Objects /\ lock = None
    BY SchemaAssumption DEF Init
  <2> QED  BY <1>2, <2>1, <2>2 DEF Init, SchemaTypes
<1>4. \A u \in Callers : job[u].step = "next" /\ \A h \in Hardware : ~InHand(u, h)
  <2>1. \A u \in Callers : job[u] = Rest(<<>>)  BY DEF Init, Over
  <2>2. Rest(<<>>).step = "next"  BY DEF Rest, Job
  <2> QED  BY <2>1, <2>2, NothingInHand DEF InHand
<1>5. LockCovers /\ LockHeld /\ VerbOfStep /\ MainAlone /\ ObjectsInHand
  BY <1>4 DEF Init, SessionInit, LockCovers, LockHeld, VerbOfStep, MainAlone, ObjectsInHand, Sites
<1>6. BareKnown /\ LettersKnown
  BY DEF Init, SessionInit, BareKnown, LettersKnown
<1> QED  BY <1>1, <1>3, <1>5, <1>6, TypesSplit DEF IInv

LEMMA IInvNext ==
  ASSUME IInv, [Next]_vars
  PROVE  IInv'
<1>0. SessionTypes /\ SchemaTypes /\ TypeOK /\ HandledOnce /\ VerbOfStep /\ ObjectsInHand /\ MainAlone
  BY TypesSplit DEF IInv
<1>1. SessionTypes' /\ HandledOnce' /\ SchemaTypes'  BY <1>0, CallsCount, TypesKept
<1>2. TypeOK'  BY <1>1 DEF TypeOK, SessionTypes, SchemaTypes, Jobs
<1>3. VerbOfStep' /\ MainAlone' /\ ObjectsInHand'  BY <1>0, VerbKept, MainKept, ObjectsKept
<1>4. LockCovers' /\ LockHeld' /\ BareKnown' /\ LettersKnown'  BY LockKept, BareKept, LettersKept
<1> QED  BY <1>1, <1>2, <1>3, <1>4 DEF IInv

\* The types, and what makes the templates safe: the lock covers every
\* hardware type in hand until its templates are confirmed.
THEOREM SchemaInvariant == Spec => []IInv
<1> QED  BY IInvInit, IInvNext, PTL DEF Spec

\* No site goes on to write a device of a type that lacks its templates
\* because another thread is still adding them.
THEOREM TemplatesComeFirst == Spec => []TemplatesFirst
<1>1. IInv => TemplatesFirst
  <2> SUFFICES ASSUME IInv, NEW h \in memo \cap Hardware \cap objects
               PROVE  h \in templated \cup bare
    BY DEF TemplatesFirst
  <2>1. \A w \in Callers : ~Unfinished(w, h)
    BY DEF IInv, LockCovers, InHand, Unfinished
  <2> QED  BY <2>1 DEF IInv, BareKnown
<1> QED  BY <1>1, SchemaInvariant, PTL

----------------------------------------------------------------------------
\* Losing a race is no error

\* The manufacturer in hand is the one that the waiting type needs.
ParentFirst == \A w \in Callers : job[w].for # None => Parent[job[w].for] = job[w].object

\* What NetBox told w holds, and is what w's step can hear of.
Truthful(w) ==
    \/ reply[w] \in {"there", "exists"} /\ job[w].object \in objects
    \/ reply[w] = "absent" /\ job[w].step = "find"

\* Nobody deleted anything under w's ensure: what a step presupposes is there.
StepHolds(w) ==
    /\ job[w].step \in {"refetch", "extend", "template"} => job[w].object \in objects
    /\ job[w].step = "create" => HasParent(job[w].object)
    /\ at[w] \in {"handled", "answered"} => Truthful(w)
Steady == \A w \in Callers \ disturbed : job[w].step # "next" => StepHolds(w)

LEMMA ParentKept ==
  ASSUME TypeOK, VerbOfStep, ParentFirst, [Next]_vars
  PROVE  ParentFirst'
<1>1. CASE UNCHANGED vars  BY <1>1 DEF ParentFirst, vars, schema
<1>2. ASSUME NEW w \in Callers, Asks(w) \/ Learns(w)
      PROVE  ParentFirst'
  <2>1. OthersWait(w)  BY <1>2, ThreadsAreApart
  <2> SUFFICES job'[w].for # None => Parent[job'[w].for] = job'[w].object
    BY <2>1 DEF ParentFirst, OthersWait
  <2>2. CASE Begin(w)
    <3>1. job'[w].for = None
      BY <2>2 DEF Begin, Become, Rest, Job, TypeOK
    <3> QED  BY <3>1
  <2>3. CASE Asks(w) /\ ~Begin(w)
    BY <2>3, AskingKeepsJob DEF ParentFirst
  <2>4. CASE Absent(w)
    <3>1. \/ job'[w] = Job(job[w].todo, Parent[job[w].object], job[w].object, "find")
          \/ job'[w] = At(w, "create")
      BY <2>4 DEF Absent, Become, TypeOK
    <3> QED  BY <3>1 DEF At, Job, ParentFirst
  <2>5. CASE Exists(w) \/ Extend(w) \/ AddTemplates(w)
    <3>1. job'[w].for = job[w].for /\ job'[w].object = job[w].object
      BY <2>5 DEF Exists, Extend, AddTemplates, Become, At, Job, TypeOK
    <3> QED  BY <3>1 DEF ParentFirst
  <2>6. CASE Done(w) \/ Fails(w)
    <3>1. job'[w].for = None
      BY <2>6 DEF Done, Fails, Become, Over, Rest, Job, TypeOK
    <3> QED  BY <3>1
  <2> QED  BY <1>2, <2>2, <2>3, <2>4, <2>5, <2>6 DEF Learns
<1>3. CASE StartRun \/ StartSites
  <2>1. \A u \in Callers : job'[u].for = None \/ job'[u] = job[u]
    BY <1>3 DEF StartRun, StartSites, Become, Over, Rest, Job, TypeOK
  <2> QED  BY <2>1 DEF ParentFirst
<1>4. ASSUME NEW object \in Objects, OthersCreate(object) \/ PersonDeletes(object)
      PROVE  ParentFirst'
  BY <1>4 DEF OthersCreate, PersonDeletes, ParentFirst
<1> QED  BY <1>1, <1>2, <1>3, <1>4, NextSteps DEF Apart

\* Only people take objects away.
LEMMA ThreadsOnlyAdd ==
  ASSUME NEW w \in Callers, Asks(w) \/ Learns(w)
  PROVE  objects \subseteq objects'
<1>1. CASE Asks(w)
  BY <1>1 DEF Asks, Begin, Ask, Serve, Wait, LoseRequest, Refuse, ServeLate, Effect, schema
<1>2. CASE Learns(w)
  BY <1>2 DEF Learns, Absent, Exists, Extend, AddTemplates, Done, Fails
<1> QED  BY <1>1, <1>2

\* Who is still at the same step finds what it presupposes as before.
LEMMA StepStillHolds ==
  ASSUME NEW u \in Callers, StepHolds(u), objects \subseteq objects', job'[u] = job[u],
         \/ at'[u] \notin {"handled", "answered"}
         \/ at[u] \in {"handled", "answered"} /\ reply'[u] = reply[u]
  PROVE  StepHolds(u)'
<1>1. HasParent(job[u].object) => HasParent(job[u].object)'  BY DEF HasParent
<1>2. Truthful(u) /\ reply'[u] = reply[u] => Truthful(u)'  BY DEF Truthful
<1>3. CASE at'[u] \notin {"handled", "answered"}  BY <1>1, <1>3 DEF StepHolds, HasParent
<1>4. CASE at[u] \in {"handled", "answered"} /\ reply'[u] = reply[u]
  BY <1>1, <1>2, <1>4 DEF StepHolds, HasParent
<1> QED  BY <1>3, <1>4

\* An answer lets a thread go on to a step that finds what it presupposes.
LEMMA LearningIsSteady ==
  ASSUME TypeOK, VerbOfStep, ParentFirst, NEW w \in Callers, Learns(w), StepHolds(w),
         job'[w].step # "next"
  PROVE  StepHolds(w)'
<1>1. at'[w] = "idle" /\ objects' = objects  BY LearningEndsCall
<1>2. \A o : HasParent(o)' <=> HasParent(o)  BY <1>1 DEF HasParent
<1>3. CASE Absent(w)
  <2>1. \/ job'[w] = Job(job[w].todo, Parent[job[w].object], job[w].object, "find")
        \/ job'[w] = At(w, "create") /\ Parent[job[w].object] = None
    BY <1>3 DEF Absent, Become, TypeOK
  <2>2. \/ job'[w].step = "find"
        \/ job'[w].step = "create" /\ HasParent(job'[w].object)
    BY <2>1 DEF At, Job, HasParent
  <2> QED  BY <1>1, <1>2, <2>2 DEF StepHolds
<1>4. CASE Exists(w) \/ Extend(w) \/ AddTemplates(w)
  <2>1. at[w] = "answered" /\ reply[w] \in {"exists", "there"}
    BY <1>4 DEF Exists, Extend, AddTemplates, Found, Answered
  <2>2. job[w].object \in objects  BY <2>1 DEF StepHolds, Truthful
  <2>3. job'[w].object = job[w].object /\ job'[w].step \in {"refetch", "extend", "template"}
    BY <1>4 DEF Exists, Extend, AddTemplates, Become, At, Job, TypeOK
  <2> QED  BY <1>1, <2>2, <2>3 DEF StepHolds
<1>5. CASE Done(w)
  <2>1. job[w].for # None /\ job'[w] = Job(job[w].todo, job[w].for, None, "create")
    BY <1>5 DEF Done, Become, Rest, Job, TypeOK
  <2>2. job[w].object \in objects
    BY <1>5 DEF Done, Ensured, Found, TemplatesAdded, Answered, StepHolds, Truthful
  <2>3. job'[w].step = "create" /\ job'[w].object = job[w].for  BY <2>1 DEF Job
  <2>4. HasParent(job[w].for)  BY <2>1, <2>2 DEF ParentFirst, HasParent
  <2> QED  BY <1>1, <1>2, <2>3, <2>4 DEF StepHolds
<1>6. CASE Fails(w)
  BY <1>6 DEF Fails, Become, Over, Rest, Job, TypeOK
<1> QED  BY <1>3, <1>4, <1>5, <1>6 DEF Learns

LEMMA SteadyKept ==
  ASSUME IInv, ParentFirst, Steady, [Next]_vars
  PROVE  Steady'
<1>0. TypeOK /\ VerbOfStep /\ MainAlone  BY DEF IInv
<1>1. CASE UNCHANGED vars
  BY <1>1 DEF vars, schema, session, Steady, StepHolds, Truthful, HasParent
<1>2. ASSUME NEW w \in Callers, Asks(w) \/ Learns(w)
      PROVE  Steady'
  <2>1. OthersWait(w) /\ objects \subseteq objects'  BY <1>0, <1>2, ThreadsAreApart, ThreadsOnlyAdd
  <2>2. disturbed' = disturbed \/ (disturbed' = disturbed \ {w} /\ job'[w].step = "next")
    <3>1. CASE Asks(w)
      BY <3>1 DEF Asks, Begin, Ask, Serve, Wait, LoseRequest, Refuse, ServeLate, schema
    <3>2. CASE Learns(w)
      BY <1>0, <3>2 DEF Learns, Absent, Exists, Extend, AddTemplates, Done, Fails, Leave, Become,
                        Over, Rest, Job, TypeOK
    <3> QED  BY <1>2, <3>1, <3>2
  <2> SUFFICES ASSUME w \notin disturbed, job'[w].step # "next"
               PROVE  StepHolds(w)'
    <3>1. ASSUME NEW u \in Callers \ {w}, u \notin disturbed', job'[u].step # "next"
          PROVE  StepHolds(u)'
      <4>1. StepHolds(u)  BY <2>1, <2>2, <3>1 DEF Steady, OthersWait
      <4> QED  BY <2>1, <4>1, StepStillHolds DEF OthersWait
    <3>2. job'[w].step # "next" => (w \notin disturbed' <=> w \notin disturbed)  BY <2>2
    <3> QED  BY <3>1, <3>2 DEF Steady
  <2>3. CASE Begin(w)
    <3>1. at[w] = "idle" /\ at' = at  BY <1>0, <2>3 DEF Begin, VerbOfStep, session
    <3>2. job'[w].step = "find"
      BY <1>0, <2>3 DEF Begin, Become, Rest, Job, TypeOK
    <3> QED  BY <3>1, <3>2 DEF StepHolds
  <2>4. CASE Asks(w) /\ ~Begin(w)
    <3>1. job' = job /\ StepHolds(w)  BY <2>4, AskingKeepsJob DEF Steady
    <3>2. CASE Serve(w)
      <4>1. /\ reply'[w] = Says(job[w].object, job[w].step)
            /\ Effect(job[w].object, job[w].step, seen[w])
        BY <1>0, <3>2 DEF Serve, TypeOK
      <4>2. /\ reply'[w] \in {"there", "exists"} => job[w].object \in objects'
            /\ reply'[w] \in {"there", "exists"} \/ (reply'[w] = "absent" /\ job[w].step = "find")
        BY <1>0, <3>1, <4>1 DEF Says, Effect, StepHolds, Writes, Steps, TypeOK
      <4>3. Truthful(w)'  BY <3>1, <4>2 DEF Truthful
      <4> QED  BY <2>1, <3>1, <4>3 DEF StepHolds, HasParent
    <3>3. CASE ~Serve(w)
      <4>1. reply' = reply
        BY <2>4, <3>3 DEF Asks, Ask, Wait, LoseRequest, Refuse, ServeLate, schema
      <4>2. at'[w] \in {"handled", "answered"} => at[w] \in {"handled", "answered"}
        BY <1>0, <2>4, <3>3 DEF Asks, Ask, Wait, LoseRequest, Refuse, ServeLate, Request, Acquire,
             Respond, Wake, Lose, TooMany, HandleLate, Goto, TypeOK
      <4> QED  BY <2>1, <3>1, <4>1, <4>2, StepStillHolds
    <3> QED  BY <3>2, <3>3
  <2>5. CASE Learns(w)
    <3>1. StepHolds(w)  BY <1>0, <2>5, LearningEndsCall DEF Steady
    <3> QED  BY <1>0, <2>5, <3>1, LearningIsSteady
  <2> QED  BY <1>2, <2>3, <2>4, <2>5
<1>3. CASE StartRun \/ StartSites
  <2>1. \A u \in Callers : job'[u].step = "next" \/ job'[u] = job[u]
    BY <1>0, <1>3 DEF StartRun, StartSites, Become, Over, Rest, Job, TypeOK
  <2>2. \A u \in Callers : job[u].step = "next"  BY <1>0, <1>3, AllPaused
  <2> QED  BY <2>1, <2>2 DEF Steady
<1>4. ASSUME NEW object \in Objects, OthersCreate(object) \/ PersonDeletes(object)
      PROVE  Steady'
  <2>1. CASE OthersCreate(object)
    <3>1. objects \subseteq objects' /\ UNCHANGED <<job, at, reply, disturbed>>
      BY <2>1 DEF OthersCreate
    <3> QED  BY <3>1, StepStillHolds DEF Steady
  <2>2. CASE PersonDeletes(object)  BY <2>2 DEF PersonDeletes, Steady
  <2> QED  BY <1>4, <2>1, <2>2
<1> QED  BY <1>1, <1>2, <1>3, <1>4, NextSteps DEF Apart

\* Losing a race is no error: an ensure that NetBox answered fails only when a
\* person deleted something meanwhile, whoever else created what and whatever
\* was lost.
THEOREM RacesAreNoErrors == Spec => RaceIsNoError
<1>1. Init => ParentFirst /\ Steady
  BY DEF Init, ParentFirst, Steady, Over, Rest, Job
<1>2. IInv /\ ParentFirst /\ [Next]_vars => ParentFirst'
  BY ParentKept DEF IInv
<1>3. IInv /\ ParentFirst /\ Steady /\ [Next]_vars => Steady'
  BY SteadyKept
<1>4. IInv /\ Steady /\ [Next]_vars =>
        [\A w \in Callers :
           at[w] = "answered" /\ job'[w] # job[w] /\ errors' # errors => w \in disturbed]_vars
  <2> SUFFICES ASSUME IInv, Steady, [Next]_vars, NEW w \in Callers \ disturbed,
                      at[w] = "answered", job'[w] # job[w], errors' # errors
               PROVE  FALSE
    OBVIOUS
  <2>0. TypeOK /\ VerbOfStep /\ MainAlone /\ job[w].step # "next"  BY DEF IInv, VerbOfStep
  <2>1. PICK u \in Callers : Fails(u)
    <3>1. ~StartRun  BY <2>0, AllPaused
    <3>2. ~StartSites  BY DEF StartSites
    <3> QED
      BY <3>1, <3>2 DEF Next, Work, vars, schema, Begin, Ask, Serve, Wait, LoseRequest, Refuse, ServeLate,
             Absent, Exists, Extend, AddTemplates, Done, OthersCreate, PersonDeletes
  <2>2. u = w
    BY <2>0, <2>1, ThreadsAreApart DEF OthersWait, Learns
  <2>3. StepHolds(w) /\ Truthful(w)  BY <2>0 DEF Steady, StepHolds
  <2> QED  BY <2>1, <2>2, <2>3 DEF Fails, Answered, Truthful
<1> QED  BY <1>1, <1>2, <1>3, <1>4, SchemaInvariant, PTL DEF Spec, RaceIsNoError

=============================================================================
