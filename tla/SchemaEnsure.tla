---------------------------- MODULE SchemaEnsure ----------------------------
(***************************************************************************)
(* The objects a run needs before it can write devices: tag, custom        *)
(* fields, roles, manufacturers and device types (netbox_client.py).  The  *)
(* main thread ensures the prerequisites; then site workers ensure the     *)
(* types of their hardware, one at a time under the infra lock, and of     *)
(* their clients, in parallel.  Every request goes through HttpSession.    *)
(* People and other processes change the same objects meanwhile, and runs  *)
(* follow each other.                                                      *)
(***************************************************************************)
EXTENDS HttpSession, Sequences

CONSTANTS
    Main, None,
    Objects,        \* by slug or name
    Parent,         \* the manufacturer a device type needs, or None
    Fields, Needed, \* custom fields; the object types each has to have
    Extra,          \* the object types of custom fields
    Hardware,       \* device types with templates, ensured under the infra lock
    Memoized,       \* the objects that a run remembers
    Prerequisites,  \* what the main thread ensures, in order
    Wanted,         \* Wanted[w]: what site worker w ensures, in order
    InitialObjects  \* the tables a run may find

ASSUME SchemaAssumption ==
    /\ Main \in Callers /\ None \notin Callers /\ None \notin Objects
    /\ Fields \subseteq Objects /\ Hardware \subseteq Memoized /\ Memoized \subseteq Objects
    /\ Parent \in [Objects -> Objects \cup {None}]
    /\ \A o \in Objects : Parent[o] # None => Parent[o] \notin Hardware /\ Parent[Parent[o]] = None
    /\ Needed \in [Fields -> SUBSET Extra]
    /\ Prerequisites \in Seq(Objects) /\ Wanted \in [Callers \ {Main} -> Seq(Objects)]
    /\ InitialObjects \subseteq SUBSET Objects

VARIABLES
    objects,     \* the objects that NetBox has
    types,       \* types[f]: the object types of custom field f
    templated,   \* the hardware types that have their templates
    memo,        \* _infra_type_memo and _client_type_memo
    lock,        \* holder of the infra lock
    job,         \* job[w]: what w ensures
    reply,       \* reply[w]: what the answer to w says
    seen,        \* seen[w]: the object types of the field in the last answer to w
    sent,        \* sent[w]: the write of w that was given up and is on its way
    errors,      \* the objects whose ensure failed in this run
    disturbed,   \* history: callers whose ensure a deletion by a person met
    bare         \* history: hardware types whose creation was not finished

schema == <<objects, types, templated, memo, lock, job, reply, seen, sent, errors, disturbed, bare>>
vars   == <<schema, session>>

Sites == Callers \ {Main}

\* An ensure in progress: what is left after it, the object in hand, the
\* device type that waits for it, the step.
Job(todo, object, for, step) == [todo |-> todo, object |-> object, for |-> for, step |-> step]
Rest(todo) == Job(todo, None, None, "next")
Over       == Rest(<<>>)
At(w, step) == Job(job[w].todo, job[w].object, job[w].for, step)
Become(w, newJob) == job' = [job EXCEPT ![w] = newJob]

Writes == {"create", "extend", "template"}

\* A write on its way: what it does to which object, from which answer.
Letter(object, step, sees) == [object |-> object, step |-> step, sees |-> sees]
NoLetter == Letter(None, "next", {})

Init ==
    /\ SessionInit
    /\ objects \in InitialObjects
    /\ types \in [Fields -> SUBSET Extra] /\ \A f \in Fields \ objects : types[f] = {}
    /\ templated = objects \cap Hardware
    /\ memo = {} /\ errors = {} /\ disturbed = {} /\ bare = {}
    /\ lock = None
    /\ job = [w \in Callers |-> Over]
    /\ reply = [w \in Callers |-> "none"]
    /\ seen = [w \in Callers |-> {}]
    /\ sent = [w \in Callers |-> NoLetter]

\* A run: a process of its own, with its own memos.
StartRun ==
    /\ \A w \in Callers : job[w] = Over
    /\ memo' = {} /\ errors' = {}
    /\ Become(Main, Rest(Prerequisites \o <<None>>))
    /\ UNCHANGED <<objects, types, templated, lock, reply, seen, sent, disturbed, bare, session>>

\* run() hands the sites to their workers.
StartSites ==
    /\ job[Main] = Rest(<<None>>)
    /\ job' = [w \in Callers |-> IF w = Main THEN Over ELSE Rest(Wanted[w])]
    /\ UNCHANGED <<objects, types, templated, memo, lock, reply, seen, sent, errors, disturbed, bare, session>>

----------------------------------------------------------------------------
\* One ensure

Upcoming(w) == Head(job[w].todo)

\* Mutant of TakesLock: two sites sync hardware at the same time.
TakesNoLock(w) == UNCHANGED lock

\* Hardware is synced under the infra lock.
TakesLock(w) ==
    IF Upcoming(w) \in Hardware THEN lock = None /\ lock' = w ELSE UNCHANGED lock

\* Look the object up, unless this run remembers it.
Begin(w) ==
    /\ job[w].step = "next" /\ job[w].todo # <<>> /\ Upcoming(w) # None
    /\ IF Upcoming(w) \in memo
       THEN Become(w, Rest(Tail(job[w].todo))) /\ UNCHANGED lock
       ELSE TakesLock(w) /\ Become(w, Job(Tail(job[w].todo), Upcoming(w), None, "find"))
    /\ UNCHANGED <<objects, types, templated, memo, reply, seen, sent, errors, disturbed, bare, session>>

Ask(w) ==
    /\ job[w].step # "next"
    /\ Request(w, job[w].step \in Writes)
    /\ UNCHANGED schema

\* What NetBox makes of a write: slugs and names are unique, a type needs its
\* manufacturer, templates their type; a saved field has what was sent.
HasParent(object) == Parent[object] \in objects \cup {None}
Effect(object, step, sees) ==
    /\ objects' = IF step = "create" /\ HasParent(object) THEN objects \cup {object} ELSE objects
    /\ types' = IF step = "create" /\ object \in Fields \ objects
                THEN [types EXCEPT ![object] = Needed[object]]
                ELSE IF step = "extend" /\ object \in objects
                THEN [types EXCEPT ![object] = sees \cup Needed[object]]
                ELSE types
    /\ templated' = IF step = "template" /\ object \in objects THEN templated \cup {object} ELSE templated

\* ... and what it answers.
Says(object, step) ==
    IF step = "create"
    THEN IF object \in objects THEN "exists" ELSE IF HasParent(object) THEN "there" ELSE "error"
    ELSE IF object \in objects THEN "there" ELSE IF step \in Writes THEN "error" ELSE "absent"

Serve(w) ==
    /\ Handle(w)
    /\ Effect(job[w].object, job[w].step, seen[w])
    /\ reply' = [reply EXCEPT ![w] = Says(job[w].object, job[w].step)]
    /\ seen' = [seen EXCEPT ![w] =
                   IF job[w].object \notin Fields THEN {}
                   ELSE IF job[w].step = "create" THEN Needed[job[w].object] ELSE types[job[w].object]]
    /\ UNCHANGED <<memo, lock, job, sent, errors, disturbed, bare>>

\* A given-up write is remembered with what it says.
LoseRequest(w) ==
    /\ Lose(w)
    /\ sent' = IF w \in late' \ late
                THEN [sent EXCEPT ![w] = Letter(job[w].object, job[w].step, seen[w])] ELSE sent
    /\ UNCHANGED <<objects, types, templated, memo, lock, job, reply, seen, errors, disturbed, bare>>

ServeLate(w) ==
    /\ HandleLate(w)
    /\ Effect(sent[w].object, sent[w].step, sent[w].sees)
    /\ sent' = [sent EXCEPT ![w] = NoLetter]
    /\ UNCHANGED <<memo, lock, job, reply, seen, errors, disturbed, bare>>

----------------------------------------------------------------------------
\* What the caller makes of the answer

Answered(w, step, says) == job[w].step = step /\ at[w] = "answered" /\ reply[w] = says
Hear(w) == Collect(w) /\ reply' = [reply EXCEPT ![w] = "none"]

\* The ensure ends: the next one follows.
Unlock(w) == lock' = IF lock = w THEN None ELSE lock
Leave(w) ==
    /\ Unlock(w)
    /\ seen' = [seen EXCEPT ![w] = {}]
    /\ disturbed' = disturbed \ {w}

Found(w) == Answered(w, "find", "there") \/ Answered(w, "refetch", "there")

\* Not there: a device type first needs its manufacturer.
Absent(w) ==
    /\ Answered(w, "find", "absent") /\ Hear(w)
    /\ LET object == job[w].object
       IN  IF Parent[object] # None THEN Become(w, Job(job[w].todo, Parent[object], object, "find"))
           ELSE Become(w, At(w, "create"))
    /\ UNCHANGED <<objects, types, templated, memo, lock, seen, sent, errors, disturbed, bare>>

\* Mutant of Exists: a conflict is an error like any other.
ExistsFails(w) ==
    /\ Answered(w, "create", "exists") /\ Hear(w)
    /\ errors' = errors \cup {job[w].object}
    /\ Become(w, IF w = Main THEN Over ELSE Rest(job[w].todo))
    /\ Leave(w)
    /\ UNCHANGED <<objects, types, templated, memo, sent, bare>>

\* _create_or_refetch: somebody else has just created it.
Exists(w) ==
    /\ Answered(w, "create", "exists") /\ Hear(w)
    /\ Become(w, At(w, "refetch"))
    /\ UNCHANGED <<objects, types, templated, memo, lock, seen, sent, errors, disturbed, bare>>

\* Mutant of Missing: an existing field is taken as it is.
MissingNever(w) == FALSE

\* _extend_custom_field_types: the field lacks an object type.
Missing(w) == job[w].object \in Fields /\ ~(Needed[job[w].object] \subseteq seen[w])

Extend(w) ==
    /\ Found(w) /\ Missing(w) /\ Hear(w)
    /\ Become(w, At(w, "extend"))
    /\ UNCHANGED <<objects, types, templated, memo, lock, seen, sent, errors, disturbed, bare>>

\* Who creates a hardware type adds its templates.
AddTemplates(w) ==
    /\ Answered(w, "create", "there") /\ job[w].object \in Hardware /\ Hear(w)
    /\ Become(w, At(w, "template"))
    /\ UNCHANGED <<objects, types, templated, memo, lock, seen, sent, errors, disturbed, bare>>

TemplatesAdded(w) == Answered(w, "template", "there")

\* The object is there; an extension that failed is only a warning.
Ensured(w) ==
    \/ Found(w) /\ ~Missing(w)
    \/ Answered(w, "create", "there") /\ job[w].object \notin Hardware
    \/ TemplatesAdded(w)
    \/ job[w].step = "extend" /\ at[w] \in {"answered", "refused", "failed"}

\* The type that waited for its manufacturer is created, or the ensure ends.
Done(w) ==
    /\ Ensured(w) /\ Hear(w)
    /\ IF job[w].for # None
       THEN /\ Become(w, Job(job[w].todo, job[w].for, None, "create"))
            /\ UNCHANGED <<memo, lock, seen, disturbed>>
       ELSE /\ Become(w, Rest(job[w].todo))
            /\ memo' = memo \cup ({job[w].object} \cap Memoized)
            /\ Leave(w)
    /\ UNCHANGED <<objects, types, templated, sent, errors, bare>>

\* An error: of the run if the main thread meets it, else of a device or client.
Fails(w) ==
    /\ \/ at[w] \in {"refused", "failed"} /\ job[w].step # "extend"
       \/ Answered(w, "refetch", "absent")
       \/ Answered(w, "create", "error") \/ Answered(w, "template", "error")
    /\ Hear(w)
    /\ errors' = errors \cup {job[w].object}
    /\ bare' = bare \cup (IF job[w].step \in Writes THEN {job[w].object} \cap Hardware ELSE {})
    /\ Become(w, IF w = Main THEN Over ELSE Rest(job[w].todo))
    /\ Leave(w)
    /\ UNCHANGED <<objects, types, templated, memo, sent>>

----------------------------------------------------------------------------
\* People, and other processes of the sync

\* Another process creates the object first, or a person does.  Of a type that
\* is not ours the templates are their business.
OthersCreate(object) ==
    /\ budget > 0 /\ object \notin objects /\ HasParent(object)
    /\ budget' = budget - 1
    /\ objects' = objects \cup {object}
    /\ types' \in {[f \in Fields |-> IF f = object THEN kinds ELSE types[f]] : kinds \in SUBSET Extra}
    /\ bare' = bare \cup ({object} \cap Hardware)
    /\ UNCHANGED <<templated, memo, lock, job, reply, seen, sent, errors, disturbed,
                   at, write, tries, rated, handled, permits, late>>

\* A person deletes an object that nothing in NetBox needs.
PersonDeletes(object) ==
    /\ budget > 0 /\ object \in objects /\ \A other \in objects : Parent[other] # object
    /\ budget' = budget - 1
    /\ objects' = objects \ {object} /\ templated' = templated \ {object}
    /\ types' = [f \in Fields |-> IF f = object THEN {} ELSE types[f]]
    /\ disturbed' = {w \in Callers : job[w].step # "next"} \cup disturbed
    /\ UNCHANGED <<memo, lock, job, reply, seen, sent, errors, bare,
                   at, write, tries, rated, handled, permits, late>>

\* The session alone.
Wait(w) == (Acquire(w) \/ Respond(w) \/ Wake(w)) /\ UNCHANGED schema
Refuse(w) == TooMany(w) /\ UNCHANGED schema

Work ==
    \/ StartRun \/ StartSites
    \/ \E w \in Callers :
        \/ Begin(w) \/ Ask(w) \/ Serve(w) \/ Wait(w)
        \/ Absent(w) \/ Exists(w) \/ Extend(w) \/ AddTemplates(w) \/ Done(w) \/ Fails(w)

Next ==
    \/ Work
    \/ \E w \in Callers : LoseRequest(w) \/ Refuse(w) \/ ServeLate(w)
    \/ \E object \in Objects : OthersCreate(object) \/ PersonDeletes(object)

Spec == Init /\ [][Next]_vars

Steps == {"next", "find", "create", "refetch", "extend", "template"}

TypeOK ==
    /\ at \in [Callers -> States] /\ write \in [Callers -> BOOLEAN]
    /\ tries \in [Callers -> Nat] /\ rated \in [Callers -> Nat] /\ handled \in [Callers -> Nat]
    /\ permits \in Nat /\ late \subseteq Callers /\ budget \in Nat
    /\ objects \subseteq Objects /\ types \in [Fields -> SUBSET Extra]
    /\ templated \subseteq Objects /\ memo \subseteq Memoized /\ bare \subseteq Hardware
    /\ lock \in Callers \cup {None}
    /\ job \in [Callers -> [todo : Seq(Objects \cup {None}), object : Objects \cup {None},
                            for : Objects \cup {None}, step : Steps]]
    /\ reply \in [Callers -> {"none", "there", "absent", "exists", "error"}]
    /\ seen \in [Callers -> SUBSET Extra]
    /\ sent \in [Callers -> [object : Objects \cup {None}, step : Steps, sees : SUBSET Extra]]
    /\ errors \subseteq Objects /\ disturbed \subseteq Callers

\* Some thread that can go on does.
FairSpec == Spec /\ WF_vars(Work)

----------------------------------------------------------------------------
\* Properties

\* Losing a race is no error: an ensure that NetBox answered fails only when a
\* person deleted something meanwhile.
RaceIsNoError ==
    [][\A w \in Callers :
         at[w] = "answered" /\ job'[w] # job[w] /\ errors' # errors => w \in disturbed]_vars

\* No site writes a device of a type whose templates another site is about to
\* add: of the types a run remembers, only those whose creation did not finish
\* lack them.
TemplatesFirst == memo \cap Hardware \cap objects \subseteq templated \cup bare

\* Whatever was lost, refused, raced for or deleted, in the end NetBox has all
\* that the runs need, and keeps it.
Everything == {Prerequisites[i] : i \in DOMAIN Prerequisites}
              \cup UNION {{Wanted[w][i] : i \in DOMAIN Wanted[w]} : w \in Sites}
SchemaComplete ==
    <>[](Everything \subseteq objects /\ \A f \in Fields : Needed[f] \subseteq types[f])

=============================================================================
