---------------------------- MODULE HttpSession ----------------------------
(***************************************************************************)
(* TimeoutSession (netbox_client.py): the calls that threads make to       *)
(* NetBox through one session.  A semaphore caps the calls in flight;      *)
(* reads that time out or lose the connection are repeated, writes never;  *)
(* a 429 is repeated for every verb; the pauses are spent without a        *)
(* permit.  What NetBox does with a request is up to the module that       *)
(* extends this one.                                                       *)
(***************************************************************************)
EXTENDS Integers

CONSTANTS
    Callers,        \* threads that use the session
    Limit,          \* NETBOX_MAX_INFLIGHT, 0 for none
    ReadAttempts,   \* DEFAULT_READ_ATTEMPTS
    RateRetries,    \* NETBOX_RATE_LIMIT_RETRIES
    Budget          \* bound on faults and on edits by people

ASSUME HttpSessionAssumption ==
    /\ Limit \in Nat /\ ReadAttempts \in Nat \ {0} /\ RateRetries \in Nat /\ Budget \in Nat

VARIABLES
    at,       \* at[w]: where the call of w is (see States)
    write,    \* write[w]: its verb is not a read
    tries,    \* tries[w]: attempts of _request_once
    rated,    \* rated[w]: retries after a 429
    handled,  \* how often NetBox has handled the write
    permits,  \* free permits of the semaphore
    late,     \* callers whose write was given up but is on its way to NetBox
    budget

session == <<at, write, tries, rated, handled, permits, late, budget>>

\* paused: asleep before another attempt.  The last three are what request()
\* ends with: a response, a last 429, or an exception.
States == {"idle", "waiting", "flying", "handled", "paused", "answered", "refused", "failed"}

SessionInit ==
    /\ at = [w \in Callers |-> "idle"]
    /\ write = [w \in Callers |-> FALSE]
    /\ tries = [w \in Callers |-> 1]
    /\ rated = [w \in Callers |-> 0]
    /\ handled = [w \in Callers |-> 0]
    /\ permits = Limit
    /\ late = {}
    /\ budget = Budget

Goto(w, state) == at' = [at EXCEPT ![w] = state]
Release == permits' = IF Limit = 0 THEN permits ELSE permits + 1

\* request(): one call of a verb.
Request(w, isWrite) ==
    /\ at[w] = "idle"
    /\ Goto(w, "waiting")
    /\ write' = [write EXCEPT ![w] = isWrite]
    /\ UNCHANGED <<tries, rated, handled, permits, late, budget>>

\* with self._inflight
Acquire(w) ==
    /\ at[w] = "waiting" /\ (Limit = 0 \/ permits > 0)
    /\ Goto(w, "flying")
    /\ permits' = IF Limit = 0 THEN permits ELSE permits - 1
    /\ UNCHANGED <<write, tries, rated, handled, late, budget>>

\* NetBox handles the request.
Handle(w) ==
    /\ at[w] = "flying"
    /\ Goto(w, "handled")
    /\ handled' = [handled EXCEPT ![w] = IF write[w] THEN @ + 1 ELSE @]
    /\ UNCHANGED <<write, tries, rated, permits, late, budget>>

\* Its response arrives.
Respond(w) ==
    /\ at[w] = "handled"
    /\ Goto(w, "answered")
    /\ Release
    /\ UNCHANGED <<write, tries, rated, handled, late, budget>>

\* NetBox refuses with 429, unhandled.  The next round counts its attempts anew.
TooMany(w) ==
    /\ budget > 0 /\ at[w] = "flying"
    /\ budget' = budget - 1
    /\ Release
    /\ IF rated[w] < RateRetries
       THEN /\ Goto(w, "paused")
            /\ rated' = [rated EXCEPT ![w] = @ + 1]
            /\ tries' = [tries EXCEPT ![w] = 1]
       ELSE Goto(w, "refused") /\ UNCHANGED <<rated, tries>>
    /\ UNCHANGED <<write, handled, late>>

\* Mutant of Retries: a write is repeated like a read.
RetriesAll(w) == tries[w] < ReadAttempts

\* A timeout or a dropped connection is repeated for reads only.
Retries(w) == ~write[w] /\ tries[w] < ReadAttempts

\* The request or its response is lost.  A write that NetBox has not handled
\* by then is dropped or still under way.
Lose(w) ==
    /\ budget > 0 /\ at[w] \in {"flying", "handled"}
    /\ budget' = budget - 1
    /\ Release
    /\ IF Retries(w)
       THEN Goto(w, "paused") /\ tries' = [tries EXCEPT ![w] = @ + 1] /\ UNCHANGED late
       ELSE /\ Goto(w, "failed") /\ UNCHANGED tries
            /\ \/ UNCHANGED late
               \/ write[w] /\ at[w] = "flying" /\ late' = late \cup {w}
    /\ UNCHANGED <<write, rated, handled>>

\* self._sleep(delay) ends.
Wake(w) ==
    /\ at[w] = "paused"
    /\ Goto(w, "waiting")
    /\ UNCHANGED <<write, tries, rated, handled, permits, late, budget>>

\* The caller goes on with what the call ended with; its counters are gone.
Collect(w) ==
    /\ at[w] \in {"answered", "refused", "failed"}
    /\ Goto(w, "idle")
    /\ write' = [write EXCEPT ![w] = FALSE]
    /\ tries' = [tries EXCEPT ![w] = 1]
    /\ rated' = [rated EXCEPT ![w] = 0]
    /\ handled' = [handled EXCEPT ![w] = 0]
    /\ UNCHANGED <<permits, late, budget>>

\* NetBox handles a write that was given up.
HandleLate(w) ==
    /\ w \in late
    /\ late' = late \ {w}
    /\ UNCHANGED <<at, write, tries, rated, handled, permits, budget>>

----------------------------------------------------------------------------
\* The call as its caller sees it.

Outcome == [w \in Callers |->
    IF at[w] \in {"waiting", "flying", "handled", "paused"} THEN "open"
    ELSE IF at[w] = "refused" THEN "failed"
    ELSE at[w]]

Promised == INSTANCE RequestPromise WITH call <- Outcome

\* TimeoutSession keeps what its docstring promises: "Writes are not [safe to
\* repeat]: a timed-out POST may have succeeded, and retrying it could create
\* a second object."
WritesOnce == Promised!Spec

=============================================================================
