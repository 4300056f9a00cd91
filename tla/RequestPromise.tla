-------------------------- MODULE RequestPromise ---------------------------
(***************************************************************************)
(* What TimeoutSession promises its callers: whatever it repeats, NetBox   *)
(* applies a write at most once per call, an answered write was handled,   *)
(* and a call that fails may still be applied later, but then only once.   *)
(***************************************************************************)
EXTENDS Integers

CONSTANTS Callers

VARIABLES
    call,     \* call[w]: "idle", "open", or its outcome "answered" / "failed"
    write,    \* write[w]: the call changes NetBox
    handled,  \* handled[w]: how often NetBox has handled the write of the call
    late      \* callers with a failed write that NetBox may still handle

vars == <<call, write, handled, late>>

Init ==
    /\ call = [w \in Callers |-> "idle"]
    /\ write = [w \in Callers |-> FALSE]
    /\ handled = [w \in Callers |-> 0]
    /\ late = {}

Begin(w, isWrite) ==
    /\ call[w] = "idle"
    /\ call' = [call EXCEPT ![w] = "open"]
    /\ write' = [write EXCEPT ![w] = isWrite]
    /\ UNCHANGED <<handled, late>>

\* NetBox handles the write.
Apply(w) ==
    /\ call[w] = "open" /\ write[w] /\ handled[w] = 0
    /\ handled' = [handled EXCEPT ![w] = 1]
    /\ UNCHANGED <<call, write, late>>

Answer(w) ==
    /\ call[w] = "open" /\ (write[w] => handled[w] = 1)
    /\ call' = [call EXCEPT ![w] = "answered"]
    /\ UNCHANGED <<write, handled, late>>

\* The caller is told that the call failed; a write that has not been handled
\* by then may be on its way.
Fail(w) ==
    /\ call[w] = "open"
    /\ call' = [call EXCEPT ![w] = "failed"]
    /\ \/ UNCHANGED late
       \/ write[w] /\ handled[w] = 0 /\ late' = late \cup {w}
    /\ UNCHANGED <<write, handled>>

ApplyLate(w) ==
    /\ w \in late
    /\ late' = late \ {w}
    /\ UNCHANGED <<call, write, handled>>

Take(w) ==
    /\ call[w] \in {"answered", "failed"}
    /\ call' = [call EXCEPT ![w] = "idle"]
    /\ write' = [write EXCEPT ![w] = FALSE]
    /\ handled' = [handled EXCEPT ![w] = 0]
    /\ UNCHANGED late

Next == \E w \in Callers :
    \/ \E isWrite \in BOOLEAN : Begin(w, isWrite)
    \/ Apply(w) \/ Answer(w) \/ Fail(w) \/ ApplyLate(w) \/ Take(w)

Spec == Init /\ [][Next]_vars

=============================================================================
