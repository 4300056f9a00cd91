----------------------------- MODULE RunPromise -----------------------------
(***************************************************************************)
(* What one sync process promises to the loop that starts it and to the    *)
(* health check that reads its marker, without saying how it works: every  *)
(* site pair and the uplink pass settle at most once, the success marker   *)
(* and exit status 0 stand for a run in which everything was completed,    *)
(* and nothing settles after the end.                                      *)
(***************************************************************************)
CONSTANTS Pairs, Heartbeat

VARIABLES
    outcome,     \* pair -> "open", "complete" or "broken"
    cabling,     \* the uplink pass, likewise
    marked,      \* the success marker of this run is written
    exit         \* "none" while the process lives, then "ok" or "failed"

vars == <<outcome, cabling, marked, exit>>

Settled  == {"complete", "broken"}
Complete == cabling = "complete" /\ \A p \in Pairs : outcome[p] = "complete"

Init ==
    /\ outcome = [p \in Pairs |-> "open"]
    /\ cabling = "open"
    /\ marked = FALSE
    /\ exit = "none"

\* Pairs settle one at a time, or several at once when links conflict.
Settle ==
    /\ exit = "none"
    /\ \E done \in SUBSET {p \in Pairs : outcome[p] = "open"}, to \in [Pairs -> Settled] :
         outcome' = [p \in Pairs |-> IF p \in done THEN to[p] ELSE outcome[p]]
    /\ UNCHANGED <<cabling, marked, exit>>

\* Uplinks are cabled once nothing is open.
SettleCabling ==
    /\ exit = "none" /\ cabling = "open"
    /\ \A p \in Pairs : outcome[p] \in Settled
    /\ cabling' \in Settled
    /\ UNCHANGED <<outcome, marked, exit>>

Mark ==
    /\ exit = "none" /\ Heartbeat /\ Complete
    /\ marked' = TRUE
    /\ UNCHANGED <<outcome, cabling, exit>>

Exit ==
    /\ exit = "none"
    /\ \/ exit' = "ok" /\ Complete /\ marked = Heartbeat
       \/ exit' = "failed" /\ ~marked
    /\ UNCHANGED <<outcome, cabling, marked>>

Next == Settle \/ SettleCabling \/ Mark \/ Exit

Spec == Init /\ [][Next]_vars

=============================================================================
