--------------------------- MODULE SyncRun_proofs ---------------------------
(***************************************************************************)
(* One sync process keeps its promise for any number of pairs and workers: *)
(* SyncRun implements RunPromise, and the process leaves no writer behind. *)
(***************************************************************************)
EXTENDS SyncRun, TLAPS

Collected == {"dropped", "done", "failed"}

\* Before the groups start nothing is linked and nothing is reported.
Early == stage \in {"discover", "link"} => next = 1 /\ \A p \in Pairs : job[p] = "unlinked"

\* The summaries the main thread has collected are those of settled pairs.
Behind == \A p \in Pairs : p < next => job[p] \in Collected

\* Past the pool every summary has been collected.
PastPool == stage \in {"uplinks", "report", "verdict"} => next = PairCount + 1

\* A pair that was dropped or failed is in the report.
Reported == \A p \in Pairs : job[p] \in {"dropped", "failed"} => p \in errors

\* The uplink pass is part of the report, and of nothing earlier.
UplinksKnown ==
    /\ stage \in {"report", "verdict"} => uplinks # "open"
    /\ stage \in {"discover", "link", "sites", "aborting", "uplinks"} => uplinks = "open"

\* The marker stands for a report without errors.
MarkerEarned == marked => /\ stage \in {"verdict", "exited"} /\ Heartbeat
                          /\ errors = {} /\ uplinks = "complete"

ExitKnown == exit # "none" <=> stage = "exited"

\* No group is being worked on when the process is gone.
QuietExit == stage = "exited" => Running = {}

RInv == /\ TypeOK
        /\ Early
        /\ Behind
        /\ PastPool
        /\ Reported
        /\ UplinksKnown
        /\ MarkerEarned
        /\ ExitKnown
        /\ QuietExit

LEMMA InitRun == Init => RInv
<1> SUFFICES ASSUME Init PROVE RInv
  OBVIOUS
<1>1. TypeOK
  <2>1. next \in 1..(PairCount + 1)
    BY RunAssumption DEF Init
  <2>2. QED
    BY <2>1 DEF Init, TypeOK, Stages, Jobs
<1>2. Early /\ Behind /\ PastPool /\ Reported /\ UplinksKnown /\ MarkerEarned /\ ExitKnown /\ QuietExit
  BY DEF Init, Early, Behind, PastPool, Reported, UplinksKnown, MarkerEarned, ExitKnown, QuietExit, Pairs
<1>3. QED
  BY <1>1, <1>2 DEF RInv

\* An uncaught exception while no group is being worked on.
LEMMA CrashSafe ==
  ASSUME RInv, Crash, Running = {}, ~marked
  PROVE  RInv'
<1>1. TypeOK'
  BY DEF RInv, TypeOK, Crash, report, Stages
<1>2. Early' /\ Behind' /\ PastPool' /\ Reported' /\ UplinksKnown' /\ MarkerEarned' /\ ExitKnown' /\ QuietExit'
  BY DEF RInv, Crash, report, Early, Behind, PastPool, Reported, UplinksKnown, MarkerEarned,
         ExitKnown, QuietExit, Running
<1>3. QED
  BY <1>1, <1>2 DEF RInv

\* Nothing is being worked on before the groups and after the pool.
LEMMA NothingRuns ==
  ASSUME RInv, stage \in {"discover", "link", "uplinks", "report", "verdict"}
  PROVE  Running = {}
<1>1. CASE stage \in {"discover", "link"}
  BY <1>1 DEF RInv, Early, Running
<1>2. CASE stage \in {"uplinks", "report", "verdict"}
  <2>1. \A p \in Pairs : job[p] \in Collected
    BY <1>2, RunAssumption DEF RInv, PastPool, Behind, Pairs
  <2>2. QED
    BY <2>1 DEF Collected, Running
<1>3. QED
  BY <1>1, <1>2

LEMMA LinkSafe ==
  ASSUME RInv, Link
  PROVE  RInv'
<1>1. PICK clash \in SUBSET Pairs, refused \in SUBSET Pairs :
         /\ errors' = clash \cup refused
         /\ job' = [p \in Pairs |-> IF p \in clash THEN "dropped" ELSE "queued"]
  BY DEF Link, LinkTo
<1>2. stage = "link" /\ stage' = "sites" /\ UNCHANGED <<next, uplinks, marked, exit>>
  BY DEF Link, LinkTo
<1>3. TypeOK'
  BY <1>1, <1>2 DEF RInv, TypeOK, Stages, Jobs
<1>4. next = 1
  BY <1>2 DEF RInv, Early
<1>5. Early' /\ Behind' /\ PastPool' /\ Reported' /\ UplinksKnown' /\ MarkerEarned' /\ ExitKnown' /\ QuietExit'
  BY <1>1, <1>2, <1>4 DEF RInv, Early, Behind, PastPool, Reported, UplinksKnown, MarkerEarned,
         ExitKnown, QuietExit, Pairs
<1>6. QED
  BY <1>3, <1>5 DEF RInv

\* A group moves on: its pair was not collected, and a failure is reported.
LEMMA WorkerSafe ==
  ASSUME RInv, NEW p \in Pairs, WorkerStep(p)
  PROVE  RInv'
<1>1. PICK to \in Jobs :
         /\ job' = [job EXCEPT ![p] = to]
         /\ job[p] \in {"queued", "syncing", "marking"}
         /\ job[p] = "queued" => stage = "sites"
         /\ to \in {"syncing", "marking", "done", "failed", "raised"}
         /\ errors' = errors \/ (errors' = errors \cup {p} /\ job[p] = "syncing")
         /\ to = "failed" => p \in errors'
  BY DEF WorkerStep, Take, SiteReturns, SiteRaises, MarkReturns, MarkRaises, Jobs, report
<1>2. UNCHANGED <<stage, next, uplinks, marked, exit>>
  BY DEF WorkerStep, Take, SiteReturns, SiteRaises, MarkReturns, MarkRaises, report
<1>3. stage \in {"sites", "aborting"}
  <2>1. CASE job[p] = "queued"
    BY <1>1, <2>1
  <2>2. CASE job[p] \in {"syncing", "marking"}
    <3>1. Running # {}
      BY <2>2 DEF Running
    <3>2. QED
      BY <3>1, NothingRuns DEF RInv, QuietExit, TypeOK, Stages
  <2>3. QED
    BY <1>1, <2>1, <2>2
<1>4. TypeOK' /\ \A q \in Pairs : job'[q] = IF q = p THEN to ELSE job[q]
  BY <1>1, <1>2 DEF RInv, TypeOK
<1>5. ~(p < next)
  BY <1>1 DEF RInv, Behind, Collected
<1>6. Behind' /\ Reported'
  BY <1>1, <1>2, <1>4, <1>5 DEF RInv, Behind, Reported
<1>7. Early' /\ PastPool' /\ UplinksKnown' /\ MarkerEarned' /\ ExitKnown' /\ QuietExit'
  BY <1>2, <1>3 DEF RInv, Early, PastPool, UplinksKnown, MarkerEarned, ExitKnown, QuietExit
<1>8. QED
  BY <1>4, <1>6, <1>7 DEF RInv

LEMMA MainSafe ==
  ASSUME RInv, MainStep
  PROVE  RInv'
<1> USE DEF Early, Behind, PastPool, Reported, UplinksKnown, MarkerEarned, ExitKnown, QuietExit
<1>0. stage # "verdict" /\ stage # "exited" => ~marked
  BY DEF RInv
<1>1. CASE Discover
  <2>1. CASE Crash
    BY <1>0, <1>1, <2>1, NothingRuns, CrashSafe DEF Discover
  <2>2. CASE stage' = "link" /\ UNCHANGED <<job, next, report, marked, exit>>
    BY <1>1, <2>2 DEF Discover, RInv, TypeOK, Stages, report
  <2>3. QED
    BY <1>1, <2>1, <2>2 DEF Discover
<1>2. CASE Link
  BY <1>2, LinkSafe
<1>3. CASE PrerequisitesFail
  <2>1. Running = {}
    BY <1>3 DEF PrerequisitesFail, Running, Linked
  <2>2. QED
    BY <1>0, <1>3, <2>1, CrashSafe DEF PrerequisitesFail
<1>4. CASE Collect
  <2>1. stage = "sites" /\ next \in Pairs /\ job[next] \in Collected /\ next' = next + 1
        /\ UNCHANGED <<stage, job, report, marked, exit>>
    BY <1>4 DEF Collect, Collected
  <2>2. TypeOK'
    BY <2>1, RunAssumption DEF RInv, TypeOK, Pairs, report
  <2>3. Behind'
    BY <2>1 DEF RInv, Pairs, TypeOK
  <2>4. Early' /\ PastPool' /\ Reported' /\ UplinksKnown' /\ MarkerEarned' /\ ExitKnown' /\ QuietExit'
    BY <2>1 DEF RInv, report
  <2>5. QED
    BY <2>2, <2>3, <2>4 DEF RInv
<1>5. CASE Abort
  <2>1. stage = "sites" /\ stage' = "aborting" /\ UNCHANGED <<next, report, marked, exit>>
        /\ job' = [p \in Pairs |-> IF job[p] = "queued" THEN "cancelled" ELSE job[p]]
    BY <1>5 DEF Abort
  <2>2. TypeOK'
    BY <2>1 DEF RInv, TypeOK, Stages, Jobs, report
  <2>3. \A p \in Pairs : job'[p] = job[p] \/ (job[p] = "queued" /\ job'[p] = "cancelled")
    BY <2>1
  <2>4. Early' /\ Behind' /\ PastPool' /\ Reported' /\ UplinksKnown' /\ MarkerEarned' /\ ExitKnown' /\ QuietExit'
    BY <2>1, <2>3 DEF RInv, report, Collected
  <2>5. QED
    BY <2>2, <2>4 DEF RInv
<1>6. CASE LeavePool
  BY <1>0, <1>6, CrashSafe DEF LeavePool
<1>7. CASE BeginUplinks
  <2>1. TypeOK'
    BY <1>7 DEF BeginUplinks, RInv, TypeOK, Stages, report
  <2>2. Early' /\ Behind' /\ PastPool' /\ Reported' /\ UplinksKnown' /\ MarkerEarned' /\ ExitKnown' /\ QuietExit'
    <3>1. next = PairCount + 1
      BY <1>7, RunAssumption DEF BeginUplinks, RInv, TypeOK
    <3>2. QED
      BY <1>7, <3>1 DEF BeginUplinks, RInv, report
  <2>3. QED
    BY <2>1, <2>2 DEF RInv
<1>8. CASE FinishUplinks
  <2>1. CASE Crash
    BY <1>0, <1>8, <2>1, NothingRuns, CrashSafe DEF FinishUplinks
  <2>2. CASE stage' = "report" /\ uplinks' \in {"complete", "broken"} /\ UNCHANGED <<job, next, errors, marked, exit>>
    <3>1. TypeOK'
      BY <1>8, <2>2 DEF FinishUplinks, RInv, TypeOK, Stages
    <3>2. Early' /\ Behind' /\ PastPool' /\ Reported' /\ UplinksKnown' /\ MarkerEarned' /\ ExitKnown' /\ QuietExit'
      BY <1>8, <2>2 DEF FinishUplinks, RInv
    <3>3. QED
      BY <3>1, <3>2 DEF RInv
  <2>3. QED
    BY <1>8, <2>1, <2>2 DEF FinishUplinks
<1>9. CASE Report
  <2>1. CASE Crash
    BY <1>0, <1>9, <2>1, NothingRuns, CrashSafe DEF Report
  <2>2. CASE stage' = "verdict" /\ UNCHANGED <<job, next, report, marked, exit>>
    <3>1. TypeOK'
      BY <1>9, <2>2 DEF Report, RInv, TypeOK, Stages, report
    <3>2. Early' /\ Behind' /\ PastPool' /\ Reported' /\ UplinksKnown' /\ MarkerEarned' /\ ExitKnown' /\ QuietExit'
      BY <1>9, <2>2 DEF Report, RInv, report
    <3>3. QED
      BY <3>1, <3>2 DEF RInv
  <2>3. QED
    BY <1>9, <2>1, <2>2 DEF Report
<1>10. CASE WriteMarker
  <2>1. CASE Crash
    BY <1>10, <2>1, NothingRuns, CrashSafe DEF WriteMarker
  <2>2. CASE marked' = TRUE /\ UNCHANGED <<stage, job, next, report, exit>>
    BY <1>10, <2>2 DEF WriteMarker, RInv, TypeOK, report, Running
  <2>3. QED
    BY <1>10, <2>1, <2>2 DEF WriteMarker
<1>11. CASE Return
  <2>1. Running = {}
    BY <1>11, NothingRuns DEF Return
  <2>2. stage' = "exited" /\ exit' \in {"ok", "failed"} /\ UNCHANGED <<job, next, report, marked>>
    BY <1>11 DEF Return
  <2>3. TypeOK' /\ QuietExit'
    BY <2>1, <2>2 DEF RInv, TypeOK, Stages, report, Running
  <2>4. Early' /\ Behind' /\ PastPool' /\ Reported' /\ UplinksKnown' /\ MarkerEarned' /\ ExitKnown'
    BY <2>2 DEF RInv, report
  <2>5. QED
    BY <2>3, <2>4 DEF RInv
<1>12. QED
  BY <1>1, <1>2, <1>3, <1>4, <1>5, <1>6, <1>7, <1>8, <1>9, <1>10, <1>11 DEF MainStep, Advance

LEMMA NextRun == RInv /\ [Next]_vars => RInv'
<1> SUFFICES ASSUME RInv, [Next]_vars PROVE RInv'
  OBVIOUS
<1>1. CASE UNCHANGED vars
  BY <1>1 DEF vars, RInv, TypeOK, Early, Behind, PastPool, Reported, UplinksKnown, MarkerEarned,
              ExitKnown, QuietExit, Running
<1>2. QED
  BY <1>1, MainSafe, WorkerSafe DEF Next, Exited

\* The invariant above holds in every reachable state: summaries are collected in
\* order, failures are in the report, the marker is earned.
THEOREM RunInvariant == Spec => []RInv
BY InitRun, NextRun, PTL DEF Spec

\* The process leaves no writer behind, however it ends.
THEOREM NoWriterOutlivesRun == Spec => []NoWriterLeft
<1>1. RInv => NoWriterLeft
  BY NothingRuns DEF RInv, QuietExit, NoWriterLeft
<1>2. QED
  BY <1>1, RunInvariant, PTL

-------------------------------------------------------------------------------
(* SyncRun implements RunPromise.                                            *)

LEMMA PromiseInit == Init => Promise!Init
<1> SUFFICES ASSUME Init PROVE Promise!Init
  OBVIOUS
<1>1. \A p \in Pairs : Outcome(p) = "open"
  BY DEF Init, Outcome
<1>2. QED
  BY <1>1 DEF Init, Promise!Init

\* A step that settles some pairs and touches nothing else of the abstract view.
LEMMA SettleStep ==
  ASSUME exit = "none", UNCHANGED <<uplinks, marked, exit>>,
         \A p \in Pairs : Outcome(p)' = Outcome(p)
                          \/ (Outcome(p) = "open" /\ Outcome(p)' \in {"complete", "broken"})
  PROVE  Promise!Settle
<1> DEFINE after == [p \in Pairs |-> Outcome(p)']
           view  == [p \in Pairs |-> Outcome(p)]
           done  == {p \in Pairs : view[p] = "open" /\ after[p] # "open"}
           to    == [p \in Pairs |-> IF p \in done THEN after[p] ELSE "complete"]
<1>1. \A p \in Pairs : after[p] = view[p] \/ (view[p] = "open" /\ after[p] \in {"complete", "broken"})
  OBVIOUS
<1>2. view' = after
  OBVIOUS
<1>3. DOMAIN after = Pairs /\ after = [p \in Pairs |-> after[p]]
  OBVIOUS
<1> HIDE DEF after, view
<1>4. to \in [Pairs -> Promise!Settled]
  BY <1>1 DEF Promise!Settled
<1>5. after = [p \in Pairs |-> IF p \in done THEN to[p] ELSE view[p]]
  BY <1>1, <1>3
<1>6. done \in SUBSET {p \in Pairs : view[p] = "open"}
  OBVIOUS
<1>7. QED
  BY <1>2, <1>4, <1>5, <1>6 DEF Promise!Settle, view

LEMMA WorkerPromise ==
  ASSUME RInv, NEW p \in Pairs, WorkerStep(p)
  PROVE  Promise!Settle
<1>1. UNCHANGED <<uplinks, marked, exit>> /\ stage' = stage
  BY DEF WorkerStep, Take, SiteReturns, SiteRaises, MarkReturns, MarkRaises, report
<1>2. \A q \in Pairs : q # p => job'[q] = job[q] /\ (q \in errors' <=> q \in errors)
  BY DEF WorkerStep, Take, SiteReturns, SiteRaises, MarkReturns, MarkRaises, report, RInv, TypeOK
<1>3. job[p] \in {"queued", "syncing", "marking"}
      /\ job'[p] \in {"syncing", "marking", "done", "failed", "raised"}
  BY DEF WorkerStep, Take, SiteReturns, SiteRaises, MarkReturns, MarkRaises, RInv, TypeOK
<1>4. Outcome(p) = "open" /\ Outcome(p)' \in {"open", "complete", "broken"}
  BY <1>3 DEF Outcome
<1>5. \A q \in Pairs : q # p => Outcome(q)' = Outcome(q)
  BY <1>2 DEF Outcome
<1>6. exit = "none"
  <2>1. job[p] = "queued" => stage = "sites"
    BY DEF WorkerStep, Take, SiteReturns, SiteRaises, MarkReturns, MarkRaises
  <2>2. job[p] \in {"syncing", "marking"} => Running # {}
    BY DEF Running
  <2>3. QED
    BY <1>3, <2>1, <2>2 DEF RInv, QuietExit, ExitKnown, TypeOK
<1>7. QED
  BY <1>1, <1>4, <1>5, <1>6, SettleStep

LEMMA MainPromise ==
  ASSUME RInv, MainStep
  PROVE  [Promise!Next]_(Promise!vars)
<1>0. exit = "none"
  BY DEF RInv, ExitKnown, TypeOK, MainStep, Advance, Discover, Link, LinkTo, PrerequisitesFail, Collect, Abort,
         LeavePool, BeginUplinks, FinishUplinks, Report, WriteMarker, Return
<1>c. ASSUME Crash, ~marked
      PROVE  Promise!Exit
  <2>1. \A p \in Pairs : Outcome(p)' = Outcome(p)
    BY <1>c DEF Crash, Outcome, report
  <2>2. QED
    BY <1>0, <1>c, <2>1 DEF Crash, report, Promise!Exit
<1>s. ASSUME UNCHANGED <<job, report, marked, exit>>
      PROVE  UNCHANGED Promise!vars
  <2>1. \A p \in Pairs : Outcome(p)' = Outcome(p)
    BY <1>s DEF Outcome, report
  <2>2. QED
    BY <1>s, <2>1 DEF report, Promise!vars
<1>1. stage # "verdict" /\ stage # "exited" => ~marked
  BY DEF RInv, MarkerEarned
<1>2. CASE Discover \/ PrerequisitesFail \/ Collect \/ LeavePool \/ BeginUplinks \/ Report
  BY <1>1, <1>2, <1>c, <1>s DEF Discover, PrerequisitesFail, Collect, LeavePool, BeginUplinks, Report, Promise!Next
<1>3. CASE Link
  <2>1. \A p \in Pairs : Outcome(p) = "open"
    BY <1>3 DEF RInv, Early, Link, LinkTo, Outcome
  <2>2. \A p \in Pairs : job'[p] \in {"dropped", "queued"}
    BY <1>3 DEF Link, LinkTo
  <2>3. \A p \in Pairs : Outcome(p)' \in {"open", "broken"}
    BY <2>2 DEF Outcome
  <2>4. Promise!Settle
    BY <1>0, <1>3, <2>1, <2>3, SettleStep DEF Link, LinkTo
  <2>5. QED
    BY <2>4 DEF Promise!Next
<1>4. CASE Abort
  <2>1. \A p \in Pairs : Outcome(p)' = Outcome(p)
    BY <1>4 DEF Abort, Outcome, report
  <2>2. QED
    BY <1>4, <2>1 DEF Abort, report, Promise!vars
<1>5. CASE FinishUplinks
  <2>1. CASE Crash
    BY <1>1, <1>5, <2>1, <1>c DEF FinishUplinks, Promise!Next
  <2>2. CASE stage' = "report" /\ uplinks' \in {"complete", "broken"} /\ UNCHANGED <<job, next, errors, marked, exit>>
    <3>1. \A p \in Pairs : job[p] \in Collected
      BY <1>5, RunAssumption DEF FinishUplinks, RInv, PastPool, Behind, Pairs
    <3>2. \A p \in Pairs : Outcome(p)' = Outcome(p) /\ Outcome(p) \in {"complete", "broken"}
      BY <2>2, <3>1 DEF Outcome, Collected
    <3>3. uplinks = "open"
      BY <1>5 DEF FinishUplinks, RInv, UplinksKnown
    <3>4. Promise!SettleCabling
      BY <1>0, <2>2, <3>2, <3>3 DEF Promise!SettleCabling, Promise!Settled
    <3>5. QED
      BY <3>4 DEF Promise!Next
  <2>3. QED
    BY <1>5, <2>1, <2>2 DEF FinishUplinks
<1>6. ASSUME stage = "verdict", errors = {}, uplinks = "complete"
      PROVE  Promise!Complete
  <2>1. \A p \in Pairs : job[p] \in Collected
    BY <1>6, RunAssumption DEF RInv, PastPool, Behind, Pairs
  <2>2. \A p \in Pairs : p \notin errors /\ job[p] = "done"
    BY <1>6, <2>1 DEF RInv, Reported, Collected
  <2>3. \A p \in Pairs : Outcome(p) = "complete"
    BY <2>2 DEF Outcome
  <2>4. QED
    BY <1>6, <2>3 DEF Promise!Complete
<1>7. CASE WriteMarker
  <2>1. CASE Crash
    BY <1>7, <2>1, <1>c DEF WriteMarker, Promise!Next
  <2>2. CASE marked' = TRUE /\ UNCHANGED <<stage, job, next, report, exit>>
    <3>1. \A p \in Pairs : Outcome(p)' = Outcome(p)
      BY <2>2 DEF Outcome, report
    <3>2. Promise!Mark
      BY <1>0, <1>6, <1>7, <2>2, <3>1 DEF WriteMarker, Promise!Mark, report
    <3>3. QED
      BY <3>2 DEF Promise!Next
  <2>3. QED
    BY <1>7, <2>1, <2>2 DEF WriteMarker
<1>8. CASE Return
  <2>1. \A p \in Pairs : Outcome(p)' = Outcome(p)
    BY <1>8 DEF Return, Outcome, report
  <2>2. CASE errors = {} /\ uplinks = "complete"
    BY <1>0, <1>6, <1>8, <2>1, <2>2 DEF Return, Promise!Exit, Promise!Next, report
  <2>3. CASE ~(errors = {} /\ uplinks = "complete")
    BY <1>0, <1>8, <2>1, <2>3 DEF Return, Promise!Exit, Promise!Next, report, RInv, MarkerEarned
  <2>4. QED
    BY <2>2, <2>3
<1>9. QED
  BY <1>2, <1>3, <1>4, <1>5, <1>7, <1>8 DEF MainStep, Advance

\* Status 0 and the marker stand for a complete run, and nothing settles after
\* the end of the process.
THEOREM Implements == Spec => KeepsPromise
<1>1. RInv /\ [Next]_vars => [Promise!Next]_(Promise!vars)
  <2> SUFFICES ASSUME RInv, [Next]_vars PROVE [Promise!Next]_(Promise!vars)
    OBVIOUS
  <2>1. CASE UNCHANGED vars
    <3>1. \A p \in Pairs : Outcome(p)' = Outcome(p)
      BY <2>1 DEF vars, Outcome
    <3>2. QED
      BY <2>1, <3>1 DEF vars, Promise!vars
  <2>2. QED
    BY <2>1, MainPromise, WorkerPromise DEF Next, Exited, Promise!Next
<1>2. QED
  BY <1>1, PromiseInit, RunInvariant, PTL DEF Spec, KeepsPromise, Promise!Spec

===============================================================================
