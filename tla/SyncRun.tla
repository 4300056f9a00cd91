------------------------------- MODULE SyncRun -------------------------------
(***************************************************************************)
(* One sync process from main() to its exit: SyncEngine.run with its site  *)
(* groups in a thread pool, the isolation of a failing site, the uplink    *)
(* pass, the report and the success marker.                                *)
(*                                                                         *)
(* What a worker does to NetBox is DeviceSync; here a site either syncs,   *)
(* syncs with errors recorded, or raises.  Pairs are numbered in the order *)
(* in which the controller or SITE_MAP lists them, which is the order in   *)
(* which the pool takes them and the main thread collects them.  Linking   *)
(* drops every pair of a slug that two pairs share, so a group that is run *)
(* has one pair.                                                           *)
(***************************************************************************)
EXTENDS Naturals, FiniteSets

CONSTANTS
    PairCount,    \* configured or discovered site pairs
    Slugs,        \* NetBox sites that they may resolve to
    MaxWorkers,   \* MAX_WORKERS
    DryRun,       \* DRY_RUN
    MarkStale,    \* MARK_STALE_OFFLINE
    Heartbeat     \* HEARTBEAT_FILE is set

ASSUME RunAssumption ==
    /\ PairCount \in Nat \ {0}
    /\ MaxWorkers \in Nat
    /\ {DryRun, MarkStale, Heartbeat} \subseteq BOOLEAN

Pairs  == 1..PairCount
Stages == {"discover", "link", "sites", "aborting", "uplinks", "report", "verdict", "exited"}
Jobs   == {"unlinked", "dropped", "queued", "syncing", "marking", "done", "failed", "raised", "cancelled"}

VARIABLES
    stage,       \* where the main thread is
    job,         \* pair -> what became of its group
    next,        \* the pair whose summary the main thread waits for
    errors,      \* pairs with errors in the report, link errors included
    uplinks,     \* the uplink pass: "open", "complete" or "broken"
    marked,      \* write_success_marker has run
    exit         \* "none", "ok" (status 0) or "failed" (status 1, or a traceback)

vars == <<stage, job, next, errors, uplinks, marked, exit>>
report == <<errors, uplinks>>

Linked  == {p \in Pairs : job[p] \notin {"unlinked", "dropped"}}
Running == {p \in Pairs : job[p] \in {"syncing", "marking"}}
Workers == LET m == IF MaxWorkers < Cardinality(Linked) THEN MaxWorkers ELSE Cardinality(Linked)
           IN  IF m < 1 THEN 1 ELSE m

Init ==
    /\ stage = "discover"
    /\ job = [p \in Pairs |-> "unlinked"]
    /\ next = 1
    /\ errors = {} /\ uplinks = "open"
    /\ marked = FALSE
    /\ exit = "none"

\* An exception that nothing below main() catches: the interpreter exits with a
\* traceback and status 1.
Crash ==
    /\ stage' = "exited" /\ exit' = "failed"
    /\ UNCHANGED <<job, next, report, marked>>

\* Login and the list of sites; a controller that refuses ends the run.
Discover ==
    /\ stage = "discover"
    /\ \/ stage' = "link" /\ UNCHANGED <<job, next, report, marked, exit>>
       \/ Crash

\* _link_existing_sites: pairs that resolve to one slug are dropped, each a link
\* error; a site that carries another id refuses the stamp, a link error of a
\* pair that is synced all the same.
MutantDropUnrecorded(slug, refused) ==
    LET clash == {p \in Pairs : \E q \in Pairs \ {p} : slug[q] = slug[p]} IN
      /\ stage = "link" /\ refused \subseteq Pairs \ clash
      /\ errors' = refused
      /\ job' = [p \in Pairs |-> IF p \in clash THEN "dropped" ELSE "queued"]
      /\ stage' = "sites"
      /\ UNCHANGED <<next, uplinks, marked, exit>>
MutantKeepsClash(slug, refused) ==
    LET clash == {p \in Pairs : \E q \in Pairs \ {p} : slug[q] = slug[p]} IN
      /\ stage = "link" /\ refused \subseteq Pairs \ clash
      /\ errors' = clash \cup refused
      /\ job' = [p \in Pairs |-> "queued"]
      /\ stage' = "sites"
      /\ UNCHANGED <<next, uplinks, marked, exit>>
LinkTo(slug, refused) ==
    LET clash == {p \in Pairs : \E q \in Pairs \ {p} : slug[q] = slug[p]} IN
      /\ stage = "link" /\ refused \subseteq Pairs \ clash
      /\ errors' = clash \cup refused
      /\ job' = [p \in Pairs |-> IF p \in clash THEN "dropped" ELSE "queued"]
      /\ stage' = "sites"
      /\ UNCHANGED <<next, uplinks, marked, exit>>
Link == \E slug \in [Pairs -> Slugs], refused \in SUBSET Pairs : LinkTo(slug, refused)

\* ensure_prerequisites runs on the main thread before the first group and is
\* not guarded.
PrerequisitesFail ==
    /\ stage = "sites" /\ ~DryRun /\ Linked # {}
    /\ \A p \in Linked : job[p] = "queued"
    /\ Crash

\* A worker takes the next group.  One worker is the main thread itself, which
\* goes no further after an exception.
Take(p) ==
    /\ stage = "sites" /\ job[p] = "queued"
    /\ \A q \in 1..(p - 1) : job[q] # "queued"
    /\ Cardinality(Running) < Workers
    /\ Workers = 1 => \A q \in Pairs : job[q] # "raised"
    /\ job' = [job EXCEPT ![p] = "syncing"]
    /\ UNCHANGED <<stage, next, report, marked, exit>>

\* _run_site returns, with or without recorded errors.  Offline marking follows
\* when it is enabled and the client history could be read.
SiteReturns(p) ==
    /\ job[p] = "syncing"
    /\ errors' = errors \/ errors' = errors \cup {p}
    /\ \E then \in {"done"} \cup (IF MarkStale THEN {"marking"} ELSE {}) :
         job' = [job EXCEPT ![p] = then]
    /\ UNCHANGED <<stage, next, uplinks, marked, exit>>

\* _run_site raises: the exception is recorded and marking is skipped.
SiteRaises(p) ==
    /\ job[p] = "syncing"
    /\ job' = [job EXCEPT ![p] = "failed"]
    /\ errors' = errors \cup {p}
    /\ UNCHANGED <<stage, next, uplinks, marked, exit>>

\* _mark_stale is outside the guarded block of _run_group.
MarkReturns(p) ==
    /\ job[p] = "marking"
    /\ job' = [job EXCEPT ![p] = "done"]
    /\ UNCHANGED <<stage, next, report, marked, exit>>
MarkRaises(p) ==
    /\ job[p] = "marking"
    /\ job' = [job EXCEPT ![p] = "raised"]
    /\ UNCHANGED <<stage, next, report, marked, exit>>

\* The main thread collects the summaries in order.  An exception in one of them
\* cancels what no worker has taken; leaving the pool waits for the others.
MutantFailedNotCollected ==
    /\ stage = "sites" /\ next \in Pairs
    /\ job[next] \in {"dropped", "done"}
    /\ next' = next + 1
    /\ UNCHANGED <<stage, job, report, marked, exit>>
Collect ==
    /\ stage = "sites" /\ next \in Pairs
    /\ job[next] \in {"dropped", "done", "failed"}
    /\ next' = next + 1
    /\ UNCHANGED <<stage, job, report, marked, exit>>

Abort ==
    /\ stage = "sites" /\ next \in Pairs /\ job[next] = "raised"
    /\ stage' = "aborting"
    /\ job' = [p \in Pairs |-> IF job[p] = "queued" THEN "cancelled" ELSE job[p]]
    /\ UNCHANGED <<next, report, marked, exit>>

MutantNoWait == stage = "aborting" /\ Crash
LeavePool    == stage = "aborting" /\ Running = {} /\ Crash

BeginUplinks ==
    /\ stage = "sites" /\ next > PairCount
    /\ stage' = "uplinks"
    /\ UNCHANGED <<job, next, report, marked, exit>>

\* _finish_uplink_cables: expected errors are recorded, any other ends the run.
FinishUplinks ==
    /\ stage = "uplinks"
    /\ \/ stage' = "report" /\ uplinks' \in {"complete", "broken"}
          /\ UNCHANGED <<job, next, errors, marked, exit>>
       \/ Crash

\* The summary, the cable skip report and the metrics file.
Report ==
    /\ stage = "report"
    /\ \/ stage' = "verdict" /\ UNCHANGED <<job, next, report, marked, exit>>
       \/ Crash

\* main: the marker is written only for a report without errors; a write that
\* fails is one more traceback.
WriteMarker ==
    /\ stage = "verdict" /\ errors = {} /\ uplinks = "complete" /\ Heartbeat /\ ~marked
    /\ \/ marked' = TRUE /\ UNCHANGED <<stage, job, next, report, exit>>
       \/ Crash

Return ==
    /\ stage = "verdict"
    /\ IF errors = {} /\ uplinks = "complete"
       THEN marked = Heartbeat /\ exit' = "ok"
       ELSE exit' = "failed"
    /\ stage' = "exited"
    /\ UNCHANGED <<job, next, report, marked>>

WorkerStep(p) ==
    Take(p) \/ SiteReturns(p) \/ SiteRaises(p) \/ MarkReturns(p) \/ MarkRaises(p)
Advance ==
    \/ Discover \/ PrerequisitesFail \/ Collect \/ Abort \/ LeavePool
    \/ BeginUplinks \/ FinishUplinks \/ Report \/ WriteMarker \/ Return
MainStep == Link \/ Advance
Exited == stage = "exited" /\ UNCHANGED vars

Next == MainStep \/ (\E p \in Pairs : WorkerStep(p)) \/ Exited

Spec == Init /\ [][Next]_vars

\* Every thread keeps running: no call below a worker or the main thread blocks
\* for ever, since each HTTP call has a timeout (cli.py sets one for all sockets).
Fairness == WF_vars(MainStep) /\ \A p \in Pairs : WF_vars(WorkerStep(p))
FairSpec == Spec /\ Fairness

-------------------------------------------------------------------------------
(* Properties.                                                               *)

TypeOK ==
    /\ stage \in Stages
    /\ job \in [Pairs -> Jobs]
    /\ next \in 1..(PairCount + 1)
    /\ errors \in SUBSET Pairs
    /\ uplinks \in {"open", "complete", "broken"}
    /\ marked \in BOOLEAN
    /\ exit \in {"none", "ok", "failed"}

\* The abstract view of a run: see RunPromise.
Outcome(p) ==
    IF job[p] \notin {"dropped", "done", "failed", "raised"} THEN "open"
    ELSE IF job[p] = "done" /\ p \notin errors THEN "complete" ELSE "broken"

Promise == INSTANCE RunPromise WITH outcome <- [p \in Pairs |-> Outcome(p)], cabling <- uplinks

\* The process keeps the promise: the marker and status 0 mean that every pair,
\* one dropped by a link conflict included, and the uplinks were synced without
\* an error (write_success_marker: "a run that caught site or client errors does
\* not pretend to have succeeded").
KeepsPromise == Promise!Spec

\* When the process is gone, so are its writers: the lock file that the container
\* takes around the process covers every write (README, No distributed lock).
NoWriterLeft == stage \in {"uplinks", "report", "verdict", "exited"} => Running = {}

\* No site keeps another one from being synced (README, One site cannot abort
\* the others).
EverySiteAttempted ==
    exit # "none" /\ (\E p \in Pairs : job[p] \in {"failed", "raised"})
      => \A q \in Pairs : job[q] \notin {"queued", "cancelled"}

\* Whatever fails, the process ends.
ProcessEnds == <>(exit # "none")

===============================================================================
