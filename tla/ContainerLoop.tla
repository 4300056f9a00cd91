---------------------------- MODULE ContainerLoop ----------------------------
(***************************************************************************)
(* The long-running container: docker/entrypoint.sh runs the sync in a     *)
(* loop, docker/healthcheck.sh judges the loop by the age of the marker    *)
(* file, and LOCK_FILE keeps instances that share it from overlapping.     *)
(*                                                                         *)
(* The sync process itself is what RunPromise says of it: it ends with the *)
(* marker written and status 0, or with another status and no marker.      *)
(* Time passes in ticks, one second of the wait loop each; Slack stands    *)
(* for the 60 seconds of grace in the health check.                        *)
(***************************************************************************)
EXTENDS Naturals

CONSTANTS
    Instances,    \* containers
    None,         \* nobody holds the lock
    SharedLock,   \* LOCK_FILE is set, and is one file for all instances
    Interval,     \* SYNC_INTERVAL_SECONDS, above zero
    Slack,
    MaxRun,       \* longest run
    Budget        \* bound: stops, kills and faults of the marker file

ASSUME LoopAssumption ==
    /\ None \notin Instances
    /\ SharedLock \in BOOLEAN
    /\ Interval \in Nat \ {0} /\ Slack \in Nat
    /\ MaxRun \in 1..(Interval + Slack)
    /\ Budget \in Nat

VARIABLES
    pc,          \* instance -> where the shell is
    stop,        \* instance -> stop_requested
    left,        \* instance -> ticks left in the wait or in the run
    age,         \* instance -> age of the marker file, Never without one
    complete,    \* history: instance -> age of its last complete run
    steady,      \* history: instance -> nothing has failed since a complete run
    lock,        \* holder of the lock file
    budget

vars == <<pc, stop, left, age, complete, steady, lock, budget>>
files == <<age, complete>>

Places == {"loop", "running", "marked", "success", "wait", "stopped", "aborted", "down"}
Ended  == {"stopped", "aborted", "down"}

\* healthcheck.sh.  Ages stop counting where the check no longer tells them apart.
MutantMaxAge == 2 * Interval
MaxAge     == 2 * Interval + Slack
Never      == 2 * Interval + Slack + 2
Healthy(i) == age[i] <= MaxAge

Older(a) == IF a < Never - 1 THEN a + 1 ELSE a

Init ==
    /\ pc = [i \in Instances |-> "loop"]
    /\ stop = [i \in Instances |-> FALSE]
    /\ left = [i \in Instances |-> 0]
    /\ age = [i \in Instances |-> Never]
    /\ complete = [i \in Instances |-> Never]
    /\ steady = [i \in Instances |-> FALSE]
    /\ lock = None
    /\ budget = Budget

Release(i) == lock' = IF lock = i THEN None ELSE lock

\* The head of the loop: the stop flag, then flock -n, then the process.  An
\* instance that does not get the lock has failed this cycle.
Leave(i) ==
    /\ pc[i] = "loop" /\ stop[i]
    /\ pc' = [pc EXCEPT ![i] = "stopped"]
    /\ UNCHANGED <<stop, left, files, steady, lock, budget>>

Start(i) ==
    /\ pc[i] = "loop" /\ ~stop[i]
    /\ SharedLock => lock = None
    /\ lock' = IF SharedLock THEN i ELSE lock
    /\ pc' = [pc EXCEPT ![i] = "running"]
    /\ \E d \in 1..MaxRun : left' = [left EXCEPT ![i] = d]
    /\ UNCHANGED <<stop, files, steady, budget>>

\* interruptible_sleep is entered unless a stop was requested meanwhile.
AfterCycle(i) ==
    /\ pc' = [pc EXCEPT ![i] = IF stop[i] THEN "loop" ELSE "wait"]
    /\ left' = [left EXCEPT ![i] = Interval]

LockRefused(i) ==
    /\ pc[i] = "loop" /\ ~stop[i] /\ SharedLock /\ lock # None
    /\ AfterCycle(i)
    /\ steady' = [steady EXCEPT ![i] = FALSE]
    /\ UNCHANGED <<stop, files, lock, budget>>

\* The process writes the marker at the end of a complete run, then exits.
Complete(i) ==
    /\ pc[i] = "running" /\ left[i] = 0
    /\ pc' = [pc EXCEPT ![i] = "marked"]
    /\ age' = [age EXCEPT ![i] = 0]
    /\ complete' = [complete EXCEPT ![i] = 0]
    /\ steady' = [steady EXCEPT ![i] = TRUE]
    /\ UNCHANGED <<stop, left, lock, budget>>

ExitOk(i) ==
    /\ pc[i] = "marked"
    /\ Release(i)
    /\ pc' = [pc EXCEPT ![i] = "success"]
    /\ UNCHANGED <<stop, left, files, steady, budget>>

\* Errors in the report, a marker that cannot be written, a traceback, or a
\* process killed on its own.
MutantFailureTouches(i) ==
    /\ pc[i] \in {"running", "marked"}
    /\ Release(i)
    /\ AfterCycle(i)
    /\ age' = [age EXCEPT ![i] = 0]
    /\ steady' = [steady EXCEPT ![i] = FALSE]
    /\ UNCHANGED <<stop, complete, budget>>
ExitFailed(i) ==
    /\ pc[i] \in {"running", "marked"}
    /\ Release(i)
    /\ AfterCycle(i)
    /\ steady' = [steady EXCEPT ![i] = FALSE]
    /\ UNCHANGED <<stop, files, budget>>

\* record_success.  When the file cannot be written it returns 1, which ends a
\* shell that runs under set -e; opening the file may have touched it.
Record(i) ==
    /\ pc[i] = "success"
    /\ age' = [age EXCEPT ![i] = 0]
    /\ AfterCycle(i)
    /\ UNCHANGED <<stop, complete, steady, lock, budget>>
RecordFails(i) ==
    /\ pc[i] = "success" /\ budget > 0
    /\ budget' = budget - 1
    /\ age' = age \/ age' = [age EXCEPT ![i] = 0]
    /\ pc' = [pc EXCEPT ![i] = "aborted"]
    /\ UNCHANGED <<stop, left, complete, steady, lock>>

\* The wait ends when its ticks are over or a stop was requested.
MutantSleepsOn(i) ==
    /\ pc[i] = "wait" /\ left[i] = 0 /\ ~stop[i]
    /\ pc' = [pc EXCEPT ![i] = "loop"]
    /\ UNCHANGED <<stop, left, files, steady, lock, budget>>
Wake(i) ==
    /\ pc[i] = "wait" /\ (left[i] = 0 \/ stop[i])
    /\ pc' = [pc EXCEPT ![i] = "loop"]
    /\ UNCHANGED <<stop, left, files, steady, lock, budget>>

\* One second: runs and waits get shorter, files get older.  Everything else in
\* the loop takes no time.
MutantNeverCounts ==
    /\ \A i \in Instances :
         \/ pc[i] \in Ended
         \/ pc[i] \in {"running", "wait"} /\ left[i] > 0 /\ ~(pc[i] = "wait" /\ stop[i])
    /\ left' = [i \in Instances |-> IF pc[i] = "running" THEN left[i] - 1 ELSE left[i]]
    /\ age' = [i \in Instances |-> Older(age[i])]
    /\ complete' = [i \in Instances |-> Older(complete[i])]
    /\ UNCHANGED <<pc, stop, steady, lock, budget>>
MutantCountsBelowZero ==
    /\ \A i \in Instances :
         \/ pc[i] \in Ended
         \/ pc[i] \in {"running", "wait"} /\ ~(pc[i] = "wait" /\ stop[i])
    /\ left' = [i \in Instances |-> IF pc[i] \in Ended THEN left[i] ELSE left[i] - 1]
    /\ age' = [i \in Instances |-> Older(age[i])]
    /\ complete' = [i \in Instances |-> Older(complete[i])]
    /\ UNCHANGED <<pc, stop, steady, lock, budget>>
Tick ==
    /\ \A i \in Instances :
         \/ pc[i] \in Ended
         \/ pc[i] \in {"running", "wait"} /\ left[i] > 0 /\ ~(pc[i] = "wait" /\ stop[i])
    /\ left' = [i \in Instances |-> IF pc[i] \in Ended THEN left[i] ELSE left[i] - 1]
    /\ age' = [i \in Instances |-> Older(age[i])]
    /\ complete' = [i \in Instances |-> Older(complete[i])]
    /\ UNCHANGED <<pc, stop, steady, lock, budget>>

\* docker stop: the trap sets the flag when the command in progress has ended.
RequestStop(i) ==
    /\ pc[i] \notin Ended /\ ~stop[i] /\ budget > 0
    /\ budget' = budget - 1
    /\ stop' = [stop EXCEPT ![i] = TRUE]
    /\ UNCHANGED <<pc, left, files, steady, lock>>

\* The container is killed: the end of its stop grace, memory, the host.
MutantLockSurvives(i) ==
    /\ pc[i] \notin Ended /\ budget > 0
    /\ budget' = budget - 1
    /\ pc' = [pc EXCEPT ![i] = "down"]
    /\ steady' = [steady EXCEPT ![i] = FALSE]
    /\ UNCHANGED <<stop, left, files, lock>>
Kill(i) ==
    /\ pc[i] \notin Ended /\ budget > 0
    /\ budget' = budget - 1
    /\ Release(i)
    /\ pc' = [pc EXCEPT ![i] = "down"]
    /\ steady' = [steady EXCEPT ![i] = FALSE]
    /\ UNCHANGED <<stop, left, files>>

\* The same container started again keeps its marker file, a new one has none.
Restart(i) ==
    /\ pc[i] \in Ended
    /\ pc' = [pc EXCEPT ![i] = "loop"]
    /\ stop' = [stop EXCEPT ![i] = FALSE]
    /\ age' = age \/ age' = [age EXCEPT ![i] = Never]
    /\ steady' = [steady EXCEPT ![i] = FALSE]
    /\ UNCHANGED <<left, complete, lock, budget>>

ShellStep(i) ==
    \/ Leave(i) \/ Start(i) \/ LockRefused(i) \/ Record(i) \/ Wake(i)
    \/ Complete(i) \/ ExitOk(i)
Fault(i) == ExitFailed(i) \/ RecordFails(i) \/ RequestStop(i) \/ Kill(i) \/ Restart(i)

Next == Tick \/ \E i \in Instances : ShellStep(i) \/ Fault(i)

Spec == Init /\ [][Next]_vars

\* Time passes, the shell goes on, and a process ends within MaxRun.
Fairness == WF_vars(Tick) /\ \A i \in Instances : WF_vars(ShellStep(i))
FairSpec == Spec /\ Fairness

-------------------------------------------------------------------------------
(* Properties.                                                               *)

\* Types; the wait loop of the shell never counts below zero, and the marker's
\* age stays in the range the health check tells apart.
TypeOK ==
    /\ pc \in [Instances -> Places]
    /\ stop \in [Instances -> BOOLEAN] /\ steady \in [Instances -> BOOLEAN]
    /\ left \in [Instances -> 0..(IF MaxRun > Interval THEN MaxRun ELSE Interval)]
    /\ age \in [Instances -> 0..Never] /\ complete \in [Instances -> 0..Never]
    /\ lock \in Instances \cup {None}
    /\ budget \in 0..Budget

\* The marker of an instance is never younger than its last complete run: a run
\* that failed, was refused the lock or was killed does not look healthy
\* (entrypoint.sh: "per-site and per-client errors exit non-zero and must not
\* look like a healthy sync").
HealthIsEarned == \A i \in Instances : Healthy(i) => complete[i] <= age[i]

\* A loop whose runs all succeed within Interval + Slack stays healthy from its
\* first success on, through the wait and the run that follow (healthcheck.sh:
\* two intervals and a minute).
SteadyStaysHealthy == \A i \in Instances : steady[i] /\ pc[i] \notin Ended => Healthy(i)

\* Instances that share the lock file never sync at the same time, whoever was
\* killed while holding it, and a lock that nobody uses is free.
LockCoversRun ==
    SharedLock => \A i \in Instances : lock = i <=> pc[i] \in {"running", "marked"}

\* A requested stop ends the loop, from a run as from a wait.
StopHonoured == \A i \in Instances : stop[i] ~> pc[i] \in Ended

\* As long as some loop is neither stopped nor killed, syncs keep being started,
\* although each instance may find the lock taken whenever it looks.
KeepsSyncing ==
    <>[](\E i \in Instances : pc[i] \notin Ended)
      => []<>(\E i \in Instances : pc[i] = "running")

===============================================================================
