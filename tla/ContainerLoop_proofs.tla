------------------------ MODULE ContainerLoop_proofs ------------------------
(* Proofs about ContainerLoop, for any containers, waits and lengths of runs. *)
EXTENDS ContainerLoop, TLAPS

----------------------------------------------------------------------------
\* The inductive invariant

\* The marker and the last complete run age together; between the end of a run
\* and its record no time passes.
Earned(i) ==
    /\ complete[i] <= age[i]
    /\ pc[i] \in {"marked", "success"} => complete[i] = 0

\* What is left of the age limit covers what is left of the cycle.
InTime(i) == steady[i] =>
    /\ pc[i] \in {"marked", "success"} => age[i] = 0
    /\ pc[i] = "wait" => age[i] + left[i] <= Interval
    /\ pc[i] = "loop" => age[i] <= Interval
    /\ pc[i] = "running" => age[i] + left[i] <= MaxAge

Sound(i) == Earned(i) /\ InTime(i)
IInv == TypeOK /\ LockCoversRun /\ \A i \in Instances : Sound(i)

----------------------------------------------------------------------------
\* The steps

\* A step of one instance leaves the files, the place and the history of the
\* others alone.
LEMMA OthersGoOn ==
  ASSUME TypeOK, NEW i \in Instances, ShellStep(i) \/ Fault(i)
  PROVE  \A j \in Instances \ {i} :
           /\ pc'[j] = pc[j] /\ left'[j] = left[j] /\ age'[j] = age[j]
           /\ complete'[j] = complete[j] /\ (steady'[j] <=> steady[j])
<1> USE DEF TypeOK, files
<1>1. CASE Leave(i) \/ Start(i) \/ LockRefused(i)  BY <1>1 DEF Leave, Start, LockRefused, AfterCycle
<1>2. CASE Complete(i) \/ ExitOk(i) \/ ExitFailed(i)
  BY <1>2 DEF Complete, ExitOk, ExitFailed, AfterCycle
<1>3. CASE Record(i) \/ RecordFails(i) \/ Wake(i)  BY <1>3 DEF Record, RecordFails, Wake, AfterCycle
<1>4. CASE RequestStop(i) \/ Kill(i) \/ Restart(i)  BY <1>4 DEF RequestStop, Kill, Restart
<1> QED  BY <1>1, <1>2, <1>3, <1>4 DEF ShellStep, Fault

LEMMA TypesKept ==
  ASSUME TypeOK, [Next]_vars
  PROVE  TypeOK'
<1> USE LoopAssumption DEF TypeOK, files, Places, Never, Release, AfterCycle
<1>1. CASE UNCHANGED vars  BY <1>1 DEF vars
<1>2. CASE Tick
  <2>1. \A i \in Instances : pc[i] \notin Ended => left[i] > 0  BY <1>2 DEF Tick
  <2>2. left' \in [Instances -> 0..(IF MaxRun > Interval THEN MaxRun ELSE Interval)]
    BY <1>2, <2>1 DEF Tick
  <2>3. age' \in [Instances -> 0..Never] /\ complete' \in [Instances -> 0..Never]
    BY <1>2 DEF Tick, Older
  <2> QED  BY <1>2, <2>2, <2>3 DEF Tick
<1>3. ASSUME NEW i \in Instances, ShellStep(i) \/ Fault(i)
      PROVE  TypeOK'
  <2>1. CASE Leave(i)  BY <2>1 DEF Leave
  <2>2. CASE Start(i)  BY <2>2 DEF Start
  <2>3. CASE LockRefused(i)  BY <2>3 DEF LockRefused
  <2>4. CASE Complete(i)  BY <2>4 DEF Complete
  <2>5. CASE ExitOk(i)  BY <2>5 DEF ExitOk
  <2>6. CASE ExitFailed(i)  BY <2>6 DEF ExitFailed
  <2>7. CASE Record(i)  BY <2>7 DEF Record
  <2>8. CASE RecordFails(i)  BY <2>8 DEF RecordFails
  <2>9. CASE Wake(i)  BY <2>9 DEF Wake
  <2>10. CASE RequestStop(i)  BY <2>10 DEF RequestStop
  <2>11. CASE Kill(i)  BY <2>11 DEF Kill
  <2>12. CASE Restart(i)  BY <2>12 DEF Restart
  <2> QED  BY <1>3, <2>1, <2>2, <2>3, <2>4, <2>5, <2>6, <2>7, <2>8, <2>9, <2>10, <2>11, <2>12
           DEF ShellStep, Fault
<1> QED  BY <1>1, <1>2, <1>3 DEF Next

LEMMA LockKept ==
  ASSUME TypeOK, LockCoversRun, [Next]_vars
  PROVE  LockCoversRun'
<1> USE LoopAssumption DEF TypeOK, LockCoversRun
<1>1. CASE UNCHANGED vars  BY <1>1 DEF vars
<1>2. CASE Tick  BY <1>2 DEF Tick
<1>3. ASSUME NEW i \in Instances, ShellStep(i) \/ Fault(i), SharedLock
      PROVE  \A j \in Instances : lock' = j <=> pc'[j] \in {"running", "marked"}
  <2>1. CASE Leave(i) \/ Wake(i)  BY <1>3, <2>1 DEF Leave, Wake
  <2>2. CASE Start(i)  BY <1>3, <2>2 DEF Start
  <2>3. CASE LockRefused(i) \/ Record(i)  BY <1>3, <2>3 DEF LockRefused, Record, AfterCycle
  <2>4. CASE Complete(i)  BY <1>3, <2>4 DEF Complete
  <2>5. CASE ExitOk(i) \/ ExitFailed(i)  BY <1>3, <2>5 DEF ExitOk, ExitFailed, Release, AfterCycle
  <2>6. CASE RecordFails(i) \/ RequestStop(i)  BY <1>3, <2>6 DEF RecordFails, RequestStop
  <2>7. CASE Kill(i)  BY <1>3, <2>7 DEF Kill, Release
  <2>8. CASE Restart(i)  BY <1>3, <2>8 DEF Restart, Ended
  <2> QED  BY <1>3, <2>1, <2>2, <2>3, <2>4, <2>5, <2>6, <2>7, <2>8 DEF ShellStep, Fault
<1> QED  BY <1>1, <1>2, <1>3 DEF Next

\* The age of the marker, in ticks and in steps.
LEMMA AgesKept ==
  ASSUME IInv, [Next]_vars
  PROVE  \A i \in Instances : Sound(i)'
<1> USE LoopAssumption DEF MaxAge, Never
<1>0. /\ TypeOK /\ \A i \in Instances : Earned(i) /\ InTime(i)
      /\ \A i \in Instances : age[i] \in 0..Never /\ complete[i] \in 0..Never /\ left[i] \in Nat
  BY DEF IInv, Sound, TypeOK
<1>1. CASE UNCHANGED vars
  BY <1>0, <1>1 DEF vars, Sound, Earned, InTime
<1>2. ASSUME Tick, NEW i \in Instances
      PROVE  Sound(i)'
  <2>1. /\ pc' = pc /\ steady' = steady /\ age'[i] = Older(age[i]) /\ complete'[i] = Older(complete[i])
    BY <1>2 DEF Tick
  <2>2. CASE pc[i] \in Ended  BY <1>0, <2>1, <2>2 DEF Sound, Earned, InTime, Older, Ended
  <2>3. CASE pc[i] \notin Ended
    <3>1. pc[i] \in {"running", "wait"} /\ left[i] > 0 /\ left'[i] = left[i] - 1
      BY <1>2, <2>3 DEF Tick
    <3>2. Earned(i)'  BY <1>0, <2>1, <3>1 DEF Earned, Older
    <3>3. InTime(i)'  BY <1>0, <2>1, <3>1 DEF InTime, Older
    <3> QED  BY <3>2, <3>3 DEF Sound
  <2> QED  BY <2>2, <2>3
<1>3. ASSUME NEW i \in Instances, ShellStep(i) \/ Fault(i)
      PROVE  Sound(i)'
  <2> USE DEF Sound, Earned, InTime, TypeOK, files
  <2>1. CASE Leave(i)  BY <1>0, <2>1 DEF Leave
  <2>2. CASE Start(i)
    <3>1. PICK d \in 1..MaxRun : left' = [left EXCEPT ![i] = d]  BY <2>2 DEF Start
    <3>2. pc'[i] = "running" /\ left'[i] = d /\ age' = age /\ complete' = complete /\ steady' = steady
      BY <1>0, <2>2, <3>1 DEF Start
    <3> QED  BY <1>0, <2>2, <3>1, <3>2 DEF Start
  <2>3. CASE LockRefused(i)  BY <1>0, <2>3 DEF LockRefused, AfterCycle
  <2>4. CASE Complete(i)  BY <1>0, <2>4 DEF Complete
  <2>5. CASE ExitOk(i)  BY <1>0, <2>5 DEF ExitOk
  <2>6. CASE ExitFailed(i)  BY <1>0, <2>6 DEF ExitFailed, AfterCycle
  <2>7. CASE Record(i)
    <3>1. /\ age'[i] = 0 /\ complete' = complete /\ steady' = steady
          /\ pc'[i] \in {"loop", "wait"} /\ left'[i] = Interval
      BY <1>0, <2>7 DEF Record, AfterCycle
    <3> QED  BY <1>0, <2>7, <3>1 DEF Record
  <2>8. CASE RecordFails(i)  BY <1>0, <2>8 DEF RecordFails
  <2>9. CASE Wake(i)  BY <1>0, <2>9 DEF Wake
  <2>10. CASE RequestStop(i)  BY <1>0, <2>10 DEF RequestStop
  <2>11. CASE Kill(i)  BY <1>0, <2>11 DEF Kill
  <2>12. CASE Restart(i)  BY <1>0, <2>12 DEF Restart
  <2> QED  BY <1>3, <2>1, <2>2, <2>3, <2>4, <2>5, <2>6, <2>7, <2>8, <2>9, <2>10, <2>11, <2>12
           DEF ShellStep, Fault
<1>4. ASSUME NEW i \in Instances, ShellStep(i) \/ Fault(i), NEW j \in Instances \ {i}
      PROVE  Sound(j)'
  BY <1>0, <1>4, OthersGoOn DEF Sound, Earned, InTime
<1> QED
  <2>1. ASSUME NEW i \in Instances, ShellStep(i) \/ Fault(i)
        PROVE  \A j \in Instances : Sound(j)'
    BY <1>3, <1>4, <2>1
  <2> QED  BY <1>1, <1>2, <2>1 DEF Next

----------------------------------------------------------------------------
\* The theorems

LEMMA LoopInvariant == Spec => []IInv
<1>1. Init => IInv
  BY LoopAssumption DEF Init, IInv, TypeOK, LockCoversRun, Sound, Earned, InTime, Never, Places
<1>2. IInv /\ [Next]_vars => IInv'
  BY TypesKept, LockKept, AgesKept DEF IInv
<1> QED  BY <1>1, <1>2, PTL DEF Spec

\* The wait never counts below zero, and no age leaves the range the check
\* tells apart.
THEOREM LoopTypes == Spec => []TypeOK
<1>1. IInv => TypeOK  BY DEF IInv
<1> QED  BY <1>1, LoopInvariant, PTL

\* Instances that share the lock never sync at once, and no lock outlives its run.
THEOREM RunsAreExclusive == Spec => []LockCoversRun
<1>1. IInv => LockCoversRun  BY DEF IInv
<1> QED  BY <1>1, LoopInvariant, PTL

\* Only a complete run makes a container healthy.
THEOREM HealthEarned == Spec => []HealthIsEarned
<1>1. IInv => HealthIsEarned  BY DEF IInv, Sound, Earned, HealthIsEarned
<1> QED  BY <1>1, LoopInvariant, PTL

\* A loop that works is healthy throughout, for every interval, and every run
\* that takes no longer than the interval and the slack.
THEOREM SteadyIsHealthy == Spec => []SteadyStaysHealthy
<1>1. IInv => SteadyStaysHealthy
  BY LoopAssumption DEF IInv, TypeOK, Sound, InTime, SteadyStaysHealthy, Healthy, MaxAge, Never, Places, Ended
<1> QED  BY <1>1, LoopInvariant, PTL

=============================================================================
