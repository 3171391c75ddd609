--------------------------- MODULE CronServiceProofs ---------------------------
(***************************************************************************)
(* Jobs and leases, for any number of jobs, names, keys and backends.  The *)
(* lease excludes because whoever is inside and has not lost its entry is  *)
(* the holder of it; what is scheduled can be stopped because registering  *)
(* a name stops the job that had it; and a job is a caller of the lock     *)
(* only while it runs.                                                     *)
(***************************************************************************)
EXTENDS CronService, TLAPS

Held == \A c \in Calls : pc[c] = "inside" /\ c \notin lost => Holds(c)

TriesLeft == \A c \in Calls : pc[c] = "delay" => tries[c] > 0

LeaseInv == LeaseTypeOK /\ Held /\ TriesLeft

JobTypes == /\ made \subseteq Jobs /\ jobs \in [Names -> Jobs \cup {Nobody}]
            /\ scheduled \subseteq Jobs /\ enabled \subseteq Jobs
            /\ running \subseteq Jobs /\ runs \in [Jobs -> Nat]

NamedRight == \A n \in Names : jobs[n] # Nobody => NameOf[jobs[n]] = n

IInv == LeaseInv /\ JobTypes /\ NamedRight /\ ScheduledIsCurrent /\ OneExecutionEach
--------------------------------------------------------------------------------
(* One attempt at a key: a late holder is robbed of its entry, and marked. *)
LEMMA AttemptKeeps ==
  ASSUME LeaseAssumption, LeaseInv,
         NEW c \in Calls, NEW b \in Backends, NEW n \in 0 .. Attempts,
         pc[c] # "inside", Attempt(c, b, n),
         home' = [home EXCEPT ![c] = b], UNCHANGED <<backend, extends>>
  PROVE  LeaseInv' /\ \A d \in Calls : d # c => pc'[d] = pc[d]
<1> USE DEF LeaseInv, LeaseTypeOK
<1>0. KeyOf[c] \in Keys /\ Attempts \in Nat
  BY DEF LeaseAssumption
<1>1. CASE MayTake(b, KeyOf[c])
  <2>1. /\ TakeAway(b, KeyOf[c], c)
        /\ pc' = [pc EXCEPT ![c] = "inside"] /\ tries' = [tries EXCEPT ![c] = 0]
    BY <1>1 DEF Attempt
  <2>2. LeaseTypeOK'
    BY <1>0, <2>1 DEF TakeAway
  <2>3. TriesLeft'
    BY <2>1 DEF TriesLeft
  <2>4. ASSUME NEW d \in Calls, pc'[d] = "inside", d \notin lost' PROVE Holds(d)'
    <3>1. CASE d = c
      BY <1>0, <2>1, <3>1 DEF TakeAway, Holds
    <3>2. CASE d # c
      <4>1. Holds(d) /\ home'[d] = home[d]
        BY <2>1, <2>4, <3>2 DEF TakeAway, Held
      <4>2. holder[b][KeyOf[c]] # d
        BY <2>1, <2>4, LeaseAssumption DEF TakeAway, LeaseAssumption
      <4>3. KeyOf[d] \in Keys /\ home[d] \in Backends
        BY DEF LeaseAssumption
      <4>4. holder'[home[d]][KeyOf[d]] = holder[home[d]][KeyOf[d]]
        BY <1>0, <2>1, <4>1, <4>2, <4>3 DEF TakeAway, Holds
      <4>5. QED BY <4>1, <4>4 DEF Holds
    <3>3. QED BY <3>1, <3>2
  <2>5. QED BY <2>1, <2>2, <2>3, <2>4 DEF Held
<1>2. CASE ~MayTake(b, KeyOf[c])
  <2>1. /\ pc' = [pc EXCEPT ![c] = IF n = 0 THEN "idle" ELSE "delay"]
        /\ tries' = [tries EXCEPT ![c] = n]
        /\ UNCHANGED <<holder, lapsed, lost>>
    BY <1>2 DEF Attempt
  <2>2. LeaseTypeOK'
    BY <2>1
  <2>3. TriesLeft'
    BY <1>0, <2>1 DEF TriesLeft
  <2>4. Held'
    BY <2>1 DEF Held, Holds
  <2>5. QED BY <2>1, <2>2, <2>3, <2>4
<1>3. QED BY <1>1, <1>2

(* Calling the method under the lock.                                      *)
LEMMA AcquireKeeps ==
  ASSUME LeaseAssumption, LeaseInv, NEW c \in Calls, Acquire(c)
  PROVE  LeaseInv' /\ \A d \in Calls : d # c => pc'[d] = pc[d]
<1>1. backend \in Backends /\ Attempts \in 0 .. Attempts
  BY DEF LeaseInv, LeaseTypeOK, LeaseAssumption
<1>2. QED BY <1>1, AttemptKeeps DEF Acquire

(* The steps of the leases alone; no caller begins.                        *)
LEMMA LeaseKeeps ==
  ASSUME LeaseAssumption, LeaseInv, Lease
  PROVE  LeaseInv' /\ \A d \in Calls : pc'[d] # "idle" => pc[d] # "idle"
<1> USE DEF LeaseInv, LeaseTypeOK
<1>0. KeyOf \in [Calls -> Keys] /\ Nobody \notin Calls /\ MaxCloses \in Nat /\ MaxExtends \in Nat
  BY DEF LeaseAssumption
<1>1. ASSUME NEW c \in Calls, Retry(c)
      PROVE  LeaseInv' /\ \A d \in Calls : pc'[d] # "idle" => pc[d] # "idle"
  <2>1. tries[c] - 1 \in 0 .. Attempts /\ home[c] \in Backends
    BY <1>1 DEF Retry, TriesLeft, LeaseAssumption
  <2>2. home' = [home EXCEPT ![c] = home[c]]
    BY <1>1 DEF Retry
  <2>3. LeaseInv' /\ \A d \in Calls : d # c => pc'[d] = pc[d]
    BY <1>1, <2>1, <2>2, AttemptKeeps DEF Retry
  <2>4. QED BY <1>1, <2>3 DEF Retry
<1>2. ASSUME NEW c \in Calls, Release(c)
      PROVE  LeaseInv' /\ \A d \in Calls : pc'[d] # "idle" => pc[d] # "idle"
  <2>1. LeaseTypeOK' /\ TriesLeft'
    BY <1>0, <1>2 DEF Release, TriesLeft
  <2>2. ASSUME NEW d \in Calls, pc'[d] = "inside", d \notin lost' PROVE Holds(d)'
    <3>1. d # c /\ Holds(d) /\ home'[d] = home[d]
      BY <1>2, <2>2 DEF Release, Held
    <3>2. holder'[home[d]][KeyOf[d]] = holder[home[d]][KeyOf[d]]
      <4>1. CASE Holds(c)
        <5>1. ~(home[d] = home[c] /\ KeyOf[d] = KeyOf[c])
          BY <3>1, <4>1 DEF Holds
        <5>2. holder' = [holder EXCEPT ![home[c]][KeyOf[c]] = Nobody]
          BY <1>2, <4>1 DEF Release
        <5>3. QED BY <1>0, <5>1, <5>2
      <4>2. CASE ~Holds(c)
        BY <1>2, <4>2 DEF Release
      <4>3. QED BY <4>1, <4>2
    <3>3. QED BY <3>1, <3>2 DEF Holds
  <2>3. QED BY <1>2, <2>1, <2>2 DEF Held, Release
<1>3. ASSUME NEW c \in Calls, Extend(c)
      PROVE  LeaseInv' /\ \A d \in Calls : pc'[d] # "idle" => pc[d] # "idle"
  BY <1>3 DEF Extend, Held, Holds, TriesLeft
<1>4. ASSUME NEW b \in Backends, NEW k \in Keys, Lapse(b, k)
      PROVE  LeaseInv' /\ \A d \in Calls : pc'[d] # "idle" => pc[d] # "idle"
  BY <1>4 DEF Lapse, Held, Holds, TriesLeft
<1>5. ASSUME NEW b \in Backends, NEW k \in Keys, TimerReleases(b, k)
      PROVE  LeaseInv' /\ \A d \in Calls : pc'[d] # "idle" => pc[d] # "idle"
  <2>1. LeaseTypeOK' /\ TriesLeft'
    BY <1>5 DEF TimerReleases, TakeAway, TriesLeft
  <2>2. ASSUME NEW d \in Calls, pc'[d] = "inside", d \notin lost' PROVE Holds(d)'
    <3>1. Holds(d) /\ home'[d] = home[d]
      BY <1>5, <2>2 DEF TimerReleases, TakeAway, Held
    <3>2. holder[b][k] # d
      BY <1>0, <1>5, <2>2 DEF TimerReleases, TakeAway
    <3>3. holder'[home[d]][KeyOf[d]] = holder[home[d]][KeyOf[d]]
      BY <1>0, <1>5, <3>1, <3>2 DEF TimerReleases, TakeAway, Holds
    <3>4. QED BY <3>1, <3>3 DEF Holds
  <2>3. QED BY <1>5, <2>1, <2>2 DEF Held, TimerReleases
<1>6. ASSUME Close
      PROVE  LeaseInv' /\ \A d \in Calls : pc'[d] # "idle" => pc[d] # "idle"
  <2>1. LeaseTypeOK' /\ TriesLeft'
    BY <1>0, <1>6 DEF Close, TriesLeft, Backends
  <2>2. ASSUME NEW d \in Calls, pc'[d] = "inside", d \notin lost' PROVE Holds(d)'
    <3>1. Holds(d) /\ home'[d] = home[d]
      BY <1>6, <2>2 DEF Close, Held
    <3>2. home[d] # backend
      BY <1>0, <1>6, <2>2, <3>1 DEF Close, Holds
    <3>3. QED BY <1>0, <1>6, <3>1, <3>2 DEF Close, Holds
  <2>3. QED BY <1>6, <2>1, <2>2 DEF Held, Close
<1>7. QED BY <1>1, <1>2, <1>3, <1>4, <1>5, <1>6 DEF Lease
--------------------------------------------------------------------------------
(* What execute() leaves behind, when S is scheduled before it.            *)
LEMMA ExecuteKeeps ==
  ASSUME LeaseAssumption, CronAssumption, LeaseInv, JobTypes, OneExecutionEach,
         NEW j \in Jobs, NEW S \in SUBSET Jobs, Execute(j, S)
  PROVE  /\ LeaseInv' /\ OneExecutionEach'
         /\ scheduled' \subseteq S /\ running' \subseteq Jobs /\ runs' \in [Jobs -> Nat]
<1> USE DEF JobTypes
<1>1. CASE Begins(j)
  <2>1. /\ running' = running \cup {j} /\ runs' = [runs EXCEPT ![j] = runs[j] + 1]
        /\ scheduled' = S /\ Acquire(j)
    BY <1>1 DEF Execute
  <2>2. LeaseInv' /\ \A d \in Jobs : d # j => pc'[d] = pc[d]
    BY <2>1, AcquireKeeps DEF Jobs
  <2>3. \A d \in Jobs : pc'[d] # "idle" => d \in running'
    BY <2>1, <2>2 DEF OneExecutionEach
  <2>4. \A d \in Jobs : MaxRuns[d] # 0 => runs'[d] <= MaxRuns[d]
    BY <1>1, <2>1 DEF OneExecutionEach, Begins, Exhausted, CronAssumption
  <2>5. QED BY <2>1, <2>2, <2>3, <2>4 DEF OneExecutionEach
<1>2. CASE ~Begins(j)
  <2>1. /\ scheduled' \subseteq S /\ UNCHANGED <<running, runs, leaseVars>>
    BY <1>2 DEF Execute
  <2>2. QED
    BY <2>1 DEF OneExecutionEach, leaseVars, LeaseInv, LeaseTypeOK, Held, Holds, TriesLeft
<1>3. QED BY <1>1, <1>2

(* What start() leaves behind: it schedules an enabled job.                *)
LEMMA StartKeeps ==
  ASSUME LeaseAssumption, CronAssumption, LeaseInv, JobTypes, OneExecutionEach,
         NEW j \in Jobs, NEW S \in SUBSET Jobs, NEW E \in SUBSET Jobs, Start(j, S, E)
  PROVE  /\ LeaseInv' /\ OneExecutionEach'
         /\ scheduled' \subseteq S \cup {j} /\ (j \in scheduled' => j \in S \cup E)
         /\ running' \subseteq Jobs /\ runs' \in [Jobs -> Nat]
<1>1. CASE j \notin S /\ j \in E /\ j \in RunOnInit
  <2>1. Execute(j, S \cup {j}) /\ S \cup {j} \in SUBSET Jobs
    BY <1>1 DEF Start
  <2>2. QED BY <1>1, <2>1, ExecuteKeeps
<1>2. CASE ~(j \notin S /\ j \in E /\ j \in RunOnInit)
  <2>1. /\ scheduled' \in {S, S \cup {j}} /\ (scheduled' # S => j \in E)
        /\ UNCHANGED <<running, runs, leaseVars>>
    BY <1>2 DEF Start
  <2>2. QED
    BY <2>1 DEF JobTypes, OneExecutionEach, leaseVars, LeaseInv, LeaseTypeOK, Held, Holds, TriesLeft
<1>3. QED BY <1>1, <1>2
--------------------------------------------------------------------------------
(* Registering a name: the job that had it is no longer scheduled.         *)
LEMMA RegisterKeeps ==
  ASSUME LeaseAssumption, CronAssumption, IInv, NEW j \in Jobs, RegisterJob(j)
  PROVE  IInv'
<1> DEFINE S == scheduled \ {jobs[NameOf[j]]}
           E == IF j \in StartsEnabled THEN enabled \cup {j} ELSE enabled
<1>1. S \in SUBSET Jobs /\ E \in SUBSET Jobs /\ enabled \subseteq E
      /\ NameOf \in [Jobs -> Names]
  BY DEF IInv, JobTypes, CronAssumption
<1>2. /\ made' = made \cup {j} /\ jobs' = [jobs EXCEPT ![NameOf[j]] = j]
      /\ enabled' = E /\ Start(j, S, E)
  BY DEF RegisterJob
<1>3. /\ LeaseInv' /\ OneExecutionEach'
      /\ scheduled' \subseteq S \cup {j} /\ (j \in scheduled' => j \in S \cup E)
      /\ running' \subseteq Jobs /\ runs' \in [Jobs -> Nat]
  BY <1>1, <1>2, StartKeeps DEF IInv
<1>4. JobTypes'
  BY <1>1, <1>2, <1>3 DEF IInv, JobTypes
<1>5. ASSUME NEW i \in scheduled' PROVE jobs'[NameOf[i]] = i /\ i \in enabled'
  <2>1. CASE i = j
    <3>1. j \notin S
      BY DEF IInv, ScheduledIsCurrent
    <3>2. QED BY <1>1, <1>2, <1>3, <1>5, <2>1, <3>1 DEF IInv, JobTypes
  <2>2. CASE i # j
    <3>1. i \in S
      BY <1>3, <1>5, <2>2
    <3>2. jobs[NameOf[i]] = i /\ i \in enabled /\ NameOf[i] # NameOf[j]
      BY <3>1 DEF IInv, ScheduledIsCurrent
    <3>3. QED BY <1>1, <1>2, <3>2 DEF IInv, JobTypes
  <2>3. QED BY <2>1, <2>2
<1>6. NamedRight'
  BY <1>1, <1>2 DEF IInv, NamedRight, JobTypes
<1>7. QED BY <1>3, <1>4, <1>5, <1>6 DEF IInv, ScheduledIsCurrent

(* A job that is due, or started by name, stays the one it was.            *)
LEMMA FireKeeps ==
  ASSUME LeaseAssumption, CronAssumption, IInv,
         (\E j \in Jobs : Fire(j)) \/ (\E n \in Names : StartJob(n))
  PROVE  IInv'
<1>1. ASSUME NEW j \in Jobs, Fire(j) PROVE IInv'
  <2>1. Execute(j, scheduled) /\ scheduled \in SUBSET Jobs /\ UNCHANGED <<made, jobs, enabled>>
    BY <1>1 DEF Fire, IInv, JobTypes
  <2>2. /\ LeaseInv' /\ OneExecutionEach'
        /\ scheduled' \subseteq scheduled /\ running' \subseteq Jobs /\ runs' \in [Jobs -> Nat]
    BY <2>1, ExecuteKeeps DEF IInv
  <2>3. QED BY <2>1, <2>2 DEF IInv, JobTypes, NamedRight, ScheduledIsCurrent
<1>2. ASSUME NEW n \in Names, StartJob(n) PROVE IInv'
  <2> DEFINE j == jobs[n]
  <2>1. /\ j \in Jobs /\ Start(j, scheduled, enabled) /\ UNCHANGED <<made, jobs, enabled>>
        /\ scheduled \in SUBSET Jobs /\ enabled \in SUBSET Jobs
    BY <1>2 DEF StartJob, IInv, JobTypes
  <2>0. NameOf[j] = n /\ jobs[NameOf[j]] = j
    BY <1>2 DEF StartJob, IInv, NamedRight
  <2>2. /\ LeaseInv' /\ OneExecutionEach'
        /\ scheduled' \subseteq scheduled \cup {j} /\ (j \in scheduled' => j \in scheduled \cup enabled)
        /\ running' \subseteq Jobs /\ runs' \in [Jobs -> Nat]
    BY <2>1, StartKeeps DEF IInv
  <2>3. QED BY <2>0, <2>1, <2>2 DEF IInv, JobTypes, NamedRight, ScheduledIsCurrent
<1>3. QED BY <1>1, <1>2

(* Stopping, deleting, disabling and clearing only unschedule.             *)
LEMMA UnscheduleKeeps ==
  ASSUME LeaseAssumption, CronAssumption, IInv,
         \/ ClearAll
         \/ \E n \in Names : DeleteJob(n) \/ StopJob(n) \/ EnableJob(n) \/ DisableJob(n)
  PROVE  IInv'
<1>1. UNCHANGED <<leaseVars, made, running, runs>>
  BY DEF ClearAll, DeleteJob, StopJob, EnableJob, DisableJob
<1>2. LeaseInv' /\ OneExecutionEach'
  BY <1>1 DEF leaseVars, IInv, LeaseInv, LeaseTypeOK, Held, Holds, TriesLeft, OneExecutionEach
<1>3. CASE ClearAll
  <2>1. JobTypes' /\ NamedRight'
    BY <1>1, <1>3 DEF ClearAll, IInv, JobTypes, NamedRight
  <2>2. \A j \in scheduled : j \in Registered
    BY DEF IInv, JobTypes, ScheduledIsCurrent, Registered, LeaseAssumption, CronAssumption, Jobs
  <2>3. ScheduledIsCurrent'
    BY <1>3, <2>2 DEF ClearAll, ScheduledIsCurrent
  <2>4. QED BY <1>2, <2>1, <2>3 DEF IInv
<1>4. ASSUME NEW n \in Names, DeleteJob(n) PROVE IInv'
  <2>1. JobTypes' /\ NamedRight'
    BY <1>1, <1>4 DEF DeleteJob, IInv, JobTypes, NamedRight
  <2>2. ScheduledIsCurrent'
    BY <1>4 DEF DeleteJob, IInv, JobTypes, ScheduledIsCurrent
  <2>3. QED BY <1>2, <2>1, <2>2 DEF IInv
<1>5. ASSUME NEW n \in Names, StopJob(n) PROVE IInv'
  BY <1>1, <1>2, <1>5 DEF StopJob, IInv, JobTypes, NamedRight, ScheduledIsCurrent
<1>6. ASSUME NEW n \in Names, EnableJob(n) PROVE IInv'
  BY <1>1, <1>2, <1>6 DEF EnableJob, IInv, JobTypes, NamedRight, ScheduledIsCurrent
<1>7. ASSUME NEW n \in Names, DisableJob(n) PROVE IInv'
  BY <1>1, <1>2, <1>7 DEF DisableJob, IInv, JobTypes, NamedRight, ScheduledIsCurrent
<1>8. QED BY <1>3, <1>4, <1>5, <1>6, <1>7

(* The inductive invariant is kept by every step.                          *)
LEMMA Step ==
  ASSUME LeaseAssumption, CronAssumption, IInv, [Next]_vars PROVE IInv'
<1>1. CASE Lease
  <2>1. LeaseInv' /\ \A d \in Calls : pc'[d] # "idle" => pc[d] # "idle"
    BY <1>1, LeaseKeeps DEF IInv
  <2>2. QED
    BY <1>1, <2>1 DEF Lease, cronVars, IInv, JobTypes, NamedRight, ScheduledIsCurrent,
                      OneExecutionEach, Jobs
<1>2. ASSUME NEW j \in Jobs, Done(j) PROVE IInv'
  <2>1. LeaseInv'
    BY <1>2 DEF Done, leaseVars, IInv, LeaseInv, LeaseTypeOK, Held, Holds, TriesLeft
  <2>2. QED
    BY <1>2, <2>1 DEF Done, leaseVars, IInv, JobTypes, NamedRight, ScheduledIsCurrent,
                      OneExecutionEach
<1>3. CASE UNCHANGED vars
  BY <1>3 DEF vars, leaseVars, cronVars, IInv, LeaseInv, LeaseTypeOK, Held, Holds, TriesLeft,
              JobTypes, NamedRight, ScheduledIsCurrent, OneExecutionEach
<1>4. QED
  BY <1>1, <1>2, <1>3, RegisterKeeps, FireKeeps, UnscheduleKeeps DEF Next

(* It holds at the start.                                                  *)
LEMMA Initially == ASSUME LeaseAssumption, CronAssumption, Init PROVE IInv
<1>1. LeaseInv
  BY DEF Init, LeaseInit, LeaseInv, LeaseTypeOK, Held, TriesLeft, Backends, LeaseAssumption
<1>2. JobTypes /\ NamedRight /\ ScheduledIsCurrent
  BY DEF Init, JobTypes, NamedRight, ScheduledIsCurrent
<1>3. OneExecutionEach
  BY DEF Init, LeaseInit, OneExecutionEach, Jobs, CronAssumption
<1>4. QED BY <1>1, <1>2, <1>3 DEF IInv

(* Leases, types, names and executions are in order in every reachable     *)
(* state.                                                                  *)
THEOREM Invariance == Spec => []IInv
<1>1. Init => IInv
  BY LeaseAssumption, CronAssumption, Initially
<1>2. IInv /\ [Next]_vars => IInv'
  BY LeaseAssumption, CronAssumption, Step
<1>3. QED BY <1>1, <1>2, PTL DEF Spec

(* Every variable keeps its type.                                          *)
THEOREM TypeCorrect == Spec => []TypeOK
<1>1. IInv => TypeOK
  BY DEF IInv, LeaseInv, JobTypes, TypeOK
<1>2. QED BY <1>1, Invariance, PTL

(* Two methods run under one key of one backend only while one of them has *)
(* outlived its lease.                                                     *)
THEOREM Exclusion == Spec => []LeaseExcludes
<1>1. ASSUME IInv PROVE LeaseExcludes
  <2> SUFFICES ASSUME NEW c \in Calls, NEW d \in Calls, pc[c] = "inside", pc[d] = "inside",
                      c # d, KeyOf[c] = KeyOf[d], home[c] = home[d],
                      c \notin lost, d \notin lost
               PROVE  FALSE
    BY DEF LeaseExcludes
  <2>1. Holds(c) /\ Holds(d)
    BY <1>1 DEF IInv, LeaseInv, Held
  <2>2. QED BY <2>1 DEF Holds
<1>2. QED BY <1>1, Invariance, PTL

(* No job that was replaced, deleted, disabled or cleared goes on firing.  *)
THEOREM NoStrayJobs == Spec => []ScheduledIsCurrent
<1>1. IInv => ScheduledIsCurrent
  BY DEF IInv
<1>2. QED BY <1>1, Invariance, PTL

(* The executions of a job do not overlap, and there are at most maxRuns.  *)
THEOREM Executions == Spec => []OneExecutionEach
<1>1. IInv => OneExecutionEach
  BY DEF IInv
<1>2. QED BY <1>1, Invariance, PTL
================================================================================
