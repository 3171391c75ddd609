------------------------------ MODULE CronService ------------------------------
(***************************************************************************)
(* packages/cron: the CronJob objects of a CronService, each registered    *)
(* once under a name, whose callbacks are methods under @DistributedLock   *)
(* (LeaseLock): an execution of a job is a caller of the lock, and takes   *)
(* as long as acquiring the key and the method do.                         *)
(***************************************************************************)
EXTENDS LeaseLock

CONSTANTS Names,
          NameOf,        \* the name a job is registered under
          StartsEnabled, \* the jobs whose options do not say enabled: false
          RunOnInit,     \* options.runOnInit
          MaxRuns,       \* options.maxRuns, 0 when there is none
          RunBound       \* bound: executions of a job

Jobs == Calls

ASSUME CronAssumption == /\ NameOf \in [Jobs -> Names]
                         /\ StartsEnabled \subseteq Jobs /\ RunOnInit \subseteq Jobs
                         /\ MaxRuns \in [Jobs -> Nat] /\ RunBound \in Nat

VARIABLES
  made,       \* the jobs constructed so far
  jobs,       \* the map: the job under each name
  scheduled,  \* the jobs whose `task` is not null
  enabled,    \* _enabled
  running,    \* _isRunning
  runs        \* _runCount

cronVars == <<made, jobs, scheduled, enabled, running, runs>>
vars == <<leaseVars, cronVars>>

TypeOK == /\ LeaseTypeOK
          /\ made \subseteq Jobs /\ jobs \in [Names -> Jobs \cup {Nobody}]
          /\ scheduled \subseteq Jobs /\ enabled \subseteq Jobs
          /\ running \subseteq Jobs /\ runs \in [Jobs -> Nat]

Init == /\ LeaseInit
        /\ made = {} /\ jobs = [n \in Names |-> Nobody]
        /\ scheduled = {} /\ enabled = {} /\ running = {}
        /\ runs = [j \in Jobs |-> 0]

Registered == {jobs[n] : n \in Names} \ {Nobody}
--------------------------------------------------------------------------------
Exhausted(j) == MaxRuns[j] # 0 /\ runs[j] >= MaxRuns[j]

Begins(j) == j \notin running /\ ~Exhausted(j)

(* execute(): skipped while the job runs, stops it for good after maxRuns, *)
(* else calls the decorated method.  S is what is scheduled otherwise.     *)
Execute(j, S) ==
  IF Begins(j)
  THEN /\ running' = running \cup {j} /\ runs' = [runs EXCEPT ![j] = @ + 1]
       /\ scheduled' = S /\ Acquire(j)
  ELSE /\ scheduled' = IF j \in running THEN S ELSE S \ {j}
       /\ UNCHANGED <<running, runs, leaseVars>>

(* start(): nothing when it is scheduled or disabled.                      *)
Start(j, S, E) ==
  IF j \notin S /\ j \in E
  THEN IF j \in RunOnInit THEN Execute(j, S \cup {j})
       ELSE scheduled' = S \cup {j} /\ UNCHANGED <<running, runs, leaseVars>>
  ELSE scheduled' = S /\ UNCHANGED <<running, runs, leaseVars>>

Fire(j) == /\ j \in scheduled /\ runs[j] < RunBound
           /\ Execute(j, scheduled) /\ UNCHANGED <<made, jobs, enabled>>

(* Mutant of Done: the callback is not awaited.                            *)
DoneEarly(j) == /\ j \in running
                /\ running' = running \ {j}
                /\ UNCHANGED <<leaseVars, made, jobs, scheduled, enabled, runs>>

(* The callback has settled: finally.                                      *)
Done(j) == /\ j \in running /\ pc[j] = "idle"
           /\ running' = running \ {j}
           /\ UNCHANGED <<leaseVars, made, jobs, scheduled, enabled, runs>>
--------------------------------------------------------------------------------
(* Mutant of RegisterJob: the map's entry is overwritten, nothing stopped. *)
RegisterOver(j) ==
  LET E == IF j \in StartsEnabled THEN enabled \cup {j} ELSE enabled
  IN /\ j \notin made /\ made' = made \cup {j}
     /\ jobs' = [jobs EXCEPT ![NameOf[j]] = j]
     /\ enabled' = E /\ Start(j, scheduled, E)

(* A job of that name is stopped first, but what it executes goes on.      *)
RegisterJob(j) ==
  LET E == IF j \in StartsEnabled THEN enabled \cup {j} ELSE enabled
  IN /\ j \notin made /\ made' = made \cup {j}
     /\ jobs' = [jobs EXCEPT ![NameOf[j]] = j]
     /\ enabled' = E
     /\ Start(j, scheduled \ {jobs[NameOf[j]]}, E)

DeleteJob(n) == /\ jobs[n] # Nobody /\ jobs' = [jobs EXCEPT ![n] = Nobody]
                /\ scheduled' = scheduled \ {jobs[n]}
                /\ UNCHANGED <<leaseVars, made, enabled, running, runs>>

StartJob(n) == /\ jobs[n] # Nobody /\ runs[jobs[n]] < RunBound
               /\ Start(jobs[n], scheduled, enabled)
               /\ UNCHANGED <<made, jobs, enabled>>

StopJob(n) == /\ jobs[n] # Nobody /\ scheduled' = scheduled \ {jobs[n]}
              /\ UNCHANGED <<leaseVars, made, jobs, enabled, running, runs>>

(* Enabling does not schedule.                                             *)
EnableJob(n) == /\ jobs[n] # Nobody /\ enabled' = enabled \cup {jobs[n]}
                /\ UNCHANGED <<leaseVars, made, jobs, scheduled, running, runs>>

DisableJob(n) == /\ jobs[n] # Nobody /\ enabled' = enabled \ {jobs[n]}
                 /\ scheduled' = scheduled \ {jobs[n]}
                 /\ UNCHANGED <<leaseVars, made, jobs, running, runs>>

(* clearAll(): stopAll() and an empty map.                                 *)
ClearAll == /\ scheduled' = scheduled \ Registered
            /\ jobs' = [n \in Names |-> Nobody]
            /\ UNCHANGED <<leaseVars, made, enabled, running, runs>>
--------------------------------------------------------------------------------
Lease == /\ \/ \E c \in Calls : Retry(c) \/ Release(c) \/ Extend(c)
            \/ \E b \in Backends, k \in Keys : Lapse(b, k) \/ TimerReleases(b, k)
            \/ Close
         /\ UNCHANGED cronVars

Next == \/ Lease \/ ClearAll
        \/ \E j \in Jobs : Fire(j) \/ Done(j) \/ RegisterJob(j)
        \/ \E n \in Names : \/ DeleteJob(n) \/ StartJob(n) \/ StopJob(n)
                            \/ EnableJob(n) \/ DisableJob(n)

Spec == Init /\ [][Next]_vars

(* Time passes and timers fire; of the methods nothing is asked.           *)
FairSpec == /\ Spec
            /\ \A b \in Backends, k \in Keys :
                 WF_vars((Lapse(b, k) \/ TimerReleases(b, k)) /\ UNCHANGED cronVars)
--------------------------------------------------------------------------------
(* What is scheduled can be stopped: it is the job of its name, and it is  *)
(* enabled.  No job that was replaced, deleted or cleared goes on firing.  *)
ScheduledIsCurrent == \A j \in scheduled : jobs[NameOf[j]] = j /\ j \in enabled

(* A job's executions do not overlap, over stops, restarts and runOnInit:  *)
(* it is a caller of the lock only while it is running (cron.service.ts:   *)
(* 103), and it runs at most maxRuns times.                                *)
OneExecutionEach == \A j \in Jobs : /\ pc[j] # "idle" => j \in running
                                    /\ MaxRuns[j] # 0 => runs[j] <= MaxRuns[j]
================================================================================
