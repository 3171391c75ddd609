------------------------------- MODULE WorkerPool ------------------------------
(***************************************************************************)
(* `WorkerPoolManager` of packages/worker/src/worker.pool.ts with the      *)
(* threads it talks to (worker-bootstrap.ts).  A task is posted to the     *)
(* next thread in turn and entered in `pending` with a timer; the answer,  *)
(* the timer and shutdown race for the entry.  Threads may die with the    *)
(* tasks they hold, and answers are on their way while all else happens.   *)
(***************************************************************************)
EXTENDS Naturals, FiniteSets

CONSTANTS Tasks,     \* calls of execute(), one promise each
          PoolSize,  \* options.poolSize
          MaxExits   \* bound: threads that die by themselves

ASSUME PoolAssumption == PoolSize \in Nat /\ MaxExits \in Nat

Workers == 0 .. (PoolSize - 1)
Answers == {"result", "error"}
Outcomes == Answers \cup {"timeout", "closed"}   \* of a task that was accepted
Refusals == {"refused", "thrown"}                \* of one that was not

VARIABLES
  started,   \* start() has run
  stop,      \* shutdown(): "no", "waiting" for terminate(), "done"
  workers,   \* the threads in this.workers
  doomed,    \* the threads shutdown() has asked to terminate
  alive,     \* the threads that run
  next,      \* workerIndex
  pending,   \* keys of the map
  armed,     \* the timers that will fire
  task,      \* what the caller of execute() knows
  inbox,     \* per thread, the tasks posted to it and not answered
  answers,   \* messages on their way back
  exits

poolVars == <<started, stop, workers, doomed>>
vars == <<poolVars, next, alive, pending, armed, task, inbox, answers, exits>>

TypeOK == /\ started \in BOOLEAN /\ stop \in {"no", "waiting", "done"}
          /\ workers \in {{}, Workers} /\ doomed \subseteq Workers
          /\ alive \subseteq Workers
          /\ next \in Nat /\ (PoolSize > 0 => next \in Workers)
          /\ pending \subseteq Tasks /\ armed \subseteq Tasks
          /\ task \in [Tasks -> {"new", "waiting"} \cup Refusals \cup Outcomes]
          /\ inbox \in [Workers -> SUBSET Tasks]
          /\ answers \subseteq Tasks \X Answers
          /\ exits \in Nat

Init == /\ started = FALSE /\ stop = "no" /\ workers = {} /\ doomed = {}
        /\ alive = {} /\ next = 0 /\ pending = {} /\ armed = {}
        /\ task = [t \in Tasks |-> "new"]
        /\ inbox = [w \in Workers |-> {}] /\ answers = {}
        /\ exits = 0

(* start() looks at `started` alone: also after shutdown() was called.     *)
Start == /\ ~started /\ started' = TRUE
         /\ workers' = Workers /\ alive' = Workers
         /\ UNCHANGED <<stop, doomed, next, pending, armed, task, inbox, answers, exits>>
--------------------------------------------------------------------------------
Closed == stop # "no" \/ workers = {}

Refuse(t) ==
  /\ task[t] = "new" /\ Closed
  /\ task' = [task EXCEPT ![t] = "refused"]
  /\ UNCHANGED <<poolVars, next, alive, pending, armed, inbox, answers, exits>>

Following(w) == IF w + 1 = PoolSize THEN 0 ELSE w + 1   \* (w + 1) % length

(* The task gets its entry and its timer, and takes its turn.              *)
Enlist(t) ==
  /\ task[t] = "new" /\ ~Closed
  /\ pending' = pending \cup {t} /\ armed' = armed \cup {t}
  /\ next' = Following(next)
  /\ UNCHANGED <<poolVars, alive, answers, exits>>

(* A thread that is gone takes the message and never answers.              *)
Execute(t) ==
  /\ Enlist(t)
  /\ task' = [task EXCEPT ![t] = "waiting"]
  /\ inbox' = [inbox EXCEPT ![next] = IF next \in alive THEN @ \cup {t} ELSE @]

(* postMessage throws, as for a payload it cannot clone: the caller is     *)
(* told at once, and the entry and the timer are left behind.              *)
ExecuteThrows(t) ==
  /\ Enlist(t)
  /\ task' = [task EXCEPT ![t] = "thrown"]
  /\ UNCHANGED inbox

(* The thread answers: a result, or an error, which may be its own timer.  *)
Answer(w, t, kind) ==
  /\ t \in inbox[w]
  /\ inbox' = [inbox EXCEPT ![w] = @ \ {t}]
  /\ answers' = answers \cup {<<t, kind>>}
  /\ UNCHANGED <<poolVars, next, alive, pending, armed, task, exits>>

(* A promise is settled once; to do it again is no error.                  *)
SettleAll(S, o) ==
  task' = [t \in Tasks |-> IF t \in S /\ task[t] = "waiting" THEN o ELSE task[t]]

(* Mutant of Deliver: the timer is left to fire.                           *)
DeliverOnly(t, kind) ==
  /\ <<t, kind>> \in answers
  /\ answers' = answers \ {<<t, kind>>}
  /\ pending' = pending \ {t} /\ SettleAll(pending \cap {t}, kind)
  /\ UNCHANGED <<poolVars, next, alive, armed, inbox, exits>>

(* handleMessage: an answer nobody waits for is dropped.                   *)
Deliver(t, kind) ==
  /\ <<t, kind>> \in answers
  /\ answers' = answers \ {<<t, kind>>}
  /\ pending' = pending \ {t}
  /\ armed' = armed \ (pending \cap {t})
  /\ SettleAll(pending \cap {t}, kind)
  /\ UNCHANGED <<poolVars, next, alive, inbox, exits>>

TimerFires(t) ==
  /\ t \in armed
  /\ armed' = armed \ {t} /\ pending' = pending \ {t}
  /\ SettleAll(pending \cap {t}, "timeout")
  /\ UNCHANGED <<poolVars, next, alive, inbox, answers, exits>>

(* A thread dies with what it holds; handleWorkerExit only logs it.        *)
Die(w) == /\ w \in alive
          /\ alive' = alive \ {w}
          /\ inbox' = [inbox EXCEPT ![w] = {}]
          /\ UNCHANGED <<poolVars, next, pending, armed, task, answers>>

Exit(w) == exits < MaxExits /\ Die(w) /\ exits' = exits + 1
--------------------------------------------------------------------------------
(* Mutant of Shutdown: the map is cleared before its timers are.           *)
ShutdownClearsFirst ==
  /\ stop = "no" /\ stop' = "waiting" /\ doomed' = workers
  /\ pending' = {}
  /\ UNCHANGED <<started, workers, task, armed, next, alive, inbox, answers, exits>>

(* shutdown() up to its await: whoever waits is rejected.                  *)
Shutdown ==
  /\ stop = "no" /\ stop' = "waiting" /\ doomed' = workers
  /\ SettleAll(pending, "closed")
  /\ pending' = {} /\ armed' = armed \ pending
  /\ UNCHANGED <<started, workers, next, alive, inbox, answers, exits>>

Terminate(w) == stop = "waiting" /\ w \in doomed /\ Die(w) /\ UNCHANGED exits

Finish == /\ stop = "waiting" /\ doomed \cap alive = {}
          /\ stop' = "done" /\ workers' = {}
          /\ UNCHANGED <<started, doomed, next, alive, pending, armed, task,
                         inbox, answers, exits>>
--------------------------------------------------------------------------------
Next == \/ Start \/ Shutdown \/ Finish
        \/ \E w \in Workers : Exit(w) \/ Terminate(w)
        \/ \E t \in Tasks : \/ Refuse(t) \/ Execute(t) \/ ExecuteThrows(t)
                            \/ TimerFires(t)
                            \/ \E kind \in Answers : Deliver(t, kind)
        \/ \E w \in Workers, t \in Tasks, kind \in Answers : Answer(w, t, kind)

Spec == Init /\ [][Next]_vars

(* Timers fire.  Nothing is asked of the threads.                          *)
FairSpec == Spec /\ \A t \in Tasks : WF_vars(TimerFires(t))
--------------------------------------------------------------------------------
(* Nobody waits without an entry of the map and an armed timer, and none   *)
(* is left for a task that is over (worker.pool.ts:88-95, 123-127,         *)
(* 152-158), except until the timer fires for one that postMessage threw   *)
(* out (:106); after shutdown() there are none at all.                     *)
OneTimerEach ==
  /\ armed = pending
  /\ {t \in Tasks : task[t] = "waiting"} \subseteq pending
  /\ \A t \in pending : task[t] \in {"waiting", "thrown"}
  /\ stop # "no" => pending = {}

(* The pool is a TaskService: outcomes are final, everyone gets one even   *)
(* if every thread is dead, and nothing is accepted after shutdown.        *)
Service == INSTANCE TaskService WITH state <- task, closed <- (stop # "no")
ImplementsService == Service!FairSpec

(* "Graceful shutdown ... waits for in-flight tasks" (README.md:17): a     *)
(* task in flight is not rejected because the pool shuts down.             *)
ShutdownWaits == [][\A t \in Tasks : task[t] = "waiting" => task'[t] # "closed"]_vars

(* "Execute a task on an available worker" (worker.pool.ts:73): as long as *)
(* a thread runs, a task that is accepted is given to one that runs.       *)
GoesToAvailable ==
  [][alive # {} => \A t \in Tasks : task[t] = "new" /\ task'[t] = "waiting"
                     => \E w \in alive : t \in inbox'[w]]_vars
================================================================================
