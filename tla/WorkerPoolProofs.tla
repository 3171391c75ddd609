---------------------------- MODULE WorkerPoolProofs ---------------------------
(***************************************************************************)
(* The pool of worker threads, for any number of tasks, threads and exits: *)
(* nobody waits without an entry in the map and an armed timer, nothing    *)
(* else is in the map but what postMessage threw out, and the pool         *)
(* implements TaskService.                                                 *)
(***************************************************************************)
EXTENDS WorkerPool, TLAPS

IInv == TypeOK /\ OneTimerEach

TaskStates == {"new", "waiting"} \cup Refusals \cup Outcomes
--------------------------------------------------------------------------------
LEMMA Initially == ASSUME PoolAssumption, Init PROVE IInv
<1>1. TypeOK
  <2>1. PoolSize > 0 => 0 \in Workers
    BY DEF PoolAssumption, Workers
  <2>2. QED BY <2>1 DEF Init, TypeOK
<1>2. OneTimerEach
  BY DEF Init, OneTimerEach
<1>3. QED BY <1>1, <1>2 DEF IInv

(* To settle promises changes those that wait, and no others.              *)
LEMMA Settled ==
  ASSUME task \in [Tasks -> TaskStates], NEW S, NEW o \in Outcomes, SettleAll(S, o)
  PROVE  /\ task' \in [Tasks -> TaskStates]
         /\ \A t \in Tasks : /\ t \in S /\ task[t] = "waiting" => task'[t] = o
                             /\ t \notin S \/ task[t] # "waiting" => task'[t] = task[t]
         /\ o # "waiting"
<1>1. o \in TaskStates /\ o # "waiting"
  BY DEF TaskStates, Outcomes, Answers
<1>2. QED BY <1>1 DEF SettleAll

(* A turn taken: workerIndex stays within the pool.                        *)
LEMMA TurnTaken ==
  ASSUME PoolAssumption, IInv, NEW t \in Tasks, Enlist(t)
  PROVE  next \in Workers /\ next' \in Workers \cap Nat
<1>1. PoolSize \in Nat /\ PoolSize > 0 /\ next \in Workers
  <2>1. workers = Workers /\ Workers # {}
    BY DEF Enlist, Closed, IInv, TypeOK
  <2>2. PoolSize > 0
    BY <2>1 DEF Workers, PoolAssumption
  <2>3. QED BY <2>2 DEF IInv, TypeOK, PoolAssumption
<1>2. next' = (IF next + 1 = PoolSize THEN 0 ELSE next + 1)
  BY DEF Enlist, Following
<1>3. QED BY <1>1, <1>2 DEF Workers

(* A task that is accepted gets its entry and its timer; so does one that  *)
(* is thrown out.                                                          *)
LEMMA ExecuteKeeps ==
  ASSUME PoolAssumption, IInv, NEW t \in Tasks, Execute(t) \/ ExecuteThrows(t) PROVE IInv'
<1>1. Enlist(t) /\ \E o \in {"waiting", "thrown"} : task' = [task EXCEPT ![t] = o]
  BY DEF Execute, ExecuteThrows
<1>2. TypeOK'
  <2>1. next' \in Workers \cap Nat /\ next \in Workers
    BY <1>1, TurnTaken
  <2>2. inbox' \in [Workers -> SUBSET Tasks]
    BY DEF Execute, ExecuteThrows, IInv, TypeOK
  <2>3. task' \in [Tasks -> {"new", "waiting"} \cup Refusals \cup Outcomes]
    BY <1>1 DEF IInv, TypeOK, Refusals
  <2>4. QED BY <1>1, <2>1, <2>2, <2>3 DEF Enlist, IInv, TypeOK, poolVars
<1>3. OneTimerEach'
  BY <1>1 DEF Enlist, Closed, poolVars, IInv, TypeOK, OneTimerEach
<1>4. QED BY <1>2, <1>3 DEF IInv

(* An answer is heard, or dropped when nobody waits for it any more.       *)
LEMMA DeliverKeeps ==
  ASSUME IInv, NEW t \in Tasks, NEW kind \in Answers, Deliver(t, kind) PROVE IInv'
<1>1. /\ task' \in [Tasks -> TaskStates]
      /\ \A u \in Tasks : /\ u \in pending \cap {t} => task'[u] # "waiting"
                          /\ u \notin pending \cap {t} => task'[u] = task[u]
  <2>1. task \in [Tasks -> TaskStates] /\ kind \in Outcomes
        /\ SettleAll(pending \cap {t}, kind)
    BY DEF Deliver, IInv, TypeOK, TaskStates, Outcomes
  <2>2. QED BY <2>1, Settled
<1>2. TypeOK'
  BY <1>1 DEF Deliver, IInv, TypeOK, TaskStates, poolVars
<1>3. OneTimerEach'
  BY <1>1 DEF Deliver, IInv, TypeOK, OneTimerEach, poolVars
<1>4. QED BY <1>2, <1>3 DEF IInv

(* The timer wins the race.                                                *)
LEMMA TimerKeeps ==
  ASSUME IInv, NEW t \in Tasks, TimerFires(t) PROVE IInv'
<1>1. /\ task' \in [Tasks -> TaskStates]
      /\ \A u \in Tasks : /\ u \in pending \cap {t} => task'[u] # "waiting"
                          /\ u \notin pending \cap {t} => task'[u] = task[u]
  <2>1. task \in [Tasks -> TaskStates] /\ "timeout" \in Outcomes
        /\ SettleAll(pending \cap {t}, "timeout")
    BY DEF TimerFires, IInv, TypeOK, TaskStates, Outcomes
  <2>2. QED BY <2>1, Settled
<1>2. TypeOK'
  BY <1>1 DEF TimerFires, IInv, TypeOK, TaskStates, poolVars
<1>3. OneTimerEach'
  BY <1>1 DEF TimerFires, IInv, TypeOK, OneTimerEach, poolVars
<1>4. QED BY <1>2, <1>3 DEF IInv

(* shutdown() rejects all who wait and clears every entry and timer.       *)
LEMMA ShutdownKeeps == ASSUME IInv, Shutdown PROVE IInv'
<1>1. /\ task' \in [Tasks -> TaskStates]
      /\ \A u \in Tasks : u \in pending => task'[u] # "waiting"
      /\ \A u \in Tasks : u \notin pending => task'[u] = task[u]
  <2>1. task \in [Tasks -> TaskStates] /\ "closed" \in Outcomes /\ SettleAll(pending, "closed")
    BY DEF Shutdown, IInv, TypeOK, TaskStates, Outcomes
  <2>2. QED BY <2>1, Settled
<1>2. TypeOK'
  BY <1>1 DEF Shutdown, IInv, TypeOK, TaskStates
<1>3. OneTimerEach'
  BY <1>1 DEF Shutdown, IInv, TypeOK, OneTimerEach
<1>4. QED BY <1>2, <1>3 DEF IInv

(* A thread that dies takes only what is in its inbox.                     *)
LEMMA DieKeeps ==
  ASSUME IInv, NEW w \in Workers, Die(w), exits' \in Nat PROVE IInv'
<1>1. TypeOK'
  BY DEF Die, IInv, TypeOK, poolVars
<1>2. OneTimerEach'
  BY DEF Die, IInv, OneTimerEach, poolVars
<1>3. QED BY <1>1, <1>2 DEF IInv

(* Every other step leaves the entries and the timers alone.               *)
LEMMA OthersKeep ==
  ASSUME IInv,
         \/ Start \/ Finish \/ UNCHANGED vars
         \/ \E t \in Tasks : Refuse(t)
         \/ \E w \in Workers, t \in Tasks, kind \in Answers : Answer(w, t, kind)
  PROVE  IInv'
<1>1. CASE Start \/ Finish \/ UNCHANGED vars
  <2>1. TypeOK'
    BY <1>1 DEF Start, Finish, vars, IInv, TypeOK, poolVars
  <2>2. OneTimerEach'
    BY <1>1 DEF Start, Finish, vars, IInv, OneTimerEach, poolVars
  <2>3. QED BY <2>1, <2>2 DEF IInv
<1>2. ASSUME NEW t \in Tasks, Refuse(t) PROVE IInv'
  <2>1. TypeOK'
    BY <1>2 DEF Refuse, IInv, TypeOK, poolVars, Refusals
  <2>2. OneTimerEach'
    BY <1>2 DEF Refuse, IInv, TypeOK, OneTimerEach, poolVars
  <2>3. QED BY <2>1, <2>2 DEF IInv
<1>3. ASSUME NEW w \in Workers, NEW t \in Tasks, NEW kind \in Answers,
             Answer(w, t, kind)
      PROVE  IInv'
  <2>1. TypeOK'
    BY <1>3 DEF Answer, IInv, TypeOK, poolVars
  <2>2. OneTimerEach'
    BY <1>3 DEF Answer, IInv, OneTimerEach, poolVars
  <2>3. QED BY <2>1, <2>2 DEF IInv
<1>4. QED BY <1>1, <1>2, <1>3

(* The inductive invariant is kept by every step of the pool.              *)
LEMMA Step == ASSUME PoolAssumption, IInv, [Next]_vars PROVE IInv'
<1>1. ASSUME NEW w \in Workers, Exit(w) \/ Terminate(w) PROVE IInv'
  <2>1. Die(w) /\ exits' \in Nat
    BY <1>1 DEF Exit, Terminate, IInv, TypeOK
  <2>2. QED BY <2>1, DieKeeps
<1>2. QED
  BY <1>1, ExecuteKeeps, DeliverKeeps, TimerKeeps, ShutdownKeeps, OthersKeep
  DEF Next

(* The entries and timers are in order in every reachable state.           *)
THEOREM Invariance == Spec => []IInv
<1>1. Init => IInv
  BY PoolAssumption, Initially
<1>2. IInv /\ [Next]_vars => IInv'
  BY PoolAssumption, Step
<1>3. QED BY <1>1, <1>2, PTL DEF Spec

(* Every variable keeps its type.                                          *)
THEOREM TypeCorrect == Spec => []TypeOK
<1>1. IInv => TypeOK
  BY DEF IInv
<1>2. QED BY <1>1, Invariance, PTL

(* Who waits has an entry and an armed timer; what else has one was thrown *)
(* out by postMessage; and shutdown() leaves none (worker.pool.ts:84-123). *)
THEOREM EntriesAndTimers == Spec => []OneTimerEach
<1>1. IInv => OneTimerEach
  BY DEF IInv
<1>2. QED BY <1>1, Invariance, PTL
--------------------------------------------------------------------------------
(* What to settle promises is to the service.                              *)
LEMMA SettleAllTells ==
  ASSUME NEW S, NEW o, SettleAll(S, o)
  PROVE  Service!Tell(S \cap Service!Waiting, o)
BY DEF SettleAll, Service!Tell, Service!Waiting

(* To settle one promise is a step of the service, or none.                *)
LEMMA SettleOne ==
  ASSUME task \in [Tasks -> TaskStates], NEW t \in Tasks, NEW o \in Outcomes,
         SettleAll(pending \cap {t}, o), UNCHANGED stop
  PROVE  Service!Settle(t) \/ UNCHANGED Service!vars
<1>1. CASE t \in pending /\ task[t] = "waiting"
  <2>1. (pending \cap {t}) \cap Service!Waiting = {t} /\ t \in Service!Waiting
    BY <1>1 DEF Service!Waiting
  <2>2. Service!Tell({t}, o)
    BY <2>1, SettleAllTells
  <2>3. QED BY <2>1, <2>2 DEF Service!Settle
<1>2. CASE ~(t \in pending /\ task[t] = "waiting")
  <2>1. task' = task
    BY <1>2 DEF SettleAll
  <2>2. QED BY <2>1 DEF Service!vars
<1>3. QED BY <1>1, <1>2

(* Every step of the pool is a step of the service, or none.               *)
LEMMA Simulation ==
  ASSUME IInv, [Next]_vars PROVE [Service!Next]_(Service!vars)
<1> USE DEF Service!Next
<1>0. task \in [Tasks -> TaskStates]
  BY DEF IInv, TypeOK, TaskStates
<1>1. ASSUME NEW t \in Tasks, NEW o, task' = [task EXCEPT ![t] = o]
      PROVE  Service!Tell({t}, o)
  BY <1>0, <1>1 DEF Service!Tell
<1>2. ASSUME NEW t \in Tasks, Execute(t) PROVE Service!Accept(t)
  BY <1>1, <1>2 DEF Execute, Enlist, Closed, poolVars, Service!Accept
<1>3. ASSUME NEW t \in Tasks, Refuse(t) \/ ExecuteThrows(t) PROVE Service!Refuse(t)
  BY <1>1, <1>3 DEF Refuse, ExecuteThrows, Enlist, poolVars, Refusals, Service!Refuse
<1>4. ASSUME NEW t \in Tasks, NEW kind \in Answers, Deliver(t, kind)
      PROVE  Service!Settle(t) \/ UNCHANGED Service!vars
  BY <1>0, <1>4, SettleOne DEF Deliver, poolVars, Outcomes
<1>5. ASSUME NEW t \in Tasks, TimerFires(t)
      PROVE  Service!Settle(t) \/ UNCHANGED Service!vars
  BY <1>0, <1>5, SettleOne DEF TimerFires, poolVars, Outcomes
<1>6. ASSUME Shutdown PROVE Service!Close
  <2>1. Service!Tell(pending \cap Service!Waiting, "closed") /\ "closed" \in Outcomes
    BY <1>6, SettleAllTells DEF Shutdown, Outcomes
  <2>2. pending \cap Service!Waiting \in SUBSET Service!Waiting
    OBVIOUS
  <2>3. QED BY <1>6, <2>1, <2>2 DEF Shutdown, Service!Close
<1>7. ASSUME \/ Start \/ Finish \/ UNCHANGED vars
             \/ \E w \in Workers : Exit(w) \/ Terminate(w)
             \/ \E w \in Workers, t \in Tasks, kind \in Answers : Answer(w, t, kind)
      PROVE  UNCHANGED Service!vars
  BY <1>7 DEF Start, Finish, vars, Exit, Terminate, Die, Answer, poolVars, Service!vars
<1>8. QED BY <1>2, <1>3, <1>4, <1>5, <1>6, <1>7 DEF Next

(* Outcomes are final, each task has one at most, and nothing is accepted  *)
(* after shutdown: the safety part of ImplementsService.                   *)
THEOREM Refinement == Spec => Service!Spec
<1>1. Init => Service!Init
  BY DEF Init, Service!Init
<1>2. IInv /\ [Next]_vars => [Service!Next]_(Service!vars)
  BY Simulation
<1>3. QED BY <1>1, <1>2, Invariance, PTL DEF Spec, Service!Spec
================================================================================
