------------------------------ MODULE TaskService ------------------------------
(***************************************************************************)
(* What a caller of `WorkerExecutor.execute` is promised, whatever becomes *)
(* of the threads: a task that is accepted gets exactly one outcome, which *)
(* never changes afterwards; it does get one; and a service that is closed *)
(* accepts nothing.  What becomes of the tasks that wait when it is closed *)
(* is left open: each may go on waiting, or be given an outcome at once.   *)
(***************************************************************************)
CONSTANTS Tasks, Outcomes, Refusals

VARIABLES state,   \* "new", "waiting", or what the caller has been told
          closed

vars == <<state, closed>>

Init == state = [t \in Tasks |-> "new"] /\ closed = FALSE

Waiting == {t \in Tasks : state[t] = "waiting"}

Tell(S, o) == state' = [t \in Tasks |-> IF t \in S THEN o ELSE state[t]]

Accept(t) == state[t] = "new" /\ ~closed /\ Tell({t}, "waiting") /\ UNCHANGED closed

Refuse(t) == /\ state[t] = "new" /\ \E o \in Refusals : Tell({t}, o)
             /\ UNCHANGED closed

Settle(t) == /\ t \in Waiting /\ \E o \in Outcomes : Tell({t}, o)
             /\ UNCHANGED closed

Close == /\ ~closed /\ closed' = TRUE
         /\ \E S \in SUBSET Waiting, o \in Outcomes : Tell(S, o)

Next == Close \/ \E t \in Tasks : Accept(t) \/ Refuse(t) \/ Settle(t)

Spec == Init /\ [][Next]_vars

(* Nobody waits for ever.                                                  *)
FairSpec == Spec /\ \A t \in Tasks : WF_vars(Settle(t))
================================================================================
