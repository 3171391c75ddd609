-------------------------------- MODULE RunLock --------------------------------
(***************************************************************************)
(* What the flow engine asks of its storage: `withLock(runId, fn)` of      *)
(* packages/flow/src/persistence/storage.ts, "Run-scoped lock: only one    *)
(* tick/resume per runId at a time".  A call waits for the lock of a run,  *)
(* then is inside its section, or is refused without ever entering it.     *)
(* MemoryLock implements it, AdvisoryLock as far as its connections let    *)
(* it, and the engine itself (FlowEngine) is a user of this contract.      *)
(***************************************************************************)
CONSTANTS Runs,  \* run ids
          Calls  \* callers: one `tick` or `resumeRun` promise each

VARIABLES pc,    \* where each call is
          run    \* the run each call is (or was last) about

vars == <<pc, run>>

TypeOK == /\ pc \in [Calls -> {"idle", "waiting", "inside"}]
          /\ run \in [Calls -> Runs]

Init == /\ pc = [c \in Calls |-> "idle"]
        /\ run \in [Calls -> Runs]

Move(c, from, to) == /\ pc[c] = from
                     /\ pc' = [pc EXCEPT ![c] = to]

Request(c, r) == /\ Move(c, "idle", "waiting")
                 /\ run' = [run EXCEPT ![c] = r]

Enter(c) == /\ Move(c, "waiting", "inside")
            /\ \A d \in Calls : pc[d] = "inside" => run[d] # run[c]
            /\ UNCHANGED run

Refuse(c) == Move(c, "waiting", "idle") /\ UNCHANGED run

Leave(c) == Move(c, "inside", "idle") /\ UNCHANGED run

(* The processes of some callers may die: their calls are gone at once.    *)
Vanish == /\ \E C \in SUBSET Calls :
               pc' = [c \in Calls |-> IF c \in C THEN "idle" ELSE pc[c]]
          /\ UNCHANGED run

Next == \/ \E c \in Calls, r \in Runs : Request(c, r)
        \/ \E c \in Calls : Enter(c) \/ Refuse(c) \/ Leave(c)
        \/ Vanish

Spec == Init /\ [][Next]_vars

(* Only one tick or resume per run at a time (storage.ts:80).              *)
OneAtATime == \A c, d \in Calls :
                pc[c] = "inside" /\ pc[d] = "inside" /\ run[c] = run[d] => c = d
================================================================================
