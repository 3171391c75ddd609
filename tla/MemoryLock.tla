------------------------------ MODULE MemoryLock -------------------------------
(***************************************************************************)
(* `memoryWithLock` of packages/flow/src/persistence/memory.ts: for every  *)
(* run the module keeps the promise of the last section asked for; a new   *)
(* section is chained to it with `.then`, so it starts when all sections   *)
(* before it have settled -- and, because `.then` has no second argument,  *)
(* only when the last of them did not reject.                              *)
(***************************************************************************)
EXTENDS Sequences, Naturals

CONSTANTS Runs, Calls

VARIABLES
  pc,       \* "idle", "waiting" (chained, not started) or "inside" its section
  run,      \* the run a call is about
  chain,    \* per run, the calls chained and not settled, oldest first
  rejected  \* per run, whether the promise in front of the chain rejected

vars == <<pc, run, chain, rejected>>

TypeOK == /\ pc \in [Calls -> {"idle", "waiting", "inside"}]
          /\ run \in [Calls -> Runs]
          /\ chain \in [Runs -> Seq(Calls)]
          /\ rejected \in [Runs -> BOOLEAN]

Init == /\ pc = [c \in Calls |-> "idle"]
        /\ run \in [Calls -> Runs]
        /\ chain = [r \in Runs |-> <<>>]
        /\ rejected = [r \in Runs |-> FALSE]

IsHead(c) == chain[run[c]] # <<>> /\ Head(chain[run[c]]) = c

(* Mutant of Settled: the entry of the map is deleted with callers behind. *)
Forgotten(c) == chain' = [chain EXCEPT ![run[c]] = <<>>]

Settled(c) == chain' = [chain EXCEPT ![run[c]] = Tail(@)]

(* A tick or resume asks for the section of run r.                         *)
Request(c, r) ==
  /\ pc[c] = "idle"
  /\ pc' = [pc EXCEPT ![c] = "waiting"]
  /\ run' = [run EXCEPT ![c] = r]
  /\ chain' = [chain EXCEPT ![r] = Append(@, c)]
  /\ UNCHANGED rejected

(* Mutant of Enter: fn is called at once, the chain is not awaited.        *)
EnterAnywhere(c) ==
  /\ pc[c] = "waiting" /\ ~rejected[run[c]]
  /\ pc' = [pc EXCEPT ![c] = "inside"]
  /\ UNCHANGED <<run, chain, rejected>>

(* The promise before this one was fulfilled: fn starts.                   *)
Enter(c) ==
  /\ pc[c] = "waiting" /\ IsHead(c) /\ ~rejected[run[c]]
  /\ pc' = [pc EXCEPT ![c] = "inside"]
  /\ UNCHANGED <<run, chain, rejected>>

(* fn settles: fulfilled (ok) or rejected with its own error.              *)
Leave(c, ok) ==
  /\ pc[c] = "inside"
  /\ pc' = [pc EXCEPT ![c] = "idle"]
  /\ rejected' = [rejected EXCEPT ![run[c]] = ~ok]
  /\ Settled(c)
  /\ UNCHANGED run

(* The promise before this one rejected: `.then` passes the error on and   *)
(* fn is never called.                                                     *)
Inherit(c) ==
  /\ pc[c] = "waiting" /\ IsHead(c) /\ rejected[run[c]]
  /\ pc' = [pc EXCEPT ![c] = "idle"]
  /\ Settled(c)
  /\ UNCHANGED <<run, rejected>>

Next == \E c \in Calls :
          \/ \E r \in Runs : Request(c, r)
          \/ Enter(c)
          \/ \E ok \in BOOLEAN : Leave(c, ok)
          \/ Inherit(c)

Spec == Init /\ [][Next]_vars

(* Promise reactions always run, and the section itself is assumed to      *)
(* settle: its handlers do (FlowEngine states the same assumption).        *)
Fairness == \A c \in Calls :
              WF_vars(Enter(c) \/ Inherit(c) \/ \E ok \in BOOLEAN : Leave(c, ok))

FairSpec == Spec /\ Fairness
--------------------------------------------------------------------------------
(* At most one call is inside the section of a run (memory.ts:168).        *)
OneAtATime == \A c, d \in Calls :
                pc[c] = "inside" /\ pc[d] = "inside" /\ run[c] = run[d] => c = d

(* The chain implements the contract the engine relies on.                 *)
Contract == INSTANCE RunLock WITH pc <- pc, run <- run
ImplementsContract == Contract!Spec

(* Every caller gets an answer: its section runs to its end, or its        *)
(* promise rejects; nobody waits in the chain for ever.                    *)
EveryCallSettles == \A c \in Calls : pc[c] # "idle" ~> pc[c] = "idle"

(* A mutex hands the lock to the next caller whatever became of the last   *)
(* one: a call that waits is never dismissed without running its section.  *)
EveryCallRuns == [][\A c \in Calls : ~(pc[c] = "waiting" /\ pc'[c] = "idle")]_vars
================================================================================
