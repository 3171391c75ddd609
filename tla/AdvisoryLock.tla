------------------------------ MODULE AdvisoryLock -----------------------------
(***************************************************************************)
(* `withAdvisoryLock` of packages/flow/src/engine/Locks.ts, the lock of    *)
(* the Prisma storage.  A Postgres advisory lock belongs to a SESSION, may *)
(* be taken again by the session that holds it, and is counted.  Prisma    *)
(* sends every query on some connection of its pool, so the session that   *)
(* runs pg_advisory_unlock need not be the one that took the lock, and     *)
(* calls of one process share the pool.  Two history variables name the    *)
(* keys to which that has happened: the lock is what the engine takes it   *)
(* for except on those keys, and on those it is not.                       *)
(***************************************************************************)
EXTENDS Integers, FiniteSets

CONSTANTS
  Runs, Calls,
  Keys,      \* advisory lock keys
  LockKey,   \* runIdToLockKey: the key of each run
  Sessions,  \* Postgres sessions
  Pool,      \* the sessions of the process in which each call runs
  MaxHeld    \* bound: how often one session takes one lock

ASSUME ConfigAssumption ==
  /\ LockKey \in [Runs -> Keys]
  /\ Pool \in [Calls -> (SUBSET Sessions) \ {{}}]
  /\ \A c, d \in Calls : Pool[c] = Pool[d] \/ Pool[c] \cap Pool[d] = {}
  /\ IsFiniteSet(Calls) /\ MaxHeld \in Nat

VARIABLES
  pc,    \* "idle", "waiting" (try not sent), "inside" fn, or "unlocking" (finally)
  run,   \* the run a call is about
  held,  \* held[s][k]: how many times session s holds lock k
  grant, \* history: {s} while session s took the lock for this call, else {}
  reentered, \* history: keys granted to a session that held them already
  astray     \* history: keys whose unlock met another session than the grant,
             \* or, of a call that was refused, somebody else's lock

vars == <<pc, run, held, grant, reentered, astray>>

TypeOK == /\ pc \in [Calls -> {"idle", "waiting", "inside", "unlocking"}]
          /\ run \in [Calls -> Runs]
          /\ held \in [Sessions -> [Keys -> Nat]]
          /\ grant \in [Calls -> SUBSET Sessions]
          /\ reentered \subseteq Keys /\ astray \subseteq Keys

Init == /\ pc = [c \in Calls |-> "idle"]
        /\ run \in [Calls -> Runs]
        /\ held = [s \in Sessions |-> [k \in Keys |-> 0]]
        /\ grant = [c \in Calls |-> {}]
        /\ reentered = {} /\ astray = {}

Key(c) == LockKey[run[c]]

Request(c, r) ==
  /\ pc[c] = "idle"
  /\ pc' = [pc EXCEPT ![c] = "waiting"]
  /\ run' = [run EXCEPT ![c] = r]
  /\ UNCHANGED <<held, grant, reentered, astray>>

(* SELECT pg_try_advisory_lock(key) on session s: granted unless another   *)
(* session holds the key; a session is never in its own way.               *)
Free(s, k) == \A t \in Sessions \ {s} : held[t][k] = 0

Granted(c, s) ==
  /\ held[s][Key(c)] < MaxHeld
  /\ held' = [held EXCEPT ![s][Key(c)] = @ + 1]
  /\ grant' = [grant EXCEPT ![c] = {s}]
  /\ reentered' = IF held[s][Key(c)] > 0 THEN reentered \cup {Key(c)} ELSE reentered

(* Mutants of TryLock: the answer is not looked at; a shared look that     *)
(* takes nothing.                                                          *)
TryLockIgnored(c, s) ==
  /\ pc[c] = "waiting" /\ s \in Pool[c]
  /\ IF Free(s, Key(c)) THEN Granted(c, s) ELSE UNCHANGED <<held, grant, reentered>>
  /\ pc' = [pc EXCEPT ![c] = "inside"]
  /\ UNCHANGED <<run, astray>>

OnlyLook(c, s) ==
  /\ pc[c] = "waiting" /\ s \in Pool[c] /\ Free(s, Key(c))
  /\ pc' = [pc EXCEPT ![c] = "inside"]
  /\ UNCHANGED <<run, held, grant, reentered, astray>>

TryLock(c, s) ==
  /\ pc[c] = "waiting" /\ s \in Pool[c]
  /\ IF Free(s, Key(c))
     THEN Granted(c, s) /\ pc' = [pc EXCEPT ![c] = "inside"]
     ELSE /\ pc' = [pc EXCEPT ![c] = "unlocking"]   \* throw LockBusyError
          /\ UNCHANGED <<held, grant, reentered>>
  /\ UNCHANGED <<run, astray>>

(* Mutant of Leave: no finally block.                                      *)
LeaveLocked(c) ==
  /\ pc[c] = "inside"
  /\ pc' = [pc EXCEPT ![c] = "idle"]
  /\ grant' = [grant EXCEPT ![c] = {}]
  /\ UNCHANGED <<run, held, reentered, astray>>

(* fn settles, fulfilled or rejected.                                      *)
Leave(c) ==
  /\ pc[c] = "inside"
  /\ pc' = [pc EXCEPT ![c] = "unlocking"]
  /\ UNCHANGED <<run, held, grant, reentered, astray>>

(* An unlock on session s that is not the one of the grant, if any: it     *)
(* takes a lock that is not this call's, or leaves this call's behind.     *)
GoesAstray(c, s) == grant[c] # {s} /\ (grant[c] # {} \/ held[s][Key(c)] > 0)

(* The finally block: pg_advisory_unlock(key) on session s, whether or not *)
(* this call acquired the lock; a session that holds nothing is warned.    *)
Unlock(c, s) ==
  /\ pc[c] = "unlocking" /\ s \in Pool[c]
  /\ held' = [held EXCEPT ![s][Key(c)] = IF @ > 0 THEN @ - 1 ELSE 0]
  /\ pc' = [pc EXCEPT ![c] = "idle"]
  /\ grant' = [grant EXCEPT ![c] = {}]
  /\ astray' = IF GoesAstray(c, s) THEN astray \cup {Key(c)} ELSE astray
  /\ UNCHANGED <<run, reentered>>

(* The process of call c dies: its sessions end and Postgres drops what    *)
(* they hold.                                                              *)
Crash(c) ==
  /\ pc' = [d \in Calls |-> IF Pool[d] = Pool[c] THEN "idle" ELSE pc[d]]
  /\ grant' = [d \in Calls |-> IF Pool[d] = Pool[c] THEN {} ELSE grant[d]]
  /\ held' = [s \in Sessions |->
                IF s \in Pool[c] THEN [k \in Keys |-> 0] ELSE held[s]]
  /\ UNCHANGED <<run, reentered, astray>>

Next == \E c \in Calls :
          \/ \E r \in Runs : Request(c, r)
          \/ \E s \in Sessions : TryLock(c, s) \/ Unlock(c, s)
          \/ Leave(c)
          \/ Crash(c)

Spec == Init /\ [][Next]_vars
--------------------------------------------------------------------------------
Inside(c) == pc[c] = "inside"

(* A call whose finally block runs is out of its section; seen like this,  *)
(* the lock is one of the contract the engine relies on (Locks.ts:21-38).  *)
Place(c) == IF pc[c] = "unlocking" THEN "idle" ELSE pc[c]

Contract == INSTANCE RunLock WITH pc <- [c \in Calls |-> Place(c)], run <- run

(* However calls share connections, keys and processes, and whoever dies,  *)
(* the lock departs from its contract (storage.ts:80) in one way only: it  *)
(* lets a call into a section beside another one on a key that was granted *)
(* twice to one session or unlocked on a wrong one.                        *)
KeepsContract ==
  [][\/ Contract!Next \/ UNCHANGED Contract!vars
     \/ \E c \in Calls : /\ pc[c] = "waiting" /\ pc'[c] = "inside"
                         /\ Key(c) \in reentered' \cup astray']_vars

(* When every call has come back, a lock that a session still holds is one *)
(* whose unlock went astray: neither refusals (Locks.ts:30-36) nor grants  *)
(* to one session over each other, nor colliding keys leave anything.      *)
LeaksAreStrays == (\A c \in Calls : pc[c] = "idle")
                    => \A s \in Sessions, k \in Keys : held[s][k] > 0 => k \in astray

(* Another process, one that recovers among them, never enters beside a    *)
(* section in progress unless an unlock went astray: grants to one session *)
(* over each other only let calls of its own process overlap.              *)
OthersKeptOut ==
  \A c, d \in Calls :
    Inside(c) /\ Inside(d) /\ Pool[c] # Pool[d] /\ Key(c) = Key(d) => Key(c) \in astray

(* "only one tick/resume per runId at a time" (storage.ts:80), which a     *)
(* pool does not keep.                                                     *)
OneAtATime == \A c, d \in Calls :
                Inside(c) /\ Inside(d) /\ run[c] = run[d] => c = d

(* "executes fn and unlocks when lock acquired" (engine.Locks.test.ts:15), *)
(* which a pool does not keep.                                             *)
NothingLeaked == (\A c \in Calls : pc[c] = "idle")
                   => \A s \in Sessions, k \in Keys : held[s][k] = 0

(* "Postgres advisory locks for flow run concurrency safety" (Locks.ts:2): *)
(* two processes are never inside the section of one run; a refused call's *)
(* finally block undoes it.                                                *)
ProcessesApart == \A c, d \in Calls :
  Inside(c) /\ Inside(d) /\ run[c] = run[d] => Pool[c] = Pool[d]
================================================================================
