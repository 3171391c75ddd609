----------------------------- MODULE RedisRegistry -----------------------------
(***************************************************************************)
(* packages/discovery: the ServiceRegistry objects of the processes that   *)
(* offer one service, and the RedisRegistryBackend they register with.  An *)
(* instance is a key with a ttl and a member of the service's set, which   *)
(* has a ttl of its own; every operation of the backend is several Redis   *)
(* commands, each of which is one action here.  Time advances in intervals *)
(* of the health check.                                                    *)
(***************************************************************************)
EXTENDS Naturals, FiniteSets

CONSTANTS Ids,       \* instance ids: one register() of one object each
          KeyTTL,    \* ttl of an instance's key, in intervals
          SetTTL     \* of the service's set (ttl * 2)

ASSUME RegistryAssumption == KeyTTL \in Nat \ {0} /\ SetTTL \in Nat \ {0}

NoTTL(ttl) == ttl + 1  \* what is left of the ttl of what was given none

VARIABLES
  main,     \* per instance: "new", the steps of register(), "live", those of
            \* deregister(), "gone", or "crashed"
  check,    \* per instance: "none", or the next command of performHealthCheck
  beaten,   \* the instances whose check of this interval has begun
  key,      \* the status in the value of each key, "none" when there is none
  keyLeft,  \* the remaining ttl of each key
  members,  \* the service's set; an empty set does not exist
  setLeft,  \* its remaining ttl
  cleaner,  \* cleanup(): "none", "exists", "count" or "delete"
  toClean,  \* the ids it has yet to look at
  stale,    \* the id, if any, it has found to have no key
  wiped     \* history: the set was dropped as a whole while it had members

procVars == <<main, check, beaten>>
redisVars == <<key, keyLeft, members, setLeft>>
cleanVars == <<cleaner, toClean, stale>>
vars == <<procVars, redisVars, cleanVars, wiped>>

Registering == {"add", "expire"}
Leaving == {"remove", "delete"}

TypeOK == /\ main \in [Ids -> {"new", "live", "gone", "crashed"} \cup Registering \cup Leaving]
          /\ check \in [Ids -> {"none", "http", "get up", "set up", "expire", "get down",
                                "set down"}]
          /\ beaten \subseteq Ids
          /\ key \in [Ids -> {"none", "STARTING", "UP", "DOWN"}]
          /\ keyLeft \in [Ids -> 0 .. NoTTL(KeyTTL)]
          /\ members \subseteq Ids /\ setLeft \in 0 .. NoTTL(SetTTL)
          /\ cleaner \in {"none", "exists", "count", "delete"}
          /\ toClean \subseteq Ids /\ stale \subseteq Ids /\ wiped \in BOOLEAN

Init == /\ main = [i \in Ids |-> "new"] /\ check = [i \in Ids |-> "none"] /\ beaten = {}
        /\ key = [i \in Ids |-> "none"] /\ keyLeft = [i \in Ids |-> 0]
        /\ members = {} /\ setLeft = NoTTL(SetTTL)
        /\ cleaner = "none" /\ toClean = {} /\ stale = {} /\ wiped = FALSE

Main(i, from, to) == /\ main[i] = from /\ main' = [main EXCEPT ![i] = to]
                     /\ UNCHANGED <<check, beaten, cleanVars>>
Check(i, from, to) == /\ check[i] = from /\ check' = [check EXCEPT ![i] = to]
                      /\ UNCHANGED <<main, beaten, cleanVars>>

SetEx(i, status) == key' = [key EXCEPT ![i] = status] /\ keyLeft' = [keyLeft EXCEPT ![i] = KeyTTL]
Del(i) == key' = [key EXCEPT ![i] = "none"] /\ keyLeft' = [keyLeft EXCEPT ![i] = 0]
SAdd(i) == /\ members' = members \cup {i}
           /\ setLeft' = IF members = {} THEN NoTTL(SetTTL) ELSE setLeft
SRem(i) == members' = members \ {i} /\ UNCHANGED setLeft
Expire == setLeft' = IF members = {} THEN setLeft ELSE SetTTL

sameKeys == UNCHANGED <<key, keyLeft>>
sameSet == UNCHANGED <<members, setLeft>>
--------------------------------------------------------------------------------
Register(i) ==
  /\ \/ Main(i, "new", "add") /\ SetEx(i, "STARTING") /\ sameSet
     \/ Main(i, "add", "expire") /\ SAdd(i) /\ sameKeys
     \/ Main(i, "expire", "live") /\ Expire /\ sameKeys /\ UNCHANGED members
  /\ UNCHANGED wiped

(* register() checks at once, then the timer does; both only while there   *)
(* is an instance.                                                         *)
BeginCheck(i) == /\ main[i] = "live" /\ check[i] = "none" /\ i \notin beaten
                 /\ check' = [check EXCEPT ![i] = "http"] /\ beaten' = beaten \cup {i}
                 /\ UNCHANGED <<main, redisVars, cleanVars, wiped>>

(* The service answers its own health check, or not (no later than its     *)
(* timeout); after deregister() there is no instance to report about.      *)
HttpReturns(i) ==
  /\ \/ main[i] # "gone" /\ (Check(i, "http", "get up") \/ Check(i, "http", "get down"))
     \/ main[i] = "gone" /\ Check(i, "http", "none")
  /\ UNCHANGED <<redisVars, wiped>>

(* heartbeat(): nothing when the key is not there.                         *)
Heartbeat(i) ==
  /\ \/ Check(i, "get up", IF key[i] = "none" THEN "none" ELSE "set up") /\ sameKeys /\ sameSet
     \/ Check(i, "set up", "expire") /\ SetEx(i, "UP") /\ sameSet
     \/ Check(i, "expire", "none") /\ Expire /\ sameKeys /\ UNCHANGED members
  /\ UNCHANGED wiped

(* Mutant of UpdateStatus: the key is set without a ttl, never to expire.  *)
UpdateForever(i) ==
  /\ \/ /\ Check(i, "get down", IF key[i] = "none" THEN "none" ELSE "set down")
        /\ sameKeys
     \/ /\ Check(i, "set down", "none")
        /\ key' = [key EXCEPT ![i] = "DOWN"]
        /\ keyLeft' = [keyLeft EXCEPT ![i] = NoTTL(KeyTTL)]
  /\ sameSet /\ UNCHANGED wiped

(* updateStatus(DOWN) keeps the key alive, but not the set.                *)
UpdateStatus(i) ==
  /\ \/ Check(i, "get down", IF key[i] = "none" THEN "none" ELSE "set down") /\ sameKeys
     \/ Check(i, "set down", "none") /\ SetEx(i, "DOWN")
  /\ sameSet /\ UNCHANGED wiped

(* Mutant of Deregister: the set is left to cleanup().                     *)
DeregisterKey(i) ==
  /\ \/ Main(i, "live", IF key[i] = "none" THEN "gone" ELSE "delete") /\ sameKeys /\ sameSet
     \/ Main(i, "delete", "gone") /\ Del(i) /\ sameSet
  /\ UNCHANGED wiped

(* deregister(): a check that is under way goes on beside it.              *)
Deregister(i) ==
  /\ \/ Main(i, "live", IF key[i] = "none" THEN "gone" ELSE "remove") /\ sameKeys /\ sameSet
     \/ Main(i, "remove", "delete") /\ SRem(i) /\ sameKeys
     \/ Main(i, "delete", "gone") /\ Del(i) /\ sameSet
  /\ UNCHANGED wiped

Crash(i) == /\ main[i] \notin {"new", "gone", "crashed"}
            /\ main' = [main EXCEPT ![i] = "crashed"]
            /\ check' = [check EXCEPT ![i] = "none"]
            /\ UNCHANGED <<beaten, redisVars, cleanVars, wiped>>
--------------------------------------------------------------------------------
Clean(from, to) == cleaner = from /\ cleaner' = to /\ UNCHANGED <<procVars, wiped>>

(* cleanup(), in the process of some live instance, one at a time: SCAN and*)
(* SMEMBERS, then EXISTS for each id, SREM when there is no key.           *)
BeginClean == /\ Clean("none", "exists") /\ toClean' = members
              /\ members # {} /\ \E i \in Ids : main[i] = "live"
              /\ UNCHANGED <<redisVars, stale>>

(* Mutant of HasExpired: what is not UP is stale.                          *)
NotUp(i) == key[i] # "UP"

HasExpired(i) == key[i] = "none"

CleanNext(i) == /\ Clean("exists", "exists") /\ i \in toClean /\ stale = {}
                /\ stale' = IF HasExpired(i) THEN {i} ELSE {}
                /\ toClean' = toClean \ {i}
                /\ UNCHANGED redisVars

CleanStale(i) == /\ Clean("exists", "exists") /\ i \in stale
                 /\ SRem(i) /\ sameKeys
                 /\ stale' = {} /\ UNCHANGED toClean

(* SCARD, and DEL when it was 0: by then the set may have members again.   *)
CleanCount == /\ Clean("exists", IF members = {} THEN "delete" ELSE "none")
              /\ toClean = {} /\ stale = {}
              /\ UNCHANGED <<redisVars, toClean, stale>>

Wipe == /\ members' = {} /\ UNCHANGED setLeft
        /\ wiped' = (wiped \/ members # {})

CleanDelete == /\ cleaner = "delete" /\ cleaner' = "none"
               /\ Wipe /\ sameKeys
               /\ UNCHANGED <<procVars, toClean, stale>>
--------------------------------------------------------------------------------
(* Checks are over, and Redis answers, well within an interval.            *)
Settled == \A i \in Ids : check[i] = "none" /\ (main[i] = "live" => i \in beaten)

Less(left, ttl) == IF left \in 1 .. ttl THEN left - 1 ELSE left

(* An interval passes; keys and the set lapse when their time is up.       *)
Tick ==
  /\ Settled
  /\ key' = [i \in Ids |-> IF keyLeft[i] = 1 THEN "none" ELSE key[i]]
  /\ keyLeft' = [i \in Ids |-> Less(keyLeft[i], KeyTTL)]
  /\ IF members # {} /\ setLeft = 1
     THEN Wipe
     ELSE /\ setLeft' = IF members = {} THEN setLeft ELSE Less(setLeft, SetTTL)
          /\ UNCHANGED <<members, wiped>>
  /\ beaten' = {}
  /\ UNCHANGED <<main, check, cleanVars>>
--------------------------------------------------------------------------------
Next == \/ Tick \/ BeginClean \/ CleanCount \/ CleanDelete
        \/ \E i \in Ids : \/ Register(i) \/ Deregister(i) \/ Crash(i)
                          \/ BeginCheck(i) \/ HttpReturns(i) \/ Heartbeat(i) \/ UpdateStatus(i)
                          \/ CleanNext(i) \/ CleanStale(i)

Spec == Init /\ [][Next]_vars

(* Checks begin and end, and time passes; cleanup is not relied upon.      *)
FairSpec == /\ Spec /\ WF_vars(Tick)
            /\ \A i \in Ids : WF_vars(BeginCheck(i) \/ HttpReturns(i) \/ Heartbeat(i)
                                       \/ UpdateStatus(i))
--------------------------------------------------------------------------------
(* What getInstances() returns, before the filter.                         *)
Found(i) == i \in members /\ key[i] # "none"

(* Once deregister() is done the instance is not found, although a check   *)
(* that was under way may still write its key (redis-backend.ts:106-110,   *)
(* 132).                                                                   *)
DeregisteredIsGone == \A i \in Ids : main[i] = "gone" => ~Found(i)

(* cleanup() drops no instance whose key is alive, whatever it races with  *)
(* as long as no key lapses inside a health check (Tick): one that is live *)
(* and has a key misses in the set only because the set was dropped as a   *)
(* whole (redis-backend.ts:252-257).                                       *)
NeverDropped == \A i \in Ids :
  main[i] = "live" /\ key[i] # "none" => i \in members \/ wiped

(* An instance whose process died is found no more after a while, and for  *)
(* good (redis-backend.ts:83, 132, 231).                                   *)
CrashedIsForgotten == \A i \in Ids : main[i] = "crashed" ~> [](~Found(i))
================================================================================
