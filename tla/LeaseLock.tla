------------------------------- MODULE LeaseLock -------------------------------
(***************************************************************************)
(* packages/distributed-lock: methods under @DistributedLock, the in-memory*)
(* backend they acquire a key from, and `LockManager.close`, which puts a  *)
(* fresh backend in the place of the old one.  A lock is a lease: it lapses*)
(* after its ttl although the method it protects is still running.  (The   *)
(* Redis backend does the same with SET NX PX and two scripts; there a     *)
(* lapsed entry is gone at once.)                                          *)
(***************************************************************************)
EXTENDS Naturals, FiniteSets

CONSTANTS Calls,       \* callers of decorated methods, one call each at a time
          Keys,
          KeyOf,       \* the resolved key of a caller
          Attempts,    \* retry.attempts
          MaxCloses,   \* bound: LockManager.close()
          MaxExtends,  \* bound: calls of ILock.extend
          Nobody

ASSUME LeaseAssumption == /\ KeyOf \in [Calls -> Keys] /\ Nobody \notin Calls
                          /\ Attempts \in Nat /\ MaxCloses \in Nat /\ MaxExtends \in Nat

Backends == 0 .. MaxCloses

VARIABLES
  backend,  \* the backend that LockManager hands out: how often it was closed
  home,     \* the backend whose acquire() a caller is in, or has a lock of
  holder,   \* per backend and key, the caller whose identifier is in `locks`
  lapsed,   \* the entries <<backend, key>> past their expiration, timer not run
  pc,       \* "idle", "delay" between two attempts, "inside" the method
  tries,    \* attempts left
  lost,     \* history: who was inside when its entry was taken away
  extends

leaseVars == <<backend, home, holder, lapsed, pc, tries, lost, extends>>

LeaseTypeOK == /\ backend \in Backends /\ home \in [Calls -> Backends]
               /\ holder \in [Backends -> [Keys -> Calls \cup {Nobody}]]
               /\ lapsed \subseteq Backends \X Keys
               /\ pc \in [Calls -> {"idle", "delay", "inside"}]
               /\ tries \in [Calls -> 0 .. Attempts]
               /\ lost \subseteq Calls /\ extends \in Nat

LeaseInit == /\ backend = 0 /\ home = [c \in Calls |-> 0]
             /\ holder = [b \in Backends |-> [k \in Keys |-> Nobody]]
             /\ lapsed = {} /\ pc = [c \in Calls |-> "idle"]
             /\ tries = [c \in Calls |-> 0] /\ lost = {} /\ extends = 0

Holds(c) == holder[home[c]][KeyOf[c]] = c

(* The entry of a key gets another holder, or none; its timer is cleared.  *)
TakeAway(b, k, next) == /\ holder' = [holder EXCEPT ![b][k] = next]
                        /\ lapsed' = lapsed \ {<<b, k>>}
                        /\ lost' = lost \cup ({holder[b][k]} \ {Nobody})
--------------------------------------------------------------------------------
MayTake(b, k) == holder[b][k] = Nobody \/ <<b, k>> \in lapsed

(* One attempt with n to follow: the entry is taken, or there is a delay,  *)
(* or acquire() has given up and the decorated call rejects.               *)
Attempt(c, b, n) ==
  IF MayTake(b, KeyOf[c])
  THEN /\ TakeAway(b, KeyOf[c], c)
       /\ pc' = [pc EXCEPT ![c] = "inside"] /\ tries' = [tries EXCEPT ![c] = 0]
  ELSE /\ pc' = [pc EXCEPT ![c] = IF n = 0 THEN "idle" ELSE "delay"]
       /\ tries' = [tries EXCEPT ![c] = n]
       /\ UNCHANGED <<holder, lapsed, lost>>

(* The decorated method is called: the first attempt is made at once.      *)
Acquire(c) == /\ pc[c] = "idle"
              /\ Attempt(c, backend, Attempts)
              /\ home' = [home EXCEPT ![c] = backend]
              /\ UNCHANGED <<backend, extends>>

Retry(c) == /\ pc[c] = "delay"
            /\ Attempt(c, home[c], tries[c] - 1)
            /\ UNCHANGED <<backend, home, extends>>

(* Mutant of Release: the entry of the key goes, whoever holds it.         *)
ReleaseAny(c) == /\ pc[c] = "inside"
                 /\ pc' = [pc EXCEPT ![c] = "idle"]
                 /\ holder' = [holder EXCEPT ![home[c]][KeyOf[c]] = Nobody]
                 /\ lapsed' = lapsed \ {<<home[c], KeyOf[c]>>}
                 /\ lost' = lost \ {c}
                 /\ UNCHANGED <<backend, home, tries, extends>>

(* The method settles and its lock is released, if it is still its own.    *)
Release(c) == /\ pc[c] = "inside"
              /\ pc' = [pc EXCEPT ![c] = "idle"]
              /\ IF Holds(c)
                 THEN /\ holder' = [holder EXCEPT ![home[c]][KeyOf[c]] = Nobody]
                      /\ lapsed' = lapsed \ {<<home[c], KeyOf[c]>>}
                 ELSE UNCHANGED <<holder, lapsed>>
              /\ lost' = lost \ {c}
              /\ UNCHANGED <<backend, home, tries, extends>>

(* A new expiration and a new timer for the holder, even when it is late.  *)
Extend(c) == /\ pc[c] = "inside" /\ Holds(c) /\ extends < MaxExtends
             /\ lapsed' = lapsed \ {<<home[c], KeyOf[c]>>}
             /\ extends' = extends + 1
             /\ UNCHANGED <<backend, home, holder, pc, tries, lost>>
--------------------------------------------------------------------------------
Lapse(b, k) == /\ holder[b][k] # Nobody /\ <<b, k>> \notin lapsed
               /\ lapsed' = lapsed \cup {<<b, k>>}
               /\ UNCHANGED <<backend, home, holder, pc, tries, lost, extends>>

(* Mutant of TimerReleases: it asks the backend that is current by then.   *)
TimerAsksManager(b, k) ==
  /\ b = backend
  /\ <<b, k>> \in lapsed /\ TakeAway(b, k, Nobody)
  /\ UNCHANGED <<backend, home, pc, tries, extends>>

(* The timer of acquire() or extend() releases what has lapsed.            *)
TimerReleases(b, k) == /\ <<b, k>> \in lapsed /\ TakeAway(b, k, Nobody)
                       /\ UNCHANGED <<backend, home, pc, tries, extends>>

(* Callers in a delay go on with the backend they started with.            *)
Close == /\ backend < MaxCloses
         /\ backend' = backend + 1
         /\ holder' = [holder EXCEPT ![backend] = [k \in Keys |-> Nobody]]
         /\ lapsed' = {e \in lapsed : e[1] # backend}
         /\ lost' = lost \cup {c \in Calls : \E k \in Keys : holder[backend][k] = c}
         /\ UNCHANGED <<home, pc, tries, extends>>
--------------------------------------------------------------------------------
(* Who is inside and has not lost its entry holds it, so that two methods  *)
(* run under one key of one backend only while one of them has outlived    *)
(* its lease (memory-backend.ts:34, 66, and the timers).                   *)
LeaseExcludes == \A c, d \in Calls :
  /\ pc[c] = "inside" /\ pc[d] = "inside" /\ c # d
  /\ KeyOf[c] = KeyOf[d] /\ home[c] = home[d]
  => c \in lost \/ d \in lost

(* A holder that never comes back does not keep the key: its entry goes by *)
(* the timer alone, however often it was extended before.                  *)
LeasesEnd == \A c \in Calls : Holds(c) ~> ~Holds(c)
================================================================================
