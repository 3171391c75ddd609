-------------------------------- MODULE Bulkhead --------------------------------
(***************************************************************************)
(* The concurrency limiter of packages/resilience (bulkhead/bulkhead.ts):  *)
(* permits, a bounded queue of calls waiting for one, and a timeout that   *)
(* takes a call out of the queue.  The function a call protects may itself *)
(* go through the same bulkhead and wait for the answer.                   *)
(***************************************************************************)
EXTENDS Integers, FiniteSets, SequencesExt

CONSTANTS
  Calls,          \* the executions of Bulkhead.execute
  Null,
  Inner,          \* Inner[c]: the execution that c's function makes, or Null
  MaxConcurrent,
  MaxQueue,
  QueueTimeout,   \* queueTimeout > 0: queued calls have a timer
  MaxRejected     \* bound: no new call once so many have been rejected

ASSUME BulkheadAssumption ==
  /\ IsFiniteSet(Calls) /\ Null \notin Calls
  /\ Inner \in [Calls -> Calls \cup {Null}]
  /\ MaxConcurrent \in Nat \ {0} /\ MaxQueue \in Nat
  /\ QueueTimeout \in BOOLEAN /\ MaxRejected \in Nat

VARIABLES
  pc,             \* where each call is
  activeCalls,
  queue,
  rejectedCount

vars == <<pc, activeCalls, queue, rejectedCount>>

TypeOK == /\ pc \in [Calls -> {"idle", "queued", "running"}]
          /\ activeCalls \in 0 .. MaxConcurrent
          /\ queue \in Seq(Calls)
          /\ rejectedCount \in Nat

Init == /\ pc = [c \in Calls |-> "idle"]
        /\ activeCalls = 0
        /\ queue = <<>>
        /\ rejectedCount = 0
--------------------------------------------------------------------------------
(* A client may call at any time; an inner call is made by the function    *)
(* around it, which then waits for it.                                     *)
MayCall(c) ==
  /\ pc[c] = "idle" /\ rejectedCount < MaxRejected
  /\ \A d \in Calls : Inner[d] = c => pc[d] = "running"

Awaiting(c) == Inner[c] # Null /\ pc[Inner[c]] # "idle"

Full == activeCalls >= MaxConcurrent

(* acquirePermit: a free permit, a place in the queue, or neither.         *)
Admit(c) ==
  /\ MayCall(c) /\ ~Full
  /\ pc' = [pc EXCEPT ![c] = "running"]
  /\ activeCalls' = activeCalls + 1
  /\ UNCHANGED <<queue, rejectedCount>>

Refuse(c) ==
  /\ MayCall(c) /\ Full /\ Len(queue) >= MaxQueue
  /\ rejectedCount' = rejectedCount + 1
  /\ UNCHANGED <<pc, activeCalls, queue>>

Enqueue(c) ==
  /\ MayCall(c) /\ Full /\ Len(queue) < MaxQueue
  /\ pc' = [pc EXCEPT ![c] = "queued"]
  /\ queue' = Append(queue, c)
  /\ UNCHANGED <<activeCalls, rejectedCount>>

(* The queue's timer fires: it was cleared if the call had got its permit. *)
Place(c) == CHOOSE i \in DOMAIN queue : queue[i] = c

Without(c) == RemoveAt(queue, Place(c))

(* Mutant of TimeOut: only a full queue is relieved of calls that wait too *)
(* long.                                                                   *)
TimeOutWhenFull(c) ==
  /\ QueueTimeout /\ pc[c] = "queued" /\ Len(queue) >= MaxQueue
  /\ pc' = [pc EXCEPT ![c] = "idle"]
  /\ queue' = Without(c)
  /\ rejectedCount' = rejectedCount + 1
  /\ UNCHANGED activeCalls

TimeOut(c) ==
  /\ QueueTimeout /\ pc[c] = "queued"
  /\ pc' = [pc EXCEPT ![c] = "idle"]
  /\ queue' = Without(c)
  /\ rejectedCount' = rejectedCount + 1
  /\ UNCHANGED activeCalls

(* The function settles, either way; its permit is returned, or handed to  *)
(* the head of the queue.                                                  *)
Return(c) ==
  /\ pc[c] = "running" /\ ~Awaiting(c) /\ queue = <<>>
  /\ pc' = [pc EXCEPT ![c] = "idle"]
  /\ activeCalls' = activeCalls - 1
  /\ UNCHANGED <<queue, rejectedCount>>

(* Mutants of HandOver: the permit is not counted again; it is returned    *)
(* without waking anyone; the last of the queue gets it.                   *)
HandOverUncounted(c) ==
  /\ pc[c] = "running" /\ ~Awaiting(c) /\ queue # <<>>
  /\ pc' = [pc EXCEPT ![c] = "idle", ![Head(queue)] = "running"]
  /\ queue' = Tail(queue)
  /\ activeCalls' = activeCalls - 1
  /\ UNCHANGED rejectedCount

ReturnOnly(c) ==
  /\ pc[c] = "running" /\ ~Awaiting(c) /\ queue # <<>>
  /\ pc' = [pc EXCEPT ![c] = "idle"]
  /\ activeCalls' = activeCalls - 1
  /\ UNCHANGED <<queue, rejectedCount>>

HandOverLast(c) ==
  /\ pc[c] = "running" /\ ~Awaiting(c) /\ queue # <<>>
  /\ pc' = [pc EXCEPT ![c] = "idle", ![queue[Len(queue)]] = "running"]
  /\ queue' = SubSeq(queue, 1, Len(queue) - 1)
  /\ UNCHANGED <<activeCalls, rejectedCount>>

HandOver(c) ==
  /\ pc[c] = "running" /\ ~Awaiting(c) /\ queue # <<>>
  /\ pc' = [pc EXCEPT ![c] = "idle", ![Head(queue)] = "running"]
  /\ queue' = Tail(queue)
  /\ UNCHANGED <<activeCalls, rejectedCount>>

Settle(c) == Return(c) \/ HandOver(c)

Next == \E c \in Calls : Admit(c) \/ Refuse(c) \/ Enqueue(c) \/ TimeOut(c) \/ Settle(c)

Spec == Init /\ [][Next]_vars

(* Functions answer once what they wait for has answered, however often    *)
(* they call; timers fire.                                                 *)
FairSpec == Spec /\ \A c \in Calls : SF_vars(Settle(c)) /\ WF_vars(TimeOut(c))
--------------------------------------------------------------------------------
Holders == {c \in Calls : pc[c] = "running"}

(* Permits are neither lost nor forged: activeCalls, which goes down and   *)
(* up in releasePermit, is the number of functions that run.               *)
PermitsHeld == activeCalls = Cardinality(Holders)

(* The queue holds the calls that wait, each once: a call that timed out   *)
(* leaves no entry behind that a permit could be handed to.                *)
QueueIsLine ==
  /\ \A i \in DOMAIN queue : pc[queue[i]] = "queued"
  /\ \A c \in Calls : pc[c] = "queued" => \E i \in DOMAIN queue : queue[i] = c
  /\ \A i, j \in DOMAIN queue : queue[i] = queue[j] => i = j

(* No wake-up is lost: a call waits only while every permit is taken.      *)
NoIdlePermit == queue # <<>> => activeCalls = MaxConcurrent

(* A call is rejected only when every permit is taken, whether on arrival  *)
(* or by its queue timer.                                                  *)
RejectedWhenFull ==
  [][rejectedCount' > rejectedCount => activeCalls = MaxConcurrent]_vars

(* Waiting calls are served in the order they came.                        *)
NoOvertaking ==
  [][\A i, j \in DOMAIN queue :
       i < j /\ pc'[queue[j]] = "running" => pc'[queue[i]] # "queued"]_vars

(* Every call is answered, even when functions that hold all the permits   *)
(* wait for inner calls in the queue: the queue timer breaks the circle.   *)
EveryCallSettles == \A c \in Calls : pc[c] # "idle" ~> pc[c] = "idle"
================================================================================
