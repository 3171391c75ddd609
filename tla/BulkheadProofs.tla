------------------------------ MODULE BulkheadProofs ------------------------------
(***************************************************************************)
(* For any number of calls, permits and places in the queue, and any       *)
(* nesting: the bulkhead of Bulkhead.tla neither loses nor forges permits  *)
(* and lets nobody wait while a permit is free.                            *)
(***************************************************************************)
EXTENDS Bulkhead, FiniteSetTheorems, SequenceTheorems, TLAPS

USE DEF Full, MayCall, Awaiting

(* The inductive invariant.  NoIdlePermit needs the bound on activeCalls;  *)
(* PermitsHeld needs that the head of the queue does not run already, and  *)
(* that is QueueIsLine.                                                    *)
IInv == TypeOK /\ PermitsHeld /\ QueueIsLine /\ NoIdlePermit

LEMMA HoldersFinite == ASSUME BulkheadAssumption PROVE IsFiniteSet(Holders)
BY FS_Subset DEF BulkheadAssumption, Holders

(* A call that starts to run adds one to the number of holders, one that   *)
(* stops takes one away.                                                   *)
LEMMA OneMore ==
  ASSUME BulkheadAssumption, TypeOK, NEW c \in Calls, pc[c] # "running",
         pc' = [pc EXCEPT ![c] = "running"]
  PROVE  Cardinality(Holders)' = Cardinality(Holders) + 1
<1>1. Holders' = Holders \cup {c} /\ c \notin Holders
  BY DEF Holders, TypeOK
<1> QED
  BY <1>1, HoldersFinite, FS_AddElement

LEMMA OneLess ==
  ASSUME BulkheadAssumption, TypeOK, NEW c \in Calls, pc[c] = "running",
         pc' = [pc EXCEPT ![c] = "idle"]
  PROVE  Cardinality(Holders)' = Cardinality(Holders) - 1
<1>1. Holders' = Holders \ {c} /\ c \in Holders
  BY DEF Holders, TypeOK
<1> QED
  BY <1>1, HoldersFinite, FS_RemoveElement

LEMMA OneForAnother ==
  ASSUME BulkheadAssumption, TypeOK, NEW c \in Calls, NEW d \in Calls,
         pc[c] = "running", pc[d] = "queued",
         pc' = [pc EXCEPT ![c] = "idle", ![d] = "running"]
  PROVE  Cardinality(Holders)' = Cardinality(Holders)
<1> DEFINE rest == Holders \ {c}
<1>1. Holders' = rest \cup {d} /\ d \notin rest /\ c \in Holders
  BY DEF Holders, TypeOK
<1>2. IsFiniteSet(rest) /\ Cardinality(rest) = Cardinality(Holders) - 1
  BY <1>1, HoldersFinite, FS_RemoveElement
<1>3. Cardinality(Holders) \in Nat
  BY HoldersFinite, FS_CardinalityType
<1> HIDE DEF rest
<1>4. Cardinality(rest \cup {d}) = Cardinality(rest) + 1
  BY <1>1, <1>2, FS_AddElement
<1> QED
  BY <1>1, <1>2, <1>3, <1>4

(* Where a queued call stands, and what is left when it has gone.          *)
LEMMA PlaceInQueue ==
  ASSUME TypeOK, QueueIsLine, NEW c \in Calls, pc[c] = "queued"
  PROVE  /\ Place(c) \in 1 .. Len(queue) /\ queue[Place(c)] = c
         /\ queue # <<>>
<1>1. PICK i \in DOMAIN queue : queue[i] = c
  BY DEF QueueIsLine
<1>2. Place(c) \in DOMAIN queue /\ queue[Place(c)] = c
  BY <1>1 DEF Place
<1> QED
  BY <1>2 DEF TypeOK

LEMMA QueueWithout ==
  ASSUME TypeOK, QueueIsLine, NEW c \in Calls, pc[c] = "queued"
  PROVE  /\ Without(c) \in Seq(Calls)
         /\ Len(Without(c)) = Len(queue) - 1
         /\ \A i \in 1 .. Len(queue) - 1 :
              Without(c)[i] = IF i < Place(c) THEN queue[i] ELSE queue[i + 1]
<1> DEFINE p == Place(c)
           front == SubSeq(queue, 1, p - 1)
           back == SubSeq(queue, p + 1, Len(queue))
<1>1. p \in 1 .. Len(queue) /\ Len(queue) \in Nat /\ queue \in Seq(Calls)
  BY PlaceInQueue DEF TypeOK
<1>2. /\ front \in Seq(Calls) /\ Len(front) = p - 1
      /\ \A i \in 1 .. p - 1 : front[i] = queue[i]
  BY <1>1
<1>3. /\ back \in Seq(Calls) /\ Len(back) = Len(queue) - p
      /\ \A i \in 1 .. Len(queue) - p : back[i] = queue[p + i]
  BY <1>1
<1>4. Without(c) = front \o back
  BY DEF Without, RemoveAt
<1> HIDE DEF p, front, back
<1> DEFINE both == front \o back
<1>5. /\ both \in Seq(Calls) /\ Len(both) = Len(front) + Len(back)
      /\ \A i \in 1 .. Len(front) + Len(back) :
           both[i] = IF i <= Len(front) THEN front[i] ELSE back[i - Len(front)]
  <2>1. front \in Seq(Calls) /\ back \in Seq(Calls)
    BY <1>2, <1>3
  <2> QED
    BY <2>1, ConcatProperties
<1>6. Len(front) + Len(back) = Len(queue) - 1
  BY <1>1, <1>2, <1>3
<1> HIDE DEF both
<1>7. ASSUME NEW i \in 1 .. Len(queue) - 1
      PROVE  both[i] = IF i < p THEN queue[i] ELSE queue[i + 1]
  <2>1. CASE i < p
    BY <2>1, <1>1, <1>2, <1>5, <1>6
  <2>2. CASE i >= p
    <3>1. both[i] = back[i - (p - 1)] /\ i - (p - 1) \in 1 .. Len(queue) - p
      BY <2>2, <1>1, <1>2, <1>5, <1>6
    <3>2. p + (i - (p - 1)) = i + 1
      BY <1>1
    <3> QED
      BY <2>2, <3>1, <3>2, <1>1, <1>3
  <2> QED
    BY <2>1, <2>2, <1>1
<1> QED
  BY <1>4, <1>5, <1>6, <1>7 DEF p, both
--------------------------------------------------------------------------------
(* One lemma per action.                                                   *)
LEMMA AdmitStep ==
  ASSUME BulkheadAssumption, IInv, NEW c \in Calls, Admit(c)
  PROVE  IInv'
<1> USE DEF IInv, Admit
<1>1. TypeOK'
  BY DEF TypeOK, BulkheadAssumption
<1>2. PermitsHeld'
  BY OneMore DEF PermitsHeld
<1>3. QueueIsLine'
  BY DEF QueueIsLine, TypeOK
<1>4. NoIdlePermit'
  BY DEF NoIdlePermit, TypeOK, BulkheadAssumption
<1> QED
  BY <1>1, <1>2, <1>3, <1>4

LEMMA RefuseStep ==
  ASSUME BulkheadAssumption, IInv, NEW c \in Calls, Refuse(c)
  PROVE  IInv'
BY DEF IInv, Refuse, TypeOK, PermitsHeld, Holders, QueueIsLine, NoIdlePermit

LEMMA EnqueueStep ==
  ASSUME BulkheadAssumption, IInv, NEW c \in Calls, Enqueue(c)
  PROVE  IInv'
<1> USE DEF IInv, Enqueue
<1>1. TypeOK'
  BY DEF TypeOK
<1>2. PermitsHeld'
  <2>1. Holders' = Holders
    BY DEF Holders, TypeOK
  <2> QED
    BY <2>1 DEF PermitsHeld
<1>3. QueueIsLine'
  <2>1. /\ queue \in Seq(Calls) /\ queue' = Append(queue, c) /\ queue' \in Seq(Calls)
        /\ Len(queue') = Len(queue) + 1 /\ Len(queue) \in Nat
        /\ \A i \in 1 .. Len(queue) : queue'[i] = queue[i]
        /\ queue'[Len(queue) + 1] = c
        /\ DOMAIN queue = 1 .. Len(queue) /\ DOMAIN queue' = 1 .. Len(queue) + 1
    BY <1>1 DEF TypeOK
  <2>2. \A i \in 1 .. Len(queue) : queue[i] # c
    BY <2>1 DEF QueueIsLine
  <2>3. \A i \in DOMAIN queue' : pc'[queue'[i]] = "queued"
    BY <2>1 DEF QueueIsLine, TypeOK
  <2>4. ASSUME NEW d \in Calls, pc'[d] = "queued"
        PROVE  \E i \in DOMAIN queue' : queue'[i] = d
    BY <2>1, <2>4 DEF QueueIsLine, TypeOK
  <2>5. \A i, j \in DOMAIN queue' : queue'[i] = queue'[j] => i = j
    BY <2>1, <2>2 DEF QueueIsLine
  <2> QED
    BY <2>3, <2>4, <2>5 DEF QueueIsLine
<1>4. NoIdlePermit'
  BY DEF NoIdlePermit, TypeOK
<1> QED
  BY <1>1, <1>2, <1>3, <1>4

LEMMA TimeOutStep ==
  ASSUME BulkheadAssumption, IInv, NEW c \in Calls, TimeOut(c)
  PROVE  IInv'
<1> USE DEF IInv, TimeOut
<1> DEFINE p == Place(c)
<1>0. /\ p \in 1 .. Len(queue) /\ queue[p] = c /\ queue # <<>>
      /\ queue' \in Seq(Calls) /\ Len(queue') = Len(queue) - 1
      /\ \A i \in 1 .. Len(queue) - 1 :
           queue'[i] = IF i < p THEN queue[i] ELSE queue[i + 1]
  BY PlaceInQueue, QueueWithout
<1> HIDE DEF p
<1>1. TypeOK'
  BY <1>0 DEF TypeOK
<1>2. PermitsHeld'
  <2>1. Holders' = Holders
    BY DEF Holders, TypeOK
  <2> QED
    BY <2>1 DEF PermitsHeld
<1>3. QueueIsLine'
  <2>1. /\ Len(queue) \in Nat /\ DOMAIN queue = 1 .. Len(queue)
        /\ DOMAIN queue' = 1 .. Len(queue) - 1
    BY <1>0 DEF TypeOK
  <2>2. \A i \in DOMAIN queue : i # p => queue[i] # c /\ pc'[queue[i]] = "queued"
    BY <1>0, <2>1 DEF QueueIsLine, TypeOK
  <2>3. ASSUME NEW i \in DOMAIN queue' PROVE pc'[queue'[i]] = "queued"
    <3>1. CASE i < p
      <4>1. i \in DOMAIN queue /\ i # p /\ queue'[i] = queue[i]
        BY <3>1, <1>0, <2>1
      <4> QED
        BY <4>1, <2>2
    <3>2. CASE ~(i < p)
      <4>1. i + 1 \in DOMAIN queue /\ i + 1 # p /\ queue'[i] = queue[i + 1]
        BY <3>2, <1>0, <2>1
      <4> QED
        BY <4>1, <2>2
    <3> QED
      BY <3>1, <3>2
  <2>4. ASSUME NEW d \in Calls, pc'[d] = "queued"
        PROVE  \E i \in DOMAIN queue' : queue'[i] = d
    <3>1. PICK j \in DOMAIN queue : queue[j] = d
      BY <2>4 DEF QueueIsLine, TypeOK
    <3>2. j # p
      BY <2>4, <3>1, <1>0 DEF TypeOK
    <3>3. CASE j < p
      BY <3>1, <3>3, <1>0, <2>1
    <3>4. CASE j > p
      <4>1. j - 1 \in DOMAIN queue' /\ queue'[j - 1] = d
        BY <3>1, <3>4, <1>0, <2>1
      <4> QED
        BY <4>1
    <3> QED
      BY <3>2, <3>3, <3>4, <1>0, <2>1
  <2>5. ASSUME NEW i \in DOMAIN queue', NEW j \in DOMAIN queue', queue'[i] = queue'[j]
        PROVE  i = j
    <3>1. \A k, l \in 1 .. Len(queue) : queue[k] = queue[l] => k = l
      BY <2>1 DEF QueueIsLine
    <3> QED
      BY <3>1, <2>5, <1>0, <2>1
  <2> QED
    BY <2>3, <2>4, <2>5 DEF QueueIsLine
<1>4. NoIdlePermit'
  BY <1>0 DEF NoIdlePermit
<1> QED
  BY <1>1, <1>2, <1>3, <1>4

LEMMA ReturnStep ==
  ASSUME BulkheadAssumption, IInv, NEW c \in Calls, Return(c)
  PROVE  IInv'
<1> USE DEF IInv, Return
<1>0. Cardinality(Holders) \in Nat \ {0}
  <2>1. Holders # {}
    BY DEF Holders
  <2> QED
    BY <2>1, HoldersFinite, FS_CardinalityType, FS_EmptySet
<1>1. TypeOK'
  BY <1>0 DEF TypeOK, PermitsHeld
<1>2. PermitsHeld'
  BY OneLess DEF PermitsHeld
<1>3. QueueIsLine'
  BY DEF QueueIsLine, TypeOK
<1>4. NoIdlePermit'
  BY DEF NoIdlePermit
<1> QED
  BY <1>1, <1>2, <1>3, <1>4

LEMMA HeadOfQueue ==
  ASSUME TypeOK, QueueIsLine, queue # <<>>
  PROVE  /\ Head(queue) \in Calls /\ pc[Head(queue)] = "queued"
         /\ Head(queue) = queue[1] /\ 1 \in DOMAIN queue
BY DEF TypeOK, QueueIsLine

LEMMA HandOverStep ==
  ASSUME BulkheadAssumption, IInv, NEW c \in Calls, HandOver(c)
  PROVE  IInv'
<1> USE DEF IInv, HandOver
<1> DEFINE h == Head(queue)
<1>0. /\ h \in Calls /\ pc[h] = "queued" /\ h = queue[1] /\ 1 \in DOMAIN queue
      /\ queue' \in Seq(Calls) /\ Len(queue') = Len(queue) - 1
      /\ \A i \in 1 .. Len(queue) - 1 : queue'[i] = queue[i + 1]
  BY HeadOfQueue DEF TypeOK
<1>1. TypeOK'
  BY <1>0 DEF TypeOK
<1>2. PermitsHeld'
  BY <1>0, OneForAnother DEF PermitsHeld
<1> HIDE DEF h
<1>3. QueueIsLine'
  <2>1. /\ Len(queue) \in Nat /\ DOMAIN queue = 1 .. Len(queue)
        /\ DOMAIN queue' = 1 .. Len(queue) - 1
    BY <1>0 DEF TypeOK
  <2>2. ASSUME NEW i \in DOMAIN queue' PROVE pc'[queue'[i]] = "queued"
    BY <1>0, <2>1 DEF QueueIsLine, TypeOK, h
  <2>3. ASSUME NEW d \in Calls, pc'[d] = "queued"
        PROVE  \E i \in DOMAIN queue' : queue'[i] = d
    <3>1. PICK j \in DOMAIN queue : queue[j] = d
      BY <2>3 DEF QueueIsLine, TypeOK
    <3>2. d # h
      BY <2>3, <1>0 DEF TypeOK, h
    <3>3. j - 1 \in DOMAIN queue' /\ queue'[j - 1] = d
      BY <3>1, <3>2, <1>0, <2>1
    <3> QED
      BY <3>3
  <2>4. ASSUME NEW i \in DOMAIN queue', NEW j \in DOMAIN queue', queue'[i] = queue'[j]
        PROVE  i = j
    BY <2>4, <1>0, <2>1 DEF QueueIsLine
  <2> QED
    BY <2>2, <2>3, <2>4 DEF QueueIsLine
<1>4. NoIdlePermit'
  BY DEF NoIdlePermit
<1> QED
  BY <1>1, <1>2, <1>3, <1>4
--------------------------------------------------------------------------------
LEMMA Initially == ASSUME BulkheadAssumption, Init PROVE IInv
<1>1. Holders = {}
  BY DEF Init, Holders
<1>2. PermitsHeld
  BY <1>1, FS_EmptySet DEF Init, PermitsHeld
<1>3. TypeOK /\ QueueIsLine /\ NoIdlePermit
  BY DEF Init, TypeOK, QueueIsLine, NoIdlePermit, BulkheadAssumption
<1> QED
  BY <1>2, <1>3 DEF IInv

LEMMA Unchanged == ASSUME IInv, UNCHANGED vars PROVE IInv'
BY DEF IInv, vars, TypeOK, PermitsHeld, Holders, QueueIsLine, NoIdlePermit

LEMMA Step == ASSUME BulkheadAssumption, IInv, [Next]_vars PROVE IInv'
<1>1. ASSUME NEW c \in Calls,
             Admit(c) \/ Refuse(c) \/ Enqueue(c) \/ TimeOut(c) \/ Settle(c)
      PROVE  IInv'
  BY <1>1, AdmitStep, RefuseStep, EnqueueStep, TimeOutStep, ReturnStep, HandOverStep
     DEF Settle
<1> QED
  BY <1>1, Unchanged DEF Next

(* Everything the run Bulkhead.cfg checks of the states.                   *)
THEOREM Invariance == Spec => []IInv
BY Initially, Step, BulkheadAssumption, PTL DEF Spec

(* Every variable keeps its type: activeCalls stays within 0 and           *)
(* maxConcurrent when a permit goes down and up (releasePermit).           *)
THEOREM TypeCorrect == Spec => []TypeOK
<1>1. IInv => TypeOK
  BY DEF IInv
<1> QED
  BY <1>1, Invariance, PTL

(* activeCalls is the number of functions that run, and at most            *)
(* maxConcurrent: acquirePermit and releasePermit keep their books, queue  *)
(* timeouts and nested calls included.                                     *)
THEOREM Permits == Spec => [](PermitsHeld /\ activeCalls <= MaxConcurrent)
<1>1. ASSUME BulkheadAssumption, IInv PROVE PermitsHeld /\ activeCalls <= MaxConcurrent
  BY <1>1 DEF IInv, TypeOK, BulkheadAssumption
<1> QED
  BY <1>1, Invariance, BulkheadAssumption, PTL

(* A call waits only while every permit is taken.                          *)
THEOREM NoLostWakeUp == Spec => []NoIdlePermit
<1>1. IInv => NoIdlePermit
  BY DEF IInv
<1> QED
  BY <1>1, Invariance, PTL

(* A call is rejected only when every permit is taken, on arrival and in   *)
(* the queue.                                                              *)
THEOREM Rejections == Spec => RejectedWhenFull
<1> DEFINE Full1 == rejectedCount' > rejectedCount => activeCalls = MaxConcurrent
<1>1. ASSUME BulkheadAssumption, IInv, [Next]_vars PROVE [Full1]_vars
  <2>1. ASSUME NEW c \in Calls, Refuse(c) PROVE Full1
    BY <1>1, <2>1 DEF IInv, Refuse, TypeOK, BulkheadAssumption
  <2>2. ASSUME NEW c \in Calls, TimeOut(c) PROVE Full1
    BY <1>1, <2>2, PlaceInQueue DEF IInv, TimeOut, NoIdlePermit
  <2>3. ASSUME NEW c \in Calls, Admit(c) \/ Enqueue(c) \/ Settle(c) PROVE Full1
    BY <1>1, <2>3 DEF IInv, TypeOK, Admit, Enqueue, Settle, Return, HandOver
  <2> QED
    BY <1>1, <2>1, <2>2, <2>3 DEF Next
<1> QED
  BY <1>1, Invariance, BulkheadAssumption, PTL DEF Spec, RejectedWhenFull

(* A permit goes to the call that has waited longest.                      *)
THEOREM FirstComeFirstServed == Spec => NoOvertaking
<1> DEFINE InOrder == \A i, j \in DOMAIN queue :
             i < j /\ pc'[queue[j]] = "running" => pc'[queue[i]] # "queued"
<1>1. ASSUME BulkheadAssumption, IInv, [Next]_vars PROVE [InOrder]_vars
  <2> SUFFICES ASSUME NEW i \in DOMAIN queue, NEW j \in DOMAIN queue, i < j,
                      pc'[queue[j]] = "running"
               PROVE  FALSE
    BY DEF InOrder
  <2>1. /\ queue[j] \in Calls /\ pc[queue[j]] = "queued"
        /\ Head(queue) = queue[1] /\ 1 \in DOMAIN queue /\ 1 # j
        /\ queue[j] # queue[1]
    BY <1>1 DEF IInv, TypeOK, QueueIsLine
  <2>2. ASSUME NEW c \in Calls,
               Admit(c) \/ Refuse(c) \/ Enqueue(c) \/ TimeOut(c) \/ Return(c)
        PROVE  FALSE
    BY <1>1, <2>1, <2>2 DEF IInv, TypeOK, Admit, Refuse, Enqueue, TimeOut, Return
  <2>3. ASSUME NEW c \in Calls, HandOver(c) PROVE FALSE
    BY <1>1, <2>1, <2>3, HeadOfQueue DEF IInv, TypeOK, HandOver
  <2>4. ASSUME UNCHANGED vars PROVE FALSE
    BY <2>1, <2>4 DEF vars
  <2> QED
    BY <1>1, <2>2, <2>3, <2>4 DEF Next, Settle
<1> QED
  BY <1>1, Invariance, BulkheadAssumption, PTL DEF Spec, NoOvertaking
================================================================================
