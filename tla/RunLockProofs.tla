----------------------------- MODULE RunLockProofs -----------------------------
(***************************************************************************)
(* The two implementations of the run lock, and how far each implements    *)
(* the contract (RunLock), for any number of callers, runs and connections.*)
(* The promise chain of the in-memory storage does so always: whoever is   *)
(* inside a section is the oldest caller of that run not yet settled.  The *)
(* advisory lock of the Prisma storage does so up to the keys that a pool  *)
(* has got wrong: on a key no unlock of which went astray, a session holds *)
(* exactly as many locks as calls were granted one on it.  The two         *)
(* specifications share `pc` and `run`; names without a prefix are those   *)
(* of the advisory lock.                                                   *)
(***************************************************************************)
EXTENDS AdvisoryLock, SequenceTheorems, FiniteSetTheorems, TLAPS

VARIABLES chain, rejected

Memory == INSTANCE MemoryLock
--------------------------------------------------------------------------------
InsideIsHead == \A c \in Calls : pc[c] = "inside" => Memory!IsHead(c)

MemoryInv == Memory!TypeOK /\ InsideIsHead

(* Chaining one more call does not change which call is the oldest.        *)
LEMMA AppendKeepsHead ==
  ASSUME NEW S, NEW s \in Seq(S), NEW e \in S, s # <<>>
  PROVE  Append(s, e) # <<>> /\ Head(Append(s, e)) = Head(s)
  BY HeadTailAppend, AppendProperties

(* Every step of the chain keeps the inductive invariant.                  *)
LEMMA MemoryInductive ==
  ASSUME MemoryInv, [Memory!Next]_(Memory!vars) PROVE MemoryInv'
<1> USE DEF MemoryInv, Memory!TypeOK, InsideIsHead, Memory!IsHead
<1>1. ASSUME NEW c \in Calls, NEW r \in Runs, Memory!Request(c, r) PROVE MemoryInv'
  <2>1. Memory!TypeOK' BY <1>1 DEF Memory!Request
  <2>2. ASSUME NEW d \in Calls, pc'[d] = "inside" PROVE Memory!IsHead(d)'
    <3>1. d # c /\ pc[d] = "inside" /\ run'[d] = run[d]
      BY <1>1, <2>2 DEF Memory!Request
    <3>2. QED BY <1>1, <3>1, AppendKeepsHead DEF Memory!Request
  <2>3. QED BY <2>1, <2>2
<1>2. ASSUME NEW c \in Calls, Memory!Enter(c) PROVE MemoryInv'
  BY <1>2 DEF Memory!Enter
<1>3. ASSUME NEW c \in Calls, NEW ok \in BOOLEAN, Memory!Leave(c, ok) PROVE MemoryInv'
  <2>1. Memory!TypeOK' BY <1>3 DEF Memory!Leave, Memory!Settled
  <2>2. ASSUME NEW d \in Calls, pc'[d] = "inside" PROVE Memory!IsHead(d)'
    <3>1. d # c /\ pc[d] = "inside" /\ run[d] # run[c]
      BY <1>3, <2>2 DEF Memory!Leave
    <3>2. QED BY <1>3, <3>1 DEF Memory!Leave, Memory!Settled
  <2>3. QED BY <2>1, <2>2
<1>4. ASSUME NEW c \in Calls, Memory!Inherit(c) PROVE MemoryInv'
  <2>1. Memory!TypeOK' BY <1>4 DEF Memory!Inherit, Memory!Settled
  <2>2. ASSUME NEW d \in Calls, pc'[d] = "inside" PROVE Memory!IsHead(d)'
    <3>1. d # c /\ pc[d] = "inside" /\ run[d] # run[c]
      BY <1>4, <2>2 DEF Memory!Inherit
    <3>2. QED BY <1>4, <3>1 DEF Memory!Inherit, Memory!Settled
  <2>3. QED BY <2>1, <2>2
<1>5. CASE UNCHANGED Memory!vars
  BY <1>5 DEF Memory!vars
<1>6. QED
  BY <1>1, <1>2, <1>3, <1>4, <1>5 DEF Memory!Next

(* The variables keep their types and whoever is inside is the head of its *)
(* chain, in every reachable state.                                        *)
THEOREM MemoryInvariance == Memory!Spec => []MemoryInv
<1>1. Memory!Init => MemoryInv
  BY DEF Memory!Init, MemoryInv, Memory!TypeOK, InsideIsHead
<1>2. MemoryInv /\ [Memory!Next]_(Memory!vars) => MemoryInv'
  BY MemoryInductive
<1>3. QED BY <1>1, <1>2, PTL DEF Memory!Spec

(* The chains of memoryLockQueues hold calls, each at a place it may be at.*)
THEOREM MemoryTypeCorrect == Memory!Spec => []Memory!TypeOK
<1>1. MemoryInv => Memory!TypeOK
  BY DEF MemoryInv
<1>2. QED BY <1>1, MemoryInvariance, PTL

(* Mutual exclusion: two sections of one run never overlap.                *)
THEOREM MemoryMutualExclusion == Memory!Spec => []Memory!OneAtATime
<1>1. MemoryInv => Memory!OneAtATime
  BY DEF MemoryInv, InsideIsHead, Memory!IsHead, Memory!OneAtATime
<1>2. QED BY <1>1, MemoryInvariance, PTL

(* Every behaviour of the promise chain is one of the contract.            *)
THEOREM MemoryRefinement == Memory!Spec => Memory!ImplementsContract
<1>1. Memory!Init => Memory!Contract!Init
  BY DEF Memory!Init, Memory!Contract!Init
<1>2. ASSUME MemoryInv, [Memory!Next]_(Memory!vars)
      PROVE  [Memory!Contract!Next]_(Memory!Contract!vars)
  <2> USE <1>2 DEF Memory!Contract!Next, Memory!Contract!vars, Memory!Contract!Move
  <2>1. ASSUME NEW c \in Calls, NEW r \in Runs, Memory!Request(c, r)
        PROVE Memory!Contract!Request(c, r)
    BY <2>1 DEF Memory!Request, Memory!Contract!Request
  <2>2. ASSUME NEW c \in Calls, Memory!Enter(c) PROVE Memory!Contract!Enter(c)
    BY <2>2 DEF Memory!Enter, Memory!Contract!Enter, MemoryInv, InsideIsHead, Memory!IsHead
  <2>3. ASSUME NEW c \in Calls, NEW ok \in BOOLEAN, Memory!Leave(c, ok)
        PROVE Memory!Contract!Leave(c)
    BY <2>3 DEF Memory!Leave, Memory!Contract!Leave
  <2>4. ASSUME NEW c \in Calls, Memory!Inherit(c) PROVE Memory!Contract!Refuse(c)
    BY <2>4 DEF Memory!Inherit, Memory!Contract!Refuse
  <2>5. CASE UNCHANGED Memory!vars
    BY <2>5 DEF Memory!vars
  <2>6. QED
    BY <2>1, <2>2, <2>3, <2>4, <2>5 DEF Memory!Next
<1>3. QED BY <1>1, <1>2, MemoryInvariance, PTL DEF Memory!Spec, Memory!ImplementsContract,
      Memory!Contract!Spec
--------------------------------------------------------------------------------
(* The calls for which session s took lock k and has not been asked for it *)
(* back.                                                                   *)
Takers(s, k) == {c \in Calls : s \in grant[c] /\ Key(c) = k}

(* A grant is on one session of the call's own pool, and the call it was   *)
(* made to is inside its section or on its way out.                        *)
Grants ==
  \A c \in Calls :
    /\ grant[c] = {} \/ \E s \in Pool[c] : grant[c] = {s}
    /\ pc[c] = "inside" => grant[c] # {}
    /\ pc[c] \in {"idle", "waiting"} => grant[c] = {}

Counts == \A k \in Keys \ astray, s \in Sessions :
            held[s][k] = Cardinality(Takers(s, k))

OneHolder == \A k \in Keys \ astray, s, t \in Sessions :
               held[s][k] > 0 /\ held[t][k] > 0 => s = t

AdvisoryInv == TypeOK /\ Grants /\ Counts /\ OneHolder

LEMMA KeyType ==
  ASSUME TypeOK, NEW c \in Calls
  PROVE  Key(c) \in Keys
BY ConfigAssumption DEF ConfigAssumption, TypeOK, Key

LEMMA TakersFinite ==
  ASSUME NEW s, NEW k
  PROVE  IsFiniteSet(Takers(s, k)) /\ Cardinality(Takers(s, k)) \in Nat
<1>1. IsFiniteSet(Takers(s, k))
  BY ConfigAssumption, FS_Subset DEF ConfigAssumption, Takers
<1> QED
  BY <1>1, FS_CardinalityType

(* While no unlock of its key went astray, a call's grant is a lock held.  *)
LEMMA GrantIsHeld ==
  ASSUME AdvisoryInv, NEW c \in Calls, NEW s \in grant[c], Key(c) \notin astray
  PROVE  s \in Pool[c] /\ s \in Sessions /\ held[s][Key(c)] > 0
<1>1. s \in Pool[c] /\ s \in Sessions /\ Key(c) \in Keys
  BY KeyType, ConfigAssumption DEF AdvisoryInv, Grants, ConfigAssumption
<1>2. Takers(s, Key(c)) # {}
  BY DEF Takers
<1>3. Cardinality(Takers(s, Key(c))) > 0
  BY <1>2, TakersFinite, FS_EmptySet
<1> QED
  BY <1>1, <1>3 DEF AdvisoryInv, Counts

(* A call inside its section has a grant of a session of its process.      *)
LEMMA InsideIsGranted ==
  ASSUME AdvisoryInv, NEW c \in Calls, Inside(c)
  PROVE  \E s \in Pool[c] : s \in grant[c]
BY DEF AdvisoryInv, Grants, Inside
--------------------------------------------------------------------------------
(* A step that leaves locks, grants and keys of granted calls alone.       *)
LEMMA NothingTaken ==
  ASSUME AdvisoryInv, UNCHANGED <<held, grant, astray>>, TypeOK', Grants',
         \A c \in Calls : grant[c] # {} => run'[c] = run[c]
  PROVE  AdvisoryInv'
<1>1. ASSUME NEW s, NEW k PROVE Takers(s, k)' = Takers(s, k)
  BY DEF Takers, Key
<1> QED
  BY <1>1 DEF AdvisoryInv, Counts, OneHolder

LEMMA AdvisoryRequest ==
  ASSUME AdvisoryInv, NEW c \in Calls, NEW r \in Runs, Request(c, r)
  PROVE  AdvisoryInv'
<1> USE DEF AdvisoryInv, Request
<1>1. TypeOK' /\ Grants'
  BY DEF TypeOK, Grants
<1>2. \A d \in Calls : grant[d] # {} => run'[d] = run[d]
  BY DEF TypeOK, Grants
<1> QED
  BY <1>1, <1>2, NothingTaken

LEMMA AdvisoryLeave ==
  ASSUME AdvisoryInv, NEW c \in Calls, Leave(c)
  PROVE  AdvisoryInv'
<1> USE DEF AdvisoryInv, Leave
<1>1. TypeOK' /\ Grants'
  BY DEF TypeOK, Grants
<1> QED
  BY <1>1, NothingTaken

LEMMA AdvisoryTryLock ==
  ASSUME AdvisoryInv, NEW c \in Calls, NEW s \in Sessions, TryLock(c, s)
  PROVE  AdvisoryInv'
<1> USE DEF AdvisoryInv
<1> DEFINE k == Key(c)
<1>1. /\ k \in Keys /\ s \in Pool[c] /\ pc[c] = "waiting" /\ grant[c] = {}
      /\ UNCHANGED <<run, astray>>
  BY KeyType DEF TryLock, Grants
<1>2. CASE ~Free(s, k)
  <2>1. UNCHANGED <<held, grant, reentered>> /\ pc' = [pc EXCEPT ![c] = "unlocking"]
    BY <1>2 DEF TryLock
  <2>2. TypeOK' /\ Grants'
    BY <1>1, <2>1 DEF TypeOK, Grants
  <2> QED
    BY <1>1, <2>1, <2>2, NothingTaken
<1>3. CASE Free(s, k)
  <2>1. /\ held' = [held EXCEPT ![s][k] = @ + 1]
        /\ grant' = [grant EXCEPT ![c] = {s}]
        /\ pc' = [pc EXCEPT ![c] = "inside"]
        /\ reentered' \subseteq Keys
    BY <1>1, <1>3 DEF TryLock, Granted, TypeOK
  <2>2. TypeOK'
    BY <1>1, <2>1 DEF TypeOK
  <2>3. Grants'
    BY <1>1, <2>1 DEF TypeOK, Grants
  <2>4. Counts'
    <3> SUFFICES ASSUME NEW j \in Keys \ astray, NEW t \in Sessions
                 PROVE  held'[t][j] = Cardinality(Takers(t, j)')
      BY <1>1 DEF Counts
    <3>1. CASE t = s /\ j = k
      <4>1. Takers(t, j)' = Takers(t, j) \cup {c} /\ c \notin Takers(t, j)
        BY <1>1, <2>1, <3>1 DEF Takers, Key, TypeOK
      <4>2. Cardinality(Takers(t, j)') = Cardinality(Takers(t, j)) + 1
        BY <4>1, TakersFinite, FS_AddElement
      <4>3. held'[t][j] = held[t][j] + 1
        BY <1>1, <2>1, <3>1 DEF TypeOK
      <4> QED
        BY <4>2, <4>3 DEF Counts
    <3>2. CASE ~(t = s /\ j = k)
      <4>1. Takers(t, j)' = Takers(t, j)
        BY <1>1, <2>1, <3>2 DEF Takers, Key, TypeOK
      <4>2. held'[t][j] = held[t][j]
        BY <1>1, <2>1, <3>2 DEF TypeOK
      <4> QED
        BY <4>1, <4>2 DEF Counts
    <3> QED
      BY <3>1, <3>2
  <2>5. OneHolder'
    BY <1>1, <1>3, <2>1 DEF OneHolder, Free, TypeOK
  <2> QED
    BY <2>2, <2>3, <2>4, <2>5
<1> QED
  BY <1>2, <1>3

LEMMA AdvisoryUnlock ==
  ASSUME AdvisoryInv, NEW c \in Calls, NEW s \in Sessions, Unlock(c, s)
  PROVE  AdvisoryInv'
<1> USE DEF AdvisoryInv
<1> DEFINE k == Key(c)
<1>1. /\ k \in Keys /\ s \in Pool[c] /\ pc[c] = "unlocking" /\ run' = run
      /\ pc' = [pc EXCEPT ![c] = "idle"] /\ grant' = [grant EXCEPT ![c] = {}]
      /\ reentered' = reentered /\ astray \subseteq astray' /\ astray' \subseteq Keys
  BY KeyType DEF Unlock, TypeOK
<1>2. held' = [held EXCEPT ![s][k] = IF @ > 0 THEN @ - 1 ELSE 0]
  BY DEF Unlock
<1>3. TypeOK' /\ Grants'
  BY <1>1, <1>2 DEF TypeOK, Grants
<1>4. \A t \in Sessions, j \in Keys :
        /\ held[t][j] \in Nat /\ held'[t][j] =< held[t][j]
        /\ ~(t = s /\ j = k) => held'[t][j] = held[t][j]
  BY <1>1, <1>2 DEF TypeOK
<1>5. Counts'
  <2> SUFFICES ASSUME NEW j \in Keys \ astray', NEW t \in Sessions
               PROVE  held'[t][j] = Cardinality(Takers(t, j)')
    BY DEF Counts
  <2>0. j \in Keys \ astray /\ held[t][j] = Cardinality(Takers(t, j))
    BY <1>1 DEF Counts
  <2>1. CASE j # k
    <3>1. Takers(t, j)' = Takers(t, j)
      BY <1>1, <2>1 DEF Takers, Key, TypeOK
    <3> QED
      BY <1>4, <2>0, <2>1, <3>1
  <2>2. CASE j = k
    <3>1. ~GoesAstray(c, s)
      BY <2>2 DEF Unlock
    <3>2. CASE grant[c] = {s} /\ t = s
      <4>1. Takers(t, j)' = Takers(t, j) \ {c} /\ c \in Takers(t, j)
        BY <1>1, <2>2, <3>2 DEF Takers, Key, TypeOK
      <4>2. Cardinality(Takers(t, j)') = Cardinality(Takers(t, j)) - 1
        BY <4>1, TakersFinite, FS_RemoveElement
      <4>3. held[t][j] > 0
        BY <2>0, <2>2, <3>2, GrantIsHeld
      <4> QED
        BY <1>1, <1>2, <2>0, <2>2, <3>2, <4>2, <4>3 DEF TypeOK
    <3>3. CASE grant[c] = {s} /\ t # s
      <4>1. Takers(t, j)' = Takers(t, j)
        BY <1>1, <3>3 DEF Takers, Key, TypeOK
      <4> QED
        BY <1>4, <2>0, <3>3, <4>1
    <3>4. CASE grant[c] # {s}
      <4>1. grant[c] = {} /\ ~(held[s][k] > 0)
        BY <3>1, <3>4 DEF GoesAstray
      <4>2. Takers(t, j)' = Takers(t, j)
        BY <1>1, <4>1 DEF Takers, Key, TypeOK
      <4>3. held'[t][j] = held[t][j]
        BY <1>1, <1>2, <1>4, <4>1 DEF TypeOK
      <4> QED
        BY <2>0, <4>2, <4>3
    <3> QED
      BY <3>2, <3>3, <3>4
  <2> QED
    BY <2>1, <2>2
<1>6. OneHolder'
  <2> SUFFICES ASSUME NEW j \in Keys \ astray', NEW t \in Sessions, NEW u \in Sessions,
                      held'[t][j] > 0, held'[u][j] > 0
               PROVE  t = u
    BY DEF OneHolder
  <2>1. j \in Keys \ astray /\ held[t][j] > 0 /\ held[u][j] > 0
    BY <1>1, <1>3, <1>4 DEF TypeOK
  <2> QED
    BY <2>1 DEF OneHolder
<1> QED
  BY <1>3, <1>5, <1>6

(* The sessions of the process that dies hold nothing any more, and nobody *)
(* was granted anything on them but the calls that die.                    *)
LEMMA AdvisoryCrash ==
  ASSUME AdvisoryInv, NEW c \in Calls, Crash(c)
  PROVE  AdvisoryInv'
<1> USE DEF AdvisoryInv
<1>1. /\ UNCHANGED <<run, reentered, astray>>
      /\ \A d \in Calls : /\ pc'[d] = IF Pool[d] = Pool[c] THEN "idle" ELSE pc[d]
                          /\ grant'[d] = IF Pool[d] = Pool[c] THEN {} ELSE grant[d]
  BY DEF Crash
<1>2. /\ held' \in [Sessions -> [Keys -> Nat]]
      /\ \A s \in Sessions, k \in Keys :
           held'[s][k] = IF s \in Pool[c] THEN 0 ELSE held[s][k]
  BY DEF Crash, TypeOK
<1>3. TypeOK' /\ Grants'
  BY <1>1, <1>2 DEF Crash, TypeOK, Grants
<1>4. Counts'
  <2> SUFFICES ASSUME NEW k \in Keys \ astray, NEW s \in Sessions
               PROVE  held'[s][k] = Cardinality(Takers(s, k)')
    BY <1>1 DEF Counts
  <2>1. CASE s \in Pool[c]
    <3>1. ASSUME NEW d \in Calls, s \in grant'[d] PROVE FALSE
      <4>1. Pool[d] # Pool[c] /\ s \in Pool[d]
        BY <1>1, <3>1 DEF Grants
      <4> QED
        BY <2>1, <4>1, ConfigAssumption DEF ConfigAssumption
    <3>2. Takers(s, k)' = {}
      BY <3>1 DEF Takers
    <3> QED
      BY <1>2, <2>1, <3>2, FS_EmptySet
  <2>2. CASE s \notin Pool[c]
    <3>1. ASSUME NEW d \in Calls PROVE s \in grant'[d] <=> s \in grant[d]
      BY <1>1, <2>2 DEF Grants
    <3>2. Takers(s, k)' = Takers(s, k)
      BY <1>1, <3>1 DEF Takers, Key
    <3> QED
      BY <1>2, <2>2, <3>2 DEF Counts
  <2> QED
    BY <2>1, <2>2
<1>5. OneHolder'
  BY <1>1, <1>2 DEF OneHolder
<1> QED
  BY <1>3, <1>4, <1>5
--------------------------------------------------------------------------------
LEMMA AdvisoryInitially ==
  ASSUME Init
  PROVE  AdvisoryInv
<1> USE DEF Init
<1>1. TypeOK /\ Grants
  BY DEF TypeOK, Grants
<1>2. ASSUME NEW s, NEW k PROVE Takers(s, k) = {}
  BY DEF Takers
<1>3. Counts
  BY <1>2, FS_EmptySet DEF Counts
<1>4. OneHolder
  BY DEF OneHolder
<1> QED
  BY <1>1, <1>3, <1>4 DEF AdvisoryInv

LEMMA AdvisoryStep ==
  ASSUME AdvisoryInv, [Next]_vars
  PROVE  AdvisoryInv'
<1>1. CASE UNCHANGED vars
  <2>1. TypeOK' /\ Grants' /\ UNCHANGED <<held, grant, astray, run>>
    BY <1>1 DEF vars, AdvisoryInv, TypeOK, Grants
  <2> QED
    BY <2>1, NothingTaken
<1> QED
  BY <1>1, AdvisoryRequest, AdvisoryTryLock, AdvisoryLeave, AdvisoryUnlock,
       AdvisoryCrash
  DEF Next

(* However calls share connections, on a key whose unlocks all met their   *)
(* grants the counts are right and one session at most is a holder, in     *)
(* every reachable state.                                                  *)
THEOREM AdvisoryInvariance == Spec => []AdvisoryInv
<1>1. ASSUME AdvisoryInv, [Next]_vars PROVE AdvisoryInv'
  BY <1>1, AdvisoryStep
<1> QED
  BY <1>1, AdvisoryInitially, PTL DEF Spec

(* The counts of the sessions keep their type however calls share sessions:*)
(* no unlock, also of a call that was refused, takes a count below zero.   *)
THEOREM AdvisoryTypeCorrect == Spec => []TypeOK
<1>1. AdvisoryInv => TypeOK
  BY DEF AdvisoryInv
<1> QED
  BY <1>1, AdvisoryInvariance, PTL

(* Once every call has come back, what is still locked is what an unlock   *)
(* that went astray has left: a count is as high as the number of grants.  *)
THEOREM AdvisoryReleased == Spec => []LeaksAreStrays
<1>1. ASSUME AdvisoryInv PROVE LeaksAreStrays
  <2>1. ASSUME \A c \in Calls : pc[c] = "idle",
               NEW s \in Sessions, NEW k \in Keys \ astray
        PROVE  held[s][k] = 0
    <3>1. Takers(s, k) = {}
      BY <1>1, <2>1 DEF AdvisoryInv, Grants, Takers
    <3> QED
      BY <1>1, <3>1, FS_EmptySet DEF AdvisoryInv, Counts
  <2> QED
    BY <2>1 DEF LeaksAreStrays
<1> QED
  BY <1>1, AdvisoryInvariance, PTL

(* Two processes are inside sections of one key only if an unlock of that  *)
(* key went astray: both sections hold it, and it has one holder.          *)
THEOREM AdvisoryKeepsOut == Spec => []OthersKeptOut
<1>1. ASSUME AdvisoryInv PROVE OthersKeptOut
  <2> SUFFICES ASSUME NEW c \in Calls, NEW d \in Calls, Inside(c), Inside(d),
                      Pool[c] # Pool[d], Key(c) = Key(d), Key(c) \notin astray
               PROVE  FALSE
    BY DEF OthersKeptOut
  <2>1. PICK s \in Pool[c] : s \in grant[c]
    BY <1>1, InsideIsGranted
  <2>2. PICK t \in Pool[d] : t \in grant[d]
    BY <1>1, InsideIsGranted
  <2>3. /\ s \in Sessions /\ held[s][Key(c)] > 0
        /\ t \in Sessions /\ held[t][Key(c)] > 0
    BY <1>1, <2>1, <2>2, GrantIsHeld
  <2>4. s = t
    BY <1>1, <2>3, KeyType DEF AdvisoryInv, OneHolder
  <2> QED
    BY <2>1, <2>2, <2>4, ConfigAssumption DEF ConfigAssumption
<1> QED
  BY <1>1, AdvisoryInvariance, PTL
--------------------------------------------------------------------------------
(* Outside its finally block a call is at the same place for the contract. *)
LEMMA PlaceOf ==
  ASSUME TypeOK, NEW c \in Calls
  PROVE  /\ pc[c] = "unlocking" => Place(c) = "idle"
         /\ pc[c] # "unlocking" => Place(c) = pc[c]
BY DEF TypeOK, Place

(* A step that leaves every call but one where it was moves that call, and *)
(* only that call, in the eyes of the contract.                            *)
LEMMA OnePlaceMoves ==
  ASSUME NEW c \in Calls, NEW to, pc' = [pc EXCEPT ![c] = to], TypeOK
  PROVE  [d \in Calls |-> Place(d)]'
           = [[d \in Calls |-> Place(d)]
                EXCEPT ![c] = IF to = "unlocking" THEN "idle" ELSE to]
BY DEF TypeOK, Place

(* A key that no session of another process holds, on a session that did   *)
(* not hold it either, is nobody's: no section of it is in progress.       *)
LEMMA FreshGrant ==
  ASSUME AdvisoryInv, NEW s \in Sessions, NEW k \in Keys \ astray,
         Free(s, k), ~(held[s][k] > 0), NEW d \in Calls, Inside(d)
  PROVE  Key(d) # k
<1> SUFFICES ASSUME Key(d) = k PROVE FALSE
  OBVIOUS
<1>1. PICK t \in Pool[d] : t \in grant[d]
  BY InsideIsGranted
<1>2. t \in Sessions /\ held[t][k] > 0
  BY <1>1, GrantIsHeld
<1>3. t = s \/ held[t][k] = 0
  BY <1>2 DEF Free
<1> QED
  BY <1>2, <1>3

(* For any pools, keys and crashes, the only steps of the advisory lock    *)
(* that its contract does not have let a call into a section beside        *)
(* another on a key granted twice to one session or unlocked astray: the   *)
(* try enters or refuses, fn settles in the step that leaves, the finally  *)
(* block is invisible, a crash takes the calls of one process away.        *)
THEOREM AdvisoryRefinement == Spec => KeepsContract
<1> DEFINE Excused == \E c \in Calls : /\ pc[c] = "waiting" /\ pc'[c] = "inside"
                                       /\ Key(c) \in reentered' \cup astray'
<1>1. ASSUME AdvisoryInv, [Next]_vars
      PROVE  Contract!Next \/ UNCHANGED Contract!vars \/ Excused
  <2> USE <1>1 DEF AdvisoryInv
  <2>1. ASSUME NEW c \in Calls, NEW r \in Runs, Request(c, r)
        PROVE  Contract!Request(c, r)
    BY <2>1, PlaceOf, OnePlaceMoves
    DEF Request, Contract!Request, Contract!Move
  <2>2. ASSUME NEW c \in Calls, NEW s \in Sessions, TryLock(c, s)
        PROVE  Contract!Enter(c) \/ Contract!Refuse(c) \/ Excused
    <3>1. pc[c] = "waiting" /\ run' = run /\ astray' = astray /\ Key(c) \in Keys
      BY <2>2, KeyType DEF TryLock
    <3>2. CASE Free(s, Key(c))
      <4>1. pc' = [pc EXCEPT ![c] = "inside"] /\ pc'[c] = "inside"
        BY <2>2, <3>2 DEF TryLock, TypeOK
      <4>2. CASE Key(c) \in reentered' \cup astray'
        BY <3>1, <4>1, <4>2
      <4>3. CASE Key(c) \notin reentered' \cup astray'
        <5>1. ~(held[s][Key(c)] > 0)
          BY <2>2, <3>2, <4>3 DEF TryLock, Granted
        <5>2. ASSUME NEW d \in Calls, Place(d) = "inside" PROVE run[d] # run[c]
          <6>1. Inside(d)
            BY <5>2, PlaceOf DEF Inside
          <6>2. Key(d) # Key(c)
            BY <3>1, <3>2, <4>3, <5>1, <6>1, FreshGrant
          <6> QED
            BY <6>2 DEF Key
        <5> QED
          BY <3>1, <4>1, <5>2, PlaceOf, OnePlaceMoves
          DEF Contract!Enter, Contract!Move
      <4> QED
        BY <4>2, <4>3
    <3>3. CASE ~Free(s, Key(c))
      <4>1. pc' = [pc EXCEPT ![c] = "unlocking"]
        BY <2>2, <3>3 DEF TryLock
      <4> QED
        BY <3>1, <4>1, PlaceOf, OnePlaceMoves
        DEF Contract!Refuse, Contract!Move
    <3> QED
      BY <3>2, <3>3
  <2>3. ASSUME NEW c \in Calls, Leave(c) PROVE Contract!Leave(c)
    BY <2>3, PlaceOf, OnePlaceMoves
    DEF Leave, Contract!Leave, Contract!Move
  <2>4. ASSUME NEW c \in Calls, NEW s \in Sessions, Unlock(c, s)
        PROVE  UNCHANGED Contract!vars
    BY <2>4 DEF Unlock, Contract!vars, TypeOK, Place
  <2>5. ASSUME NEW c \in Calls, Crash(c) PROVE Contract!Vanish
    <3>1. /\ {d \in Calls : Pool[d] = Pool[c]} \in SUBSET Calls
          /\ [d \in Calls |-> Place(d)]'
               = [d \in Calls |-> IF d \in {e \in Calls : Pool[e] = Pool[c]} THEN "idle"
                                  ELSE [e \in Calls |-> Place(e)][d]]
          /\ run' = run
      BY <2>5 DEF Crash, Place, TypeOK
    <3> QED
      BY <3>1 DEF Contract!Vanish
  <2>6. CASE UNCHANGED vars
    BY <2>6 DEF vars, Contract!vars, Place
  <2> QED
    BY <2>1, <2>2, <2>3, <2>4, <2>5, <2>6 DEF Next, Contract!Next
<1> QED
  BY <1>1, AdvisoryInvariance, PTL DEF Spec, KeepsContract
================================================================================
