-------------------------- MODULE RedisRegistryProofs --------------------------
(***************************************************************************)
(* What the commands of the registry keep, whatever they race with, for    *)
(* any number of instances and any ttls.  A check that has found its key   *)
(* writes it again only while the key is there (no key lapses within an    *)
(* interval), and an id that cleanup has found without a key stays without *)
(* one until it is removed.                                                *)
(***************************************************************************)
EXTENDS RedisRegistry, TLAPS

Writing == {"set up", "set down"}

(* An instance checks itself only once it is registered, its check ends    *)
(* with its process, and a check that is about to write the key of a live  *)
(* instance has a key to overwrite.                                        *)
ChecksAreLate == \A i \in Ids :
  /\ main[i] \in {"new", "add", "expire", "crashed"} => check[i] = "none"
  /\ main[i] = "live" /\ check[i] \in Writing => key[i] # "none"

(* What deregister() leaves is no member, or has no key and gets none.     *)
LeftBehind == \A i \in Ids :
  /\ main[i] = "delete" => i \notin members
  /\ main[i] = "gone" => \/ i \notin members
                         \/ key[i] = "none" /\ check[i] \notin Writing

(* cleanup() knows no id before it is a member, and what it has found      *)
(* stale has no key and gets none.                                         *)
StaleIsDead == \A i \in Ids :
  /\ main[i] \in {"new", "add"} => i \notin members \cup toClean \cup stale
  /\ main[i] \in {"expire", "live"} /\ i \in stale =>
       key[i] = "none" /\ check[i] \notin Writing

Listed == \A i \in Ids :
  main[i] \in {"expire", "live"} /\ key[i] # "none" => i \in members \/ wiped

IInv == TypeOK /\ ChecksAreLate /\ LeftBehind /\ StaleIsDead /\ Listed
--------------------------------------------------------------------------------
Places == {"new", "live", "gone", "crashed"} \cup Registering \cup Leaving
ProgramsTyped == /\ main \in [Ids -> Places]
                 /\ check \in [Ids -> {"none", "http", "get up", "set up", "expire",
                                       "get down", "set down"}]
                 /\ beaten \subseteq Ids
KeysTyped == /\ key \in [Ids -> {"none", "STARTING", "UP", "DOWN"}]
             /\ keyLeft \in [Ids -> 0 .. NoTTL(KeyTTL)]
SetTyped == members \subseteq Ids /\ setLeft \in 0 .. NoTTL(SetTTL)
CleanTyped == /\ cleaner \in {"none", "exists", "count", "delete"}
              /\ toClean \subseteq Ids /\ stale \subseteq Ids /\ wiped \in BOOLEAN

(* The type invariant, by the part of the system a command is about.       *)
LEMMA TypeParts == /\ TypeOK <=> ProgramsTyped /\ KeysTyped /\ SetTyped /\ CleanTyped
                   /\ TypeOK' <=> ProgramsTyped' /\ KeysTyped' /\ SetTyped' /\ CleanTyped'
BY DEF TypeOK, ProgramsTyped, KeysTyped, SetTyped, CleanTyped, Places

(* The ttls a command may leave behind are in the range of TypeOK.         *)
LEMMA Ttls ==
  ASSUME RegistryAssumption
  PROVE  /\ {0, KeyTTL, NoTTL(KeyTTL)} \subseteq 0 .. NoTTL(KeyTTL)
         /\ {0, SetTTL, NoTTL(SetTTL)} \subseteq 0 .. NoTTL(SetTTL)
BY DEF RegistryAssumption, NoTTL

(* SETEX and DEL keep the types of the keys; SADD, SREM and EXPIRE those   *)
(* of the set.                                                             *)
LEMMA KeyCommands ==
  ASSUME RegistryAssumption, KeysTyped, NEW i \in Ids,
         \/ \E status \in {"STARTING", "UP", "DOWN"} : SetEx(i, status)
         \/ Del(i)
         \/ sameKeys
  PROVE  KeysTyped'
BY Ttls DEF KeysTyped, SetEx, Del, sameKeys

LEMMA SetCommands ==
  ASSUME RegistryAssumption, SetTyped, NEW i \in Ids,
         SAdd(i) \/ SRem(i) \/ (Expire /\ UNCHANGED members) \/ sameSet
  PROVE  SetTyped'
BY Ttls DEF SetTyped, SAdd, SRem, Expire, sameSet

(* A step of an instance's own program, or of its check, keeps the types   *)
(* of both and leaves the other actors alone.                              *)
LEMMA MainSteps ==
  ASSUME TypeOK, NEW i \in Ids, NEW from, NEW to \in Places, Main(i, from, to),
         UNCHANGED wiped
  PROVE  ProgramsTyped' /\ CleanTyped'
BY TypeParts DEF Main, cleanVars, ProgramsTyped, CleanTyped

LEMMA CheckSteps ==
  ASSUME TypeOK, NEW i \in Ids, NEW from,
         NEW to \in {"none", "get up", "get down", "set up", "set down", "expire"},
         Check(i, from, to), UNCHANGED wiped
  PROVE  ProgramsTyped' /\ CleanTyped'
BY TypeParts DEF Check, cleanVars, ProgramsTyped, CleanTyped
--------------------------------------------------------------------------------
LEMMA RegisterStep ==
  ASSUME RegistryAssumption, IInv, NEW i \in Ids, Register(i)
  PROVE  IInv'
<1> USE DEF IInv
<1>1. TypeOK'
  <2>1. ProgramsTyped' /\ CleanTyped'
    BY MainSteps DEF Register, Places, Registering
  <2>2. KeysTyped' /\ SetTyped'
    BY KeyCommands, SetCommands, TypeParts DEF Register
  <2> QED
    BY <2>1, <2>2, TypeParts
<1>2. ChecksAreLate'
  BY DEF Register, Main, SetEx, SAdd, Expire, sameKeys, sameSet, cleanVars, TypeOK,
    ChecksAreLate, Writing
<1>3. LeftBehind'
  BY DEF Register, Main, SetEx, SAdd, Expire, sameKeys, sameSet, cleanVars, TypeOK,
    ChecksAreLate, LeftBehind, Writing
<1>4. StaleIsDead'
  BY DEF Register, Main, SetEx, SAdd, Expire, sameKeys, sameSet, cleanVars, TypeOK,
    ChecksAreLate, StaleIsDead, Writing
<1>5. Listed'
  BY DEF Register, Main, SetEx, SAdd, Expire, sameKeys, sameSet, cleanVars, TypeOK,
    ChecksAreLate, StaleIsDead, Listed, Writing
<1> QED
  BY <1>1, <1>2, <1>3, <1>4, <1>5

LEMMA BeginCheckStep ==
  ASSUME RegistryAssumption, IInv, NEW i \in Ids, BeginCheck(i)
  PROVE  IInv'
<1> USE DEF IInv
<1>1. TypeOK'
  BY DEF BeginCheck, procVars, redisVars, cleanVars, TypeOK
<1>2. ChecksAreLate'
  BY DEF BeginCheck, procVars, redisVars, cleanVars, TypeOK, ChecksAreLate, Writing
<1>3. LeftBehind'
  BY DEF BeginCheck, procVars, redisVars, cleanVars, TypeOK, ChecksAreLate,
    LeftBehind, Writing
<1>4. StaleIsDead'
  BY DEF BeginCheck, procVars, redisVars, cleanVars, TypeOK, ChecksAreLate,
    StaleIsDead, Writing
<1>5. Listed'
  BY DEF BeginCheck, procVars, redisVars, cleanVars, TypeOK, ChecksAreLate,
    StaleIsDead, Listed, Writing
<1> QED
  BY <1>1, <1>2, <1>3, <1>4, <1>5

LEMMA HttpReturnsStep ==
  ASSUME RegistryAssumption, IInv, NEW i \in Ids, HttpReturns(i)
  PROVE  IInv'
<1> USE DEF IInv
<1>1. TypeOK'
  BY DEF HttpReturns, Check, redisVars, cleanVars, TypeOK
<1>2. ChecksAreLate'
  BY DEF HttpReturns, Check, redisVars, cleanVars, TypeOK, ChecksAreLate, Writing
<1>3. LeftBehind'
  BY DEF HttpReturns, Check, redisVars, cleanVars, TypeOK, ChecksAreLate, LeftBehind,
    Writing
<1>4. StaleIsDead'
  BY DEF HttpReturns, Check, redisVars, cleanVars, TypeOK, ChecksAreLate, StaleIsDead,
    Writing
<1>5. Listed'
  BY DEF HttpReturns, Check, redisVars, cleanVars, TypeOK, ChecksAreLate, StaleIsDead,
    Listed, Writing
<1> QED
  BY <1>1, <1>2, <1>3, <1>4, <1>5

LEMMA HeartbeatStep ==
  ASSUME RegistryAssumption, IInv, NEW i \in Ids, Heartbeat(i)
  PROVE  IInv'
<1> USE DEF IInv
<1>1. TypeOK'
  <2>1. ProgramsTyped' /\ CleanTyped'
    BY CheckSteps DEF Heartbeat
  <2>2. KeysTyped' /\ SetTyped'
    BY KeyCommands, SetCommands, TypeParts DEF Heartbeat
  <2> QED
    BY <2>1, <2>2, TypeParts
<1>2. ChecksAreLate'
  BY DEF Heartbeat, Check, SetEx, Expire, sameKeys, sameSet, cleanVars, TypeOK,
    ChecksAreLate, Writing
<1>3. LeftBehind'
  BY DEF Heartbeat, Check, SetEx, Expire, sameKeys, sameSet, cleanVars, TypeOK,
    ChecksAreLate, LeftBehind, Writing
<1>4. StaleIsDead'
  BY DEF Heartbeat, Check, SetEx, Expire, sameKeys, sameSet, cleanVars, TypeOK,
    ChecksAreLate, StaleIsDead, Writing
<1>5. Listed'
  BY DEF Heartbeat, Check, SetEx, Expire, sameKeys, sameSet, cleanVars, TypeOK,
    ChecksAreLate, StaleIsDead, Listed, Writing
<1> QED
  BY <1>1, <1>2, <1>3, <1>4, <1>5

LEMMA UpdateStatusStep ==
  ASSUME RegistryAssumption, IInv, NEW i \in Ids, UpdateStatus(i)
  PROVE  IInv'
<1> USE DEF IInv
<1>1. TypeOK'
  <2>1. ProgramsTyped' /\ CleanTyped'
    BY CheckSteps DEF UpdateStatus
  <2>2. KeysTyped' /\ SetTyped'
    BY KeyCommands, SetCommands, TypeParts DEF UpdateStatus
  <2> QED
    BY <2>1, <2>2, TypeParts
<1>2. ChecksAreLate'
  BY DEF UpdateStatus, Check, SetEx, sameKeys, sameSet, cleanVars, TypeOK,
    ChecksAreLate, Writing
<1>3. LeftBehind'
  BY DEF UpdateStatus, Check, SetEx, sameKeys, sameSet, cleanVars, TypeOK,
    ChecksAreLate, LeftBehind, Writing
<1>4. StaleIsDead'
  BY DEF UpdateStatus, Check, SetEx, sameKeys, sameSet, cleanVars, TypeOK,
    ChecksAreLate, StaleIsDead, Writing
<1>5. Listed'
  BY DEF UpdateStatus, Check, SetEx, sameKeys, sameSet, cleanVars, TypeOK,
    ChecksAreLate, StaleIsDead, Listed, Writing
<1> QED
  BY <1>1, <1>2, <1>3, <1>4, <1>5

LEMMA DeregisterStep ==
  ASSUME RegistryAssumption, IInv, NEW i \in Ids, Deregister(i)
  PROVE  IInv'
<1> USE DEF IInv
<1>1. TypeOK'
  <2>1. ProgramsTyped' /\ CleanTyped'
    BY MainSteps DEF Deregister, Places, Leaving
  <2>2. KeysTyped' /\ SetTyped'
    BY KeyCommands, SetCommands, TypeParts DEF Deregister
  <2> QED
    BY <2>1, <2>2, TypeParts
<1>2. ChecksAreLate'
  BY DEF Deregister, Main, SRem, Del, sameKeys, sameSet, cleanVars, TypeOK,
    ChecksAreLate, Writing
<1>3. LeftBehind'
  BY DEF Deregister, Main, SRem, Del, sameKeys, sameSet, cleanVars, TypeOK,
    ChecksAreLate, LeftBehind, Writing
<1>4. /\ members' \subseteq members /\ UNCHANGED <<check, toClean, stale, wiped>>
      /\ \A j \in Ids : main'[j] \in {"new", "add", "expire", "live"} =>
           /\ main'[j] = main[j] /\ key'[j] = key[j]
           /\ j \in members => j \in members'
  BY DEF Deregister, Main, SRem, Del, sameKeys, sameSet, cleanVars, TypeOK
<1>5. StaleIsDead'
  BY <1>4 DEF StaleIsDead
<1>6. Listed'
  BY <1>4 DEF Listed
<1> QED
  BY <1>1, <1>2, <1>3, <1>5, <1>6

LEMMA CrashStep ==
  ASSUME RegistryAssumption, IInv, NEW i \in Ids, Crash(i)
  PROVE  IInv'
<1> USE DEF IInv
<1>1. TypeOK'
  BY DEF Crash, redisVars, cleanVars, TypeOK
<1>2. ChecksAreLate'
  BY DEF Crash, redisVars, cleanVars, TypeOK, ChecksAreLate, Writing
<1>3. LeftBehind'
  BY DEF Crash, redisVars, cleanVars, TypeOK, ChecksAreLate, LeftBehind, Writing
<1>4. StaleIsDead'
  BY DEF Crash, redisVars, cleanVars, TypeOK, ChecksAreLate, StaleIsDead, Writing
<1>5. Listed'
  BY DEF Crash, redisVars, cleanVars, TypeOK, ChecksAreLate, StaleIsDead, Listed,
    Writing
<1> QED
  BY <1>1, <1>2, <1>3, <1>4, <1>5

LEMMA BeginCleanStep ==
  ASSUME RegistryAssumption, IInv, BeginClean
  PROVE  IInv'
<1> USE DEF IInv
<1>1. TypeOK'
  BY DEF BeginClean, Clean, procVars, redisVars, TypeOK
<1>2. ChecksAreLate'
  BY DEF BeginClean, Clean, procVars, redisVars, TypeOK, ChecksAreLate, Writing
<1>3. LeftBehind'
  BY DEF BeginClean, Clean, procVars, redisVars, TypeOK, ChecksAreLate, LeftBehind,
    Writing
<1>4. StaleIsDead'
  BY DEF BeginClean, Clean, procVars, redisVars, TypeOK, ChecksAreLate, StaleIsDead,
    Writing
<1>5. Listed'
  BY DEF BeginClean, Clean, procVars, redisVars, TypeOK, ChecksAreLate, StaleIsDead,
    Listed, Writing
<1> QED
  BY <1>1, <1>2, <1>3, <1>4, <1>5

LEMMA CleanNextStep ==
  ASSUME RegistryAssumption, IInv, NEW i \in Ids, CleanNext(i)
  PROVE  IInv'
<1> USE DEF IInv
<1>1. TypeOK'
  BY DEF CleanNext, Clean, HasExpired, procVars, redisVars, TypeOK
<1>2. ChecksAreLate'
  BY DEF CleanNext, Clean, HasExpired, procVars, redisVars, TypeOK, ChecksAreLate,
    Writing
<1>3. LeftBehind'
  BY DEF CleanNext, Clean, HasExpired, procVars, redisVars, TypeOK, ChecksAreLate,
    LeftBehind, Writing
<1>4. StaleIsDead'
  BY DEF CleanNext, Clean, HasExpired, procVars, redisVars, TypeOK, ChecksAreLate,
    StaleIsDead, Writing
<1>5. Listed'
  BY DEF CleanNext, Clean, HasExpired, procVars, redisVars, TypeOK, ChecksAreLate,
    StaleIsDead, Listed, Writing
<1> QED
  BY <1>1, <1>2, <1>3, <1>4, <1>5

LEMMA CleanStaleStep ==
  ASSUME RegistryAssumption, IInv, NEW i \in Ids, CleanStale(i)
  PROVE  IInv'
<1> USE DEF IInv
<1>1. TypeOK'
  BY DEF CleanStale, Clean, SRem, sameKeys, procVars, TypeOK
<1>2. ChecksAreLate'
  BY DEF CleanStale, Clean, SRem, sameKeys, procVars, TypeOK, ChecksAreLate, Writing
<1>3. LeftBehind'
  BY DEF CleanStale, Clean, SRem, sameKeys, procVars, TypeOK, ChecksAreLate,
    LeftBehind, Writing
<1>4. StaleIsDead'
  BY DEF CleanStale, Clean, SRem, sameKeys, procVars, TypeOK, ChecksAreLate,
    StaleIsDead, Writing
<1>5. Listed'
  BY DEF CleanStale, Clean, SRem, sameKeys, procVars, TypeOK, ChecksAreLate,
    StaleIsDead, Listed, Writing
<1> QED
  BY <1>1, <1>2, <1>3, <1>4, <1>5

LEMMA CleanCountStep ==
  ASSUME RegistryAssumption, IInv, CleanCount
  PROVE  IInv'
<1> USE DEF IInv
<1>1. TypeOK'
  BY DEF CleanCount, Clean, procVars, redisVars, TypeOK
<1>2. ChecksAreLate'
  BY DEF CleanCount, Clean, procVars, redisVars, TypeOK, ChecksAreLate, Writing
<1>3. LeftBehind'
  BY DEF CleanCount, Clean, procVars, redisVars, TypeOK, ChecksAreLate, LeftBehind,
    Writing
<1>4. StaleIsDead'
  BY DEF CleanCount, Clean, procVars, redisVars, TypeOK, ChecksAreLate, StaleIsDead,
    Writing
<1>5. Listed'
  BY DEF CleanCount, Clean, procVars, redisVars, TypeOK, ChecksAreLate, StaleIsDead,
    Listed, Writing
<1> QED
  BY <1>1, <1>2, <1>3, <1>4, <1>5

LEMMA CleanDeleteStep ==
  ASSUME RegistryAssumption, IInv, CleanDelete
  PROVE  IInv'
<1> USE DEF IInv
<1>1. TypeOK'
  BY DEF CleanDelete, Wipe, sameKeys, procVars, TypeOK
<1>2. ChecksAreLate'
  BY DEF CleanDelete, Wipe, sameKeys, procVars, TypeOK, ChecksAreLate, Writing
<1>3. LeftBehind'
  BY DEF CleanDelete, Wipe, sameKeys, procVars, TypeOK, ChecksAreLate, LeftBehind,
    Writing
<1>4. StaleIsDead'
  BY DEF CleanDelete, Wipe, sameKeys, procVars, TypeOK, ChecksAreLate, StaleIsDead,
    Writing
<1>5. Listed'
  BY DEF CleanDelete, Wipe, sameKeys, procVars, TypeOK, ChecksAreLate, StaleIsDead,
    Listed, Writing
<1> QED
  BY <1>1, <1>2, <1>3, <1>4, <1>5

(* No check is about to write when an interval passes, so a key that lapses*)
(* is written again by nobody who has seen it.                             *)
LEMMA TickStep ==
  ASSUME RegistryAssumption, IInv, Tick
  PROVE  IInv'
<1> USE DEF IInv
<1>1. TypeOK'
  <2>1. ProgramsTyped'
    BY TypeParts DEF Tick, ProgramsTyped
  <2>2. KeysTyped'
    BY TypeParts DEF Tick, KeysTyped, Less, NoTTL, RegistryAssumption
  <2>3. SetTyped'
    BY TypeParts DEF Tick, SetTyped, Wipe, Less, NoTTL, RegistryAssumption
  <2>4. CleanTyped'
    BY TypeParts DEF Tick, CleanTyped, Wipe, cleanVars
  <2> QED
    BY <2>1, <2>2, <2>3, <2>4, TypeParts
<1>2. ChecksAreLate'
  BY DEF Tick, Settled, Wipe, cleanVars, TypeOK, ChecksAreLate, Writing
<1>3. LeftBehind'
  BY DEF Tick, Settled, Wipe, cleanVars, TypeOK, ChecksAreLate, LeftBehind, Writing
<1>4. StaleIsDead'
  BY DEF Tick, Settled, Wipe, cleanVars, TypeOK, ChecksAreLate, StaleIsDead, Writing
<1>5. Listed'
  BY DEF Tick, Settled, Wipe, cleanVars, TypeOK, ChecksAreLate, StaleIsDead, Listed,
    Writing
<1> QED
  BY <1>1, <1>2, <1>3, <1>4, <1>5

--------------------------------------------------------------------------------
LEMMA Initially == ASSUME RegistryAssumption, Init PROVE IInv
<1> USE DEF Init
<1>1. TypeOK
  BY Ttls, TypeParts DEF ProgramsTyped, KeysTyped, SetTyped, CleanTyped, Places
<1>2. ChecksAreLate /\ LeftBehind /\ StaleIsDead /\ Listed
  BY DEF ChecksAreLate, LeftBehind, StaleIsDead, Listed
<1> QED
  BY <1>1, <1>2 DEF IInv

LEMMA Step == ASSUME RegistryAssumption, IInv, [Next]_vars PROVE IInv'
<1>1. CASE UNCHANGED vars
  BY <1>1 DEF vars, procVars, redisVars, cleanVars, IInv, TypeOK, ChecksAreLate,
    LeftBehind, StaleIsDead, Listed
<1> QED
  BY <1>1, RegisterStep, BeginCheckStep, HttpReturnsStep, HeartbeatStep,
     UpdateStatusStep, DeregisterStep, CrashStep, BeginCleanStep, CleanNextStep,
     CleanStaleStep, CleanCountStep, CleanDeleteStep, TickStep
  DEF Next

(* Nothing writes the key of a process that died, or adds it to the set.   *)
StaysForgotten == \A i \in Ids :
  main[i] = "crashed" /\ ~Found(i) => main'[i] = "crashed" /\ ~Found(i)'

LEMMA ForgottenStep == ASSUME IInv, [Next]_vars PROVE StaysForgotten
<1> SUFFICES ASSUME NEW i \in Ids, main[i] = "crashed", ~Found(i), check[i] = "none"
             PROVE  main'[i] = "crashed" /\ ~Found(i)'
  BY DEF IInv, ChecksAreLate, StaysForgotten
<1> USE DEF IInv, TypeOK, Found
<1>1. ASSUME NEW j \in Ids, Register(j) PROVE main'[i] = "crashed" /\ ~Found(i)'
  BY <1>1 DEF Register, Main, SetEx, SAdd, Expire, sameKeys, sameSet, cleanVars
<1>2. ASSUME NEW j \in Ids, Deregister(j) PROVE main'[i] = "crashed" /\ ~Found(i)'
  BY <1>2 DEF Deregister, Main, SRem, Del, sameKeys, sameSet, cleanVars
<1>3. ASSUME NEW j \in Ids, Crash(j) PROVE main'[i] = "crashed" /\ ~Found(i)'
  BY <1>3 DEF Crash, redisVars
<1>4. ASSUME NEW j \in Ids, BeginCheck(j) PROVE main'[i] = "crashed" /\ ~Found(i)'
  BY <1>4 DEF BeginCheck, redisVars
<1>5. ASSUME NEW j \in Ids, HttpReturns(j) PROVE main'[i] = "crashed" /\ ~Found(i)'
  BY <1>5 DEF HttpReturns, Check, redisVars
<1>6. ASSUME NEW j \in Ids, Heartbeat(j) PROVE main'[i] = "crashed" /\ ~Found(i)'
  BY <1>6 DEF Heartbeat, Check, SetEx, Expire, sameKeys, sameSet
<1>7. ASSUME NEW j \in Ids, UpdateStatus(j) PROVE main'[i] = "crashed" /\ ~Found(i)'
  BY <1>7 DEF UpdateStatus, Check, SetEx, sameKeys, sameSet
<1>8. ASSUME NEW j \in Ids, CleanNext(j) PROVE main'[i] = "crashed" /\ ~Found(i)'
  BY <1>8 DEF CleanNext, Clean, procVars, redisVars
<1>9. ASSUME NEW j \in Ids, CleanStale(j) PROVE main'[i] = "crashed" /\ ~Found(i)'
  BY <1>9 DEF CleanStale, Clean, SRem, sameKeys, procVars
<1>10. CASE Tick
  BY <1>10 DEF Tick, Wipe
<1>11. CASE BeginClean \/ CleanCount
  BY <1>11 DEF BeginClean, CleanCount, Clean, procVars, redisVars
<1>12. CASE CleanDelete
  BY <1>12 DEF CleanDelete, Wipe, sameKeys, procVars
<1>13. CASE UNCHANGED vars
  BY <1>13 DEF vars, procVars, redisVars
<1> QED
  BY <1>1, <1>2, <1>3, <1>4, <1>5, <1>6, <1>7, <1>8, <1>9, <1>10, <1>11, <1>12, <1>13
  DEF Next

(* The inductive invariant holds in every reachable state.                 *)
THEOREM Invariance == Spec => []IInv
<1>1. Init => IInv
  BY Initially, RegistryAssumption
<1>2. IInv /\ [Next]_vars => IInv'
  BY Step, RegistryAssumption
<1> QED
  BY <1>1, <1>2, PTL DEF Spec

(* Every instance is at a step of register(), deregister() and its check,  *)
(* and no ttl in Redis leaves the range its commands give it.              *)
THEOREM TypeCorrect == Spec => []TypeOK
<1>1. IInv => TypeOK
  BY DEF IInv
<1> QED
  BY <1>1, Invariance, PTL

(* After deregister() an instance is found no more, although its own       *)
(* heartbeat may still write its key, however cleanup and the other        *)
(* instances interleave (redis-backend.ts:106-110).                        *)
THEOREM Deregistered == Spec => []DeregisteredIsGone
<1>1. IInv => DeregisteredIsGone
  BY DEF IInv, LeftBehind, DeregisteredIsGone, Found
<1> QED
  BY <1>1, Invariance, PTL

(* cleanup() removes no instance that is live and has a key, unless it or  *)
(* the lapse of its ttl drops the set as a whole (redis-backend.ts:252).   *)
THEOREM NothingDropped == Spec => []NeverDropped
<1>1. IInv => NeverDropped
  BY DEF IInv, Listed, NeverDropped
<1> QED
  BY <1>1, Invariance, PTL

(* An instance whose process died and which is found no more is found      *)
(* never again: the "for good" of CrashedIsForgotten, for any ttl.         *)
THEOREM ForgottenForGood == Spec => [][StaysForgotten]_vars
<1>1. ASSUME IInv, [Next]_vars PROVE [StaysForgotten]_vars
  BY <1>1, ForgottenStep
<1> QED
  BY <1>1, Invariance, PTL DEF Spec
================================================================================
