--------------------------- MODULE CircuitBreakerProofs ---------------------------
(***************************************************************************)
(* For any thresholds, times, window and number of calls: when the circuit *)
(* of CircuitBreaker.tla opens, how long it stays open and how it is left. *)
(***************************************************************************)
EXTENDS CircuitBreaker, FiniteSetTheorems, SequenceTheorems, TLAPS

IInv == TypeOK /\ ThresholdOpens /\ OpensForResetTimeout

CircuitType == [state : CircuitStates, wait : 0 .. ResetTimeout,
                halfOpenSuccessCount : 0 .. SuccessThreshold - 1, window : Seq(Entry)]

(* The same without the bound on the successes, as onSuccess has it when   *)
(* it has counted the last one.                                            *)
Counted == [state : CircuitStates, wait : 0 .. ResetTimeout,
            halfOpenSuccessCount : Nat, window : Seq(Entry)]
--------------------------------------------------------------------------------
(* Failures of a window, and what becomes of them when it moves.           *)
LEMMA UpTo ==
  ASSUME NEW n \in Nat
  PROVE  IsFiniteSet(1 .. n) /\ Cardinality(1 .. n) = n
BY FS_Interval

LEMMA FailuresNat == ASSUME NEW w \in Seq(Entry) PROVE Failures(w) \in Nat
<1> DEFINE S == {i \in DOMAIN w : ~w[i].ok}
<1>1. S \subseteq 1 .. Len(w) /\ IsFiniteSet(1 .. Len(w))
  BY UpTo
<1>2. IsFiniteSet(S)
  BY <1>1, FS_Subset
<1> QED
  BY <1>2, FS_CardinalityType DEF Failures

LEMMA FailuresEmpty == Failures(<<>>) = 0
<1>1. {i \in DOMAIN <<>> : ~(<<>>)[i].ok} = {}
  OBVIOUS
<1> QED
  BY <1>1, FS_EmptySet DEF Failures

LEMMA FailuresSuffix ==
  ASSUME NEW w \in Seq(Entry), NEW n \in 0 .. Len(w)
  PROVE  /\ SubSeq(w, n + 1, Len(w)) \in Seq(Entry)
         /\ Failures(SubSeq(w, n + 1, Len(w))) <= Failures(w)
<1> DEFINE v == SubSeq(w, n + 1, Len(w))
           S == {i \in DOMAIN v : ~v[i].ok}
           T == {i \in DOMAIN w : ~w[i].ok}
           f == [i \in S |-> i + n]
<1>1. /\ v \in Seq(Entry) /\ Len(v) = Len(w) - n
      /\ \A i \in 1 .. Len(v) : v[i] = w[i + n]
  <2>1. /\ Len(w) \in Nat /\ Len(w) \in Int /\ n + 1 \in Int
        /\ \A i \in n + 1 .. Len(w) : w[i] \in Entry
    OBVIOUS
  <2>2. /\ v \in Seq(Entry)
        /\ Len(v) = IF n + 1 <= Len(w) THEN Len(w) - (n + 1) + 1 ELSE 0
        /\ \A i \in 1 .. Len(w) - (n + 1) + 1 : v[i] = w[(n + 1) + i - 1]
    <3> HIDE DEF S, T, f
    <3> QED BY <2>1, SubSeqProperties
  <2> HIDE DEF v
  <2>3. Len(v) = Len(w) - n
    BY <2>1, <2>2
  <2> QED
    BY <2>1, <2>2, <2>3
<1>2. DOMAIN v = 1 .. Len(v) /\ DOMAIN w = 1 .. Len(w) /\ Len(w) \in Nat
  BY <1>1
<1>3. IsFiniteSet(T)
  <2>1. IsFiniteSet(1 .. Len(w)) /\ T \subseteq 1 .. Len(w)
    BY <1>2, UpTo
  <2> QED
    BY <2>1, FS_Subset
<1> HIDE DEF v
<1>4. f \in Injection(S, T)
  <2>1. \A i \in S : f[i] \in T
    BY <1>1, <1>2
  <2>2. \A i, j \in S : f[i] = f[j] => i = j
    BY <1>1, <1>2
  <2> QED
    BY <2>1, <2>2 DEF Injection, IsInjective
<1> HIDE DEF f, S, T
<1>5. Cardinality(S) <= Cardinality(T)
  BY <1>3, <1>4, FS_Injection
<1> QED
  BY <1>1, <1>5 DEF v, S, T, Failures

LEMMA FailuresAppend ==
  ASSUME NEW w \in Seq(Entry), NEW e \in Entry, e.ok
  PROVE  Failures(Append(w, e)) = Failures(w)
<1> DEFINE v == Append(w, e)
<1>1. /\ DOMAIN v = 1 .. Len(w) + 1 /\ DOMAIN w = 1 .. Len(w) /\ Len(w) \in Nat
      /\ \A i \in 1 .. Len(w) : v[i] = w[i]
      /\ v[Len(w) + 1] = e
  BY AppendProperties
<1> HIDE DEF v
<1>2. {i \in DOMAIN v : ~v[i].ok} = {i \in DOMAIN w : ~w[i].ok}
  BY <1>1
<1> QED
  BY <1>2 DEF Failures, v
--------------------------------------------------------------------------------
(* What the operators on a circuit return.                                 *)
LEMMA RecordType ==
  ASSUME NEW b \in CircuitType, NEW ok \in BOOLEAN
  PROVE  /\ Record(b, ok) \in CircuitType
         /\ Record(b, ok).state = b.state /\ Record(b, ok).wait = b.wait
         /\ ok => Failures(Record(b, ok).window) <= Failures(b.window)
<1> DEFINE e == [ok |-> ok, age |-> 0]
           w == Append(b.window, e)
           v == IF kind = "count" /\ Len(w) > Size THEN Tail(w) ELSE w
<1>1. b.window \in Seq(Entry) /\ e \in Entry
  BY DEF CircuitType, Entry
<1>2. w \in Seq(Entry) /\ w # <<>> /\ Len(w) \in Nat /\ 1 \in 0 .. Len(w)
  BY <1>1, AppendProperties
<1>3. Record(b, ok) = [b EXCEPT !.window = v]
  BY DEF Record
<1>4. ok => Failures(w) = Failures(b.window)
  BY <1>1, FailuresAppend
<1> HIDE DEF w
<1>5. Tail(w) = SubSeq(w, 1 + 1, Len(w))
  BY <1>2, TailIsSubSeq
<1>6. Tail(w) \in Seq(Entry) /\ Failures(Tail(w)) <= Failures(w)
  BY <1>2, <1>5, FailuresSuffix
<1>7. Failures(w) \in Nat
  BY <1>2, FailuresNat
<1>8. v \in Seq(Entry) /\ (ok => Failures(v) <= Failures(b.window))
  BY <1>2, <1>4, <1>6, <1>7
<1> HIDE DEF v
<1> QED
  BY <1>3, <1>8 DEF CircuitType

LEMMA TransitionType ==
  ASSUME BreakerAssumption, NEW b \in Counted, NEW new \in CircuitStates,
         b \in CircuitType \/ (b.state # "CLOSED" /\ new = "CLOSED")
  PROVE  /\ TransitionTo(b, new) \in CircuitType
         /\ TransitionTo(b, new).state = new
         /\ b.state # new /\ new = "OPEN" => TransitionTo(b, new).wait = ResetTimeout
         /\ b.state = new => TransitionTo(b, new) = b
         /\ b.state # new /\ new = "CLOSED" => TransitionTo(b, new).window = <<>>
<1>1. CASE b.state = new
  BY <1>1 DEF TransitionTo, CircuitType, Counted
<1>2. CASE b.state # new
  <2> DEFINE wait == IF new = "OPEN" THEN ResetTimeout ELSE b.wait
             count == IF new = "OPEN" THEN b.halfOpenSuccessCount ELSE 0
             window == IF new = "CLOSED" THEN <<>> ELSE b.window
  <2>1. TransitionTo(b, new) =
          [b EXCEPT !.state = new, !.wait = wait, !.halfOpenSuccessCount = count,
                    !.window = window]
    BY <1>2 DEF TransitionTo
  <2>2. wait \in 0 .. ResetTimeout /\ window \in Seq(Entry)
    BY DEF Counted, BreakerAssumption
  <2>3. count \in 0 .. SuccessThreshold - 1
    BY DEF CircuitType, Counted, BreakerAssumption
  <2>4. /\ new = "OPEN" => wait = ResetTimeout
        /\ new = "CLOSED" => window = <<>>
    OBVIOUS
  <2> HIDE DEF wait, count, window
  <2>5. /\ TransitionTo(b, new) \in CircuitType
        /\ TransitionTo(b, new).state = new /\ TransitionTo(b, new).wait = wait
        /\ TransitionTo(b, new).window = window
    BY <2>1, <2>2, <2>3 DEF CircuitType, Counted
  <2> QED
    BY <1>2, <2>4, <2>5
<1> QED
  BY <1>1, <1>2

LEMMA TypeIsCounted == ASSUME BreakerAssumption PROVE CircuitType \subseteq Counted
BY DEF CircuitType, Counted, BreakerAssumption

(* A circuit that may follow b by a step that is not Execute or Tick.      *)
Follows(b, new) ==
  /\ new \in CircuitType
  /\ new.state = "CLOSED" => Failures(new.window) < FailureThreshold
  /\ b.state # "OPEN" /\ new.state = "OPEN" => new.wait = ResetTimeout
  /\ b.state = "OPEN" => new.state = "OPEN" /\ new.wait = b.wait

LEMMA OnSuccessFollows ==
  ASSUME BreakerAssumption, NEW b \in CircuitType,
         b.state = "CLOSED" => Failures(b.window) < FailureThreshold
  PROVE  Follows(b, OnSuccess(b))
<1> DEFINE r == Record(b, TRUE)
           n == r.halfOpenSuccessCount + 1
           t == [r EXCEPT !.halfOpenSuccessCount = n]
<1>1. /\ r \in CircuitType /\ r.state = b.state /\ r.wait = b.wait
      /\ Failures(r.window) <= Failures(b.window)
  BY RecordType
<1>2. Failures(r.window) \in Nat /\ Failures(b.window) \in Nat
  BY <1>1, FailuresNat DEF CircuitType
<1>3. OnSuccess(b) = IF r.state # "HALF_OPEN" THEN r
                     ELSE IF t.halfOpenSuccessCount >= SuccessThreshold
                     THEN TransitionTo(t, "CLOSED") ELSE t
  BY DEF OnSuccess
<1> HIDE DEF r
<1>4. CASE r.state # "HALF_OPEN"
  BY <1>1, <1>2, <1>3, <1>4 DEF Follows, BreakerAssumption
<1>5. n \in Nat /\ (n < SuccessThreshold => n \in 0 .. SuccessThreshold - 1)
  BY <1>1 DEF CircuitType, BreakerAssumption
<1> HIDE DEF n
<1>6. /\ t \in Counted /\ t.state = r.state /\ t.halfOpenSuccessCount = n
      /\ n < SuccessThreshold => t \in CircuitType
  BY <1>1, <1>5 DEF CircuitType, Counted
<1> HIDE DEF t
<1>7. CASE r.state = "HALF_OPEN" /\ n >= SuccessThreshold
  <2>1. /\ TransitionTo(t, "CLOSED") \in CircuitType
        /\ TransitionTo(t, "CLOSED").state = "CLOSED"
        /\ TransitionTo(t, "CLOSED").window = <<>>
    BY <1>6, <1>7, TransitionType DEF CircuitStates
  <2> QED
    BY <1>1, <1>3, <1>6, <1>7, <2>1, FailuresEmpty DEF Follows, BreakerAssumption
<1>8. CASE r.state = "HALF_OPEN" /\ ~(n >= SuccessThreshold)
  <2>1. n < SuccessThreshold
    BY <1>5, <1>8 DEF BreakerAssumption
  <2> QED
    BY <1>1, <1>3, <1>6, <1>8, <2>1 DEF Follows
<1> QED
  BY <1>4, <1>7, <1>8

LEMMA OnFailureFollows ==
  ASSUME BreakerAssumption, NEW b \in CircuitType
  PROVE  Follows(b, OnFailure(b))
<1> DEFINE r == Record(b, FALSE)
<1>1. r \in CircuitType /\ r.state = b.state /\ r.wait = b.wait
  BY RecordType
<1>2. Failures(r.window) \in Nat
  BY <1>1, FailuresNat DEF CircuitType
<1>3. OnFailure(b) = IF r.state = "HALF_OPEN" \/ Failures(r.window) >= FailureThreshold
                     THEN TransitionTo(r, "OPEN") ELSE r
  BY DEF OnFailure
<1> HIDE DEF r
<1>4. /\ TransitionTo(r, "OPEN") \in CircuitType /\ TransitionTo(r, "OPEN").state = "OPEN"
      /\ r.state # "OPEN" => TransitionTo(r, "OPEN").wait = ResetTimeout
      /\ r.state = "OPEN" => TransitionTo(r, "OPEN") = r
  BY <1>1, TypeIsCounted, TransitionType DEF CircuitStates
<1> QED
  BY <1>1, <1>2, <1>3, <1>4 DEF Follows, BreakerAssumption
--------------------------------------------------------------------------------
LEMMA FollowsKeeps ==
  ASSUME BreakerAssumption, IInv, NEW new, Follows(circuit, new), Circuit(new),
         calls' \in [Calls -> [running : BOOLEAN, left : 0 .. Timeout, sick : BOOLEAN]],
         UNCHANGED <<kind, service>>
  PROVE  IInv'
BY DEF IInv, TypeOK, ThresholdOpens, OpensForResetTimeout, Circuit, Follows,
       CircuitType, BreakerAssumption

LEMMA JudgeStep ==
  ASSUME BreakerAssumption, IInv, NEW c \in Calls, NEW outcome \in Outcomes,
         Judge(c, outcome)
  PROVE  /\ IInv'
         /\ circuit.state = "OPEN" => circuit'.state = "OPEN"
<1>0. /\ circuit \in CircuitType
      /\ circuit.state = "CLOSED" => Failures(circuit.window) < FailureThreshold
  BY DEF IInv, TypeOK, ThresholdOpens, CircuitType
<1>1. Follows(circuit, circuit)
  BY <1>0 DEF Follows
<1>2. PICK new : Follows(circuit, new) /\ Circuit(new)
  BY <1>0, <1>1, OnSuccessFollows, OnFailureFollows DEF Judge, Outcomes
<1>3. calls' \in [Calls -> [running : BOOLEAN, left : 0 .. Timeout, sick : BOOLEAN]]
  BY DEF Judge, NoCall, IInv, TypeOK, BreakerAssumption
<1> QED
  BY <1>2, <1>3, FollowsKeeps DEF Judge, Circuit, Follows

LEMMA ExecuteStep ==
  ASSUME BreakerAssumption, IInv, NEW c \in Calls, Execute(c)
  PROVE  /\ IInv'
         /\ circuit.state = "OPEN" => circuit'.state = "HALF_OPEN" /\ circuit.wait = 0
<1> USE DEF IInv
<1>1. calls' \in [Calls -> [running : BOOLEAN, left : 0 .. Timeout, sick : BOOLEAN]]
  BY DEF Execute, TypeOK, BreakerAssumption
<1>2. /\ TransitionTo(circuit, "HALF_OPEN") \in CircuitType
      /\ TransitionTo(circuit, "HALF_OPEN").state = "HALF_OPEN"
  <2>1. circuit \in CircuitType
    BY DEF TypeOK, CircuitType
  <2> QED
    BY <2>1, TypeIsCounted, TransitionType DEF CircuitStates
<1>3. CASE circuit.state = "OPEN"
  BY <1>1, <1>2, <1>3 DEF Execute, MayPass, Circuit, TypeOK, CircuitType, ThresholdOpens,
                          OpensForResetTimeout
<1>4. CASE circuit.state # "OPEN"
  BY <1>1, <1>4 DEF Execute, Circuit, TypeOK, ThresholdOpens, OpensForResetTimeout
<1> QED
  BY <1>3, <1>4

LEMMA ResetStep ==
  ASSUME BreakerAssumption, IInv, Reset
  PROVE  IInv' /\ circuit'.state = "CLOSED" /\ UNCHANGED calls
<1> DEFINE new == [TransitionTo(circuit, "CLOSED") EXCEPT !.window = <<>>]
<1>1. circuit \in CircuitType
  BY DEF IInv, TypeOK, CircuitType
<1>2. /\ TransitionTo(circuit, "CLOSED") \in CircuitType
      /\ TransitionTo(circuit, "CLOSED").state = "CLOSED"
  BY <1>1, TypeIsCounted, TransitionType DEF CircuitStates
<1>3. <<>> \in Seq(Entry)
  OBVIOUS
<1>4. new \in CircuitType /\ new.state = "CLOSED" /\ new.window = <<>>
  BY <1>2, <1>3 DEF CircuitType
<1> HIDE DEF new
<1>5. Circuit(new) /\ UNCHANGED <<calls, kind, service>>
  BY DEF Reset, new
<1> QED
  BY <1>4, <1>5, FailuresEmpty
     DEF IInv, TypeOK, ThresholdOpens, OpensForResetTimeout, Circuit, CircuitType,
         BreakerAssumption

(* Entries that leave a time window, or grow older, add no failure.        *)
LEMMA OlderEvicted ==
  ASSUME NEW w \in Seq(Entry)
  PROVE  /\ Older(Evicted(w)) \in Seq(Entry)
         /\ Failures(Older(Evicted(w))) <= Failures(w)
<1> DEFINE old == {i \in DOMAIN w : \A j \in 1 .. i : w[j].age >= Size}
           v == Evicted(w)
<1>0. Len(w) \in Nat /\ old \subseteq 1 .. Len(w)
  OBVIOUS
<1>1. IsFiniteSet(1 .. Len(w)) /\ Cardinality(1 .. Len(w)) = Len(w)
  BY <1>0, UpTo
<1>2. IsFiniteSet(old) /\ Cardinality(old) <= Len(w)
  BY <1>0, <1>1, FS_Subset
<1>3. Cardinality(old) \in 0 .. Len(w)
  BY <1>0, <1>2, FS_CardinalityType
<1>4. Evicted(w) = SubSeq(w, Cardinality(old) + 1, Len(w))
  BY DEF Evicted
<1> HIDE DEF old
<1>5. v \in Seq(Entry) /\ Failures(v) <= Failures(w)
  BY <1>3, <1>4, FailuresSuffix
<1> HIDE DEF v
<1>6. /\ DOMAIN Older(v) = DOMAIN v
      /\ \A i \in DOMAIN v : Older(v)[i] \in Entry /\ Older(v)[i].ok = v[i].ok
  <2>1. /\ DOMAIN Older(v) = DOMAIN v
        /\ \A i \in DOMAIN v : Older(v)[i] = [v[i] EXCEPT !.age = v[i].age + 1]
    BY DEF Older
  <2>2. \A i \in DOMAIN v : v[i] \in Entry
    BY <1>5
  <2>3. ASSUME NEW x \in Entry
        PROVE  /\ [x EXCEPT !.age = x.age + 1] \in Entry
               /\ [x EXCEPT !.age = x.age + 1].ok = x.ok
    BY DEF Entry
  <2> QED
    BY <2>1, <2>2, <2>3
<1>7. Older(v) \in Seq(Entry)
  <2>1. Older(v) \in [1 .. Len(v) -> Entry]
    BY <1>5, <1>6 DEF Older
  <2>2. Len(v) \in Nat
    BY <1>5
  <2> QED
    BY <2>1, <2>2
<1>8. Failures(Older(v)) = Failures(v)
  <2>1. {i \in DOMAIN Older(v) : ~Older(v)[i].ok} = {i \in DOMAIN v : ~v[i].ok}
    BY <1>6
  <2> QED
    BY <2>1 DEF Failures
<1> QED
  BY <1>5, <1>7, <1>8 DEF v

LEMMA TickStep ==
  ASSUME BreakerAssumption, IInv, Tick
  PROVE  IInv' /\ circuit'.state = circuit.state
<1> USE DEF IInv
<1> DEFINE w == IF kind = "time" THEN Older(Evicted(circuit.window)) ELSE circuit.window
<1>1. circuit.window \in Seq(Entry)
  BY DEF TypeOK
<1>2. w \in Seq(Entry) /\ Failures(w) <= Failures(circuit.window)
  BY <1>1, OlderEvicted, FailuresNat
<1>3. Failures(w) \in Nat /\ Failures(circuit.window) \in Nat
  BY <1>1, <1>2, FailuresNat
<1>4. circuit' = [circuit EXCEPT !.wait = Minus1(circuit.wait), !.window = w]
  BY DEF Tick, TypeOK
<1> HIDE DEF w
<1>5. Minus1(circuit.wait) \in 0 .. ResetTimeout
  BY DEF TypeOK, Minus1, BreakerAssumption
<1>6. /\ circuit'.state = circuit.state /\ circuit'.window = w
      /\ circuit'.wait = Minus1(circuit.wait)
      /\ circuit' \in CircuitType
  BY <1>2, <1>4, <1>5 DEF TypeOK, CircuitType
<1>7. calls' \in [Calls -> [running : BOOLEAN, left : 0 .. Timeout, sick : BOOLEAN]]
  <2>1. ASSUME NEW x \in [running : BOOLEAN, left : 0 .. Timeout, sick : BOOLEAN]
        PROVE  [x EXCEPT !.left = Minus1(x.left)]
                 \in [running : BOOLEAN, left : 0 .. Timeout, sick : BOOLEAN]
    BY DEF Minus1, BreakerAssumption
  <2>2. calls' = [c \in Calls |-> [calls[c] EXCEPT !.left = Minus1(calls[c].left)]]
    BY DEF Tick
  <2> QED
    BY <2>1, <2>2 DEF TypeOK
<1>8. TypeOK'
  BY SMTT(30), <1>6, <1>7 DEF Tick, TypeOK, CircuitType, BreakerAssumption
<1>9. ThresholdOpens'
  BY <1>2, <1>3, <1>6 DEF ThresholdOpens, BreakerAssumption
<1>10. OpensForResetTimeout'
  BY <1>6 DEF OpensForResetTimeout, Tick, TypeOK, Minus1, BreakerAssumption
<1> QED
  BY <1>6, <1>8, <1>9, <1>10

LEMMA ServiceStep ==
  ASSUME BreakerAssumption, IInv, GoDown \/ ComeUp \/ UNCHANGED vars
  PROVE  IInv' /\ UNCHANGED circuit
<1> USE DEF IInv, TypeOK, ThresholdOpens, OpensForResetTimeout
<1>1. CASE GoDown
  <2>1. \A c \in Calls : [calls[c] EXCEPT !.sick = calls[c].running]
                            \in [running : BOOLEAN, left : 0 .. Timeout, sick : BOOLEAN]
    OBVIOUS
  <2>2. calls' \in [Calls -> [running : BOOLEAN, left : 0 .. Timeout, sick : BOOLEAN]]
    BY <1>1, <2>1 DEF GoDown
  <2> QED
    BY <1>1, <2>2 DEF GoDown
<1>2. CASE ComeUp
  BY <1>2 DEF ComeUp
<1>3. CASE UNCHANGED vars
  BY <1>3 DEF vars
<1> QED
  BY <1>1, <1>2, <1>3
--------------------------------------------------------------------------------
Left == circuit.state = "OPEN" /\ circuit'.state # "OPEN" =>
          \/ circuit'.state = "HALF_OPEN" /\ sinceOpened >= ResetTimeout
          \/ circuit'.state = "CLOSED" /\ UNCHANGED calls

LEMMA Initially == ASSUME BreakerAssumption, Init PROVE IInv
BY FailuresEmpty DEF Init, NoCall, IInv, TypeOK, CircuitStates, Entry, ThresholdOpens,
                     OpensForResetTimeout, BreakerAssumption

LEMMA Step ==
  ASSUME BreakerAssumption, IInv, [Next]_vars
  PROVE  IInv' /\ Left
<1>1. ASSUME NEW c \in Calls, Execute(c) PROVE IInv' /\ Left
  BY SMTT(30), <1>1, ExecuteStep DEF Left, IInv, TypeOK, OpensForResetTimeout, BreakerAssumption
<1>2. ASSUME NEW c \in Calls, TimeOut(c) PROVE IInv' /\ Left
  BY <1>2, JudgeStep DEF TimeOut, Left, Outcomes
<1>3. ASSUME NEW c \in Calls, NEW outcome \in Outcomes, Settle(c, outcome)
      PROVE  IInv' /\ Left
  BY <1>3, JudgeStep DEF Settle, Left
<1>4. ASSUME Reset PROVE IInv' /\ Left
  BY <1>4, ResetStep DEF Left
<1>5. ASSUME Tick PROVE IInv' /\ Left
  BY <1>5, TickStep DEF Left
<1>6. ASSUME GoDown \/ ComeUp \/ UNCHANGED vars PROVE IInv' /\ Left
  BY <1>6, ServiceStep DEF Left
<1> QED
  BY <1>1, <1>2, <1>3, <1>4, <1>5, <1>6 DEF Next
--------------------------------------------------------------------------------
(* The successes halfOpenSuccessCount stands for are the newest entries of *)
(* a window that counts entries.                                           *)
Row(window, n) == \A i \in DOMAIN window : i > Len(window) - n => window[i].ok

InARow == kind = "count" /\ circuit.state = "HALF_OPEN" =>
            Row(circuit.window, circuit.halfOpenSuccessCount)

LEMMA RecordRow ==
  ASSUME NEW b \in CircuitType, kind = "count", Row(b.window, b.halfOpenSuccessCount)
  PROVE  /\ Row(Record(b, TRUE).window, b.halfOpenSuccessCount + 1)
         /\ Record(b, TRUE).halfOpenSuccessCount = b.halfOpenSuccessCount
<1> DEFINE e == [ok |-> TRUE, age |-> 0]
           n == b.halfOpenSuccessCount
           w == Append(b.window, e)
           v == IF Len(w) > Size THEN Tail(w) ELSE w
<1>1. b.window \in Seq(Entry) /\ e \in Entry /\ n \in Int /\ Len(b.window) \in Nat
  BY DEF CircuitType, Entry
<1>2. /\ w \in Seq(Entry) /\ Len(w) = Len(b.window) + 1 /\ w[Len(w)] = e
      /\ \A i \in 1 .. Len(b.window) : w[i] = b.window[i]
  BY <1>1, AppendProperties
<1>3. Record(b, TRUE).window = v /\ Record(b, TRUE).halfOpenSuccessCount = n
  BY DEF Record, CircuitType
<1>4. DOMAIN b.window = 1 .. Len(b.window) /\ DOMAIN w = 1 .. Len(w)
  BY <1>1, <1>2
<1> HIDE DEF w, n
<1>5. Row(w, n + 1)
  <2> SUFFICES ASSUME NEW i \in 1 .. Len(w), i > Len(w) - (n + 1) PROVE w[i].ok
    BY <1>4 DEF Row
  <2>1. CASE i = Len(w)
    BY <2>1, <1>2
  <2>2. CASE i # Len(w)
    <3>1. i \in 1 .. Len(b.window) /\ i > Len(b.window) - n
      BY <2>2, <1>1, <1>2
    <3>2. b.window[i].ok
      BY <3>1, <1>4 DEF Row, n
    <3> QED
      BY <3>1, <3>2, <1>2
  <2> QED
    BY <2>1, <2>2
<1>6. Row(Tail(w), n + 1)
  <2>1. /\ Tail(w) \in Seq(Entry) /\ Len(Tail(w)) = Len(w) - 1 /\ Len(w) \in Nat
        /\ \A i \in 1 .. Len(w) - 1 : Tail(w)[i] = w[i + 1]
    BY <1>1, <1>2, HeadTailProperties
  <2> SUFFICES ASSUME NEW i \in 1 .. Len(w) - 1, i > (Len(w) - 1) - (n + 1)
               PROVE  Tail(w)[i].ok
    BY <2>1 DEF Row
  <2>2. i + 1 \in DOMAIN w /\ i + 1 > Len(w) - (n + 1)
    BY <1>1, <1>4, <2>1
  <2> QED
    BY <1>5, <2>1, <2>2 DEF Row
<1> QED
  BY <1>3, <1>5, <1>6 DEF n

(* What a judgement makes of the row: a trial period goes on only with one *)
(* more success, and ends in CLOSED only after successThreshold of them.   *)
LEMMA SuccessRow ==
  ASSUME BreakerAssumption, NEW b \in CircuitType, kind = "count",
         b.state = "HALF_OPEN" => Row(b.window, b.halfOpenSuccessCount)
  PROVE  /\ OnSuccess(b).state = "HALF_OPEN" =>
              Row(OnSuccess(b).window, OnSuccess(b).halfOpenSuccessCount)
         /\ b.state = "HALF_OPEN" /\ OnSuccess(b).state = "CLOSED" =>
              Row(b.window, SuccessThreshold - 1)
<1> DEFINE r == Record(b, TRUE)
           n == r.halfOpenSuccessCount + 1
           t == [r EXCEPT !.halfOpenSuccessCount = n]
<1>1. r \in CircuitType /\ r.state = b.state
  BY RecordType
<1>2. OnSuccess(b) = IF r.state # "HALF_OPEN" THEN r
                     ELSE IF t.halfOpenSuccessCount >= SuccessThreshold
                     THEN TransitionTo(t, "CLOSED") ELSE t
  BY DEF OnSuccess
<1>3. CASE b.state # "HALF_OPEN"
  BY <1>1, <1>2, <1>3
<1>4. CASE b.state = "HALF_OPEN"
  <2>1. r.halfOpenSuccessCount = b.halfOpenSuccessCount /\ Row(r.window, n)
    BY <1>4, RecordRow
  <2> HIDE DEF r
  <2>2. n \in Nat /\ n <= SuccessThreshold /\ n - 1 = b.halfOpenSuccessCount
    <3>1. b.halfOpenSuccessCount \in 0 .. SuccessThreshold - 1 /\ SuccessThreshold \in Nat
      BY DEF CircuitType, BreakerAssumption
    <3> QED
      BY <2>1, <3>1
  <2> HIDE DEF n
  <2>3. /\ t \in Counted /\ t.state = "HALF_OPEN" /\ t.window = r.window
        /\ t.halfOpenSuccessCount = n
    BY <1>1, <1>4, <2>2 DEF CircuitType, Counted
  <2> HIDE DEF t
  <2>4. TransitionTo(t, "CLOSED").state = "CLOSED"
    BY <2>3, TransitionType DEF CircuitStates
  <2>5. CASE n >= SuccessThreshold
    <3>1. n = SuccessThreshold
      BY <2>2, <2>5 DEF BreakerAssumption
    <3> QED
      BY <1>1, <1>2, <1>4, <2>2, <2>3, <2>4, <3>1
  <2>6. CASE ~(n >= SuccessThreshold)
    BY <1>1, <1>2, <1>4, <2>1, <2>3, <2>6
  <2> QED
    BY <2>5, <2>6
<1> QED
  BY <1>3, <1>4

LEMMA FailureEndsTrial ==
  ASSUME BreakerAssumption, NEW b \in CircuitType
  PROVE  /\ OnFailure(b).state # "HALF_OPEN"
         /\ b.state = "HALF_OPEN" => OnFailure(b).state = "OPEN"
<1> DEFINE r == Record(b, FALSE)
<1>1. r \in CircuitType /\ r.state = b.state
  BY RecordType
<1>2. TransitionTo(r, "OPEN").state = "OPEN"
  BY <1>1, TypeIsCounted, TransitionType DEF CircuitStates
<1>3. OnFailure(b) = IF r.state = "HALF_OPEN" \/ Failures(r.window) >= FailureThreshold
                     THEN TransitionTo(r, "OPEN") ELSE r
  BY DEF OnFailure
<1> QED
  BY <1>1, <1>2, <1>3

Closes == circuit.state = "HALF_OPEN" /\ circuit'.state = "CLOSED"
            /\ calls' # calls /\ kind = "count" =>
            Row(circuit.window, SuccessThreshold - 1)

LEMMA RowStep ==
  ASSUME BreakerAssumption, IInv, InARow, [Next]_vars
  PROVE  InARow' /\ Closes
<1> USE DEF IInv
<1>0. circuit \in CircuitType
  BY DEF TypeOK, CircuitType
<1>1. ASSUME NEW c \in Calls, NEW outcome \in Outcomes, Judge(c, outcome)
      PROVE  InARow' /\ Closes
  <2> SUFFICES ASSUME kind = "count" PROVE InARow' /\ Closes
    BY <1>1 DEF Judge, InARow, Closes
  <2>1. kind' = kind /\ circuit' \in {OnSuccess(circuit), OnFailure(circuit), circuit}
    BY <1>1 DEF Judge, Circuit, Outcomes
  <2> QED
    BY <1>0, <2>1, SuccessRow, FailureEndsTrial DEF InARow, Closes
<1>2. ASSUME NEW c \in Calls, Execute(c) PROVE InARow' /\ Closes
  <2>1. CASE circuit.state = "OPEN"
    <3>1. circuit' = TransitionTo(circuit, "HALF_OPEN") /\ kind' = kind
      BY <1>2, <2>1 DEF Execute, Circuit
    <3>2. circuit' \in CircuitType
      BY <1>0, <3>1, TypeIsCounted, TransitionType DEF CircuitStates
    <3>4. circuit'.halfOpenSuccessCount = 0
      BY <1>0, <2>1, <3>1 DEF TransitionTo, CircuitType
    <3>3. Row(circuit'.window, 0)
      BY <3>2 DEF Row, CircuitType
    <3> QED
      BY <2>1, <3>4, <3>3 DEF InARow, Closes
  <2>2. CASE circuit.state # "OPEN"
    BY <1>2, <2>2 DEF Execute, Circuit, InARow, Closes
  <2> QED
    BY <2>1, <2>2
<1>3. ASSUME Tick PROVE InARow' /\ Closes
  <2>1. kind' = kind /\ circuit'.state = circuit.state
    BY <1>3, TickStep DEF Tick
  <2>2. kind = "count" => /\ circuit'.window = circuit.window
                          /\ circuit'.halfOpenSuccessCount = circuit.halfOpenSuccessCount
    BY <1>0, <1>3 DEF Tick, CircuitType
  <2> QED
    BY <2>1, <2>2 DEF InARow, Closes
<1>4. ASSUME Reset PROVE InARow' /\ Closes
  BY <1>4, ResetStep DEF InARow, Closes
<1>5. ASSUME GoDown \/ ComeUp \/ UNCHANGED vars PROVE InARow' /\ Closes
  BY <1>5 DEF GoDown, ComeUp, vars, InARow, Closes
<1> QED
  BY <1>1, <1>2, <1>3, <1>4, <1>5 DEF Next, TimeOut, Settle, Outcomes

(* The invariants of the run CircuitBreaker.cfg.                           *)
THEOREM Invariance == Spec => []IInv
<1>1. ASSUME BreakerAssumption, IInv, [Next]_vars PROVE IInv'
  BY <1>1, Step
<1> QED
  BY <1>1, Initially, BreakerAssumption, PTL DEF Spec

(* Every variable keeps its type: halfOpenSuccessCount stays below the     *)
(* threshold and the window within its size (transitionTo, record).        *)
THEOREM TypeCorrect == Spec => []TypeOK
<1>1. IInv => TypeOK
  BY DEF IInv
<1> QED
  BY <1>1, Invariance, PTL

(* Once the window holds failureThreshold failures the circuit is not      *)
(* CLOSED, whatever state the calls that failed were admitted in.          *)
THEOREM FailuresOpen == Spec => []ThresholdOpens
<1>1. IInv => ThresholdOpens
  BY DEF IInv
<1> QED
  BY <1>1, Invariance, PTL

(* An OPEN circuit rejects for resetTimeout, no less and no more.          *)
THEOREM RejectsForResetTimeout == Spec => []OpensForResetTimeout
<1>1. IInv => OpensForResetTimeout
  BY DEF IInv
<1> QED
  BY <1>1, Invariance, PTL

(* No answer that comes late closes an OPEN circuit or half-opens it.      *)
THEOREM OpenCircuitHolds == Spec => OpenHolds
<1>1. ASSUME BreakerAssumption, IInv, [Next]_vars PROVE [Left]_vars
  BY <1>1, Step
<1> QED
  BY <1>1, Invariance, BreakerAssumption, PTL DEF Spec, OpenHolds, Left

(* A circuit that closes by itself has just seen successThreshold          *)
(* successes in a row, for a window that counts entries: neither a failure *)
(* nor a success of an earlier trial period is among them.                 *)
THEOREM TrialSucceeds == Spec => ClosesAfterSuccesses
<1>1. Init => InARow
  BY DEF Init, InARow
<1>2. IInv /\ InARow /\ [Next]_vars => InARow' /\ [Closes]_vars
  BY RowStep, BreakerAssumption
<1>3. Spec => [][Closes]_vars
  BY <1>1, <1>2, Invariance, PTL DEF Spec
<1>4. [Closes]_vars =>
        [circuit.state = "HALF_OPEN" /\ circuit'.state = "CLOSED"
           /\ calls' # calls /\ kind = "count" =>
           LET w == circuit.window IN
           \A i \in DOMAIN w : i > Len(w) - (SuccessThreshold - 1) => w[i].ok]_vars
  BY DEF Closes, Row
<1> QED
  BY <1>3, <1>4, PTL DEF ClosesAfterSuccesses
================================================================================
