----------------------------- MODULE CircuitBreaker -----------------------------
(***************************************************************************)
(* The circuit breaker of packages/resilience (circuit-breaker/*.ts).      *)
(* A call is judged in the state the circuit has when the call settles,    *)
(* which need not be the one it was admitted in.  Times are kept as the    *)
(* time that is left, or has passed: the code only compares them with now. *)
(***************************************************************************)
EXTENDS Integers, Sequences, FiniteSets

CONSTANTS
  Calls,
  FailureThreshold, SuccessThreshold,
  Timeout,       \* what a call may take, in ticks
  ResetTimeout,  \* how long an OPEN circuit rejects, in ticks
  Size,          \* slidingWindow.size: entries, or ticks
  Kinds,         \* the slidingWindow.type a breaker may be configured with
  MaxEntries     \* bound: no new call while a time window holds so many

ASSUME BreakerAssumption ==
  /\ {FailureThreshold, SuccessThreshold, Size} \subseteq Nat \ {0}
  /\ {Timeout, ResetTimeout, MaxEntries} \subseteq Nat
  /\ Kinds \subseteq {"count", "time"} /\ Kinds # {}

VARIABLES
  circuit,      \* state, wait (nextAttempt - now), halfOpenSuccessCount, window
  calls,        \* the executions in flight
  kind,         \* config.slidingWindow.type
  service,      \* environment: whether what the calls reach is "up"
  sinceOpened   \* history: ticks since the circuit opened

vars == <<circuit, calls, kind, service, sinceOpened>>

CircuitStates == {"CLOSED", "OPEN", "HALF_OPEN"}
Outcomes == {"success", "failure", "ignored"}   \* failurePredicate says ignore

(* A window entry; its age stays 0 in a window that counts entries.        *)
Entry == [ok : BOOLEAN, age : Nat]

TypeOK == /\ circuit \in [state : CircuitStates, wait : 0 .. ResetTimeout,
                          halfOpenSuccessCount : 0 .. SuccessThreshold - 1,
                          window : Seq(Entry)]
          /\ calls \in [Calls -> [running : BOOLEAN, left : 0 .. Timeout, sick : BOOLEAN]]
          /\ kind \in Kinds /\ service \in {"up", "down"}
          /\ sinceOpened \in 0 .. ResetTimeout

NoCall == [running |-> FALSE, left |-> 0, sick |-> FALSE]

Init == /\ circuit = [state |-> "CLOSED", wait |-> 0,
                      halfOpenSuccessCount |-> 0, window |-> <<>>]
        /\ calls = [c \in Calls |-> NoCall]
        /\ kind \in Kinds /\ service = "up"
        /\ sinceOpened = 0
--------------------------------------------------------------------------------
Failures(window) == Cardinality({i \in DOMAIN window : ~window[i].ok})

(* record: the newest entry last; a counting window drops its oldest.      *)
Record(b, ok) ==
  LET w == Append(b.window, [ok |-> ok, age |-> 0]) IN
  [b EXCEPT !.window = IF kind = "count" /\ Len(w) > Size THEN Tail(w) ELSE w]

(* Mutants of TransitionTo: no return when the state is the same; a trial  *)
(* period starts with the successes of the one before.                     *)
TransitionAgain(b, new) ==
  [b EXCEPT !.state = new,
            !.wait = IF new = "OPEN" THEN ResetTimeout ELSE @,
            !.halfOpenSuccessCount = IF new = "OPEN" THEN @ ELSE 0,
            !.window = IF new = "CLOSED" THEN <<>> ELSE @]

TransitionKeepingCount(b, new) ==
  IF b.state = new THEN b ELSE
  [b EXCEPT !.state = new,
            !.wait = IF new = "OPEN" THEN ResetTimeout ELSE @,
            !.halfOpenSuccessCount = IF new = "CLOSED" THEN 0 ELSE @,
            !.window = IF new = "CLOSED" THEN <<>> ELSE @]

TransitionTo(b, new) ==
  IF b.state = new THEN b ELSE
  [b EXCEPT !.state = new,
            !.wait = IF new = "OPEN" THEN ResetTimeout ELSE @,
            !.halfOpenSuccessCount = IF new = "OPEN" THEN @ ELSE 0,
            !.window = IF new = "CLOSED" THEN <<>> ELSE @]

(* Mutant of OnSuccess: any success closes a circuit that is not closed.   *)
AnySuccess(b) ==
  LET r == Record(b, TRUE) IN
  IF r.state = "CLOSED" THEN r
  ELSE IF r.halfOpenSuccessCount + 1 >= SuccessThreshold THEN TransitionTo(r, "CLOSED")
  ELSE [r EXCEPT !.halfOpenSuccessCount = @ + 1]

OnSuccess(b) ==
  LET r == Record(b, TRUE)
      t == [r EXCEPT !.halfOpenSuccessCount = @ + 1]
  IN
  IF r.state # "HALF_OPEN" THEN r
  ELSE IF t.halfOpenSuccessCount >= SuccessThreshold THEN TransitionTo(t, "CLOSED")
  ELSE t

(* Mutant of OnFailure: more than failureThreshold failures open.          *)
TooLate(b) ==
  LET r == Record(b, FALSE) IN
  IF r.state = "HALF_OPEN" \/ Failures(r.window) > FailureThreshold
  THEN TransitionTo(r, "OPEN") ELSE r

OnFailure(b) ==
  LET r == Record(b, FALSE) IN
  IF r.state = "HALF_OPEN" \/ Failures(r.window) >= FailureThreshold
  THEN TransitionTo(r, "OPEN") ELSE r

(* The circuit changes; the history notes when it opens.                   *)
Circuit(new) ==
  /\ circuit' = new
  /\ sinceOpened' = IF new.state = "OPEN" /\ circuit.state # "OPEN" THEN 0 ELSE sinceOpened
--------------------------------------------------------------------------------
(* execute: an OPEN circuit rejects until nextAttempt; the next call makes *)
(* it HALF_OPEN, which admits every call.                                  *)
MayPass(c) ==
  /\ ~calls[c].running
  /\ circuit.state = "OPEN" => circuit.wait = 0
  /\ kind = "time" => Len(circuit.window) < MaxEntries

(* Mutant of Execute: the trial call leaves the circuit OPEN.              *)
ExecuteOpen(c) ==
  /\ MayPass(c)
  /\ calls' = [calls EXCEPT ![c] =
       [running |-> TRUE, left |-> Timeout, sick |-> service = "down"]]
  /\ UNCHANGED <<circuit, kind, service, sinceOpened>>

Execute(c) ==
  /\ MayPass(c)
  /\ Circuit(IF circuit.state = "OPEN" THEN TransitionTo(circuit, "HALF_OPEN") ELSE circuit)
  /\ calls' = [calls EXCEPT ![c] =
       [running |-> TRUE, left |-> Timeout, sick |-> service = "down"]]
  /\ UNCHANGED <<kind, service>>

(* What is left of Promise.race: the function settles, or its timer fires. *)
Judge(c, outcome) ==
  /\ calls[c].running
  /\ Circuit(CASE outcome = "success" -> OnSuccess(circuit)
               [] outcome = "failure" -> OnFailure(circuit)
               [] outcome = "ignored" -> circuit)
  /\ calls' = [calls EXCEPT ![c] = NoCall]
  /\ UNCHANGED <<kind, service>>

Settle(c, outcome) == (calls[c].sick \/ outcome # "failure") /\ Judge(c, outcome)

TimeOut(c) ==
  /\ calls[c].sick /\ calls[c].left = 0
  /\ \E outcome \in {"failure", "ignored"} : Judge(c, outcome)

(* Someone resets the breaker by hand.                                     *)
Reset ==
  /\ Circuit([TransitionTo(circuit, "CLOSED") EXCEPT !.window = <<>>])
  /\ UNCHANGED <<calls, kind, service>>

(* Time passes; entries that are too old no longer count (evict).          *)
Older(window) ==
  [i \in DOMAIN window |-> [window[i] EXCEPT !.age = @ + 1]]

Evicted(window) ==
  LET old == {i \in DOMAIN window : \A j \in 1 .. i : window[j].age >= Size}
  IN SubSeq(window, Cardinality(old) + 1, Len(window))

Minus1(n) == IF n = 0 THEN 0 ELSE n - 1

Tick ==
  /\ circuit' = [circuit EXCEPT !.wait = Minus1(@),
                   !.window = IF kind = "time" THEN Older(Evicted(@)) ELSE @]
  /\ calls' = [c \in Calls |-> [calls[c] EXCEPT !.left = Minus1(@)]]
  /\ sinceOpened' = IF sinceOpened < ResetTimeout THEN sinceOpened + 1 ELSE sinceOpened
  /\ UNCHANGED <<kind, service>>

(* Calls that meet a service that is down may fail or hang.                *)
GoDown ==
  /\ service = "up" /\ service' = "down"
  /\ calls' = [c \in Calls |-> [calls[c] EXCEPT !.sick = calls[c].running]]
  /\ UNCHANGED <<circuit, kind, sinceOpened>>

ComeUp ==
  /\ service = "down" /\ service' = "up"
  /\ UNCHANGED <<circuit, calls, kind, sinceOpened>>

Next == \/ \E c \in Calls : \/ Execute(c) \/ TimeOut(c)
                            \/ \E outcome \in Outcomes : Settle(c, outcome)
        \/ Reset \/ Tick \/ GoDown \/ ComeUp

Spec == Init /\ [][Next]_vars

(* Time passes and timers fire; clients keep calling; a service that is up *)
(* answers, and not for ever with errors that the predicate ignores.       *)
FairSpec ==
  /\ Spec /\ WF_vars(Tick)
  /\ \A c \in Calls :
       /\ WF_vars(TimeOut(c)) /\ SF_vars(Execute(c))
       /\ SF_vars(~calls[c].sick /\ Settle(c, "success"))
--------------------------------------------------------------------------------
(* As many failures as failureThreshold within the window are never left   *)
(* standing in a CLOSED circuit, whatever state their calls began in.      *)
ThresholdOpens == circuit.state = "CLOSED" => Failures(circuit.window) < FailureThreshold

(* An OPEN circuit rejects for exactly resetTimeout from when it opened:   *)
(* calls that fail late do not prolong it.                                 *)
OpensForResetTimeout == circuit.state = "OPEN" => circuit.wait = ResetTimeout - sinceOpened

(* An OPEN circuit is left only for a trial, resetTimeout after it opened, *)
(* or by reset(): no late answer of an earlier call closes it.             *)
OpenHolds ==
  [][circuit.state = "OPEN" /\ circuit'.state # "OPEN" =>
       \/ circuit'.state = "HALF_OPEN" /\ sinceOpened >= ResetTimeout
       \/ circuit'.state = "CLOSED" /\ UNCHANGED calls]_vars

(* A circuit that closes by itself has seen successThreshold successes in  *)
(* a row: no success of an earlier trial period counts after a failure.    *)
(* (Stated for windows that count entries, which remember the row.)        *)
ClosesAfterSuccesses ==
  [][circuit.state = "HALF_OPEN" /\ circuit'.state = "CLOSED"
       /\ calls' # calls /\ kind = "count" =>
       LET w == circuit.window IN
       \A i \in DOMAIN w : i > Len(w) - (SuccessThreshold - 1) => w[i].ok]_vars

(* When the service stays up and clients keep calling, the circuit closes  *)
(* in the end and stays closed.                                            *)
Recovers == <>[](service = "up") => <>[](circuit.state = "CLOSED")
================================================================================
