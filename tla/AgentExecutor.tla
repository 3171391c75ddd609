----------------------------- MODULE AgentExecutor -----------------------------
(***************************************************************************)
(* One execution of packages/agent: the context kept by AgentStateManager, *)
(* the loop of AgentExecutor.execute that works on it -- once for          *)
(* AgentRuntime.execute, again for every resume(), nothing stops them from *)
(* overlapping -- and the tool calls of ToolExecutor with their approvals, *)
(* timeouts and retries.  The decisions of the model are arbitrary; it     *)
(* never decides to ask the user or to wait (decideNextAction returns no   *)
(* such action).                                                           *)
(***************************************************************************)
EXTENDS Naturals, FiniteSets

CONSTANTS First,          \* the promise of AgentRuntime.execute
          Resumes,        \* those of resume()
          Budget,         \* maxSteps of each: resume() always has the default
          Tools,
          NeedsApproval,  \* the tools with requiresApproval
          Retries,        \* tool.retries
          Listening       \* a subscriber approves in its event handler

Runs == {First} \cup Resumes

ASSUME AgentAssumption == /\ First \notin Resumes /\ IsFiniteSet(Resumes)
                          /\ Budget \in [Runs -> Nat \ {0}]
                          /\ NeedsApproval \subseteq Tools /\ Retries \in [Tools -> Nat]
                          /\ Listening \in BOOLEAN

VARIABLES
  state,    \* context.state
  steps,    \* context.steps.length
  pc,       \* where each run is
  own,      \* its stepNumber
  outcome,  \* how its current step ended
  result,   \* what its caller got
  signal,   \* its AbortController: "none", "listed" for cancel(), "aborted"
  late,     \* the deadline of First has passed
  call,     \* per run and tool: "none", "asking", "running", "pause", or
            \* "ended": its result is to be recorded
  left,     \* retries left
  said,     \* history: the first word said about a request for approval
  answered, \* history: the runs whose model has responded
  overlap   \* history: two runs were under way at once

runVars == <<pc, own, outcome, result, answered, overlap>>
toolVars == <<call, left, said>>
vars == <<state, steps, runVars, signal, late, toolVars>>

Places == {"new", "loop", "llm", "tools", "add", "after", "catch", "done"}
Ends == {"completed", "failed"}
Calls == {"none", "asking", "running", "pause", "ended"}

TypeOK == /\ state \in {"idle", "thinking"} \cup Ends /\ steps \in Nat
          /\ pc \in [Runs -> Places] /\ own \in [Runs -> Nat]
          /\ outcome \in [Runs -> {"responded", "used", "failed"}]
          /\ result \in [Runs -> {"none"} \cup Ends]
          /\ signal \in {"none", "listed", "aborted"} /\ late \in BOOLEAN
          /\ call \in [Runs -> [Tools -> Calls]]
          /\ left \in [Runs -> [Tools -> Nat]]
          /\ said \in [Runs -> [Tools -> {"nothing", "approve", "reject"}]]
          /\ answered \subseteq Runs /\ overlap \in BOOLEAN

Init == /\ state = "idle" /\ steps = 0
        /\ pc = [r \in Runs |-> "new"] /\ own = [r \in Runs |-> 0]
        /\ outcome = [r \in Runs |-> "used"] /\ result = [r \in Runs |-> "none"]
        /\ signal = "none" /\ late = FALSE
        /\ call = [r \in Runs |-> [t \in Tools |-> "none"]]
        /\ left = [r \in Runs |-> [t \in Tools |-> 0]]
        /\ said = [r \in Runs |-> [t \in Tools |-> "nothing"]]
        /\ answered = {} /\ overlap = FALSE

Active == {r \in Runs : pc[r] \notin {"new", "done"}}
Move(r, from, to) == pc[r] = from /\ pc' = [pc EXCEPT ![r] = to]
--------------------------------------------------------------------------------
(* The loop is entered with the state set to THINKING, whatever it was.    *)
Enter(r) == /\ Move(r, "new", "loop")
            /\ state' = "thinking"
            /\ overlap' = (overlap \/ Active # {})
            /\ UNCHANGED <<steps, own, outcome, result, answered, late, toolVars>>

Execute == Enter(First) /\ signal' = "listed"

(* resume() has neither a signal nor a deadline.                           *)
Resume(r) == r \in Resumes /\ pc[First] # "new" /\ Enter(r) /\ UNCHANGED signal

Cancel == /\ signal = "listed" /\ signal' = "aborted"
          /\ UNCHANGED <<state, steps, runVars, late, toolVars>>

Deadline == /\ First \in Active /\ ~late /\ late' = TRUE
            /\ UNCHANGED <<state, steps, runVars, signal, toolVars>>

(* Mutant of CanContinue: every run counts its own steps.                  *)
OwnStepsLeft(r) == own[r] < Budget[r] /\ state \notin Ends

CanContinue(r) == steps < Budget[r] /\ state \notin Ends
Stopped(r) == r = First /\ (late \/ signal = "aborted")

BeginStep(r) == /\ CanContinue(r) /\ ~Stopped(r) /\ Move(r, "loop", "llm")
                /\ own' = [own EXCEPT ![r] = @ + 1]
                /\ UNCHANGED <<state, steps, outcome, result, answered, overlap, signal,
                               late, toolVars>>

LeaveLoop(r) == /\ Move(r, "loop", IF ~CanContinue(r) THEN "after" ELSE "catch")
                /\ ~CanContinue(r) \/ Stopped(r)
                /\ UNCHANGED <<state, steps, own, outcome, result, answered, overlap,
                               signal, late, toolVars>>
--------------------------------------------------------------------------------
(* The model responds, or its call or the parsing of its answer fails.     *)
Decide(r, o) == /\ Move(r, "llm", "add")
                /\ outcome' = [outcome EXCEPT ![r] = o]
                /\ answered' = IF o = "responded" THEN answered \cup {r} ELSE answered
                /\ UNCHANGED <<state, steps, own, result, overlap, signal, late, toolVars>>

(* It asks for the tools T, which are called in parallel.  The event that  *)
(* tells of a request comes before its resolver is kept: an approval given *)
(* in the event's handler is said, and finds nothing to resolve.           *)
UseTools(r, T) ==
  /\ T # {} /\ Move(r, "llm", "tools")
  /\ call' = [call EXCEPT ![r] = [t \in Tools |->
                IF t \notin T THEN "none"
                ELSE IF t \in NeedsApproval THEN "asking" ELSE "running"]]
  /\ left' = [left EXCEPT ![r] = [t \in Tools |-> IF t \in T THEN Retries[t] ELSE 0]]
  /\ said' = [said EXCEPT ![r] = [t \in Tools |->
                IF Listening /\ t \in T \cap NeedsApproval THEN "approve" ELSE "nothing"]]
  /\ UNCHANGED <<state, steps, own, outcome, result, answered, overlap, signal, late>>

To(r, t, where) == /\ call' = [call EXCEPT ![r][t] = where]
                   /\ UNCHANGED <<state, steps, runVars, signal, late>>

Say(r, t, word) == said' = [said EXCEPT ![r][t] = IF @ = "nothing" THEN word ELSE @]

Approve(r, t) == /\ call[r][t] = "asking" /\ To(r, t, "running")
                 /\ Say(r, t, "approve") /\ UNCHANGED left

Reject(r, t) == /\ call[r][t] = "asking" /\ To(r, t, "ended")
                /\ Say(r, t, "reject") /\ UNCHANGED left

(* Mutant of Expire: nobody objected, so the tool runs.                    *)
ExpireGranted(r, t) == /\ call[r][t] = "asking" /\ To(r, t, "running")
                       /\ UNCHANGED <<left, said>>

(* The request is five minutes old: as if rejected.                        *)
Expire(r, t) == call[r][t] = "asking" /\ To(r, t, "ended") /\ UNCHANGED <<left, said>>

Succeed(r, t) == call[r][t] = "running" /\ To(r, t, "ended") /\ UNCHANGED <<left, said>>

(* Mutant of AttemptFails: the attempts are not counted.                   *)
AttemptUncounted(r, t) ==
  /\ call[r][t] = "running"
  /\ To(r, t, IF left[r][t] > 0 THEN "pause" ELSE "ended")
  /\ UNCHANGED <<left, said>>

(* An attempt throws, or its timer does: another one, while there are some.*)
AttemptFails(r, t) ==
  /\ call[r][t] = "running"
  /\ To(r, t, IF left[r][t] > 0 THEN "pause" ELSE "ended")
  /\ left' = [left EXCEPT ![r][t] = IF @ > 0 THEN @ - 1 ELSE @]
  /\ UNCHANGED said

TryAgain(r, t) == call[r][t] = "pause" /\ To(r, t, "running") /\ UNCHANGED <<left, said>>

(* executeTool is over, and with it the request and the attempts.          *)
Over(r, t) == /\ call[r][t] = "ended" /\ call' = [call EXCEPT ![r][t] = "none"]
              /\ left' = [left EXCEPT ![r][t] = 0]
              /\ said' = [said EXCEPT ![r][t] = "nothing"]
              /\ UNCHANGED <<state, steps, own, result, answered, overlap, signal, late>>

(* The result, good or bad, becomes a message of the context.              *)
Recorded(r, t) == Over(r, t) /\ UNCHANGED <<pc, outcome>>

(* It cannot be: it has no JSON, or addMessage fails.  The step fails at   *)
(* once, and the other tools of its Promise.all go on.                     *)
Unrecorded(r, t) == /\ Over(r, t) /\ Move(r, "tools", "add")
                    /\ outcome' = [outcome EXCEPT ![r] = "failed"]

(* Promise.all: every tool's result is there, successful or not.           *)
ToolsDone(r) == /\ \A t \in Tools : call[r][t] = "none"
                /\ Move(r, "tools", "add")
                /\ outcome' = [outcome EXCEPT ![r] = "used"]
                /\ UNCHANGED <<state, steps, own, result, answered, overlap, signal, late,
                               toolVars>>
--------------------------------------------------------------------------------
AddStep(r) == /\ Move(r, "add", CASE outcome[r] = "responded" -> "after"
                                  [] outcome[r] = "used" -> "loop"
                                  [] outcome[r] = "failed" -> "catch")
              /\ steps' = steps + 1
              /\ UNCHANGED <<state, own, outcome, result, answered, overlap, signal, late,
                             toolVars>>

(* The finally of AgentRuntime.execute.                                    *)
Unlist(r) == signal' = IF r = First /\ signal = "listed" THEN "none" ELSE signal

(* Mutant of SpentAll: one step more.                                      *)
SpentMore(r) == own[r] > Budget[r]

SpentAll(r) == own[r] >= Budget[r]

(* Behind the loop: maxSteps is checked against the steps of this run, also*)
(* when the last of them was the answer.                                   *)
Conclude(r) ==
  /\ IF SpentAll(r)
     THEN /\ Move(r, "after", "catch") /\ state' = "failed"
          /\ UNCHANGED <<result, signal>>
     ELSE /\ Move(r, "after", "done") /\ state' = "completed"
          /\ result' = [result EXCEPT ![r] = "completed"]
          /\ Unlist(r)
  /\ UNCHANGED <<steps, own, outcome, answered, overlap, late, toolVars>>

Catch(r) == /\ Move(r, "catch", "done") /\ state' = "failed"
            /\ result' = [result EXCEPT ![r] = "failed"]
            /\ Unlist(r)
            /\ UNCHANGED <<steps, own, outcome, answered, overlap, late, toolVars>>
--------------------------------------------------------------------------------
Loop(r) == BeginStep(r) \/ LeaveLoop(r) \/ AddStep(r) \/ Conclude(r) \/ Catch(r)
Model(r) == \/ \E o \in {"responded", "failed"} : Decide(r, o)
            \/ \E T \in SUBSET Tools : UseTools(r, T)
Timers(r, t) == Expire(r, t) \/ AttemptFails(r, t) \/ TryAgain(r, t)
Ended(r, t) == Recorded(r, t) \/ Unrecorded(r, t)

Next == \/ Execute \/ Cancel \/ Deadline
        \/ \E r \in Runs : \/ Resume(r) \/ Loop(r) \/ Model(r) \/ ToolsDone(r)
                           \/ \E t \in Tools : \/ Timers(r, t) \/ Succeed(r, t)
                                               \/ Approve(r, t) \/ Reject(r, t)
                                               \/ Ended(r, t)

Spec == Init /\ [][Next]_vars

(* Promises continue, timers fire, and the model's call comes back (it has *)
(* no timeout: the deadline is looked at between steps).  Of those who     *)
(* approve, and of the tools, nothing is asked.                            *)
FairSpec == /\ Spec
            /\ \A r \in Runs : /\ WF_vars(Loop(r) \/ Model(r) \/ ToolsDone(r))
                               /\ \A t \in Tools : WF_vars(Timers(r, t)) /\ WF_vars(Ended(r, t))
--------------------------------------------------------------------------------
(* A tool that needs approval runs only when approving was the first thing *)
(* anyone said about this very request: not after a rejection, and not by  *)
(* the expiry of the request (tool.executor.ts:123-141, 289-297, 311).     *)
ApprovedFirst == \A r \in Runs, t \in NeedsApproval :
                   call[r][t] \in {"running", "pause"} => said[r][t] = "approve"

(* The budget is checked before a step and the step counted after it, so   *)
(* that runs that overlap exceed the largest budget among those that have  *)
(* begun by less than their number (agent.executor.ts:99-106).             *)
UnderWay == {r \in Runs : pc[r] \in {"llm", "tools", "add"}}
Begun == {r \in Runs : pc[r] # "new"}
StepsWithinBudget ==
  \/ Begun = {} /\ steps = 0
  \/ \E max \in Begun :
       steps + Cardinality(UnderWay) <= Budget[max] + Cardinality(Begun \ {max})

(* An execution that nobody resumed meanwhile completes only with an       *)
(* answer, and fails only when it was stopped, when the model failed, or   *)
(* when its steps are used up (agent.executor.ts:132-137).                 *)
CompletedIsAnswered ==
  result[First] # "none" /\ ~overlap =>
    /\ result[First] = "completed" => First \in answered
    /\ result[First] = "failed" => \/ late \/ signal = "aborted"
                                   \/ outcome[First] = "failed"
                                   \/ own[First] = Budget[First]

(* Nobody waits for ever: neither for an approval that never comes nor for *)
(* a tool that never answers.                                              *)
EveryRunSettles == \A r \in Runs : pc[r] = "loop" ~> pc[r] = "done"

(* A subscriber that approves when it is told of a request                 *)
(* (agent/README.md:117-119) has its approval heard.                       *)
ApprovalIsHeard == [][\A r \in Runs, t \in Tools :
  call[r][t] = "asking" /\ said[r][t] = "approve" => call'[r][t] \notin {"ended", "none"}]_vars
================================================================================
