-------------------------- MODULE AgentExecutorProofs --------------------------
(***************************************************************************)
(* Executions of an agent, for any number of overlapping resumes, any      *)
(* budgets and tools: approvals come first, the steps stay within the      *)
(* budget although nothing orders the runs, and what First reports is true *)
(* when nobody overlapped it.                                              *)
(***************************************************************************)
EXTENDS AgentExecutor, FiniteSetTheorems, TLAPS

(* Nobody has rejected a request that is still open.                       *)
NotYetRejected == \A r \in Runs, t \in NeedsApproval :
                    call[r][t] = "asking" => said[r][t] # "reject"

(* Before First runs nothing does; after it has ended it stays so.         *)
Fresh == /\ pc[First] = "new" => /\ \A r \in Runs : pc[r] = "new"
                                 /\ steps = 0 /\ own[First] = 0
         /\ result[First] # "none" => pc[First] = "done"

(* What is known of First as long as it runs alone.                        *)
Alone ==
  ~overlap /\ pc[First] \notin {"new", "done"} =>
    /\ \A r \in Resumes : pc[r] = "new"
    /\ own[First] = (IF First \in UnderWay THEN steps + 1 ELSE steps)
    /\ own[First] <= Budget[First]
    /\ pc[First] \in {"loop", "llm", "tools", "add"} => state = "thinking"
    /\ pc[First] = "add" /\ outcome[First] = "responded" => First \in answered
    /\ pc[First] = "after" => First \in answered \/ own[First] >= Budget[First]
    /\ pc[First] = "catch" => \/ late \/ signal = "aborted"
                              \/ outcome[First] = "failed"
                              \/ own[First] = Budget[First]

ToolInv == NotYetRejected /\ ApprovedFirst
AloneInv == Fresh /\ Alone /\ CompletedIsAnswered
IInv == TypeOK /\ ToolInv /\ StepsWithinBudget /\ AloneInv
--------------------------------------------------------------------------------
(* Every step keeps the types.                                             *)
LEMMA TypesKept == ASSUME AgentAssumption, TypeOK, [Next]_vars PROVE TypeOK'
<1> USE DEF TypeOK, Move, runVars, toolVars, Places, Ends, Calls
<1>1. ASSUME NEW r \in Runs, Enter(r), signal' \in {signal, "listed"} PROVE TypeOK'
  BY <1>1 DEF Enter
<1>2. CASE Cancel \/ Deadline
  BY <1>2 DEF Cancel, Deadline
<1>3. ASSUME NEW r \in Runs, BeginStep(r) \/ LeaveLoop(r) \/ AddStep(r) \/ ToolsDone(r)
      PROVE  TypeOK'
  <2>1. CASE BeginStep(r)
    BY <2>1 DEF BeginStep
  <2>2. CASE LeaveLoop(r)
    BY <2>2 DEF LeaveLoop
  <2>3. CASE AddStep(r)
    BY <2>3 DEF AddStep
  <2>4. CASE ToolsDone(r)
    BY <2>4 DEF ToolsDone
  <2>5. QED BY <1>3, <2>1, <2>2, <2>3, <2>4
<1>4. ASSUME NEW r \in Runs, Conclude(r) \/ Catch(r) PROVE TypeOK'
  <2>1. CASE Conclude(r) /\ SpentAll(r)
    BY <2>1 DEF Conclude
  <2>2. CASE Conclude(r) /\ ~SpentAll(r)
    BY <2>2 DEF Conclude, Unlist
  <2>3. CASE Catch(r)
    BY <2>3 DEF Catch, Unlist
  <2>4. QED BY <1>4, <2>1, <2>2, <2>3
<1>5. ASSUME NEW r \in Runs, NEW o \in {"responded", "failed"}, Decide(r, o) PROVE TypeOK'
  BY <1>5 DEF Decide
<1>6. ASSUME NEW r \in Runs, NEW T \in SUBSET Tools, UseTools(r, T) PROVE TypeOK'
  <2>1. /\ call' \in [Runs -> [Tools -> Calls]]
        /\ said' \in [Runs -> [Tools -> {"nothing", "approve", "reject"}]]
    BY <1>6 DEF UseTools
  <2>2. left' \in [Runs -> [Tools -> Nat]]
    BY <1>6 DEF UseTools, AgentAssumption
  <2>3. QED BY <1>6, <2>1, <2>2 DEF UseTools
<1>7. ASSUME NEW r \in Runs, NEW t \in Tools,
             \/ Timers(r, t) \/ Succeed(r, t) \/ Approve(r, t) \/ Reject(r, t)
             \/ Ended(r, t)
      PROVE  TypeOK'
  <2>1. CASE Approve(r, t)
    BY <2>1 DEF Approve, To, Say
  <2>2. CASE Reject(r, t)
    BY <2>2 DEF Reject, To, Say
  <2>3. CASE AttemptFails(r, t)
    BY <2>3 DEF AttemptFails, To
  <2>4. ASSUME NEW where \in {"ended", "running"}, To(r, t, where), UNCHANGED <<left, said>>
        PROVE  TypeOK'
    BY <2>4 DEF To
  <2>5. CASE Expire(r, t) \/ TryAgain(r, t) \/ Succeed(r, t)
    BY <2>4, <2>5 DEF Expire, TryAgain, Succeed
  <2>6. CASE Ended(r, t)
    <3>1. Over(r, t) /\ \/ UNCHANGED <<pc, outcome>>
                        \/ /\ pc' = [pc EXCEPT ![r] = "add"]
                           /\ outcome' = [outcome EXCEPT ![r] = "failed"]
      BY <2>6 DEF Ended, Recorded, Unrecorded
    <3>2. /\ call' \in [Runs -> [Tools -> Calls]] /\ left' \in [Runs -> [Tools -> Nat]]
          /\ said' \in [Runs -> [Tools -> {"nothing", "approve", "reject"}]]
      BY <3>1 DEF Over
    <3>3. /\ pc' \in [Runs -> Places]
          /\ outcome' \in [Runs -> {"responded", "used", "failed"}]
      BY <3>1
    <3>4. QED BY <3>1, <3>2, <3>3 DEF Over
  <2>7. QED BY <1>7, <2>1, <2>2, <2>3, <2>5, <2>6 DEF Timers
<1>8. CASE UNCHANGED vars
  BY <1>8 DEF vars
<1>9. ASSUME Next PROVE TypeOK'
  <2>1. First \in Runs
    BY DEF Runs
  <2>2. QED
    BY <1>1, <1>2, <1>3, <1>4, <1>5, <1>6, <1>7, <1>9, <2>1
    DEF Next, Execute, Resume, Loop, Model
<1>10. QED BY <1>8, <1>9
--------------------------------------------------------------------------------
(* A request is granted by an approval alone, and only while it is open.   *)
LEMMA ApprovalsKept ==
  ASSUME AgentAssumption, TypeOK, ToolInv, [Next]_vars PROVE ToolInv'
<1> USE DEF TypeOK, ToolInv, NotYetRejected, ApprovedFirst, AgentAssumption
<1>1. CASE UNCHANGED <<call, said>>
  BY <1>1
<1>2. ASSUME NEW r \in Runs, NEW T \in SUBSET Tools, UseTools(r, T) PROVE ToolInv'
  BY <1>2 DEF UseTools
<1>3. ASSUME NEW r \in Runs, NEW t \in Tools, Approve(r, t) PROVE ToolInv'
  BY <1>3 DEF Approve, To, Say
<1>4. ASSUME NEW r \in Runs, NEW t \in Tools, Reject(r, t) PROVE ToolInv'
  BY <1>4 DEF Reject, To, Say
<1>5. ASSUME NEW r \in Runs, NEW t \in Tools,
             Timers(r, t) \/ Succeed(r, t) \/ Ended(r, t)
      PROVE  ToolInv'
  <2>1. ASSUME To(r, t, "ended"), UNCHANGED said PROVE ToolInv'
    BY <2>1 DEF To
  <2>2. CASE AttemptFails(r, t)
    BY <2>2 DEF AttemptFails, To
  <2>3. CASE TryAgain(r, t)
    BY <2>3 DEF TryAgain, To
  <2>4. CASE Ended(r, t)
    <3>1. Over(r, t)
      BY <2>4 DEF Ended, Recorded, Unrecorded
    <3>2. QED BY <3>1 DEF Over
  <2>5. QED BY <1>5, <2>1, <2>2, <2>3, <2>4 DEF Timers, Expire, Succeed
<1>6. ASSUME Next PROVE \/ UNCHANGED <<call, said>>
                        \/ \E r \in Runs, T \in SUBSET Tools : UseTools(r, T)
                        \/ \E r \in Runs, t \in Tools : \/ Approve(r, t) \/ Reject(r, t)
                                                        \/ Timers(r, t) \/ Succeed(r, t)
                                                        \/ Ended(r, t)
  <2>1. ASSUME NEW r \in Runs, Loop(r) \/ ToolsDone(r) PROVE UNCHANGED <<call, said>>
    BY <2>1 DEF Loop, BeginStep, LeaveLoop, AddStep, Conclude, Catch, ToolsDone, toolVars
  <2>2. ASSUME NEW r \in Runs, NEW o \in {"responded", "failed"}, Decide(r, o)
        PROVE  UNCHANGED <<call, said>>
    BY <2>2 DEF Decide, toolVars
  <2>3. CASE Execute \/ Cancel \/ Deadline \/ \E r \in Runs : Resume(r)
    BY <2>3 DEF Execute, Cancel, Deadline, Resume, Enter, toolVars
  <2>4. QED BY <1>6, <2>1, <2>2, <2>3 DEF Next, Model
<1>7. CASE UNCHANGED vars
  BY <1>1, <1>7 DEF vars, toolVars
<1>8. QED BY <1>1, <1>2, <1>3, <1>4, <1>5, <1>6, <1>7
--------------------------------------------------------------------------------
(* The number of runs is finite, and so are the sets of those begun and    *)
(* under way; whoever is under way has begun.                              *)
LEMMA FiniteRuns ==
  ASSUME AgentAssumption
  PROVE  /\ IsFiniteSet(Runs) /\ IsFiniteSet(UnderWay) /\ IsFiniteSet(Begun)
         /\ Cardinality(UnderWay) \in Nat
         /\ \A m : IsFiniteSet(Begun \ {m}) /\ Cardinality(Begun \ {m}) \in Nat
         /\ UnderWay \subseteq Begun
<1>1. IsFiniteSet(Runs)
  <2>1. IsFiniteSet(Resumes \cup {First})
    BY FS_AddElement DEF AgentAssumption
  <2>2. Runs = Resumes \cup {First}
    BY DEF Runs
  <2>3. QED BY <2>1, <2>2
<1>2. UnderWay \in SUBSET Runs /\ Begun \in SUBSET Runs /\ UnderWay \subseteq Begun
  BY DEF UnderWay, Begun
<1>3. IsFiniteSet(UnderWay) /\ IsFiniteSet(Begun)
  BY <1>1, <1>2, FS_Subset
<1>4. \A m : IsFiniteSet(Begun \ {m})
  BY <1>3, FS_RemoveElement
<1>5. QED BY <1>1, <1>2, <1>3, <1>4, FS_CardinalityType

(* The steps a set of runs may still add: one for each of them, but max.   *)
LEMMA BudgetTransfer ==
  ASSUME AgentAssumption, StepsWithinBudget, steps \in Nat, steps' \in Nat,
         Begun \subseteq Begun',
         steps' + Cardinality(UnderWay') <= steps + Cardinality(UnderWay)
  PROVE  StepsWithinBudget'
<1>1. CASE Begun = {} /\ steps = 0
  <2>1. Cardinality(UnderWay) = 0
    BY <1>1, FiniteRuns, FS_EmptySet
  <2>2. IsFiniteSet(UnderWay') /\ UnderWay' \subseteq Begun' /\ Begun' \in SUBSET Runs
    <3>1. UnderWay' \in SUBSET Runs /\ IsFiniteSet(Runs)
      BY FiniteRuns DEF UnderWay
    <3>2. QED BY <3>1, FS_Subset DEF UnderWay, Begun
  <2>3. Cardinality(UnderWay') \in Nat
    BY <2>2, FS_CardinalityType
  <2>4. steps' = 0 /\ Cardinality(UnderWay') = 0
    BY <1>1, <2>1, <2>3
  <2>5. ASSUME NEW m \in Begun'
        PROVE  steps' + Cardinality(UnderWay') <= Budget[m] + Cardinality(Begun' \ {m})
    <3>1. IsFiniteSet(Begun' \ {m}) /\ m \in Runs
      BY <2>2, <2>5, FiniteRuns, FS_Subset, FS_RemoveElement
    <3>2. Cardinality(Begun' \ {m}) \in Nat /\ Budget[m] \in Nat
      BY <3>1, FS_CardinalityType DEF AgentAssumption
    <3>3. QED BY <2>4, <3>2
  <2>6. QED BY <2>4, <2>5 DEF StepsWithinBudget
<1>2. SUFFICES ASSUME \E m \in Begun :
                 steps + Cardinality(UnderWay) <= Budget[m] + Cardinality(Begun \ {m})
               PROVE  StepsWithinBudget'
  BY <1>1 DEF StepsWithinBudget
<1>3. PICK m \in Begun :
        steps + Cardinality(UnderWay) <= Budget[m] + Cardinality(Begun \ {m})
  BY <1>2
<1>4. IsFiniteSet(Begun')
  <2>1. IsFiniteSet(Runs)
    BY FiniteRuns
  <2>2. Begun' \in SUBSET Runs
    BY DEF Begun
  <2>3. QED BY <2>1, <2>2, FS_Subset
<1>5. IsFiniteSet(Begun' \ {m})
  BY <1>4, FS_RemoveElement
<1>6. Begun \ {m} \in SUBSET (Begun' \ {m})
  OBVIOUS
<1>7. Cardinality(Begun \ {m}) <= Cardinality(Begun' \ {m})
  BY <1>5, <1>6, FS_Subset
<1>8. /\ Cardinality(Begun \ {m}) \in Nat /\ Cardinality(Begun' \ {m}) \in Nat
      /\ Cardinality(UnderWay) \in Nat
  BY <1>5, FiniteRuns, FS_CardinalityType
<1>9. Cardinality(UnderWay') \in Nat
  <2>1. IsFiniteSet(Runs) /\ UnderWay' \in SUBSET Runs
    BY FiniteRuns DEF UnderWay
  <2>2. QED BY <2>1, FS_Subset, FS_CardinalityType
<1>10. Budget[m] \in Nat /\ m \in Begun'
  BY <1>3 DEF AgentAssumption, Begun
<1>11. steps' + Cardinality(UnderWay') <= Budget[m] + Cardinality(Begun' \ {m})
  BY <1>3, <1>7, <1>8, <1>9, <1>10
<1>12. QED BY <1>10, <1>11 DEF StepsWithinBudget

(* A step begins while the context has fewer than the budget of its run,   *)
(* which becomes the witness; everybody else under way counts once.        *)
LEMMA StepBegun ==
  ASSUME AgentAssumption, TypeOK, NEW r \in Runs, BeginStep(r)
  PROVE  StepsWithinBudget'
<1>1. /\ pc[r] = "loop" /\ pc' = [pc EXCEPT ![r] = "llm"] /\ UNCHANGED steps
      /\ steps + 1 <= Budget[r] /\ steps \in Nat /\ Budget[r] \in Nat
  BY DEF BeginStep, Move, CanContinue, TypeOK, AgentAssumption
<1>2. UnderWay' = UnderWay \cup {r} /\ r \notin UnderWay
  BY <1>1 DEF UnderWay, TypeOK
<1>3. Begun' = Begun /\ r \in Begun
  BY <1>1 DEF Begun, TypeOK
<1>4. Cardinality(UnderWay') = Cardinality(UnderWay) + 1
  BY <1>2, FiniteRuns, FS_AddElement
<1>5. UnderWay \in SUBSET (Begun \ {r})
  BY <1>2, FiniteRuns
<1>6. Cardinality(UnderWay) <= Cardinality(Begun \ {r})
  BY <1>5, FiniteRuns, FS_Subset
<1>7. steps' + Cardinality(UnderWay') <= Budget[r] + Cardinality(Begun' \ {r})
  <2>1. Cardinality(UnderWay) \in Nat /\ Cardinality(Begun \ {r}) \in Nat
    BY FiniteRuns
  <2>2. steps' + Cardinality(UnderWay') <= Budget[r] + Cardinality(Begun \ {r})
    BY <1>1, <1>4, <1>6, <2>1
  <2>3. QED BY <1>3, <2>2
<1>8. QED BY <1>3, <1>7 DEF StepsWithinBudget

(* Counting a step takes its run out of those under way.                   *)
LEMMA StepCounted ==
  ASSUME AgentAssumption, TypeOK, StepsWithinBudget, NEW r \in Runs, AddStep(r)
  PROVE  StepsWithinBudget'
<1>1. /\ pc[r] = "add" /\ steps' = steps + 1 /\ steps \in Nat
      /\ \E place \in {"after", "loop", "catch"} : pc' = [pc EXCEPT ![r] = place]
  BY DEF AddStep, Move, TypeOK
<1>2. UnderWay' = UnderWay \ {r} /\ r \in UnderWay
  BY <1>1 DEF UnderWay, TypeOK
<1>3. Begun \subseteq Begun'
  BY <1>1 DEF Begun, TypeOK
<1>4. Cardinality(UnderWay') = Cardinality(UnderWay) - 1
  BY <1>2, FiniteRuns, FS_RemoveElement
<1>5. steps' + Cardinality(UnderWay') <= steps + Cardinality(UnderWay)
  BY <1>1, <1>4, FiniteRuns
<1>6. QED BY <1>1, <1>3, <1>5, BudgetTransfer

(* Every other step leaves the sum alone.                                  *)
LEMMA BudgetKept ==
  ASSUME AgentAssumption, TypeOK, StepsWithinBudget, [Next]_vars
  PROVE  StepsWithinBudget'
<1>1. ASSUME UNCHANGED steps, UnderWay' = UnderWay, Begun \subseteq Begun'
      PROVE  StepsWithinBudget'
  BY <1>1, BudgetTransfer, FiniteRuns DEF TypeOK
<1>2. ASSUME NEW r \in Runs, NEW from, NEW to, Move(r, from, to), UNCHANGED steps,
             \/ from = "new" /\ to = "loop"
             \/ from \in {"llm", "tools"} /\ to \in {"tools", "add"}
             \/ from \in {"loop", "after", "catch"} /\ to \in {"after", "catch", "done"}
      PROVE  StepsWithinBudget'
  <2>1. UnderWay' = UnderWay /\ Begun \subseteq Begun'
    BY <1>2 DEF Move, UnderWay, Begun, TypeOK
  <2>2. QED BY <1>1, <1>2, <2>1
<1>3. ASSUME NEW r \in Runs, Loop(r) \/ Model(r) \/ ToolsDone(r) PROVE StepsWithinBudget'
  <2>1. CASE BeginStep(r) \/ AddStep(r)
    BY <2>1, StepBegun, StepCounted
  <2>2. CASE LeaveLoop(r) \/ Conclude(r) \/ Catch(r)
    BY <1>2, <2>2 DEF LeaveLoop, Conclude, Catch
  <2>3. CASE Model(r) \/ ToolsDone(r)
    BY <1>2, <2>3 DEF Model, Decide, UseTools, ToolsDone
  <2>4. QED BY <1>3, <2>1, <2>2, <2>3 DEF Loop
<1>4. ASSUME NEW r \in Runs, Enter(r) PROVE StepsWithinBudget'
  BY <1>2, <1>4 DEF Enter
<1>5. CASE UNCHANGED <<steps, pc>>
  BY <1>1, <1>5 DEF UnderWay, Begun
<1>6. ASSUME NEW r \in Runs, NEW t \in Tools,
             \/ Timers(r, t) \/ Succeed(r, t) \/ Approve(r, t) \/ Reject(r, t)
      PROVE  UNCHANGED <<steps, pc>>
  BY <1>6 DEF Timers, Expire, AttemptFails, TryAgain, Succeed, Approve, Reject, To, runVars
<1>7. ASSUME NEW r \in Runs, NEW t \in Tools, Ended(r, t) PROVE StepsWithinBudget'
  BY <1>2, <1>5, <1>7 DEF Ended, Recorded, Unrecorded, Over
<1>8. CASE Cancel \/ Deadline \/ UNCHANGED vars
  BY <1>5, <1>8 DEF Cancel, Deadline, vars, runVars
<1>9. First \in Runs
  BY DEF Runs
<1>10. QED
  BY <1>3, <1>4, <1>5, <1>6, <1>7, <1>8, <1>9 DEF Next, Execute, Resume
--------------------------------------------------------------------------------
(* While First runs alone, the step of another run is a resume: the two    *)
(* overlap from then on.  What First has reported stays.                   *)
LEMMA OthersStep ==
  ASSUME AgentAssumption, TypeOK, AloneInv,
         overlap' \in BOOLEAN, overlap => overlap',
         pc'[First] = pc[First], own'[First] = own[First], result'[First] = result[First],
         outcome'[First] = outcome[First], answered \subseteq answered',
         late => late', signal = "aborted" => signal' = "aborted",
         pc[First] = "new" => UNCHANGED <<pc, steps>>,
         ~overlap' /\ pc[First] \notin {"new", "done"} => UNCHANGED <<pc, steps, state>>
  PROVE  AloneInv'
<1> USE DEF AloneInv, TypeOK
<1>1. Fresh'
  BY DEF Fresh
<1>2. CompletedIsAnswered'
  BY DEF CompletedIsAnswered
<1>3. Alone'
  BY DEF Alone, UnderWay
<1>4. QED BY <1>1, <1>2, <1>3

(* First's own steps, up to the end of its loop.                           *)
LEMMA FirstSteps ==
  ASSUME AgentAssumption, TypeOK, AloneInv,
         \/ Execute \/ BeginStep(First) \/ Model(First) \/ ToolsDone(First) \/ AddStep(First)
         \/ LeaveLoop(First) \/ \E t \in Tools : Unrecorded(First, t)
  PROVE  AloneInv'
<1> USE DEF AloneInv, TypeOK, Fresh, Alone, CompletedIsAnswered, Move, UnderWay
<1>0. First \in Runs /\ First \notin Resumes /\ Runs = Resumes \cup {First}
      /\ Budget[First] \in Nat \ {0}
  BY DEF Runs, AgentAssumption
<1>1. CASE Execute
  <2>1. \A r \in Resumes : pc'[r] = "new"
    BY <1>0, <1>1 DEF Execute, Enter
  <2>2. QED BY <1>0, <1>1, <2>1 DEF Execute, Enter
<1>2. CASE BeginStep(First)
  BY <1>0, <1>2 DEF BeginStep, CanContinue
<1>3. CASE Model(First) \/ ToolsDone(First)
  <2>1. ASSUME NEW o \in {"responded", "failed"}, Decide(First, o) PROVE AloneInv'
    BY <1>0, <2>1 DEF Decide
  <2>2. ASSUME NEW T \in SUBSET Tools, UseTools(First, T) PROVE AloneInv'
    BY <1>0, <2>2 DEF UseTools
  <2>3. CASE ToolsDone(First)
    BY <1>0, <2>3 DEF ToolsDone
  <2>4. QED BY <1>3, <2>1, <2>2, <2>3 DEF Model
<1>4. CASE AddStep(First)
  <2>1. CASE outcome[First] = "responded"
    BY <1>0, <1>4, <2>1 DEF AddStep
  <2>2. CASE outcome[First] = "used"
    BY <1>0, <1>4, <2>2 DEF AddStep
  <2>3. CASE outcome[First] = "failed"
    BY <1>0, <1>4, <2>3 DEF AddStep
  <2>4. QED BY <1>0, <2>1, <2>2, <2>3
<1>5. CASE LeaveLoop(First)
  <2>1. CASE CanContinue(First)
    BY <1>0, <1>5, <2>1 DEF LeaveLoop, Stopped
  <2>2. CASE ~CanContinue(First)
    BY <1>0, <1>5, <2>2 DEF LeaveLoop, CanContinue, Ends
  <2>3. QED BY <2>1, <2>2
<1>6. ASSUME NEW t \in Tools, Unrecorded(First, t) PROVE AloneInv'
  BY <1>0, <1>6 DEF Unrecorded, Over
<1>7. QED BY <1>1, <1>2, <1>3, <1>4, <1>5, <1>6

(* What First reports.                                                     *)
LEMMA FirstEnds ==
  ASSUME AgentAssumption, TypeOK, AloneInv, Conclude(First) \/ Catch(First)
  PROVE  AloneInv'
<1> USE DEF AloneInv, TypeOK, Fresh, Alone, CompletedIsAnswered, Move, UnderWay
<1>0. First \in Runs /\ Budget[First] \in Nat \ {0}
  BY DEF Runs, AgentAssumption
<1>1. CASE Conclude(First) /\ SpentAll(First)
  <2>1. /\ pc[First] = "after" /\ pc' = [pc EXCEPT ![First] = "catch"]
        /\ own[First] >= Budget[First]
        /\ UNCHANGED <<steps, own, outcome, result, answered, overlap, late, signal>>
    BY <1>0, <1>1 DEF Conclude, SpentAll
  <2>2. pc'[First] = "catch" /\ \A r \in Resumes : r # First => pc'[r] = pc[r]
    BY <1>0, <2>1 DEF Runs
  <2>3. ASSUME ~overlap PROVE own[First] = Budget[First]
    <3>1. own[First] <= Budget[First] /\ own[First] \in Nat
      BY <1>0, <2>1, <2>3
    <3>2. own[First] >= Budget[First] /\ Budget[First] \in Nat
      BY <1>0, <2>1
    <3> HIDE DEF AloneInv, TypeOK, Fresh, Alone, CompletedIsAnswered, UnderWay
    <3>3. QED BY <3>1, <3>2
  <2>4. Fresh' /\ CompletedIsAnswered'
    BY <1>0, <2>1, <2>2
  <2>5. Alone'
    BY <1>0, <2>1, <2>2, <2>3 DEF AgentAssumption
  <2>6. QED BY <2>4, <2>5
<1>2. CASE Conclude(First) /\ ~SpentAll(First)
  BY <1>0, <1>2 DEF Conclude, SpentAll, Unlist
<1>3. CASE Catch(First)
  BY <1>0, <1>3 DEF Catch, Unlist
<1>4. QED BY <1>1, <1>2, <1>3

(* Whatever happens besides First.                                         *)
LEMMA AloneKept ==
  ASSUME AgentAssumption, TypeOK, AloneInv, [Next]_vars PROVE AloneInv'
<1>0. First \in Runs /\ First \notin Resumes /\ Runs = Resumes \cup {First}
  BY DEF Runs, AgentAssumption
<1>1. ASSUME NEW r \in Resumes, Resume(r) PROVE AloneInv'
  <2>1. /\ pc' = [pc EXCEPT ![r] = "loop"] /\ pc[First] # "new" /\ r # First /\ r \in Runs
        /\ overlap' = (overlap \/ Active # {})
        /\ UNCHANGED <<steps, own, outcome, result, answered, late, signal>>
    BY <1>0, <1>1 DEF Resume, Enter, Move
  <2>2. pc'[First] = pc[First]
    BY <2>1 DEF TypeOK
  <2>3. pc[First] \notin {"new", "done"} => overlap'
    BY <1>0, <2>1 DEF Active
  <2>4. QED BY <2>1, <2>2, <2>3, OthersStep DEF TypeOK
<1>2. ASSUME NEW r \in Resumes,
             Loop(r) \/ Model(r) \/ ToolsDone(r) \/ \E t \in Tools : Unrecorded(r, t)
      PROVE  AloneInv'
  <2>1. /\ pc[r] # "new" /\ r # First /\ \E to \in Places : pc' = [pc EXCEPT ![r] = to]
        /\ own'[First] = own[First] /\ result'[First] = result[First]
        /\ outcome'[First] = outcome[First] /\ answered \subseteq answered'
        /\ UNCHANGED <<overlap, late, signal>>
    <3>1. CASE BeginStep(r) \/ LeaveLoop(r) \/ AddStep(r) \/ ToolsDone(r)
      BY <1>0, <3>1 DEF BeginStep, LeaveLoop, AddStep, ToolsDone, Move, TypeOK, Places
    <3>2. CASE Conclude(r) \/ Catch(r)
      BY <1>0, <3>2 DEF Conclude, Catch, Unlist, Move, TypeOK, Places
    <3>3. CASE Model(r)
      BY <1>0, <3>3 DEF Model, Decide, UseTools, Move, TypeOK, Places
    <3>4. ASSUME NEW t \in Tools, Unrecorded(r, t)
          PROVE  /\ pc[r] # "new" /\ pc' = [pc EXCEPT ![r] = "add"] /\ own' = own
                 /\ result' = result /\ outcome'[First] = outcome[First]
                 /\ answered' = answered /\ UNCHANGED <<overlap, late, signal>>
      BY <1>0, <3>4 DEF Unrecorded, Over, Move, TypeOK
    <3>5. QED BY <1>0, <1>2, <3>1, <3>2, <3>3, <3>4 DEF Loop, Places
  <2>2. pc'[First] = pc[First]
    BY <2>1 DEF TypeOK
  <2>3. pc[First] # "new" /\ (pc[First] # "done" => overlap)
    BY <1>0, <2>1 DEF AloneInv, Fresh, Alone
  <2>4. QED BY <2>1, <2>2, <2>3, OthersStep DEF TypeOK
<1>3. ASSUME \/ Cancel \/ Deadline \/ UNCHANGED vars
             \/ \E r \in Runs, t \in Tools : \/ Timers(r, t) \/ Succeed(r, t)
                                              \/ Approve(r, t) \/ Reject(r, t)
                                              \/ Recorded(r, t)
      PROVE  AloneInv'
  <2>1. /\ UNCHANGED <<state, steps, pc, own, outcome, result, answered, overlap>>
        /\ (late => late') /\ (signal = "aborted" => signal' = "aborted")
    <3>1. CASE Cancel \/ Deadline \/ UNCHANGED vars
      BY <3>1 DEF Cancel, Deadline, vars, runVars
    <3>2. ASSUME NEW r \in Runs, NEW t \in Tools,
                 \/ Timers(r, t) \/ Succeed(r, t) \/ Approve(r, t) \/ Reject(r, t)
                 \/ Recorded(r, t)
          PROVE  UNCHANGED <<state, steps, runVars, signal, late>>
      BY <3>2 DEF Timers, Expire, AttemptFails, TryAgain, Succeed, Approve, Reject, To,
                  Recorded, Over, runVars
    <3>3. QED BY <1>3, <3>1, <3>2 DEF runVars
  <2>2. QED BY <2>1, OthersStep DEF TypeOK
<1>4. ASSUME NEW r \in Runs,
             Loop(r) \/ Model(r) \/ ToolsDone(r) \/ \E t \in Tools : Unrecorded(r, t)
      PROVE  AloneInv'
  <2>1. CASE r = First
    BY <1>4, <2>1, FirstSteps, FirstEnds DEF Loop
  <2>2. QED BY <1>0, <1>2, <1>4, <2>1
<1>5. CASE Execute
  BY <1>5, FirstSteps
<1>6. QED BY <1>1, <1>3, <1>4, <1>5 DEF Next, Resume, Ended
--------------------------------------------------------------------------------
(* The inductive invariant holds at the start and is kept by every step.   *)
LEMMA Initially == ASSUME AgentAssumption, Init PROVE IInv
<1>0. First \in Runs
  BY DEF Runs
<1>1. TypeOK
  BY DEF Init, TypeOK, Places, Ends, Calls
<1>2. ToolInv
  BY DEF Init, ToolInv, NotYetRejected, ApprovedFirst, AgentAssumption
<1>3. AloneInv
  BY <1>0 DEF Init, AloneInv, Fresh, Alone, CompletedIsAnswered
<1>4. StepsWithinBudget
  <2>1. Begun = {}
    BY DEF Init, Begun
  <2>2. QED BY <2>1 DEF Init, StepsWithinBudget
<1>5. QED BY <1>1, <1>2, <1>3, <1>4 DEF IInv

(* Approvals, budgets and reports are in order in every reachable state.   *)
THEOREM Invariance == Spec => []IInv
<1>1. Init => IInv
  BY AgentAssumption, Initially
<1>2. IInv /\ [Next]_vars => IInv'
  BY AgentAssumption, TypesKept, ApprovalsKept, BudgetKept, AloneKept DEF IInv
<1>3. QED BY <1>1, <1>2, PTL DEF Spec

(* Every variable keeps its type.                                          *)
THEOREM TypeCorrect == Spec => []TypeOK
<1>1. IInv => TypeOK
  BY DEF IInv
<1>2. QED BY <1>1, Invariance, PTL

(* A tool that needs approval runs only when it was approved first.        *)
THEOREM Approvals == Spec => []ApprovedFirst
<1>1. IInv => ApprovedFirst
  BY DEF IInv, ToolInv
<1>2. QED BY <1>1, Invariance, PTL

(* Overlapping runs exceed the largest budget by less than their number.   *)
THEOREM Budgets == Spec => []StepsWithinBudget
<1>1. IInv => StepsWithinBudget
  BY DEF IInv
<1>2. QED BY <1>1, Invariance, PTL

(* An execution that nobody overlapped reports what happened.              *)
THEOREM Reports == Spec => []CompletedIsAnswered
<1>1. IInv => CompletedIsAnswered
  BY DEF IInv, AloneInv
<1>2. QED BY <1>1, Invariance, PTL
================================================================================
