------------------------------- MODULE FlowEngine ------------------------------
(***************************************************************************)
(* The durable workflow engine of packages/flow: `startRun`, `tick` and    *)
(* `resumeRun` of engine/FlowEngine.ts with `executeNode` of               *)
(* engine/Executor.ts, over rows, timeline and idempotency records that    *)
(* outlive the process.  One step of the model is one awaited call of the  *)
(* storage or of a node's handler, so that other callers, a crash or a     *)
(* storage failure can come between any two of them.  The lock of a run is *)
(* the contract of RunLock.                                                *)
(***************************************************************************)
EXTENDS Naturals, Sequences, FiniteSets

CONSTANTS
  Runs, Calls, Hosts, Nodes, Keys, Fields,
  Null,
  HostOf,        \* the process in which each caller runs
  Registered,    \* the processes that called registerDefinition for the flow
  Initial,       \* the values of initialState that clients start runs with
  Entry, Edges,  \* def.entry and def.edges: [from, to, priority, guarded]
  Defined,       \* the node ids that def.nodes really has
  MaxAttempts,   \* node.retry?.maxAttempts ?? 1
  Handler,       \* Handler[n][p]: what n's handler may settle to, p telling
                 \* whether ctx.state carries a _resumePayload
  Patch,         \* Patch[n][s]: the patch that comes with status s
  KeyOf,         \* KeyOf[r][n]: n's idempotency key in run r, or Null
  KeyThrows,     \* the nodes whose idempotencyKey(ctx) may throw
  Refusing,      \* a busy lock refuses (Prisma) or makes the caller wait (memory)
  Recovering,    \* processes start and recover RUNNING runs of other processes
  MaxEvents,     \* bound: a run whose timeline is this long is left alone
  MaxWaitEvents, \* bound: the same for resuming it, or ticking it while WAITING
  MaxCrashes, MaxFaults  \* bounds: process deaths and storage failures

Payload == "_resumePayload"   \* a top-level key; Fields live under another one
Results == {"ok", "wait", "transient", "fatal", "thrown", "timeout"}
Retryable == {"transient", "timeout"}
Terminal == {"COMPLETED", "FAILED"}
States == SUBSET (Fields \cup {Payload})

ASSUME ConfigAssumption ==
  /\ Null \notin Nodes /\ Null \notin Keys /\ Payload \notin Fields
  /\ HostOf \in [Calls -> Hosts] /\ Registered \subseteq Hosts
  /\ Initial \subseteq SUBSET Fields
  /\ Entry \in Nodes /\ Defined \subseteq Nodes /\ KeyThrows \subseteq Nodes
  /\ Edges \subseteq [from : Nodes, to : Nodes, priority : Nat, guarded : BOOLEAN]
  /\ MaxAttempts \in [Nodes -> Nat \ {0}]
  /\ Handler \in [Nodes -> [BOOLEAN -> SUBSET Results]]
  /\ Patch \in [Nodes -> [{"ok", "wait"} -> SUBSET Fields]]
  /\ KeyOf \in [Runs -> [Nodes -> Keys \cup {Null}]]
  /\ {Refusing, Recovering} \subseteq BOOLEAN
  /\ {MaxEvents, MaxWaitEvents, MaxCrashes, MaxFaults} \subseteq Nat

VARIABLES
  rows,       \* the run table; status "ABSENT" before the row is created
  timeline,   \* per run, the types of its events, oldest first
  idem,       \* idempotency records: [stored, patch]
  calls,      \* the promises in flight
  poisoned,   \* runs whose in-memory lock remembers a section that rejected
  performed,  \* history: how often a handler succeeded under each key
  abandoned,  \* history: how often a handler under each key was given up
  early,      \* history: runs recovered before their startRun was over
  crashes, faults

vars == <<rows, timeline, idem, calls, poisoned, performed, abandoned, early,
          crashes, faults>>

SectionPCs == {"read", "wake", "load", "missing", "begin", "check", "handler",
               "store", "finish", "failed", "apply", "event", "done"}
PCs == {"idle", "lock", "announce", "point"} \cup SectionPCs

EventTypes == {"RUN_STARTED", "RUN_WAITING", "RUN_COMPLETED", "RUN_ABORTED",
               "NODE_STARTED", "NODE_FINISHED", "NODE_FAILED"}
TerminalEvents == {"RUN_COMPLETED", "RUN_ABORTED"}

Row == [status  : {"ABSENT", "RUNNING", "WAITING"} \cup Terminal,
        node    : Nodes \cup {Null},
        state   : States,
        outputs : SUBSET Nodes]

Call == [pc : PCs, op : {"start", "tick", "resume"}, run : Runs,
         node : Nodes, state : States, outputs : SUBSET Nodes,
         attempt : Nat, result : Results, patch : SUBSET Fields,
         cached : BOOLEAN, event : EventTypes]

TypeOK == /\ rows \in [Runs -> Row]
          /\ timeline \in [Runs -> Seq(EventTypes)]
          /\ idem \in [Keys -> [stored : BOOLEAN, patch : SUBSET Fields]]
          /\ calls \in [Calls -> Call]
          /\ poisoned \subseteq Runs /\ early \subseteq Runs
          /\ performed \in [Keys -> Nat] /\ abandoned \in [Keys -> Nat]
          /\ crashes \in Nat /\ faults \in Nat

IdleCall(r) == [pc |-> "idle", op |-> "tick", run |-> r, node |-> Entry,
                state |-> {}, outputs |-> {}, attempt |-> 0, result |-> "ok",
                patch |-> {}, cached |-> FALSE, event |-> "RUN_ABORTED"]

Init == /\ rows = [r \in Runs |-> [status |-> "ABSENT", node |-> Null,
                                   state |-> {}, outputs |-> {}]]
        /\ timeline = [r \in Runs |-> <<>>]
        /\ idem = [k \in Keys |-> [stored |-> FALSE, patch |-> {}]]
        /\ \E r \in Runs : calls = [c \in Calls |-> IdleCall(r)]
        /\ poisoned = {} /\ early = {}
        /\ performed = [k \in Keys |-> 0] /\ abandoned = [k \in Keys |-> 0]
        /\ crashes = 0 /\ faults = 0
--------------------------------------------------------------------------------
At(c, pc) == calls[c].pc = pc
Run(c) == calls[c].run
Inside(c) == calls[c].pc \in SectionPCs
Starting(r) == \E c \in Calls : calls[c].pc \in {"announce", "point"} /\ Run(c) = r

Knows(c) == HostOf[c] \in Registered   \* getDefinition finds the flow

Goto(c, pc) == calls' = [calls EXCEPT ![c].pc = pc]

(* A call that is over forgets everything.                                 *)
Back(c) == calls' = [calls EXCEPT ![c] = IdleCall(@.run)]

(* A call whose section rejects: the map of the in-memory lock keeps the   *)
(* rejected promise, and every later section of the run is chained to it.  *)
Reject(c) ==
  /\ Back(c)
  /\ poisoned' = IF Inside(c) /\ ~Refusing THEN poisoned \cup {Run(c)} ELSE poisoned

Log(c, type) == timeline' = [timeline EXCEPT ![Run(c)] = Append(@, type)]
Aside == <<poisoned, abandoned, early, crashes, faults>>

(* deepMerge: the fields of the patch join those already there.            *)
DeepMerge(state, patch) == state \cup patch

(* { ...state, ...patch }: the object the patch names is replaced.         *)
Spread(state, patch) ==
  IF patch = {} THEN state ELSE (state \cap {Payload}) \cup patch
--------------------------------------------------------------------------------
(* startRun: the row is created, the run announced in the timeline, and    *)
(* then pointed at the entry node -- three writes outside the run's lock.  *)
StartRun(c, r) ==
  /\ At(c, "idle") /\ rows[r].status = "ABSENT" /\ Knows(c)
  /\ \E state \in Initial :
       rows' = [rows EXCEPT ![r].status = "RUNNING", ![r].state = state]
  /\ calls' = [calls EXCEPT ![c] = [IdleCall(r) EXCEPT !.pc = "announce", !.op = "start"]]
  /\ UNCHANGED <<timeline, idem, performed, Aside>>

Announce(c) ==
  /\ At(c, "announce")
  /\ Log(c, "RUN_STARTED")
  /\ Goto(c, "point")
  /\ UNCHANGED <<rows, idem, performed, Aside>>

PointAtEntry(c) ==
  /\ At(c, "point")
  /\ rows' = [rows EXCEPT ![Run(c)].node = Entry]
  /\ Back(c)
  /\ UNCHANGED <<timeline, idem, performed, Aside>>

(* A tick or resume is asked for.  A client knows the id once startRun is  *)
(* over; a process that starts ticks every RUNNING row it finds, also one  *)
(* whose startRun is not over.                                             *)
Request(c, r, op) ==
  /\ At(c, "idle") /\ rows[r].status # "ABSENT"
  /\ Len(timeline[r]) < IF op = "resume" \/ rows[r].status = "WAITING"
                         THEN MaxWaitEvents ELSE MaxEvents
  /\ calls' = [calls EXCEPT ![c] = [IdleCall(r) EXCEPT !.pc = "lock", !.op = op]]
  /\ early' = IF Starting(r) THEN early \cup {r} ELSE early
  /\ UNCHANGED <<rows, timeline, idem, poisoned, performed, abandoned, crashes, faults>>

Tick(c, r) == ~Starting(r) /\ Request(c, r, "tick")

ResumeRun(c, r) == ~Starting(r) /\ Request(c, r, "resume")

Recover(c, r) == Recovering /\ rows[r].status = "RUNNING" /\ Request(c, r, "tick")

(* withLock.                                                               *)
LockFree(r) == \A d \in Calls : Inside(d) => Run(d) # r

Enter(c) ==
  /\ At(c, "lock") /\ LockFree(Run(c)) /\ Run(c) \notin poisoned
  /\ Goto(c, IF calls[c].op = "resume" THEN "read" ELSE "load")
  /\ UNCHANGED <<rows, timeline, idem, performed, Aside>>

Busy(c) ==
  /\ Refusing /\ At(c, "lock") /\ ~LockFree(Run(c))
  /\ Back(c)
  /\ UNCHANGED <<rows, timeline, idem, performed, Aside>>

(* The section before this one rejected: `.then` passes its error on.      *)
Inherit(c) ==
  /\ At(c, "lock") /\ LockFree(Run(c)) /\ Run(c) \in poisoned
  /\ Back(c)
  /\ UNCHANGED <<rows, timeline, idem, performed, Aside>>

(* Mutant of Leave: a tick that found or made the run FAILED keeps it.     *)
LeaveUnlessFailed(c) ==
  /\ At(c, "done") /\ rows[Run(c)].status # "FAILED"
  /\ Back(c)
  /\ UNCHANGED <<rows, timeline, idem, performed, Aside>>

Leave(c) ==
  /\ At(c, "done")
  /\ Back(c)
  /\ UNCHANGED <<rows, timeline, idem, performed, Aside>>
--------------------------------------------------------------------------------
(* resumeRun: only a WAITING run is resumed; a run parked at a node that   *)
(* the definition no longer has fails without an event.                    *)
ReadForResume(c) ==
  LET row == rows[Run(c)] IN
  /\ At(c, "read")
  /\ \/ row.status # "WAITING" /\ Goto(c, "done") /\ UNCHANGED rows
     \/ /\ row.status = "WAITING" /\ Knows(c) /\ row.node \in Defined
        /\ calls' = [calls EXCEPT ![c].pc = "wake", ![c].state = row.state]
        /\ UNCHANGED rows
     \/ /\ row.status = "WAITING" /\ Knows(c) /\ row.node \notin Defined
        /\ Goto(c, "done")
        /\ rows' = [rows EXCEPT ![Run(c)].status = "FAILED"]
  /\ UNCHANGED <<timeline, idem, performed, Aside>>

(* Mutant of Wake: the run resumes from its first node.                    *)
WakeAtEntry(c) ==
  /\ At(c, "wake")
  /\ rows' = [rows EXCEPT ![Run(c)].status = "RUNNING", ![Run(c)].node = Entry]
  /\ Goto(c, "load")
  /\ UNCHANGED <<timeline, idem, performed, Aside>>

Wake(c) ==
  /\ At(c, "wake")
  /\ \E payload \in {{}, {Payload}} :
       rows' = [rows EXCEPT ![Run(c)].status = "RUNNING",
                            ![Run(c)].state = calls[c].state \cup payload]
  /\ Goto(c, "load")
  /\ UNCHANGED <<timeline, idem, performed, Aside>>
--------------------------------------------------------------------------------
(* Mutants of Load: a run that ended is executed all the same; a resume    *)
(* goes on with the state it read before it stored the payload.            *)
LoadEnded(c) ==
  LET row == rows[Run(c)] IN
  /\ At(c, "load")
  /\ calls' = [calls EXCEPT ![c].pc = "begin", ![c].attempt = 1,
       ![c].node = IF row.node = Null THEN Entry ELSE row.node,
       ![c].state = row.state, ![c].outputs = row.outputs]
  /\ UNCHANGED <<rows, timeline, idem, performed, Aside>>

LoadOldState(c) ==
  LET row == rows[Run(c)] IN
  /\ At(c, "load")
  /\ calls' = [calls EXCEPT ![c] =
       IF row.status \in Terminal THEN [@ EXCEPT !.pc = "done"]
       ELSE [@ EXCEPT !.pc = "begin", !.node = row.node, !.attempt = 1,
                      !.state = IF calls[c].op = "resume" THEN @ ELSE row.state,
                      !.outputs = row.outputs]]
  /\ UNCHANGED <<rows, timeline, idem, performed, Aside>>

(* tickCore: the row is read once; everything up to the write that ends    *)
(* the tick works on this copy.                                            *)
Load(c) ==
  LET row == rows[Run(c)]
      n   == IF row.node = Null THEN Entry ELSE row.node
  IN
  /\ At(c, "load")
  /\ row.status \in {"RUNNING", "WAITING"} => Knows(c)
  /\ calls' = [calls EXCEPT ![c] =
       IF row.status \notin {"RUNNING", "WAITING"} THEN [@ EXCEPT !.pc = "done"]
       ELSE IF n \notin Defined THEN [@ EXCEPT !.pc = "missing"]
       ELSE [@ EXCEPT !.pc = "begin", !.node = n, !.attempt = 1,
                      !.state = row.state, !.outputs = row.outputs]]
  /\ UNCHANGED <<rows, timeline, idem, performed, Aside>>

(* FlowNotFoundError: the row is of a flow that this process has not       *)
(* registered.  It is thrown out of the section.                           *)
UnknownFlow(c) ==
  /\ ~Knows(c)
  /\ \/ At(c, "read") /\ rows[Run(c)].status = "WAITING"
     \/ At(c, "load") /\ rows[Run(c)].status \in {"RUNNING", "WAITING"}
  /\ Reject(c)
  /\ UNCHANGED <<rows, timeline, idem, performed, abandoned, early, crashes, faults>>

NodeMissing(c) ==
  /\ At(c, "missing")
  /\ rows' = [rows EXCEPT ![Run(c)].status = "FAILED"]
  /\ calls' = [calls EXCEPT ![c].pc = "event", ![c].event = "RUN_ABORTED"]
  /\ UNCHANGED <<timeline, idem, performed, Aside>>
--------------------------------------------------------------------------------
(* executeNode.                                                            *)
NodeKey(c) == KeyOf[Run(c)][calls[c].node]
Resumed(c) == Payload \in calls[c].state

Begin(c) ==
  /\ At(c, "begin")
  /\ Log(c, "NODE_STARTED")
  /\ Goto(c, "check")
  /\ UNCHANGED <<rows, idem, performed, Aside>>

(* Mutant of Check: the idempotency record is never looked up.             *)
CheckNothing(c) ==
  /\ At(c, "check")
  /\ Goto(c, "handler")
  /\ UNCHANGED <<rows, timeline, idem, performed, Aside>>

Check(c) ==
  LET k == NodeKey(c) IN
  /\ At(c, "check")
  /\ calls' = [calls EXCEPT ![c] =
       IF k # Null /\ idem[k].stored
       THEN [@ EXCEPT !.pc = "finish", !.result = "ok", !.cached = TRUE,
                      !.patch = idem[k].patch]
       ELSE [@ EXCEPT !.pc = "handler"]]
  /\ UNCHANGED <<rows, timeline, idem, performed, Aside>>

(* idempotencyKey(ctx) throws: before the try block out of the section,    *)
(* inside it, after the handler succeeded, into the catch block.           *)
Thrown(c) == calls' = [calls EXCEPT ![c].pc = "failed", ![c].result = "thrown"]

KeyFails(c) ==
  /\ calls[c].node \in KeyThrows
  /\ \/ At(c, "check") /\ Reject(c)
     \/ At(c, "store") /\ Thrown(c) /\ UNCHANGED poisoned
  /\ UNCHANGED <<rows, timeline, idem, performed, abandoned, early, crashes, faults>>

(* The handler settles before its timeout.                                 *)
Settle(c, res) ==
  LET n == calls[c].node
      k == NodeKey(c)
  IN
  /\ At(c, "handler") /\ res \in Handler[n][Resumed(c)] \ {"timeout"}
  /\ calls' = [calls EXCEPT ![c].result = res,
       ![c].patch = IF res \in {"ok", "wait"} THEN Patch[n][res] ELSE {},
       ![c].pc = IF res = "ok" /\ k # Null THEN "store"
                 ELSE IF res \in {"ok", "wait"} THEN "finish" ELSE "failed"]
  /\ performed' = IF res = "ok" /\ k # Null
                  THEN [performed EXCEPT ![k] = @ + 1] ELSE performed
  /\ UNCHANGED <<rows, timeline, idem, Aside>>

(* Its timeout wins the race.  Nothing stops the handler, and nobody hears *)
(* of it any more: that it may yet succeed, beside its retry, is counted   *)
(* here, since the engine takes no part in it.                             *)
TimeOut(c) ==
  LET k == NodeKey(c) IN
  /\ At(c, "handler") /\ "timeout" \in Handler[calls[c].node][Resumed(c)]
  /\ calls' = [calls EXCEPT ![c].result = "timeout", ![c].patch = {}, ![c].pc = "failed"]
  /\ IF k = Null THEN UNCHANGED <<abandoned, performed>>
     ELSE /\ abandoned' = [abandoned EXCEPT ![k] = @ + 1]
          /\ \E n \in {0, 1} : performed' = [performed EXCEPT ![k] = @ + n]
  /\ UNCHANGED <<rows, timeline, idem, poisoned, early, crashes, faults>>

Store(c) ==
  /\ At(c, "store")
  /\ idem' = [idem EXCEPT ![NodeKey(c)] = [stored |-> TRUE, patch |-> calls[c].patch]]
  /\ Goto(c, "finish")
  /\ UNCHANGED <<rows, timeline, performed, Aside>>

(* Mutant of Finish: a node that waits is not logged as finished.          *)
FinishUnlessWait(c) ==
  /\ At(c, "finish")
  /\ IF calls[c].result = "wait" THEN UNCHANGED timeline ELSE Log(c, "NODE_FINISHED")
  /\ Goto(c, "apply")
  /\ UNCHANGED <<rows, idem, performed, Aside>>

Finish(c) ==
  /\ At(c, "finish")
  /\ Log(c, "NODE_FINISHED")
  /\ Goto(c, "apply")
  /\ UNCHANGED <<rows, idem, performed, Aside>>

(* NODE_FAILED is logged; a retryable failure runs the handler again as    *)
(* long as attempts are left.                                              *)
Retries(c) == calls[c].result \in Retryable
                /\ calls[c].attempt < MaxAttempts[calls[c].node]

NodeFailed(c) ==
  /\ At(c, "failed")
  /\ Log(c, "NODE_FAILED")
  /\ calls' = [calls EXCEPT ![c] =
       IF Retries(c) THEN [@ EXCEPT !.pc = "handler", !.attempt = calls[c].attempt + 1]
                     ELSE [@ EXCEPT !.pc = "apply"]]
  /\ UNCHANGED <<rows, idem, performed, Aside>>
--------------------------------------------------------------------------------
(* tickCore again: the write that ends the tick, then its event.           *)
Outgoing(n) == {e \in Edges : e.from = n}

(* The edges that may match: `when` is a function of a context the model   *)
(* does not look into.                                                     *)
Matching(n) == {{e \in Outgoing(n) : ~e.guarded} \cup open :
                  open \in SUBSET {e \in Outgoing(n) : e.guarded}}

TopEdges(match) == {e \in match : \A f \in match : f.priority <= e.priority}

NewState(c) == IF calls[c].cached THEN Spread(calls[c].state, calls[c].patch)
                                  ELSE DeepMerge(calls[c].state, calls[c].patch)

(* Mutant of NewOutputs: { [currentNodeId]: result.output } alone.         *)
OnlyThisOutput(c) == {calls[c].node}

NewOutputs(c) == calls[c].outputs \cup {calls[c].node}

EndWith(c, row, event) ==
  /\ rows' = [rows EXCEPT ![Run(c)] = row]
  /\ calls' = [calls EXCEPT ![c].pc = "event", ![c].event = event]
  /\ UNCHANGED <<timeline, idem, performed, Aside>>

Abort(c) ==
  EndWith(c, [rows[Run(c)] EXCEPT !.status = "FAILED", !.node = Null], "RUN_ABORTED")

ApplyError(c) ==
  /\ At(c, "apply") /\ calls[c].result \notin {"ok", "wait"}
  /\ Abort(c)

ApplyWait(c) ==
  /\ At(c, "apply") /\ calls[c].result = "wait"
  /\ EndWith(c, [status |-> "WAITING", node |-> calls[c].node,
                 state |-> DeepMerge(calls[c].state, calls[c].patch),
                 outputs |-> NewOutputs(c)], "RUN_WAITING")

(* Mutants of ApplyEnd: no event; no status.                               *)
EndWithoutEvent(c) ==
  /\ At(c, "apply") /\ calls[c].result = "ok"
  /\ {} \in Matching(calls[c].node)
  /\ rows' = [rows EXCEPT ![Run(c)].status = "COMPLETED", ![Run(c)].node = Null]
  /\ Goto(c, "done")
  /\ UNCHANGED <<timeline, idem, performed, Aside>>

EndWithoutStatus(c) ==
  /\ At(c, "apply") /\ calls[c].result = "ok"
  /\ {} \in Matching(calls[c].node)
  /\ EndWith(c, [rows[Run(c)] EXCEPT !.node = Null], "RUN_COMPLETED")

ApplyEnd(c) ==
  /\ At(c, "apply") /\ calls[c].result = "ok"
  /\ {} \in Matching(calls[c].node)
  /\ EndWith(c, [status |-> "COMPLETED", node |-> Null, state |-> NewState(c),
                 outputs |-> NewOutputs(c)], "RUN_COMPLETED")

(* Mutant of ApplyAmbiguous: the catch block only returns the row.         *)
AmbiguousStays(c) ==
  /\ At(c, "apply") /\ calls[c].result = "ok"
  /\ \E e \in Outgoing(calls[c].node) : e.guarded
  /\ Goto(c, "done")
  /\ UNCHANGED <<rows, timeline, idem, performed, Aside>>

(* Two edges of the highest priority, or a `when` that throws.             *)
ApplyAmbiguous(c) ==
  /\ At(c, "apply") /\ calls[c].result = "ok"
  /\ \/ \E m \in Matching(calls[c].node) : Cardinality(TopEdges(m)) > 1
     \/ \E e \in Outgoing(calls[c].node) : e.guarded
  /\ Abort(c)

(* On to the next node; status stays what it was when the row was read.    *)
ApplyNext(c) ==
  /\ At(c, "apply") /\ calls[c].result = "ok"
  /\ \E m \in Matching(calls[c].node), e \in Outgoing(calls[c].node) :
       /\ TopEdges(m) = {e}
       /\ rows' = [rows EXCEPT ![Run(c)].node = e.to,
                               ![Run(c)].state = NewState(c),
                               ![Run(c)].outputs = NewOutputs(c)]
  /\ Goto(c, "done")
  /\ UNCHANGED <<timeline, idem, performed, Aside>>

LogRunEvent(c) ==
  /\ At(c, "event")
  /\ Log(c, calls[c].event)
  /\ Goto(c, "done")
  /\ UNCHANGED <<rows, idem, performed, Aside>>
--------------------------------------------------------------------------------
(* A process dies: its callers vanish with their locks; the tables stay.   *)
Crash(h) ==
  /\ crashes < MaxCrashes
  /\ \E c \in Calls : HostOf[c] = h /\ ~At(c, "idle")
  /\ calls' = [c \in Calls |-> IF HostOf[c] = h THEN IdleCall(Run(c)) ELSE calls[c]]
  /\ crashes' = crashes + 1
  /\ UNCHANGED <<rows, timeline, idem, poisoned, performed, abandoned, early, faults>>

(* A storage call rejects.  Inside executeNode's try block that counts as  *)
(* a failure of the handler; anywhere else the caller's promise rejects.   *)
InTry(c) == \/ At(c, "store")
            \/ At(c, "finish") /\ ~calls[c].cached
            \/ At(c, "failed") /\ calls[c].result \in {"transient", "fatal"}

StorageFails(c) ==
  /\ faults < MaxFaults /\ calls[c].pc \notin {"idle", "handler"}
  /\ IF InTry(c) THEN Thrown(c) /\ UNCHANGED poisoned ELSE Reject(c)
  /\ faults' = faults + 1
  /\ UNCHANGED <<rows, timeline, idem, performed, abandoned, early, crashes>>
--------------------------------------------------------------------------------
StartStep(c) == Announce(c) \/ PointAtEntry(c)

TickStep(c) ==
  \/ ReadForResume(c) \/ Wake(c) \/ UnknownFlow(c)
  \/ Load(c) \/ NodeMissing(c)
  \/ Begin(c) \/ Check(c) \/ KeyFails(c) \/ \E res \in Results : Settle(c, res)
  \/ TimeOut(c) \/ Store(c) \/ Finish(c) \/ NodeFailed(c)
  \/ ApplyError(c) \/ ApplyWait(c) \/ ApplyEnd(c) \/ ApplyAmbiguous(c) \/ ApplyNext(c)
  \/ LogRunEvent(c)

Next ==
  \/ \E c \in Calls, r \in Runs : StartRun(c, r) \/ Tick(c, r)
                                 \/ ResumeRun(c, r) \/ Recover(c, r)
  \/ \E c \in Calls : Enter(c) \/ Busy(c) \/ Inherit(c) \/ Leave(c) \/ StartStep(c)
                        \/ TickStep(c) \/ StorageFails(c)
  \/ \E h \in Hosts : Crash(h)

Spec == Init /\ [][Next]_vars

(* Storage and handlers answer, and a caller that keeps asking gets the    *)
(* lock in turn: the memory chain is first come, first served.             *)
Progress == \A c \in Calls : /\ WF_vars(StartStep(c) \/ TickStep(c) \/ Leave(c))
                             /\ SF_vars(Enter(c) \/ Busy(c) \/ Inherit(c))

(* The client loop of the README, `while (run?.status === 'RUNNING') tick`,*)
(* run by clients of an engine that has registered the flow.               *)
ClientLoop == \A r \in Runs :
  SF_vars(\E c \in Calls : Knows(c) /\ Tick(c, r) /\ rows[r].status = "RUNNING")

FairSpec == Spec /\ Progress /\ ClientLoop
--------------------------------------------------------------------------------
LastEvent(r) == timeline[r][Len(timeline[r])]
Logged(r, types) == \E i \in DOMAIN timeline[r] : timeline[r][i] \in types
Clean == crashes = 0 /\ faults = 0

(* "Only one tick/resume per runId at a time" (storage.ts:80).             *)
OneAtATime == \A c, d \in Calls : Inside(c) /\ Inside(d) /\ Run(c) = Run(d) => c = d

(* What a tick or resume read of its run before its awaits is still what   *)
(* the table says when it writes: the run has not ended meanwhile, and     *)
(* nothing computed from ctx is stale.                                     *)
Executing == {"begin", "check", "handler", "store", "finish", "failed", "apply"}

SnapshotFresh ==
  \A c \in Calls :
    /\ calls[c].pc \in Executing \cup {"missing"} =>
         rows[Run(c)].status \in {"RUNNING", "WAITING"}
    /\ calls[c].pc = "wake" => rows[Run(c)].status = "WAITING"
    /\ calls[c].pc \in Executing \cup {"wake"} =>
         rows[Run(c)].state = calls[c].state
    /\ calls[c].pc \in Executing =>
         rows[Run(c)].outputs = calls[c].outputs

(* The timeline never announces an end the table does not know: a crash or *)
(* failure between the two writes loses the event, never the row.          *)
EndIsWritten ==
  \A r \in Runs : /\ Logged(r, {"RUN_COMPLETED"}) => rows[r].status = "COMPLETED"
                  /\ Logged(r, {"RUN_ABORTED"}) => rows[r].status = "FAILED"

(* Without a crash or storage failure a run that ended says so in its      *)
(* timeline, exactly once, unless its tick is about to.  (A run resumed at *)
(* a node its definition lost fails in silence, FlowEngine.ts:220.)        *)
EndIsLogged ==
  Clean => \A r \in Runs :
    rows[r].status \in Terminal =>
      LET ends == {i \in DOMAIN timeline[r] : timeline[r][i] \in TerminalEvents}
          owed == {c \in Calls : At(c, "event") /\ Run(c) = r}
          lost == rows[r].node \in Nodes \ Defined
      IN Cardinality(ends) + Cardinality(owed) \in (IF lost THEN {0, 1} ELSE {1})

(* With an idempotency key a handler succeeds once; every further success  *)
(* is paid for by a crash or a storage failure that kept the engine from   *)
(* recording the one before, or is that of a handler that was given up     *)
(* (Executor.ts:48-56, Timeout.ts:27).                                     *)
RepeatsArePaid == \A k \in Keys : performed[k] <= 1 + crashes + faults + abandoned[k]

(* The audit timeline brackets every execution of a node: after            *)
(* NODE_STARTED comes NODE_FINISHED or NODE_FAILED before the next one.    *)
Bracketed ==
  Clean => \A r \in Runs : \A i, j \in DOMAIN timeline[r] :
    i < j /\ timeline[r][i] = "NODE_STARTED" /\ timeline[r][j] = "NODE_STARTED" =>
      \E k \in i .. j : timeline[r][k] \in {"NODE_FINISHED", "NODE_FAILED"}

(* A run that ended stays as it is: no tick, resume or recovery in flight  *)
(* brings it back, changes its result or its outputs.                      *)
EndIsFinal ==
  [][\A r \in Runs : rows[r].status \in Terminal =>
       /\ rows'[r].status = rows[r].status
       /\ rows'[r].state = rows[r].state
       /\ rows'[r].outputs = rows[r].outputs]_vars

(* No tick forgets what an earlier one recorded: outputs only grow.        *)
OutputsKept == [][\A r \in Runs : rows[r].outputs \subseteq rows'[r].outputs]_vars

(* Every call comes back.                                                  *)
CallsSettle == \A c \in Calls : ~At(c, "idle") ~> At(c, "idle")

(* Clients that tick as long as a run is RUNNING bring it to an end or to  *)
(* a wait, unless one of its sections rejected under the in-memory lock,   *)
(* after which no tick of the run executes anything (memory.ts:175).       *)
RunsSettle == \A r \in Runs :
  rows[r].status = "RUNNING" ~> rows[r].status # "RUNNING" \/ r \in poisoned

GoesBack(r) == /\ rows'[r].node # rows[r].node /\ rows'[r].node # Null
               /\ rows'[r].node \in rows[r].outputs

(* A run goes on from where it is: whoever ticks, resumes and recovers it, *)
(* after crashes and failures, no write sends it back to a node already    *)
(* executed, unless a process recovered it while it was being started.     *)
(* (Stated for flows without cycles.)                                      *)
RunsGoOn == [][\A r \in Runs : GoesBack(r) => r \in early]_vars

(* "ticks them so they continue after a restart" (flow-runtime README:14): *)
(* a run that was ticked is not sent back.  startRun's last write, outside *)
(* the lock (FlowEngine.ts:75), does so to a run that recovery ticked.     *)
RecoveredGoOn == [][\A r \in Runs : ~GoesBack(r)]_vars
================================================================================
