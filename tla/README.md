# Formal models of HazelJS

This directory holds TLA+ models of the parts of HazelJS whose correctness
depends on the order in which things happen, the TLC runs that check them on
small instances, and TLAPS proofs of the properties that matter most.  The
models are translated from `packages/*/src`; a line such as `FlowEngine.ts:189`
names the code a definition stands for.

* `PROJECT.json` lists components, runs, mutants, the map from definitions to
  source lines, findings, hazards and theorems.
* `*.tla` are the modules, `MC*.tla` with the `.cfg` files their small
  instances, `*Proofs.tla` the machine-checked proofs.

To check everything: `tlc -config X.cfg M` for the runs of `PROJECT.json`, and
`tlapm M.tla` for the eight modules `*Proofs.tla`.

Contents: 1 inventory, 2 plan, 3 modules and code, 4 runs and bounds,
5 fairness, 6 proofs, 7 what the models say about the code, 8 only
model-checked, 9 not modelled.

## 1. Inventory

HazelJS is a TypeScript framework of 45 packages.  Most of them are adapters
(Prisma, TypeORM, Kafka, gRPC, model providers), builders (decorators, GraphQL
and Swagger schemas, CLI templates) or data processing (RAG, ML, guardrails).
The packages below keep state that several asynchronous callers, timers or
processes change; they are where the project's own logic can go wrong in ways a
unit test hardly reaches.

### flow and flow-runtime: the durable workflow engine

*State.*  A table of runs (status, current node, state, outputs), a timeline of
events per run and a table of idempotency records, all in memory or in Postgres;
per run, a lock.
*Operations.*  `startRun`, `tick`, `resumeRun`, `registerDefinition`, and the
recovery of `RUNNING` runs when a process starts.
*Interaction.*  `tick` and `resumeRun` go through `storage.withLock`;
`tickCore` reads the row, calls `executeNode` (which writes events and the
idempotency record around the handler), chooses an edge and writes the row and a
last event.  `startRun` does not take the lock.
*Hard.*  Every storage call is an await: other callers, other processes, a crash
or a failed call can come between any two.  The lock is a promise chain in one
storage and a Postgres session lock behind a connection pool in the other.
*Correct means.*  One section per run at a time; what a tick computed from its
copy of the row is not stale when written; an ended run stays ended; outputs are
never lost; the timeline does not claim ends that did not happen; a keyed handler
succeeds once unless a failure intervened; clients that keep ticking get to an
end.

### resilience: circuit breaker and bulkhead

*State.*  Circuit breaker: state, `nextAttempt`, sliding window, half-open
counter.  Bulkhead: active calls, queue.
*Operations.*  `execute` and `reset` of a breaker, `execute` of a bulkhead;
timers of calls and of queue entries.
*Hard.*  Calls in flight settle in a later state of the breaker than the one that
admitted them; a queue timeout races the release that hands over a permit;
functions that wait, holding a permit, for a permit.
*Correct means.*  No call while open before `nextAttempt`, and no open circuit
longer than that; a circuit closes only after successes in a row; permits never
exceed the limit and are never lost; every queued call is granted or rejected
once, in order.

### worker: a pool of threads

*State.*  The threads and `workerIndex`, the map of pending tasks with a timer
each, whether the pool shuts down.
*Operations.*  `start`, `execute`, the handlers of messages, errors and exits,
`shutdown`.
*Hard.*  The answer of a thread, the timer of the task and `shutdown` race for
the entry of a task; a thread may die with the tasks it holds.
*Correct means.*  A task that was accepted gets one outcome, for good; nobody
waits after a shutdown; entries and timers do not leak.

### distributed-lock and cron

*State.*  A lock entry per key with a random identifier, an expiration and a
timer; a manager that hands out a backend.  A cron service has a map of jobs by
name; a job has a schedule, an enabled flag, a running flag, a run counter.
*Operations.*  `acquire` with retries, `release`, `extend`, `close`; register,
start, stop, enable, disable, delete, clear of jobs, and their execution.
*Interaction.*  The method of a job is decorated with `@DistributedLock`: an
execution is a caller of the lock, and lasts as long as waiting for the lock and
the method do.
*Hard.*  A lease ends although its method has not; timers, extensions and
releases of an earlier holder meet the entry of a later one; jobs are replaced or
stopped while they execute.
*Correct means.*  Only a method that outlived its lease runs beside another; a
release frees only what the caller holds; every lease ends; a job that was
replaced or deleted never fires again; a job does not overlap itself.

### agent: executions with tools

*State.*  The context of an execution (state, steps), the abort controllers of
those that run, the pending approvals with their resolvers.
*Operations.*  `execute`, `resume`, `cancel`; `approveToolExecution`,
`rejectToolExecution`; retries and timeouts of tools.
*Hard.*  `resume` may start a second loop on the context that the first one is
working on; approval, rejection and expiry race for a request; tools run in
parallel and may never answer.
*Correct means.*  No tool that needs approval runs without; the budget of steps
holds; what is reported as completed has an answer; every execution ends.

### discovery: a registry of instances

*State.*  In Redis a key per instance with a ttl and a set of ids per service
with a ttl of its own; per process the instance and its timers.
*Operations.*  `register`, health checks (`heartbeat` or `updateStatus`),
`deregister`, `cleanup`, `getInstances`.
*Hard.*  Each operation is several commands; those of different processes, and of
one process's timers, interleave; keys and sets lapse; processes die.
*Correct means.*  A deregistered instance is not found again; cleanup removes
nobody who is alive; who died is forgotten.

### The others

**saga** is one sequential loop; **cache** a map with a tag index; **gateway**
has a canary engine driven by timers; **messaging** appends turns of a
conversation around an awaited answer; **core** builds the container and the HTTP
stack.  Adapters of external systems (prisma, typeorm, kafka, queue, grpc,
event-emitter, oauth, payment, observability, serverless, ai, mcp), builders and
generators (cli, swagger, graphql, prompts, i18n, config) and pure data
processing (rag, ml, guardrails, data, pdf-to-audio, inspector) have no protocol
of their own whose interleavings matter.  Section 9 says more.

## 2. Plan

Done, in this order: the run locks, the flow engine with recovery, bulkhead and
breaker, then worker pool, distributed lock with cron, agent and discovery, each
with its proofs.  The abstract specifications are `RunLock`
(what a lock of runs promises) and `TaskService` (what `execute` of a worker
promises).

What would come next: the engine over the sessions of `AdvisoryLock` instead of the
contract `RunLock`; the canary engine; breaker, retry, timeout and bulkhead stacked
around one method.

## 3. Modules and the code they model

| module | code | state | one action per |
|---|---|---|---|
| `RunLock` | contract `withLock`, `storage.ts:80` | where each call is, its run | request, entry, refusal, exit, disappearance |
| `MemoryLock` | `memoryWithLock`, `memory.ts` | promise chain and rejection of each run | link of the promise chain |
| `AdvisoryLock` | `withAdvisoryLock`, `Locks.ts` | calls, locks held per session | SQL query, end of `fn`, death of a process |
| `FlowEngine` | `FlowEngine.ts`, `Executor.ts`, `Transition.ts`, `utils.ts`, `recovery.ts` | tables, calls in flight | awaited call of storage or handler |
| `Bulkhead` | `bulkhead.ts` | `activeCalls`, queue, calls | admission, refusal, queue timer, release |
| `CircuitBreaker` | `circuit-breaker.ts`, `sliding-window.ts` | circuit, window, calls in flight | execute, settle, timer, reset, tick of the clock |
| `TaskService` | what `WorkerExecutor.execute` promises | outcome per task | acceptance, refusal, outcome, close |
| `WorkerPool` | `worker.pool.ts`, `worker-bootstrap.ts` | threads, turn, pending tasks, timers, messages | call, message, timer, exit, phase of shutdown |
| `LeaseLock` | `distributed-lock.decorator.ts`, `memory-backend.ts`, `lock-manager.ts` | entries per backend, callers | attempt, release, extension, timer, close |
| `CronService` | `cron.service.ts` | jobs by name, their flags | call of the service, firing, end of an execution |
| `AgentExecutor` | `agent.executor.ts`, `tool.executor.ts`, `agent.runtime.ts`, `agent.state.ts` | context, loops, tool calls | part of the loop between two awaits, event of a tool call |
| `RedisRegistry` | `redis-backend.ts`, `service-registry.ts` | keys, set, ttls, what each process does | Redis command |

*Composition.* `FlowEngine` uses the lock through the guards of `RunLock`
(`LockFree`, `Busy`); `Refusing` chooses the behaviour of the Prisma storage (a busy
lock refuses) or of the in-memory one (the caller waits, and a section that rejects
poisons the lock of its run for all later callers: `Reject`, `Inherit`).
`MemoryLock` implements `RunLock` (`Contract == INSTANCE RunLock WITH ...`),
`WorkerPool` implements `TaskService`, each by a refinement mapping that is checked
by TLC and proved. `AdvisoryLock` maps a call whose `finally` runs to one that is
out (`Place`) and does NOT implement the contract; `KeepsContract` says in which
steps it departs from it, see sections 6 and 7. `CronService` EXTENDS `LeaseLock`:
an execution of a job is a caller of the lock (`Execute` contains `Acquire`), and
the job is done when the caller is idle again.

*FlowEngine.*  A call has a program counter whose values name the await it stands
at: `read`, `wake` (resumeRun), `load`, `begin` (NODE_STARTED), `check`
(idempotency lookup), `handler`, `store`, `finish`, `failed`, `apply` (the
transition and the row update), `event`, `done`; `announce` and `point` are the
two halves of `startRun` after the row exists.  A call carries `ctx` (state and
outputs as read), the result of the node and whether it came from the record.
What handlers compute is a constant: which results a node may settle to, which
fields its patch sets.  A state is the set of fields it has: enough to tell a
merge from a replacement.  Crashes end every call of a process and leave the
tables; a storage failure makes one awaited call reject and follows the code's
`try` blocks: inside `executeNode`'s `try` it becomes a failed node.  A handler that
loses the race against its timeout goes on, but the engine hears nothing of it:
`TimeOut` counts it in `abandoned`, and in `performed` if it is one that will
succeed after all.  `early` remembers the runs that a starting process found, and
asked a tick for, before their `startRun` was over.

*AdvisoryLock.*  The sessions are the connections of a process's pool, which the
calls of that process share; every query may go to any of them, as Prisma sends it
to whichever is free.  `grant` is the session that took the lock for a call.  Two
history variables remember keys: `reentered`, granted to a session that held them
already, and `astray`, unlocked on another session than the grant's, or by a call
that was refused while its session held the key for somebody else.

*CircuitBreaker.*  `nextAttempt` and timestamps are kept as the time that is left
or has passed, so that the clock needs no bound.  `sick` calls are those that met
a service that was down; only they may fail or hang.  A window is a sequence of
entries with ages; `TransitionTo`, `OnSuccess` and `OnFailure` are functions on
the breaker's record, as in the code they are called from one another.

*Bulkhead.*  `execute` is synchronous up to its first await, so admission,
refusal and enqueueing are one step each; `releasePermit` decrements and, with a
queue, hands over and increments again in one synchronous run.

*WorkerPool.* `inbox` and `answers` are the messages in flight to and from a thread;
a thread that died takes its inbox with it and swallows what is posted to it later,
as nothing in the code takes it out of the rotation. A `postMessage` that throws
(`ExecuteThrows`) does so after the entry, the timer and the turn have been taken
(`Enlist`) and tells the caller; what was taken stays until the timer. The rejection
of waiting callers is the synchronous part of `shutdown` and one step; each
`terminate()` is a step, and so is what follows their `Promise.all`.

*LeaseLock.*  Time is abstracted to one event per entry: `Lapse`, after which the
entry may be taken over and its timer may run, in either order.  `lost` is history:
the callers whose entry was taken away while they were inside.  `backend` counts
the calls of `close()`, each of which puts a new in-memory backend in place.

*AgentExecutor.*  `First` is the promise of `execute`, `Resumes` those of
`resume`; they share `state` and `steps` and each has its own `stepNumber`.  Which
decision the model of the language takes, and how long tools and people take, is
arbitrary.  `Listening` chooses whether a subscriber of the approval event
approves on the spot.  A tool whose result is there has `ended`; recording it is a
step of its own, and one that fails (`Unrecorded`) fails the step at once, while the
other tools of the step go on.  `said`, `answered` and `overlap` are history.

*RedisRegistry.*  One action per Redis command.  Ttls are counted in intervals of
the health check, and an interval passes when every check of it is over: Redis
answers well within one.  An empty set does not exist, so that the next `SADD`
makes one without a ttl.

## 4. Runs, bounds, and why they are enough

| run | states | question |
|---|---|---|
| `memory_lock` | 608 | does the promise chain implement the contract, rejections included, and does everybody get an answer |
| `advisory_lock` | 13,184 | calls that share a pool, runs that share a key, processes that die: where does the session lock depart from its contract, and what may be left locked |
| `flow_memory` | 53,304 | in one process without failures: are timelines complete, do calls and runs come to an end |
| `flow_durable` | 2,177,126 | two processes, a busy lock, recovery, one crash, one storage failure: are ends final, repeats paid for, and which runs go back |
| `bulkhead` | 764 | permits, order and answers, with nested calls |
| `circuit_breaker` | 10,051 | opening, rejecting, closing and recovering, both windows |
| `worker_pool` | 25,347 | outcomes, entries and timers, with dying threads, messages that cannot be posted, late answers and a shutdown |
| `cron_lock` | 376,400 | leases and jobs together |
| `agent` | 138,229 | approvals, budget, reports and ends of executions that overlap |
| `registry` | 455,501 | commands of two processes, of their timers and of a cleanup, in any order |
| `memory_lock_poisoned`, `agent_listener` | | section 7 |

*Calls.* Two calls suffice for a race between a call and whatever interferes with it
(another tick, a recovery, startRun); `flow_memory` has three, the third in a
process that has not registered the flow. The memory lock has three, since a chain
of two has no middle. The advisory lock has two calls that share a pool of two
connections, the smallest in which a lock can be granted again and an unlock can
miss, and a third call in another process, for which either matters. Two calls of
the breaker are the smallest number at which one settles in a state the other
brought about; three calls have been checked once (61,000 states, same results). The
bulkhead has two permits and six executions, so that both permits can be held by
functions that wait for queued calls while others arrive, and three places so that a
timer can take out the first, a middle or the last entry. The pool has two threads
and three tasks: one thread gets a second task while the other may be dead. The lock
has three callers under one key: a former holder, a present one and one that waits.
The agent has two loops on one context and two tools, one with approval and one with
a retry. The registry has two instances of one service: one to be found and one
whose commands meet it.

*Runs of the flow.*  One: runs share nothing but their idempotency keys, and keys
are taken to differ between runs (see the hazard at `Executor.ts:27`).

*Nodes.*  `charge -> ask | ship -> end` has a keyed node with retries and a
timeout, a guarded edge with priority over a default one, a node that waits and
one that may fail.  `flow_memory` adds edges that tie and an edge to a node the
definition does not have; `flow_durable` a key function that throws.

*Bounds.* `MaxEvents` stops new ticks of a run whose timeline is that long, unless
it waits: `MaxWaitEvents` stops those, and every resume. In `flow_memory` the bound
is never what ends a run: a RUNNING run that it cut off could not be ticked any more
and would violate `RunsSettle`. In `flow_durable` the bounds leave room for a node
to be cut off by a crash or a storage failure, recovered and repeated, and for a
waiting run to be resumed after that; a tick under way is never cut short by them.
The two processes differ in name only, each with its one call, so that exchanging
them is a symmetry (`SameProcesses`); the run checks no liveness. `MaxCrashes` and
`MaxFaults` are one each: `RepeatsArePaid` relates their number to the number of
repeats. `MaxRejected` ends the bulkhead's calls once four have been rejected;
`MaxEntries` bounds what a time window holds, one more than the threshold, so that
old failures and new ones meet in it. `MaxHeld` is three, more than the two calls of
one process can be granted on a key before one of them unlocks it, and one more for
a lock left behind; past it no further grant is explored. `MaxExits` is one: with
one thread dead the rotation still passes over it, and shutdown kills the other.
`MaxCloses` and `MaxExtends` are one, `RunBound` two: a job is restarted once after
its first execution. `KeyTTL` 2 and `SetTTL` 3 keep the order of the code (the set
outlives the key) with the fewest intervals. The theorems of section 6 have no
bounds but those that are part of the code.

*CHECK_DEADLOCK FALSE* where these bounds (or the end of what is executed) stop
the callers: the system rests when nobody calls.  The memory lock, the advisory
lock and the breaker are checked for deadlock.

## 5. Fairness

* **FlowEngine** `Progress`: storage and handlers answer (weak fairness of the
  next step of a call); a caller that wants the lock gets it in turn (strong
  fairness of `Enter`), because the memory chain is first come, first served,
  which MemoryLock shows.  `ClientLoop`: the loop of the package's README,
  `while (run?.status === 'RUNNING') tick`, by clients of an engine that knows the
  flow.  Used only by `flow_memory`.  There the process that does not know the
  flow leaves its section as one that rejects, which poisons the lock of the run:
  `RunsSettle` exempts the run from then on, since the code never executes it again.
* **MemoryLock**: `fn` settles, and a promise whose predecessor has settled runs.
* **Bulkhead**: a function that waits for nothing settles, timers fire.  A
  function answers once its inner call has answered, hence strong fairness:
  it may become able to answer again and again.  With `queueTimeout` 0, which is
  the default, nested calls can wait for each other for ever; the run has one.
* **CircuitBreaker**: time passes and timers fire; clients keep calling, and a
  service that is up does not answer only with errors that the predicate
  ignores.  `Recovers` assumes in its statement that the service stays up.
* **WorkerPool**: timers fire.  Nothing is asked of the threads: a task whose
  thread is dead or silent is settled by its timer alone.
* **CronService**: time passes and the timers of leases fire.  Nothing is asked of
  the methods: `LeasesEnd` holds for one that never returns.
* **AgentExecutor**: promises continue, timers fire, the call of the language model
  comes back.  Nothing is asked of the people who approve nor of the tools.
* **RedisRegistry**: checks begin and end, Redis answers, time passes.  `cleanup`
  is not relied upon, and processes may die at any time.

## 6. Proofs

Every theorem holds for all values of the constants that satisfy the module's
named assumption (`ConfigAssumption`, `BulkheadAssumption`, `BreakerAssumption`,
`PoolAssumption`, `LeaseAssumption` with `CronAssumption`, `AgentAssumption`,
`RegistryAssumption`); TLC evaluates these assumptions in the runs.  A theorem that
needs more says so in an ASSUME of its own, named below.  Each module proves type
correctness as `TypeCorrect`, and its other theorems from one inductive invariant,
`Invariance`.

**RunLockProofs.**  The two locks of runs.  `MemoryMutualExclusion` and
`MemoryRefinement` need no hypothesis: a call inside is the head of its run's chain
(`InsideIsHead`), and a chain has one head.  The advisory lock has no such theorem,
because the code does not have the property (section 7).  What is proved holds for
any pools, any number of calls per process, any hash of run ids and any crashes:
`AdvisoryRefinement`, that the only steps which are not the contract's let a call in
on a key that was granted twice to one session or unlocked astray;
`AdvisoryKeepsOut`, that without a stray unlock calls of two processes never overlap,
re-entered or not; `AdvisoryReleased`, that a lock left behind is one whose unlock
went astray.  The inductive invariant counts: on a key without stray unlocks a
session holds as many locks as calls were granted one on it and have not been asked
for it back (`Counts`), only one session holds any (`OneHolder`), and a call inside
has its grant on a session of its own pool (`Grants`).  Mutual exclusion of processes
then is the uniqueness of the holder.  For the refinement, each query is a step of
the contract or a stutter: a lock granted to a session that did not hold it is free
(`FreshGrant`); a refusal meets a caller that waits; `Unlock` is invisible.

**FlowEngineProofs.** `MutualExclusion`, `FreshSnapshots`, `EndsAreFinal`,
`OutputsAreKept`, `EndsAreWritten`, `RepeatsArePaidFor`. The inductive invariant is
`TypeOK /\ OneAtATime /\ SnapshotFresh`; the three need each other: a copy of the
row is fresh because nobody else is inside the run's section and because `startRun`,
which writes outside the lock, changes only the current node, and only one call can
be inside because entering asks for a free lock. The proof splits every step into
what it does to the calls and what it does to a row: `SectionStep` (a call inside
replaces its own row), `ReadOnlyStep`, `OutsideStep`; each action then shows only
that its new call matches its new row (`Fresh`) and that the row moved forward
(`Later`), from which the two action properties follow. `EndsAreWritten` needs that
a call which is about to log an end has a row that says so (`EventsTrue`): it wrote
the row, and ended rows stay. `RepeatsArePaidFor` assumes `KeysApart`: different
runs do not share a key. Its invariant says when a key is paid for (`Paid`: its
record is stored, a call is about to store it, or its run has ended) and that a key
not paid for has at most as many successes as there were crashes, failures and
handlers given up; a timeout may add one to both sides, whether or not its handler
succeeds beside the retry. A call that will run a keyed handler has checked that
there is no record, and only one call can be inside the only run that has the key.

Three more theorems relate positions of the timeline and of the flow over many
steps.  For them every step is put into one of seven shapes (`StepShape`): a run is
created, pointed at its entry, asked for, given up, moved on inside without a write,
logged, or written to the table.  `PlaceInv` says what the place of a call implies:
a run that somebody is in before its `startRun` is over has been recovered too early
(`early`), a call about to log holds an event of the end or of the wait.
* `EndsAreLogged` has no hypothesis.  `LogInv` splits what an ended run may look like
  (`Told`): its timeline has the one end and nobody owes it; it has none and one call
  is about to write it; or the run ended at a node that its definition has lost, and
  nobody will.  A run that has not ended has no end in its timeline.
* `NodesAreBracketed` assumes `KeyThrows = {}`: a key function that throws leaves the
  section between `NODE_STARTED` and the `try` that would have logged its failure
  (section 7), and the timeline then stays open.  `BracketInv` adds that the timeline
  of a run nobody is executing is closed.
* `RunsGoForward` assumes that the flow is acyclic.  Recovery, crashes and failures
  are in it: a run is sent back only if a process recovered it before its `startRun`
  was over, whose last write is outside the lock (section 7).  `GoInv` says of every
  other run, for a rank that grows along the edges, that no output has a rank above
  the current node, and that a run which `startRun` has not finished with has no
  output; what is executed is what the row points at.

**BulkheadProofs.**  `Permits`, `NoLostWakeUp`, `Rejections`,
`FirstComeFirstServed`.  Counting lemmas (`OneMore`, `OneLess`, `OneForAnother`)
relate `activeCalls` to the set of running calls; `QueueWithout` says what is left
of the queue when a timer has taken an entry out of it.  `PermitsHeld` needs
`QueueIsLine`: the call that is handed a permit must still wait, or one permit
would be counted for two.

**CircuitBreakerProofs.**  `FailuresOpen`, `RejectsForResetTimeout`,
`OpenCircuitHolds`, `TrialSucceeds`.  `Failures` is the cardinality of a set of
indices; the lemmas `FailuresAppend` and `FailuresSuffix` bound it under `record`
and eviction.  What OnSuccess and OnFailure may do to the circuit is one relation
(`OnSuccessFollows`, `OnFailureFollows`), from which the first three results are
drawn.  `TrialSucceeds`
(a circuit closes by itself only after `successThreshold` successes in a row) needs
that the newest `halfOpenSuccessCount` entries of the window are successes while the
circuit is half-open (`InARow`), through `record` and its eviction.

**WorkerPoolProofs.**  `EntriesAndTimers`, `Refinement`.  Entries and armed timers
are the same tasks and whoever waits has both; an entry without a waiting caller is
one whose message could not be posted.  `Refinement` is the safety part of
`TaskService`: each step of the pool is a step of the service or a stutter, since
settling a promise again is nothing (`SettleAllTells`) and whoever waits is among the
entries (`OneTimerEach`).  `TaskService` leaves open what a shutdown does to those who
wait: the package's documentation and its code disagree (section 7).

**CronServiceProofs.**  `Exclusion`, `NoStrayJobs`, `Executions`.  The lease
excludes because whoever is inside and has not lost its entry holds it (`Held`),
and an entry has one holder; a take-over marks whom it robs.  `ScheduledIsCurrent`
needs that the map files a job under its own name (`NamedRight`): otherwise
`registerJob` would stop the wrong one.

**AgentExecutorProofs.**  `Approvals`, `Budgets`, `Reports`.  A tool runs approved
because nobody has rejected a request that is still open (`NotYetRejected`).
`Budgets` holds for any number of overlapping loops, and measures them by the largest
budget of those that have begun: each may have passed the
check before the others' steps were added, which the sum in `StepsWithinBudget`
accounts for.  `Reports` follows `First` through its places as long as it is alone
(`Alone`).

**RedisRegistryProofs.**  `Deregistered`, `NothingDropped`, `ForgottenForGood`.  The
invariant follows what the commands in flight may still do.  A check that is about to
write the key of a live instance has a key to overwrite (`ChecksAreLate`), since no
key lapses within an interval; so an id that cleanup found without a key gets none
before it is removed (`StaleIsDead`), and a registered instance with a key is in the
set unless the set as a whole was dropped (`Listed`).  `LeftBehind` says that an
instance `deregister` has finished with is either no member, or has no key and no
check that would write one: it keeps `deregister` safe from the heartbeat that is
under way when it starts.  `ForgottenForGood` is the safety half of
`CrashedIsForgotten`: nothing writes the key of a dead process or adds it to the set.

## 7. What the models say about the code

Violation runs, each with the text it contradicts in `PROJECT.json`:

* `memory_lock_poisoned`: a section that rejects leaves its rejected promise in
  the map (`memory.ts:175`); every later call of that run rejects unseen.
* `agent_listener`: the request for approval is announced before its resolver is
  kept (`tool.executor.ts:282` and `:299`).  The subscriber that the README of the
  package shows approves on the spot, is not heard, and the request expires.

Further configurations, kept beside the modules, with which TLC shows what the passing
runs except.  Each states, as a property of the module, what a text of the repository
says, and ends in a counterexample:

* `AdvisoryReentered.cfg`, `OneAtATime` ("only one tick/resume per runId at a time",
  `storage.ts:80`): a second call of the process, whose query Prisma sends on the
  connection that holds the lock, is granted it again (`Locks.ts:28`).
* `AdvisoryLeak.cfg`, `NothingLeaked` ("executes fn and unlocks when lock acquired",
  flow/test/engine.Locks.test.ts:15): the unlock is sent on another connection than
  the lock (`Locks.ts:36`), which Postgres answers with a warning; the lock stays.
* `AdvisoryRefused.cfg`, `ProcessesApart` ("Postgres advisory locks for flow run
  concurrency safety", `Locks.ts:2`): the `finally` of a call that was refused
  (`Locks.ts:35`) releases the lock of a call in progress, and another process enters.
* `FlowRecovery.cfg`, `RecoveredGoOn` ("picks up any `RUNNING` runs ... and ticks them
  so they continue after a restart", flow-runtime/README.md:14): recovery ticks a row
  that `startRun` is still writing, whose last write sends the run back to its entry
  node (`FlowEngine.ts:75`), which is executed again.
* `WorkerShutdown.cfg`, `ShutdownWaits` ("waits for in-flight tasks",
  worker/README.md:17): `shutdown` rejects the tasks in flight (`worker.pool.ts:119`).
* `WorkerDead.cfg`, `GoesToAvailable` ("Execute a task on an available worker",
  `worker.pool.ts:73`): a thread that exited stays in the rotation (`:149`, `:165`),
  and its share of the tasks can only time out.

Observed while modelling, without a configuration of their own:

* *flow.*  `tick` executes the node of a
  WAITING run (`FlowEngine.ts:89`), whose status stays WAITING (`:199`), while
  flow-runtime/README.md:65 says "Advance a running run one step".  A replayed
  patch replaces nested state instead of merging it (`:163`).  A run resumed at a
  node its definition has lost becomes FAILED without an event (`:220`).  Two runs
  with one idempotency key both execute (`Executor.ts:27`).  An `idempotencyKey`
  function that throws (`Executor.ts:26`) does so after NODE_STARTED and before the
  `try`: the timeline shows a node that started and neither finished nor failed, and
  under the in-memory lock the run is poisoned.  A handler that timed out goes on
  beside its retry (`Timeout.ts:27`): a keyed handler may then succeed twice without
  any failure, where flow/test/idempotency.test.ts expects a side effect to be
  counted once (of a node without a timeout).
* *resilience.*  HALF_OPEN admits every call, not "a limited number of trial
  calls" (`circuit-breaker.ts:8`).  A listener that throws inside `onSuccess` turns
  a success into a failure (`circuit-breaker.ts:85`).  Nested calls of a bulkhead
  without `queueTimeout` can wait for ever.
* *worker.*  A `postMessage` that throws leaves the entry and the timer of a task
  whose caller has been told (`worker.pool.ts:106`).  `start` may be called after
  `shutdown` (`:35`) and makes threads that nothing will use.
* *distributed-lock and cron.*  A lease lapses under its method, so that "exactly
  one process executes" (distributed-lock/README.md:16) holds only within the ttl.
  After `LockManager.close()` callers in a retry go on with the old backend beside
  those of the new one.  A job registered anew may execute beside the last
  execution of the job it replaced.  `preventOverlap` (cron/README.md:226) is no
  option of the code; jobs never overlap themselves.
* *agent.*  `cancel` does nothing to a resumed run, which has no controller.  A
  resumed run that finds the budget spent reports completed without an answer
  (hence `~overlap` and `First` in `CompletedIsAnswered`), and an answer given in
  the very last step is reported as failed (`agent.executor.ts:132`).  When one tool's
  result cannot be recorded the execution fails at once (`:399`, `:713`), and the other
  tools of the step go on behind it: one that is approved afterwards still runs.  The deadline
  is looked at between steps only.
* *discovery.*  `updateStatus` refreshes an instance's key and not the set
  (`redis-backend.ts:231`), and `cleanup` may delete a set that was refilled since
  it was counted (`:261`): an instance that is alive is then found no more, as
  heartbeats do not add it again.  `NeverDropped` makes both exceptions by name
  (`wiped`).  A health check that returns after `deregister` finds no instance and
  throws inside its `catch` (`service-registry.ts:146`).  The client caches a
  filtered list under the bare name of the service (`discovery-client.ts:56`).

## 8. Only model-checked

All liveness (`EveryCallSettles`, `CallsSettle`, `RunsSettle`, `Recovers`,
`LeasesEnd`, `EveryRunSettles`, `CrashedIsForgotten` but for its safety half, and the
fairness of `ImplementsService`), because fairness and ENABLED are out of the prover's
reach.  Every other invariant and action property of the runs is stated by a theorem.

## 9. Not modelled

Inside the modelled packages: the aliasing of row objects handed out by the
in-memory repositories; a database write that lands although its call reports an
error; the limit of five recoveries at a time (`recovery.ts`), which only delays
them; what a handler that was given up does besides succeeding or not; an in-memory
storage that survives its process; the order of timeline events with
equal timestamps; the HTTP routes of flow-runtime; metrics, listeners and
fallbacks of the breaker; a storage failure during recovery's own query; the rate
limiters (refills are floating-point quotients of elapsed time) and the decorators
that stack the policies one around the other; the loading of tasks in a thread;
failures of Redis commands in the lock and in the registry; two cleanups at the
same time; the in-memory, Consul and Kubernetes registries and the clients of a
registry; streaming, memory, guardrails and state managers of the agent.

Whole packages: **saga** is sequential, and what it does on failure is plain from
its 139 lines (a failing compensation is passed over at `orchestrator.ts:129`).
**cache** has one race, an entry tagged again while `deleteByTag` awaits, which
lives to its ttl.  **gateway**'s canary decides by percentages of counters on one
timer.  **messaging** may interleave the turns of two messages of one session and
promises no order.  **core**, **websocket** and **realtime** keep synchronous
tables around I/O.

The mapped lines stay a small share of the repository: most of its code builds,
adapts or transforms data, and has no state that two actors share.  The packages
not modelled are in `PROJECT.json` with status `not_modelled` and the reason.
