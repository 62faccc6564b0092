# A verification project for nexAgent

nexAgent is a service that runs multi-agent workflows: a client posts an
execution, a background task lets a *master* language model plan, runs the
planned *sub-agents* (each a ReAct loop with tools), collects and synthesizes,
and records everything in PostgreSQL, while other clients poll, cancel, delete
or watch the execution over a WebSocket.

This directory holds TLA+ modules of that machinery, TLC configurations that
check them on small instances, and theorems with proofs that TLAPS checks for
every value of the constants. `PROJECT.json` is the index: components, runs,
which source lines every definition models (`map`), a mutation of the code for
every property, hazards, findings and theorems. Source paths below are relative
to `src/src/nexagent/`.

## 1. Inventory

| component | state it keeps | operations | talks to |
|---|---|---|---|
| execution API and background task: `api/executions_router.py` | one asyncio task per execution, two database sessions | `execute_workflow`, `_run_execution_background`, `cancel_execution`, `delete_execution_endpoint`, reads | tracker and master runner (calls), event queues (shared dictionary), database |
| tracker: `services/execution_service.py`, `models/execution*.py` | rows of `executions`, `execution_lanes`, `execution_steps` | create, start, lane, step, complete, delete | database; every write is a `flush`, never a `commit` |
| master runner: `engine/master_runner.py`, `state/orchestration.py` | `OrchestrationState`: iteration, delegations, lane results, status, error | `run_workflow` | language model, lane manager, tracker |
| lane manager: `engine/lane_manager.py` | status and result of each `DelegationTask` | `execute_delegations`, `_run_one` | sub-agent runner, `asyncio.gather` |
| sub-agent runner: `engine/sub_agent_runner.py` | conversation, tool log, token count | `run_sub_agent` | language model, tools |
| live stream: `api/executions_router.py` | `_event_queues`: per execution a list of bounded queues | `_publish_event`, `execution_live_stream` | background task, cancel requests, WebSocket clients |
| configuration: `services/{tool,sub_agent,orchestrator,workflow}_service.py` and their routers | rows with `is_active`, two association tables | create, update, soft delete, bind, add, remove, validate | database; read by the master runner at the start of a run |
| built-in tools: `services/builtin_sync.py`, `engine/tool_executor.py`, `tools/` | rows of type `builtin`, the registry of functions | start-up synchronisation, `resolve_tools` | database, sub-agent runner |
| database pool: `database.py` | 5 + 10 connections, 30 s timeout | one session per request and per run | everything above |
| capability map: `engine/capability_map.py` | none | one more load of the orchestrator, the text of the planning prompt | master runner, database |
| chat graph: `agents/chat.py`, `graphs/` | one conversation per request | a two-node graph | language model, tools |
| key encryption, provider validation, schemas, migrations | none | pure functions and single I/O calls | |

### What is hard here

* **One transaction around a whole run.** The tracker only flushes; the router
  commits once, after the last model call (`executions_router.py:73`). Before
  that readers see a `pending` row with no lanes; an exception throws the whole
  trace away and a second session records the failure.
* **Check, then write.** Cancel and delete read the row in one statement and
  write in a later one, and that write may wait for the run's row lock in
  between (`:192-197`). `start_execution` and `complete_execution` write over
  whatever they find (`execution_service.py:118`, `:257`).
* **Lane numbers are computed twice**, before and after the sub-agents ran, from
  the length of a list (`master_runner.py:215`, `:241`), under a unique
  constraint; results are matched by position although sub-agents end in any
  order.
* **Partial failure everywhere**: planning, a delegation, a tool, synthesis, the
  tracker, the commit and the failure handler can each fail on their own, and
  each has its own handling.
* **Register, then read.** A WebSocket client must not fall between its
  catch-up and the event stream (`executions_router.py:286-305`), the task
  replaces the list of queues when it is launched (`:122`) and drops the key
  after the run (`:99`).
* **Reads of several statements.** An execution with its lanes and steps, and a
  workflow with its orchestrator, sub-agents and tools, are loaded by one SELECT
  for each level (`selectin`), each at its own moment; the session keeps what it
  loaded first.
* **A small pool.** A run keeps a connection for its whole length, a cancel keeps
  one while it waits for the run's row lock, and the failure handler needs a second
  one (`executions_router.py:83`).
* **A crash** loses tasks, queues and open transactions, and start-up does not
  look for executions left behind (`api/__init__.py:17-23`).

### What makes each component correct

* *Lifecycle*: a trace is visible whole or not at all; the row shows the end that
  the event tells, except after three failures that leave it `pending` or
  `running`; a deleted execution never comes back; an acknowledged cancel leaves a
  finished execution; a completed result is lost only in the known window; every
  run ends and every request is answered.
* *Master runner and lane manager*: no lane or step number collides, over any
  number of rounds; lane *k* is the lane of result *k*; tokens are neither lost
  nor invented; one failure aborts no other delegation, under either strategy; the
  loop ends.
* *Sub-agent runner*: every tool call is answered before the model is asked
  again; the log is the conversation's calls; the loop ends, and only a malformed
  answer of the model makes it raise after something was spent, and lose it.
* *Live stream*: who listens when the run's end is published gets the event, who
  comes later is shown the row, unless the client came before the task's list of
  queues did; where the row shows no end, the late client learns none. No event
  goes to a queue nobody reads.
* *Bindings*: a granted request has done what it asked for, no binding is lost to a
  request that does not speak against it, and what is bound was active when the
  request looked.
* *Built-in tools*: every start completes the registry and breaks no other tool; a
  stale row undoes no update; delete switches off no built-in tool, but for one race.
* *Reads*: an answer whose status only the run writes has the run's whole trace.
* *Workflows*: what a run finds wrong with a workflow was written after the
  validation had read it, and a validation refuses only what was wrong while it
  looked, but for one kind of torn read.
* *Pool*: nobody keeps a connection and waits for another, cancels that wait for a
  row lock do not exhaust the pool for the run that holds it, every path gives
  its connection back.

## 2. Modules

| module | models | correspondence |
|---|---|---|
| `ExecutionRecord` | what a client may rely on about one execution | abstract: `Create`, `Settle` (the run's one write, in one piece), `GiveUp` (the run ends without a mark), `Withdraw`, `Purge` |
| `ExecutionLifecycle` | router, task, tracker transaction, cancel, delete, crash | `row` is the committed row with its number of lanes, `image` the row inside the run's transaction (also its lock), `bg` the program counter of `_run_execution_background`, `req` one program counter per request. One action per statement that reads, writes, commits or rolls back, since other sessions run in between, and `RequestFails` for each statement of a request that raises. `lapse` is history: which of three failures has kept the end out of the row |
| `ExecutionReads` | `get_execution` with `selectinload`, as the API answers it | EXTENDS `ExecutionLifecycle`; `view` is what a reader has loaded, one action per statement, in the order row, lanes, steps of the lanes, steps |
| `ConnectionPool` | `get_db`, `async_session`, the pool's limit and its timeout | EXTENDS `ExecutionLifecycle`; `held` and `waiting` are sessions with and without a connection. The run, the handler and each request are sessions, `RequestErrs` gives back the connection of one that raises; `Others` are all other users of the pool |
| `MasterRunner` | `run_workflow`, `execute_delegations`, `_run_one` and the tracker calls they make | `pc` names the phase, one action per await or loop body; `lanes` is a function from `lane_index` to the lane with its step count and token columns; a `clash` state stands for the IntegrityError of a unique constraint |
| `AgentRun` | what `_run_one` may rely on about one sub-agent | abstract: it spends, and then returns, or raises having spent nothing, or raises on a malformed answer, and it ends |
| `SubAgentRunner` | `run_sub_agent` | one action per question, per tool call and per exit, and `BadUsage` and `BadCall` where an answer of another shape raises outside every `try`; a message is its kind, its calls and the id it answers |
| `LiveStream` | `_publish_event`, `execution_live_stream`, the life of the queue list | EXTENDS `ExecutionLifecycle` and conjoins each of its steps with what the step does to the queues; one program counter per client, and the status its `state_sync` carried (`seen`). `early` is history: the clients that came before the task's list of queues |
| `BindingSet` | what a client may rely on about the bindings of one owner | abstract: `Ask`, `Grant`, `Refuse` |
| `Bindings` | `bind_sub_agents`, `add_sub_agent`, `remove_sub_agent` with `get_orchestrator` and `_load_sub_agents`, and switching sub-agents on and off | per request a program counter, the collection it loaded (`seen`) and the items its second SELECT found; `since` is history: which of these were switched off afterwards. `Flush` takes the rows' locks and meets the primary key, `Commit` applies the difference. `bind_tools`, `add_tool` and `remove_tool` of a sub-agent are the same code over another table |
| `ToolRegistry` | `tool_service.py` and its router, `sync_builtin_tools`, and which rows `resolve_tools` accepts | `rows` is the table, `call` what each session has loaded and is about to write; `Start` is the whole synchronisation, which runs before the server serves |
| `WorkflowReadiness` | `workflow_service.py`, the loading of a workflow, `validate_workflow`, the checks of `execute_workflow`, and how `run_workflow` and `build_capability_map` load the team | `tree` is what the current session has loaded after `read` statements, `pc` tells whether it is the validation or the task; a change of the configuration is one step, its commit. History variables keep what was written after the validation had read it, and whether the configuration has had a defect since it began (`wrong`) |
| `MC*` | TLC's modules | the statements of docs and tests that the code does not keep |
| `*Proofs` | theorems | EXTENDS the component's module and TLAPS; `CompositionProofs` has those of `ExecutionReads`, `ConnectionPool` and `LiveStream`, on top of `ExecutionLifecycleProofs` |
| `DataInduction` | nothing of the code | lemmas: induction over numbers and finite sets, concatenations and sums |

How they fit together: `LiveStream` composes with `ExecutionLifecycle` by
conjunction; `ExecutionLifecycle` implements `ExecutionRecord`
(`ImplementsRecord`); `MasterRunner` implements the background task of
`ExecutionLifecycle` between the load of the workflow and the commit
(`ImplementsLifecycleTask`: under the mapping of `pc` and `lanes` to `bg` and
`image`, every step of the run is a `BgStep` or a stutter). So the lifecycle's
results hold for what the master runner really does and not only for the
sketch of a run that `ExecutionLifecycle` contains. `SubAgentRunner` is the
inside of one `AgentReturns` or `AgentCrashes` of `MasterRunner`, which assumes
of it no more than `AgentRun` says: a crash of a sub-agent brings a result
without tokens, which is right as long as nothing was spent and loses what was when
an answer is malformed, and every sub-agent that was started ends. `SubAgentRunner`
implements `AgentRun` (`ImplementsAgentRun`; its steps are proved to,
`AgentRunRefinement`).

`ExecutionReads` and `ConnectionPool` compose with `ExecutionLifecycle` as
`LiveStream` does. Readers and queues only observe. The pool constrains: a step
that begins a session needs a connection, and `ImplementsLifecycle` says that what
remains is still a behaviour of `ExecutionLifecycle`, *fairness included*. The
fairness which that module assumes, that an await of the task or of a request
ends, is derived here from the pool's timeout, although the other users of the
pool may never let go.

`Bindings` implements `BindingSet` (`ImplementsSet`). `WorkflowReadiness` takes
the configuration at the level `BindingSet` gives it, changed by single commits,
and looks at the loads instead: that of the validation and that of the task, which
is the one before `StartExecution` of `MasterRunner`. One execution at a time is
enough there, since validations and runs write no configuration. `ToolRegistry`
stands for the rows behind the tools of that tree; it shares with it only
`is_active`.

### What is external

* **PostgreSQL at READ COMMITTED through SQLAlchemy**: a SELECT sees the committed row, the
  first UPDATE takes the row's lock until COMMIT or ROLLBACK, a second writer
  waits and then applies to the latest row, an ORM UPDATE that matches no row
  raises `StaleDataError`, a DELETE that matches none passes, lanes and steps
  are deleted with their execution. An ORM flush writes the difference to what
  was loaded: single rows of an association, single columns of a row.
  `selectinload` reads level by level, and an object that is in a session keeps
  its loaded attributes when a later query of that session finds its row again
  (no query of the code asks for `populate_existing`).
* **The pool**: a session takes a connection with its first statement and gives it
  back when it is closed, committed or rolled back; at most `pool_size +
  max_overflow` at a time; who waits longer than `pool_timeout` gets an exception.
* **COMMIT and its acknowledgement are one step.** A connection lost between the
  two is not modelled.
* **asyncio**: a step between two awaits is atomic; a task that was created runs;
  the task object is not collected while it waits (`asyncio.create_task`'s
  result is not kept, `:125`).
* **Language models and tools** are inputs: any answer, any failure, at any time.

### Abstractions

Names, prompts, texts, times, costs and JSON layout are left out. A run's trace
is the number of its lanes in `ExecutionLifecycle`, and its lanes, step counts
and token columns in `MasterRunner`. `finished_at` is whether it is set.
`state.error` is the kind of the call that failed, or `"empty"` (an exception
whose `str` is the empty string is possible and changes the outcome,
`master_runner.py:312`).
The branch of `lane_manager.py:57-62` for an agent that is missing from
`agents_by_id` cannot be taken: both dictionaries are made from one list.
Token usage of the master's own calls is never recorded by the code.

## 3. Runs

| run | instance | shows |
|---|---|---|
| `execution_reads` | 2 cancels, 2 deletes, 3 lanes, 1 reader, 1 crash | the safety, liveness and refinement properties of the lifecycle, and that answers are whole; about 368 000 states |
| `connection_pool` | 2 connections; 1 cancel, 1 delete, 2 other sessions, 2 lanes, 1 crash | no waiting while holding, no circular wait, every connection comes back, the lifecycle with its fairness; about 25 000 states |
| `master_runner` | 2 agents and an unknown name, 2 rounds of up to 2 delegations, tokens 0 or 3 | lanes, steps, tokens and results stay in step, the loop ends, the run is one that the lifecycle allows; about 182 000 states |
| `sub_agent_runner` | 2 tools and an invented one, 3 turns of up to 2 calls, usage 0 or 7 | the conversation is well-formed, the loop implements `AgentRun`; about 49 000 states |
| `live_stream` | 2 clients, queues of size 1, 1 cancel, 1 delete, 2 lanes, 1 crash | what a waiting client has learned of the end of the run, that listeners are subscribed and released; about 683 000 states |
| `bindings` | 2 requests of any kind, 2 items | bindings change as a set with atomic requests would, and only active items are bound; about 79 000 states |
| `tool_registry` | 2 sessions with any number of calls, 2 names (one of them built in), PUTs of one column, any number of restarts | start-up completes the registry, stale rows lose no update; about 210 000 states |
| `workflow_readiness` | 1 orchestrator, 2 sub-agents, 1 tool, 3 writes of parts or bindings during an episode and any number before | what a verdict is worth, valid or not; about 2.2 million states |
| `claim_*` | as small as the counterexample allows | statements of docs and tests that the code does not keep (section 5) |

### Bounds, and why they are enough

* *Two cancels and two deletes*: a request interacts with the task and with one
  other request on the same row, the second of each kind also meets the state
  that the first left. One more of each only repeats an answer.
* *Lanes*: the master's, a first and a second sub-agent's; `TraceIsAtomic`
  needs a prefix that is neither empty nor complete. A synthesis that fails needs
  two lanes (there is a result to synthesize), so that every run in which the
  row may stay `running` has them, `live_stream` too.
* *Crashes*: one. After it no task exists, requests that start later see a row
  nobody else writes, and a second crash could only drop them.
* *Rounds and plans*: two rounds make the lane offset (`len(lane_results)`)
  non-zero, two delegations in each make order matter. Plans contain repeated
  and unknown names.
* *Tokens* 0 and 3: zero is stored as NULL, three is odd.
  `MaxToolCalls` is 0 in the run: tool steps only add to a lane's step count,
  and `SubAgentRunner` covers the calls.
* *Turns and calls*: two calls per response give an order to keep, three turns
  a middle one.
* *Queue size* 1 (100 in the code): with at most three events published, size 1
  is where `QueueFull` happens and an event is dropped.
* *Two requests and two items* in `bindings`: staleness is between a request
  and whoever committed since it read; the second item tells a difference from
  a whole collection. The proofs cover any number of both.
* *Names, ids and columns* in `tool_registry`: two names are what a conflict and a
  renamed built-in tool need; ids are as many as names, since names are unique,
  so that no row is ever refused for want of an id. `MaxFields` = 1: a PUT of
  several columns decides and writes each of them by itself, and a refusal of one
  refuses all; with 2 the run also passes (2.9 million states), and the proofs
  cover any number.
* *One reader*: readers share nothing, and the proof covers any number.
* *A pool of two* (fifteen in the code): the two sessions of a run, or one of them
  and a request, fill it, and two others can keep it full for ever. The
  proofs cover any size.
* *One orchestrator, two sub-agents, one tool*, `MaxWrites` = 3 in
  `workflow_readiness`: a torn refusal takes a team in which one agent replaces
  another (two edges) and a tool that is switched off after that; without the
  exception for a rebound team TLC finds just this. The bound counts what is
  written from the validation's first statement on; before that anything may
  happen. With one orchestrator a workflow can only be moved to none; the torn
  read of a workflow that is moved between two is excepted in both properties, and
  covered by the proofs, for any number of parts and writes.
* *Two watchers*: one before and one after any event of the other.

### Fairness

Weak fairness of each actor's own steps, and nothing more:

* `BgStep`, `RunStep`, `AgentStep`: an awaited call returns or raises. The
  clients the code uses have their own timeouts; the code adds none, and a model
  call that never returned would hold the run and its lock for ever.
* `CancelWrite`, `DeleteWrite`: a session that waits for a row lock gets it once
  it is free. Weak fairness is enough since the run takes the lock once
  and is the only one to keep it across an await.
* `Proceed` of `Bindings`: every await returns or raises; a row lock that is free is
  given. The whole flush takes its locks in one step; a deadlock over two rows,
  which PostgreSQL would break, is among the failures.
* `PopQueues`, `CancelPublishes`, `HandlerStep`: the event loop runs what can run.
* `ConnectionPool`: the steps of the task and of a request that has begun, being
  served when a connection is free, and the timeout. None for `Others`: they may
  keep their connections for ever.
* No fairness for `CreateExecution`, requests, connections, `HangUp` or `Crash`:
  these are other people's choices.

## 4. Proofs

`ExecutionLifecycleProofs` proves, for any sets of requests and any number of
lanes, that `Spec` implies every safety property of the run and the
refinement of `ExecutionRecord`.

The properties are not inductive: that the row is atomic depends on who
holds the lock, and that on where the task stands. The invariant `IInv` adds

* `AbsentIsNoRow`: a row without a status is exactly `NoRow`, so that "exists"
  decides the whole record;
* `LockProtocol`: an image exists exactly in the tracking and finishing states,
  and a transaction that was rolled back keeps none. This is what makes the
  handler's second session safe;
* `TaskProgress`: what `bg` says about the committed row: before the commit no
  lanes, no verdict, and statuses only creation or a cancel can have written;
* `CompletedRun`: what a verdict of `completed` says about the row;
* `NothingDecided`: before the task has a verdict there is no lapse either. With it
  `VerdictAgreesWithRow` is inductive itself: the step that loses the end (no
  orchestrator, failed synthesis, failed handler) sets `lapse`, every other
  step keeps it.

`InitIInv`, `NextTypeOK` and `NextIInv` prove it inductive, one step per action;
the theorems follow conjunct by conjunct, and `NextRefines` maps each action to
an action of `ExecutionRecord` or a stutter. The assumptions are the named
`ASSUME`s of the module: cancels and deletes are different requests, a run has
at least one lane. Spec has no bound other than `MaxLanes`, an arbitrary
positive number, and the single crash.

`MasterRunnerProofs` proves, for any set of sub-agents, any `max_iterations`
and any length of plans, every safety property of `master_runner` and
the refinement of the lifecycle's task. Its `IInv` adds to the types

* `RoundShape`: in which phases the lists are empty, how far the cursor may go,
  and that delegations are all pending while lanes are opened and all over while
  results are recorded;
* `LaneNumbers`: the lanes are numbered without a gap, the master's, one for each
  result, one for each delegation opened so far. This is why a number computed
  from the length of `lane_results` is free when a lane is opened and taken when
  it is looked up again (`KeysNeverClash`);
* `LaneOwners`: which lane belongs to which result or delegation, and that lanes
  of delegations not yet recorded hold no step;
* `Room`: every turn of the loop has room for one plan; the bound on lanes
  follows with the cardinality of an interval;
* `NoOrchestrator`: the early exit has recorded nothing. The refinement needs it,
  since the mapping tells that exit from a failed run by `error`;
* `WhyFailed`: a synthesis that failed had results, hence two lanes at least, as
  `Finish` of the lifecycle asks of a run that it leaves `running`.

There is one lemma per action or group of alike actions (`PlanSteps`,
`OpenLaneStep`, `AgentSteps`, `RecordResultStep`, `EndRoundStep`, ...).
`TaskRefinement` then maps each action to `FindNoOrchestrator`, `StartRead`,
`StartWrite`, `TrackLane`, `Finish` or `Raise` of `ExecutionLifecycle`, or to a
stutter. It assumes what the module's `ASSUME`s say: the invented name is not
a sub-agent's, `max_iterations` is positive (`models/orchestrator.py` gives it a
default, the schema a lower bound), tokens and the bounds are natural numbers.
`KnownNamesAreAgents` says, by induction over the length of a plan, that its known
names are a list of sub-agents and no longer than the plan.

`TokensConserved` needs three facts more: lane 0 never holds a token
(`MasterUsesNone`), the total stays 0 until the run is finished, and, at
the moment it is computed, the sum over the lanes is the sum over the results
(`TotalIsSumOfResults`): lane *k* matches result *k*, the two halves add up to
the result's tokens, and the master's lane adds nothing.

`BindingsProofs` proves, for any requests and any items, every safety property
of `bindings` and the refinement of `BindingSet`. Its `IInv` adds `WishShape` (who
has begun asks for something), `WishIsFound` (who writes has found all it wants)
and `FoundWasActive` (what was found is active or was switched off since), which
gives `ActiveWhenBound`. The lemma `DifferenceIsWished` then says that the difference a commit
writes lies within what the request wants and speaks against, whatever it loaded:
that is the whole reason why stale collections are harmless, and `SetRefinement`
follows action by action.

`ToolRegistryProofs` proves, for any sessions, ids, names, types and patches,
all properties of `tool_registry`. Its `IInv` adds `CallShape` (a session writes to
a row that exists; a delete was let through). `UpdatedRow` says what an
UPDATE leaves in each column, `StartRows` and `StartNames` what the
synchronisation leaves and adds; `StepKinds` reduces the action properties to
these two steps. It assumes `BuiltinsAreRegistered` (every entry of
`BUILTIN_TOOLS` is in `ALL_TOOLS`, as the two lists in the code have it).

`SubAgentRunnerProofs` proves, for any tools, any number of turns, of calls in a
response and of tokens, every safety property of `sub_agent_runner` and that its
steps are those of `AgentRun`. `CallsAreAnswered` speaks of the moments when the
model is asked, and is not inductive: `AnsweredOrDue` says that in between each
call of the conversation has its answer, or is itself still in `calls`, at the
place where the answer will go. `NothingDue` (no call is left when the model is
asked) turns it into the property. `LogComplete` follows the log along the
conversation with `FlattenAppend`: a response adds its calls to the conversation
and to those still to be run, and a tool that runs moves from there to the log.
`NothingSpent` (while the tools are still being resolved, nothing is) is what
`AgentRunRefinement` needs for an abstract `Raise`; `BadUsage` and `BadCall` are
the abstract `RaiseOnMalformed`.

`CompositionProofs` has three parts, one for each module that composes with the
lifecycle.

* *Readers* only observe (`ReadsRefinement`), so that all theorems of
  `ExecutionLifecycleProofs` hold with them, and `WholeAnswers`. The invariant
  says of a view what each statement has found and what the row must have been
  since: once lanes were seen the run has committed, and what was committed
  stays until it is deleted.
* *The pool*: `LifecycleRefinement` (without fairness), nobody waits while
  holding, and there is no circular wait, for a pool of any size.
  `SessionStates` is the strengthening: which session has a connection in which
  state of the task and of each request. That the handler waits only after the
  run's connection went back is where the theorem would fail if the handler
  stood inside the run's `async with`.
* *Queues and clients* only observe (`StreamRefinement`), and the three safety
  properties of `live_stream`, for any number of clients and any queue size.
  Together with the clients' types the three are inductive (`StreamIInv`), given
  the lifecycle's `IInv`: the last event reaches every listener because listeners
  are in the list, and who comes after it is shown a row of which
  `VerdictAgreesWithRow` says what it can be.

`WorkflowReadinessProofs` proves both properties of the run for any orchestrators,
sub-agents and tools. The argument goes along the episode: what the validator
has read so far agrees with the tables except for what was written since
(`ValidatorRead`); when it ends with a valid verdict the tables themselves are sound
but for those writes; they stay so while only writes are added, and what the
task then reads from them is sound but for the writes (`TaskRead`). For a refusal
the argument goes the other way (`Founded`): as long as the configuration has had
no defect, none was read, level by level; what the last level reads belongs to the
team of that moment because the team was not rebound since it was read. History variables
that kept the verdict's tree instead would not do: the tree may never have been the
configuration at any one moment.

### That runs are finite

Liveness has two halves: that something cannot go on for ever, and that what can
be done is done. The first is proved, as a natural number that every step
lowers; the second is fairness, needs `ENABLED` and stays with TLC.

* `LoopRunsDown`: `run_sub_agent` is over after at most
  `MaxReactSteps * (MaxCalls + 2) + 2` steps, whatever the model and the tools
  answer.
* `WorkflowRunsDown`: `run_workflow` is over after at most
  `MaxIterations * (4 * MaxPlan + 4) + 6` steps. On the run's instance TLC finds
  behaviours of exactly that length, so the bound is tight there.
* `TaskRunsDown`: the background task makes at most `MaxLanes + 9` moves, and no
  cancel or delete puts it back.

### Induction over data

The library's induction theorems take an operator as parameter, which the
provers cannot instantiate. `DataInduction` states induction for *sets* instead:
`NumberInduction` and `SetInduction` follow from the strict subsets of a finite set
being well founded (`FS_StrictSubsetOrderingWellFounded` and `WFMin` of the
library, which have no such parameter). `FlattenAppend` (how a concatenation
grows) and `SumFunctionAdds` (how a sum does) then follow for the community
modules' operators: the recursive function inside each exists, is unique, and
unfolds as it is written. `SumFunctionAdds` is more than unfolding, since the fold
takes the elements in an order that `CHOOSE` fixes.

### Only model-checked

`RunEnds`, `RequestsAreAnswered` (of both modules), `RunTerminates`,
`SubscribersAreReleased`, `ConnectionsReturn`, the fairness that
`ImplementsLifecycle` derives, and the ending in `ImplementsAgentRun`: they
need `ENABLED`.

## 5. Where code and text disagree

Checked by a run that ends in a counterexample (`findings` in `PROJECT.json`):

* `CancelledStaysCancelled`: a cancel answered 200 before the run's first UPDATE is
  overwritten by `complete_execution`.
* `CompletedIsNotCancelled`: a cancel that read `running` or `pending` before the
  run's commit overwrites `completed`. `CompletedLostOnlyToRace` shows
  that this window is the only way.
* `FinishedIsNotRunning`: after a failed synthesis the row is `running` with
  `finished_at` set, for ever.
* `ReplacementsReplace`: two overlapping replacements of the bindings of one owner
  merge into a list that neither asked for.

Seen while modelling, and not given a run of their own:

* A synthesis failure with an empty message erases an earlier planning failure,
  and the run counts as completed (`master_runner.py:297` and `:312`).
* A client that connects late re-creates a key of `_event_queues` that nobody
  removes (`executions_router.py:289`).
* A row commits whole, an answer is several statements: one that straddles the
  commit tells `pending` or `running` and shows the lanes of the finished run.
  Whatever tells of a finished run is whole (`AnswersAreWhole`).
* `validate_workflow` may call a workflow valid that was invalid at every single
  moment, and the other way round when it is moved or its team rebound meanwhile:
  its statements read different ones. And a run may find
  defects that were written after the validation had passed them; nothing in
  `run_workflow` looks at `is_active` again.
* A workflow that was deleted or switched off still validates and runs: neither
  `validate_workflow` nor `execute_workflow` asks for its own `is_active`.
* The checks of `model_name` and `provider` in `validate_workflow` cannot fail: both
  columns are NOT NULL, and no schema lets them be empty.
* Two sub-agents of one name: the prompt lists both, `agents_by_name` keeps the
  last (`master_runner.py:105`).
* A poll during a run reads `pending` and no lanes, whatever
  `src/docs/sprints/s5-execution-engine/README.md:117` says of status
  progression (this is `TraceIsAtomic` seen from the other side).
* Line 118 of the same file says that cancel stops running sub-agents: nothing
  in `run_workflow` looks at the row again, they run on.
* The docstring at `execution_service.py:51` says the master lane is created
  with the execution: it is created by the run.
* A workflow that lost its orchestrator between validation and run is published
  as failed, while its row stays `pending` (`master_runner.py:94-101` returns
  before any tracker call; `FindNoOrchestrator`). The same row is left by a failure
  handler that fails itself (`executions_router.py:88`; `RecordFails`). A client
  that connects after such a run, or after a failed synthesis, is shown a status
  that tells no end, and then heartbeats for ever.
* An answer of the model whose usage or whose tool call has another shape than
  expected raises outside every `try` of the loop: the tokens spent so far, and the
  log of tools that did run, are lost (`sub_agent_runner.py:107-109`, `:142-144`;
  `BadUsage`, `BadCall`).
* A loop cut off at `MAX_REACT_STEPS` returns a tool's message as a success
  (`sub_agent_runner.py:148`; `Exhausted`).
* A client that connects between the commit of the row and
  `executions_router.py:122` loses its queue (the history variable `early`),
  and the cancel event of a run whose key was popped goes nowhere.
* After a crash a row stays `pending` for ever.
* Built-in tools cannot be deleted, says
  `src/docs/sprints/s2-tool-management/README.md:89`: not in one request, but a
  PUT of `is_active` switches one off, as does a DELETE after a PUT of
  `tool_type`, and the start does not switch it on again.
* A renamed built-in tool keeps its type, `resolve_tools` raises for it, and the
  next start registers the old name as a new row. PUT and POST accept the
  type `builtin` for any name.
* `validate_workflow` reports no agents without tools, which
  `src/docs/sprints/s4-orchestrator-workflows/README.md:123` has it do.

## 6. Not modelled, and why

* Cost estimation, listing, paging, sums, the formatting of prompts and of
  `export_graph`: data only, computed from one load.
* The HTTP, MCP and sandbox calls of `tool_executor.py`, provider validation and
  key encryption: single I/O or library calls without state. Which tools
  `resolve_tools` accepts is in `ToolRegistry`.
* The chat graph: one request long, without persistence, its loop is LangGraph's.
* The owner's own columns in `Bindings`, the texts and schemas in `ToolRegistry`.
* A connection lost between COMMIT and its acknowledgement, and the collection of
  a task nobody refers to: they depend on the driver and the event loop.
* Schemas, migrations and deployment files: declarations.

## 7. Plan

Done: `ExecutionRecord`, `ExecutionLifecycle`, `MasterRunner`, `LiveStream`,
`ExecutionReads`, `ConnectionPool`, `BindingSet`, `Bindings`, `ToolRegistry`,
`WorkflowReadiness`, `AgentRun` and `SubAgentRunner`, with proofs of every safety
property their runs check.

Left:

* the chat graph;
* the failures of `resolve_tools` composed with `WorkflowReadiness`.
