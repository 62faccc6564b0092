---------------------------- MODULE MasterRunner ----------------------------
(***************************************************************************)
(* run_workflow (engine/master_runner.py) with execute_delegations         *)
(* (engine/lane_manager.py): the master plans, delegates to sub-agents,    *)
(* collects, re-plans up to max_iterations times and synthesizes, while    *)
(* the tracker (services/execution_service.py) records lanes and steps in  *)
(* the transaction of ExecutionLifecycle.                                  *)
(*                                                                         *)
(* The answers of the language model and of the sub-agents are inputs: a   *)
(* plan is a sequence of names, a sub-agent's run ends with a status, a    *)
(* number of tokens and a number of tool calls.                            *)
(***************************************************************************)
EXTENDS Integers, Sequences, FiniteSets, Functions, SequencesExt

CONSTANTS
  Agents,              \* the names of the sub-agents bound to the orchestrator
  Unknown,             \* a name the master invents
  MaxIterations,       \* orch.max_iterations
  MaxPlan,             \* bound: the longest plan
  Tokens,              \* the tokens one sub-agent may use
  MaxToolCalls         \* bound: the longest tool_calls_log

ASSUME AgentsAreKnown == Unknown \notin Agents
ASSUME IterationsArePositive == MaxIterations \in Nat \ {0}
ASSUME BoundsAreNatural == MaxPlan \in Nat /\ Tokens \subseteq Nat /\ MaxToolCalls \in Nat

VARIABLES
  pc,                  \* where run_workflow stands
  strategy,            \* orch.strategy, "adaptive" runs as "parallel"
  iteration,           \* state.iteration_count
  delegations,         \* the round's list of DelegationTask
  cursor,              \* the delegation the lane loop or the recording loop is at
  results,             \* state.lane_results
  status,              \* state.status
  error,               \* state.error: the call that failed, or an empty string
  lanes,               \* the lanes recorded so far, by lane_index
  total                \* total_tokens, set by complete_execution

vars == <<pc, strategy, iteration, delegations, cursor, results, status, error, lanes, total>>

Over(d) == d.status \in {"completed", "failed"}

Delegation == [agent : Agents, status : {"pending", "running", "completed", "failed"},
               tokens : Nat, tools : Nat]

Result == [agent : Agents, status : {"completed", "failed"}, tokens : Nat]

Lane == [actor : Agents \cup {"master"}, status : {"running", "completed", "failed"},
         steps : Nat, prompt : Nat, completion : Nat]

\* What total holds is the subject of TokensAreConserved.
TypeOK ==
  /\ pc \in {"loading", "starting", "opening", "planning", "delegating", "executing",
             "recording", "synthesizing", "finalizing", "done", "raised", "clash"}
  /\ strategy \in {"parallel", "sequential"}
  /\ iteration \in 0 .. MaxIterations
  /\ delegations \in Seq(Delegation)
  /\ cursor \in Nat
  /\ results \in Seq(Result)
  /\ status \in {"running", "completed", "failed"}
  /\ error \in {"empty", "no orchestrator", "planning", "synthesis"}
  /\ DOMAIN lanes \subseteq Nat /\ lanes \in [DOMAIN lanes -> Lane]

Init ==
  /\ pc = "loading"
  /\ strategy \in {"parallel", "sequential"}
  /\ iteration = 0
  /\ delegations = <<>>
  /\ cursor = 1
  /\ results = <<>>
  /\ status = "running"
  /\ error = "empty"
  /\ lanes = [k \in {} |-> {}]
  /\ total = 0

Goto(l) == pc' = l

-----------------------------------------------------------------------------
(* Before the loop.                                                          *)

FindNoOrchestrator ==
  /\ pc = "loading"
  /\ status' = "failed"
  /\ error' = "no orchestrator"
  /\ Goto("done")
  /\ UNCHANGED <<strategy, iteration, delegations, cursor, results, lanes, total>>

StartExecution ==
  /\ \/ pc = "loading" /\ Goto("starting")
     \/ pc = "starting" /\ Goto("opening")
  /\ UNCHANGED <<strategy, iteration, delegations, cursor, results, status, error, lanes, total>>

NewLane(actor) ==
  [actor |-> actor, status |-> "running", steps |-> 0, prompt |-> 0, completion |-> 0]

WithLane(k, lane) == [j \in DOMAIN lanes \cup {k} |-> IF j = k THEN lane ELSE lanes[j]]

\* INSERT under the unique constraint (execution_id, lane_index).
InsertLane(k, actor, next) ==
  IF k \in DOMAIN lanes
  THEN Goto("clash") /\ UNCHANGED lanes
  ELSE Goto(next) /\ lanes' = WithLane(k, NewLane(actor))

OpenMasterLane ==
  /\ pc = "opening"
  /\ InsertLane(0, "master", "planning")
  /\ UNCHANGED <<strategy, iteration, delegations, cursor, results, status, error, total>>

-----------------------------------------------------------------------------
(* Plan.                                                                     *)

\* master_step_idx counts the steps of lane 0.
MasterSteps(n) == lanes' = [lanes EXCEPT ![0].steps = @ + n]

WhileDelegating == TRUE
MayIterate == iteration < MaxIterations

\* One turn of "for iteration in range(orch.max_iterations)" asks for a plan.
Plan ==
  /\ pc = "planning"
  /\ MayIterate
  /\ iteration' = iteration + 1

PlanFails ==
  /\ Plan
  /\ status' = "failed"
  /\ error' = "planning"
  /\ Goto("synthesizing")
  /\ UNCHANGED <<strategy, delegations, cursor, results, lanes, total>>

\* Not JSON, or an empty list: nothing to delegate.
PlanIsEmpty ==
  /\ Plan
  /\ MasterSteps(1)
  /\ Goto("synthesizing")
  /\ UNCHANGED <<strategy, delegations, cursor, results, status, error, total>>

\* JSON of another shape: d.get raises out of run_workflow.
PlanIsMalformed ==
  /\ Plan
  /\ MasterSteps(1)
  /\ Goto("raised")
  /\ UNCHANGED <<strategy, delegations, cursor, results, status, error, total>>

Pending(agent) == [agent |-> agent, status |-> "pending", tokens |-> 0, tools |-> 0]

\* Unknown names are skipped.
KnownOrNothing(name) == IF name \in Agents THEN <<name>> ELSE <<>>

KnownNames(names) == FlattenSeq([i \in DOMAIN names |-> KnownOrNothing(names[i])])

\* Without a known name the loop ends.
PlanNames(names) ==
  LET known == KnownNames(names)
  IN /\ Plan
     /\ \/ /\ known = <<>>
           /\ MasterSteps(1)
           /\ Goto("synthesizing")
           /\ UNCHANGED <<delegations, cursor>>
        \/ /\ known # <<>>
           /\ MasterSteps(2)
           /\ delegations' = [i \in DOMAIN known |-> Pending(known[i])]
           /\ cursor' = 1
           /\ Goto("delegating")
     /\ UNCHANGED <<strategy, results, status, error, total>>

PlanExhausted ==
  /\ pc = "planning"
  /\ iteration = MaxIterations
  /\ Goto("synthesizing")
  /\ UNCHANGED <<strategy, iteration, delegations, cursor, results, status, error, lanes, total>>

-----------------------------------------------------------------------------
(* Delegate and execute.                                                     *)

LaneIndexFromOne(i) == i
LaneIndex(i) == Len(results) + i

OpenLane ==
  /\ pc = "delegating"
  /\ cursor <= Len(delegations)
  /\ InsertLane(LaneIndex(cursor), delegations[cursor].agent, "delegating")
  /\ cursor' = cursor + 1
  /\ UNCHANGED <<strategy, iteration, delegations, results, status, error, total>>

Execute ==
  /\ pc = "delegating"
  /\ cursor > Len(delegations)
  /\ Goto("executing")
  /\ UNCHANGED <<strategy, iteration, delegations, cursor, results, status, error, lanes, total>>

MayStartAfterSuccess(i) ==
  strategy = "sequential" => \A j \in 1 .. i - 1 : delegations[j].status = "completed"

\* gather starts all of them; the sequential loop awaits each in list order.
MayStart(i) == strategy = "sequential" => \A j \in 1 .. i - 1 : Over(delegations[j])

StartAgent(i) ==
  /\ pc = "executing"
  /\ delegations[i].status = "pending"
  /\ MayStart(i)
  /\ delegations' = [delegations EXCEPT ![i].status = "running"]
  /\ UNCHANGED <<pc, strategy, iteration, cursor, results, status, error, lanes, total>>

\* run_sub_agent returns; a result with an "error" key counts as failed.
AgentReturns(i, s, t, n) ==
  /\ pc = "executing"
  /\ delegations[i].status = "running"
  /\ delegations' = [delegations EXCEPT ![i].status = s, ![i].tokens = t, ![i].tools = n]
  /\ UNCHANGED <<pc, strategy, iteration, cursor, results, status, error, lanes, total>>

\* run_sub_agent raises: the exception stays inside _run_one.
AgentCrashes(i) ==
  /\ pc = "executing"
  /\ delegations[i].status = "running"
  /\ delegations' = [delegations EXCEPT ![i].status = "failed"]
  /\ UNCHANGED <<pc, strategy, iteration, cursor, results, status, error, lanes, total>>

AnyFailedOrAllOver ==
  \/ \E i \in DOMAIN delegations : delegations[i].status = "failed"
  \/ \A i \in DOMAIN delegations : Over(delegations[i])
AllOver == \A i \in DOMAIN delegations : Over(delegations[i])

Collect ==
  /\ pc = "executing"
  /\ AllOver
  /\ cursor' = 1
  /\ Goto("recording")
  /\ UNCHANGED <<strategy, iteration, delegations, results, status, error, lanes, total>>

-----------------------------------------------------------------------------
(* Record the results: the lane is looked up again by its index.             *)

HalfTokens(t) == t \div 2
CompletionTokens(t) == t - t \div 2

RecordIndexOnePast(i) == Len(results) + i + 1
RecordIndex(i) == Len(results) + i

Recorded(lane, d) ==
  [lane EXCEPT !.status = d.status,
               !.steps = 1 + d.tools,
               !.prompt = d.tokens \div 2,
               !.completion = CompletionTokens(d.tokens)]

\* "if lane_row": a missing lane is skipped.  Step 1 of a lane that has one
\* violates the unique constraint (lane_id, step_index).
RecordResult ==
  LET k == RecordIndex(cursor)
      d == delegations[cursor]
  IN /\ pc = "recording"
     /\ cursor <= Len(delegations)
     /\ IF k \in DOMAIN lanes
        THEN IF lanes[k].steps > 0
             THEN Goto("clash") /\ UNCHANGED lanes
             ELSE lanes' = [lanes EXCEPT ![k] = Recorded(@, d)] /\ UNCHANGED pc
        ELSE UNCHANGED <<pc, lanes>>
     /\ cursor' = cursor + 1
     /\ UNCHANGED <<strategy, iteration, delegations, results, status, error, total>>

ResultOf(d) == [agent |-> d.agent, status |-> d.status, tokens |-> d.tokens]

EndRound ==
  /\ pc = "recording"
  /\ cursor > Len(delegations)
  /\ results' = results \o [i \in DOMAIN delegations |-> ResultOf(delegations[i])]
  /\ delegations' = <<>>
  /\ Goto("planning")
  /\ UNCHANGED <<strategy, iteration, cursor, status, error, lanes, total>>

-----------------------------------------------------------------------------
(* Synthesize and finalize.                                                  *)

\* A failed call replaces state.error by the exception's text, which may be empty,
\* and leaves state.status alone.  The synthesis step is recorded in every case.
Synthesize(e) ==
  /\ pc = "synthesizing"
  /\ results # <<>>
  /\ error' = e
  /\ MasterSteps(1)
  /\ Goto("finalizing")
  /\ UNCHANGED <<strategy, iteration, delegations, cursor, results, status, total>>

UsePlanAsAnswer ==
  /\ pc = "synthesizing"
  /\ results = <<>>
  /\ Goto("finalizing")
  /\ UNCHANGED <<strategy, iteration, delegations, cursor, results, status, error, lanes, total>>

\* SUM(tokens_prompt) + SUM(tokens_completion) over the execution's steps.
TotalTokens == SumFunction([k \in DOMAIN lanes |-> lanes[k].prompt + lanes[k].completion])

FinalStatus == IF error = "empty" THEN "completed" ELSE status

Finalize ==
  /\ pc = "finalizing"
  /\ status' = FinalStatus
  /\ lanes' = [lanes EXCEPT ![0].status = "completed"]
  /\ total' = TotalTokens
  /\ Goto("done")
  /\ UNCHANGED <<strategy, iteration, delegations, cursor, results, error>>

\* A database error, or a row that is gone, raises out of any tracker call.
Raise ==
  /\ pc \in {"loading", "starting", "opening", "planning", "delegating", "recording",
             "synthesizing", "finalizing"}
  /\ Goto("raised")
  /\ UNCHANGED <<strategy, iteration, delegations, cursor, results, status, error, lanes, total>>

Quiet == pc \in {"done", "raised", "clash"} /\ UNCHANGED vars

-----------------------------------------------------------------------------

Plans == UNION {[1 .. n -> Agents \cup {Unknown}] : n \in 1 .. MaxPlan}

PlanStep ==
  \/ PlanFails \/ PlanIsEmpty \/ PlanIsMalformed \/ PlanExhausted
  \/ \E names \in Plans : PlanNames(names)

AgentStep(i) ==
  \/ StartAgent(i)
  \/ AgentCrashes(i)
  \/ \E s \in {"completed", "failed"}, t \in Tokens, n \in 0 .. MaxToolCalls :
       AgentReturns(i, s, t, n)

RunStep ==
  \/ FindNoOrchestrator \/ StartExecution \/ OpenMasterLane
  \/ PlanStep
  \/ OpenLane \/ Execute \/ Collect \/ RecordResult \/ EndRound
  \/ \E e \in {error, "empty", "synthesis"} : Synthesize(e)
  \/ UsePlanAsAnswer \/ Finalize \/ Raise

Next ==
  \/ RunStep
  \/ \E i \in DOMAIN delegations : AgentStep(i)
  \/ Quiet

Spec == Init /\ [][Next]_vars

\* Every awaited call returns or raises, and every started coroutine is run.
Fairness ==
  /\ WF_vars(RunStep)
  /\ \A i \in 1 .. MaxPlan : WF_vars(i \in DOMAIN delegations /\ AgentStep(i))

FairSpec == Spec /\ Fairness

-----------------------------------------------------------------------------
(* Safety.                                                                   *)

\* The lane and step numbers computed from the length of lane_results never
\* meet the unique constraints, over any number of rounds.
NoKeyClash == pc # "clash"

\* When a round is over, lane k is the lane of the k-th result: the same actor,
\* the same status, the same tokens, and no lane is left running, whichever
\* sub-agents failed or crashed.  The tracker finds the lanes again by a number
\* computed twice, before and after the sub-agents ran.
LanesMatchResults ==
  pc \in {"planning", "synthesizing", "finalizing"} =>
    /\ DOMAIN lanes = 0 .. Len(results)
    /\ \A k \in 1 .. Len(results) :
         /\ lanes[k].actor = results[k].agent
         /\ lanes[k].status = results[k].status
         /\ lanes[k].prompt + lanes[k].completion = results[k].tokens

\* The total of the execution is what the sub-agents report, although it is
\* stored in halves and added up over the steps.
TokensAreConserved ==
  pc = "done" => total = SumFunction([k \in DOMAIN results |-> results[k].tokens])

\* The master plans at most max_iterations times, and every turn adds at most
\* one plan's worth of lanes, whatever the language model answers.
LoopIsBounded ==
  /\ iteration <= MaxIterations
  /\ Len(results) <= iteration * MaxPlan
  /\ Cardinality(DOMAIN lanes) <= 1 + MaxIterations * MaxPlan

-----------------------------------------------------------------------------
(* Liveness.                                                                 *)

\* The run ends, with a state to commit or an exception.
RunTerminates == <>(pc \in {"done", "raised"})

-----------------------------------------------------------------------------
(* The place of run_workflow in ExecutionLifecycle: between the task's load  *)
(* of the workflow and its commit, on a row nobody else touches.             *)

InTransaction == pc \notin {"loading", "starting", "raised", "clash"} /\ error # "no orchestrator"

TaskState ==
  IF pc \in {"loading", "starting"} THEN pc
  ELSE IF pc \in {"raised", "clash"} THEN "recording"
  ELSE IF error = "no orchestrator" THEN "publishing"
  ELSE IF pc = "done" THEN "finishing"
  ELSE "tracking"

FreshRow == [status |-> "pending", finished |-> FALSE, lanes |-> 0]
NoRow == [status |-> "absent", finished |-> FALSE, lanes |-> 0]

RowImage ==
  IF InTransaction
  THEN [status |-> IF pc = "done" THEN status ELSE "running",
        finished |-> pc = "done",
        lanes |-> Cardinality(DOMAIN lanes)]
  ELSE NoRow

Lifecycle == INSTANCE ExecutionLifecycle WITH
  Cancels <- {}, Deletes <- {}, MaxLanes <- 1 + MaxIterations * MaxPlan,
  row <- FreshRow, image <- RowImage, bg <- TaskState,
  verdict <- IF TaskState = "publishing" THEN "failed" ELSE "none",
  lapse <- IF TaskState = "publishing" THEN "no orchestrator" ELSE "none",
  req <- <<>>, crashed <- FALSE, overlap <- {}

\* Every step of the run is one that ExecutionLifecycle allows its task.
ImplementsLifecycleTask == [][Lifecycle!BgStep]_(Lifecycle!vars)
=============================================================================
