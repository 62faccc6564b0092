--------------------------- MODULE SubAgentRunner ---------------------------
(***************************************************************************)
(* run_sub_agent (engine/sub_agent_runner.py): the ReAct loop of one       *)
(* sub-agent.  It asks the language model, runs the tools the answer calls *)
(* and asks again, at most MAX_REACT_STEPS times.                          *)
(*                                                                         *)
(* The answers are inputs: the tools a response calls, by name, and the    *)
(* tokens it used.  A message is its kind and the call it belongs to.      *)
(***************************************************************************)
EXTENDS Integers, Sequences, SequencesExt

CONSTANTS
  Tools,               \* the names of the tools bound to the sub-agent
  Foreign,             \* a tool name the model invents
  MaxReactSteps,       \* MAX_REACT_STEPS
  MaxCalls,            \* bound: the most tool calls of one response
  Usage                \* the tokens one response may use, 0 without usage_metadata

ASSUME ToolsAreBound == Foreign \notin Tools
ASSUME StepsArePositive == MaxReactSteps \in Nat \ {0}
ASSUME UsageIsNatural == MaxCalls \in Nat /\ Usage \subseteq Nat

VARIABLES
  pc,                  \* where run_sub_agent stands
  step,                \* turns of the loop begun
  messages,            \* the conversation sent with the next question
  calls,               \* the calls of the last response still to be run
  log,                 \* tool_calls_log
  tokens,              \* total_tokens
  error,               \* the result has an "error" key
  malformed            \* history: an answer broke the loop itself

vars == <<pc, step, messages, calls, log, tokens, error, malformed>>

Names == Tools \cup {Foreign}

\* A tool call: the tool's name and the call's id, its number in the conversation.
Call == [tool : Names, id : Nat]

Human == [kind |-> "human", calls |-> <<>>, id |-> 0]
Response(cs) == [kind |-> "ai", calls |-> cs, id |-> 0]
Answered(c) == [kind |-> "tool", calls |-> <<>>, id |-> c.id]

Message == [kind : {"human", "ai", "tool"}, calls : Seq(Call), id : Nat]

TypeOK ==
  /\ pc \in {"resolving", "asking", "acting", "returned", "raised"}
  /\ step \in 0 .. MaxReactSteps
  /\ messages \in Seq(Message)
  /\ calls \in Seq(Call)
  /\ log \in Seq(Names)
  /\ tokens \in Nat
  /\ error \in BOOLEAN
  /\ malformed \in BOOLEAN

\* The system prompt, when there is one, changes nothing that follows.
Init ==
  /\ pc = "resolving"
  /\ step = 0
  /\ messages = <<Human>>
  /\ calls = <<>>
  /\ log = <<>>
  /\ tokens = 0
  /\ error = FALSE
  /\ malformed = FALSE

\* resolve_tools and _build_llm.
Resolve ==
  /\ pc = "resolving"
  /\ pc' = "asking"
  /\ UNCHANGED <<step, messages, calls, log, tokens, error, malformed>>

\* They stand outside every "try".  Later a failing model and a failing tool are
\* turned into a result and into a ToolMessage, and only a malformed answer raises.
RaisableWithTools == {"resolving", "acting"}
Raisable == {"resolving"}

Raise ==
  /\ pc \in Raisable
  /\ pc' = "raised"
  /\ UNCHANGED <<step, messages, calls, log, tokens, error, malformed>>

\* One turn of "for _step in range(MAX_REACT_STEPS)".
OneTurnMore == step <= MaxReactSteps
TurnsLeft == step < MaxReactSteps

Ask ==
  /\ pc = "asking"
  /\ TurnsLeft
  /\ step' = step + 1

\* ainvoke raises: the result keeps what was used and logged so far.
AskFails ==
  /\ Ask
  /\ error' = TRUE
  /\ pc' = "returned"
  /\ UNCHANGED <<messages, calls, log, tokens, malformed>>

\* usage_metadata that does not add up raises before the answer is counted.
BadUsage ==
  /\ Ask
  /\ malformed' = TRUE
  /\ pc' = "raised"
  /\ UNCHANGED <<messages, calls, log, tokens, error>>

FinalAnswer(used) ==
  /\ Ask
  /\ tokens' = tokens + used
  /\ messages' = Append(messages, Response(<<>>))
  /\ pc' = "returned"
  /\ UNCHANGED <<calls, log, error, malformed>>

CallsOf(names) == [i \in DOMAIN names |-> [tool |-> names[i], id |-> Len(log) + i]]

ToolCalls(names, used) ==
  /\ Ask
  /\ tokens' = tokens + used
  /\ messages' = Append(messages, Response(CallsOf(names)))
  /\ calls' = CallsOf(names)
  /\ pc' = "acting"
  /\ UNCHANGED <<log, error, malformed>>

AnswerKnownTools(c) == IF c.tool \in Tools THEN <<Answered(c)>> ELSE <<>>

\* A tool's result, its exception or "not available": each is a ToolMessage.
ToolMessages(c) == <<Answered(c)>>

LogKnownTools(c) == IF c.tool \in Tools THEN <<c.tool>> ELSE <<>>
LogEntry(c) == <<c.tool>>

RunTool ==
  /\ pc = "acting"
  /\ calls # <<>>
  /\ log' = log \o LogEntry(Head(calls))
  /\ messages' = messages \o ToolMessages(Head(calls))
  /\ calls' = Tail(calls)
  /\ UNCHANGED <<pc, step, tokens, error, malformed>>

\* A call whose id is no string raises when its ToolMessage is made: the tool has
\* run and is logged, and the log goes with the exception.
BadCall ==
  /\ pc = "acting"
  /\ calls # <<>>
  /\ log' = log \o LogEntry(Head(calls))
  /\ calls' = Tail(calls)
  /\ malformed' = TRUE
  /\ pc' = "raised"
  /\ UNCHANGED <<step, messages, tokens, error>>

EndTurn ==
  /\ pc = "acting"
  /\ calls = <<>>
  /\ pc' = "asking"
  /\ UNCHANGED <<step, messages, calls, log, tokens, error, malformed>>

\* No answer within the steps: the last message is returned, without "error".
Exhausted ==
  /\ pc = "asking"
  /\ step = MaxReactSteps
  /\ pc' = "returned"
  /\ UNCHANGED <<step, messages, calls, log, tokens, error, malformed>>

Quiet == pc \in {"returned", "raised"} /\ UNCHANGED vars

CallLists == UNION {[1 .. n -> Names] : n \in 1 .. MaxCalls}

LoopStep ==
  \/ Resolve \/ Raise
  \/ AskFails \/ BadUsage
  \/ \E used \in Usage : FinalAnswer(used)
  \/ \E used \in Usage, names \in CallLists : ToolCalls(names, used)
  \/ RunTool \/ BadCall \/ EndTurn \/ Exhausted

Next == LoopStep \/ Quiet

Spec == Init /\ [][Next]_vars

\* Every call of the model and of a tool returns or raises.
FairSpec == Spec /\ WF_vars(LoopStep)

-----------------------------------------------------------------------------

\* Whenever the model is asked, every tool call of the conversation has been
\* answered, right after the response that made it, once and in order: the
\* providers refuse a conversation where one is missing.
CallsAreAnswered ==
  pc = "asking" =>
    \A i \in DOMAIN messages : \A j \in DOMAIN messages[i].calls :
      /\ i + j \in DOMAIN messages
      /\ messages[i + j] = Answered(messages[i].calls[j])

\* The log is the calls of the conversation in the order they were made, the
\* unknown and the failed ones included, up to the one that runs next.
LogIsTheConversation ==
  log \o [i \in DOMAIN calls |-> calls[i].tool] =
    FlattenSeq([i \in DOMAIN messages |->
      [j \in DOMAIN messages[i].calls |-> messages[i].calls[j].tool]])

-----------------------------------------------------------------------------
(* The promise of AgentRun.                                                  *)

Outcome == IF pc \in {"returned", "raised"} THEN pc ELSE "running"

Run == INSTANCE AgentRun WITH outcome <- Outcome, logged <- Len(log)

\* The loop ends within its steps whatever model and tools answer.  What has been
\* spent is in the result, also when the model or a tool fails: only a malformed
\* answer loses tokens and log, with the exception it raises.
ImplementsAgentRun == Run!EndingSpec
=============================================================================
