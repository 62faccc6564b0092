------------------------------ MODULE AgentRun ------------------------------
(***************************************************************************)
(* What _run_one (engine/lane_manager.py) relies on when it calls          *)
(* run_sub_agent: the call ends; while it goes on, tokens and tool calls   *)
(* only add up; and it raises only as long as nothing has been spent, or   *)
(* on a malformed answer, since an exception leaves the delegation without *)
(* tokens and without a log.  SubAgentRunner is the loop that implements   *)
(* it; MasterRunner's AgentReturns and AgentCrashes are its two ends.      *)
(***************************************************************************)
EXTENDS Integers

VARIABLES
  outcome,             \* "running", "returned" or "raised"
  tokens,              \* tokens_used so far
  logged,              \* entries of tool_calls_log so far
  malformed            \* an answer of the model could not be taken in

vars == <<outcome, tokens, logged, malformed>>

Init ==
  /\ outcome = "running"
  /\ tokens = 0
  /\ logged = 0
  /\ malformed = FALSE

\* One more answer, with its tokens, or one more tool call.
Add ==
  /\ tokens' \in Nat /\ tokens' >= tokens
  /\ logged' \in Nat /\ logged' >= logged

Spend ==
  /\ outcome = "running"
  /\ outcome' = "running"
  /\ Add
  /\ UNCHANGED malformed

\* The result dictionary, with or without "error", counts all that was spent.
Return ==
  /\ outcome = "running"
  /\ outcome' = "returned"
  /\ Add
  /\ UNCHANGED malformed

Raise ==
  /\ outcome = "running"
  /\ tokens = 0 /\ logged = 0
  /\ outcome' = "raised"
  /\ UNCHANGED <<tokens, logged, malformed>>

\* What has been spent is lost with the exception.
RaiseOnMalformed ==
  /\ outcome = "running"
  /\ malformed' = TRUE
  /\ outcome' = "raised"
  /\ Add

Next == Spend \/ Return \/ Raise \/ RaiseOnMalformed

Spec == Init /\ [][Next]_vars

\* The call ends.
Ends == <>(outcome # "running")

EndingSpec == Spec /\ Ends
=============================================================================
