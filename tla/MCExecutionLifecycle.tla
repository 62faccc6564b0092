------------------------ MODULE MCExecutionLifecycle ------------------------
(***************************************************************************)
(* ExecutionLifecycle for TLC, with what the documentation, the docstrings *)
(* and the tests of the repository say of an execution's life.  The code   *)
(* does not keep these claims: each is checked by a run of its own that    *)
(* ends in a counterexample.                                               *)
(***************************************************************************)
EXTENDS ExecutionLifecycle

\* test_cancel_execution: a cancel answered 200 leaves the execution cancelled.
CancelledStaysCancelled ==
  (\E c \in Cancels : req[c] = "cancelled") /\ Exists(row) => row.status = "cancelled"

\* test_cancel_completed_returns_409: nothing cancels a completed execution.
CompletedIsNotCancelled == [][row.status = "completed" => row'.status # "cancelled"]_vars

\* s6 README, "Execution status reflects overall progress": an execution whose
\* finished_at is set is not reported as running.
FinishedIsNotRunning == row.finished => row.status # "running"
=============================================================================
