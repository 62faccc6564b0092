------------------------- MODULE ExecutionLifecycle -------------------------
(***************************************************************************)
(* The life of one execution: the row of table "executions", the           *)
(* background task that runs the workflow inside one database transaction, *)
(* and the cancel and delete requests that reach the same row              *)
(* (api/executions_router.py, services/execution_service.py).              *)
(*                                                                         *)
(* The database is PostgreSQL at READ COMMITTED, external to the code: a   *)
(* SELECT sees the committed row, the first UPDATE of a transaction takes  *)
(* the row's lock until COMMIT or ROLLBACK, an UPDATE or DELETE of another *)
(* session waits for that lock and then applies to the latest committed    *)
(* row.  An UPDATE that finds no row raises StaleDataError in SQLAlchemy,  *)
(* a DELETE that finds none passes.                                        *)
(***************************************************************************)
EXTENDS Integers, FiniteSets

CONSTANTS
  Cancels,             \* the requests POST /executions/{id}/cancel
  Deletes,             \* the requests DELETE /executions/{id}
  MaxLanes             \* the most lanes one run records, the master's included

ASSUME RequestsAreDisjoint == Cancels \cap Deletes = {}
ASSUME MaxLanesIsPositive == MaxLanes \in Nat \ {0}

VARIABLES
  row,                 \* the committed row and the number of its committed lanes
  image,               \* the row as the background transaction wrote it (NoRow: no lock held)
  bg,                  \* where the background task stands
  verdict,             \* the terminal event the task publishes, once decided
  req,                 \* where each request stands, or its answer
  crashed,             \* the server process has died once (the bound on crashes)
  overlap,             \* history: the cancels holding a read when the run committed
  lapse                \* history: why the row does not show how the run ended

vars == <<row, image, bg, verdict, req, crashed, overlap, lapse>>

Requests == Cancels \cup Deletes

\* "running" is an outcome: a failed synthesis leaves state.status as it was.
OutcomesOutsideCheck == {"completed", "failed", "running", "error"}
Outcomes == {"completed", "failed", "running"}

Statuses == {"pending", "running", "completed", "failed", "cancelled"}

NoRow == [status |-> "absent", finished |-> FALSE, lanes |-> 0]

Rows == [status : Statuses \cup {"absent"}, finished : BOOLEAN, lanes : 0 .. MaxLanes]

Exists(r) == r.status # "absent"

\* The background transaction holds the row's lock exactly while it has an image.
Locked == Exists(image)

Before   == {"absent", "created", "loading", "starting"}
InTx     == {"tracking", "finishing"}
Handling == {"recording", "overwriting"}
Ended    == {"publishing", "ended", "lost"}

InFlight == {"checked"}
Answers  == {"cancelled", "deleted", "conflict", "missing", "error", "dropped"}

\* The three ways in which the task publishes an end that its row does not show:
\* no orchestrator was found, the synthesis failed, the handler itself failed.
Lapses == {"no orchestrator", "synthesis", "handler"}

TypeOK ==
  /\ row \in Rows
  /\ image \in Rows
  /\ bg \in Before \cup InTx \cup Handling \cup Ended
  /\ verdict \in {"none", "completed", "failed"}
  /\ req \in [Requests -> {"idle"} \cup InFlight \cup Answers]
  /\ crashed \in BOOLEAN
  /\ overlap \subseteq Cancels
  /\ lapse \in {"none"} \cup Lapses

Init ==
  /\ row = NoRow
  /\ image = NoRow
  /\ bg = "absent"
  /\ verdict = "none"
  /\ req = [r \in Requests |-> "idle"]
  /\ crashed = FALSE
  /\ overlap = {}
  /\ lapse = "none"

-----------------------------------------------------------------------------
(* execute_workflow: the row is committed first, the task created later.     *)

\* create_execution inserts the row and no lane.
FreshRow == [status |-> "pending", finished |-> FALSE, lanes |-> 0]

CreateExecution ==
  /\ bg = "absent"
  /\ row' = FreshRow
  /\ bg' = "created"
  /\ UNCHANGED <<image, verdict, req, crashed, overlap, lapse>>

Launch ==
  /\ bg = "created"
  /\ bg' = "loading"
  /\ UNCHANGED <<row, image, verdict, req, crashed, overlap, lapse>>

-----------------------------------------------------------------------------
(* _run_execution_background: one transaction around the whole run.          *)

Decide(v, why) ==
  /\ verdict' = v
  /\ lapse' = why
  /\ bg' = "publishing"

\* The tracker only flushes: its writes stay inside the transaction.
FlushAndCommit(new) == image' = new /\ row' = new
Flush(new) == image' = new /\ UNCHANGED row

\* run_workflow returns "failed" before any tracker call, the commit is empty.
FindNoOrchestrator ==
  /\ bg = "loading"
  /\ Decide("failed", "no orchestrator")
  /\ UNCHANGED <<row, image, req, crashed, overlap>>

\* start_execution: the SELECT of get_execution ...
StartRead ==
  /\ bg = "loading"
  /\ Exists(row)
  /\ bg' = "starting"
  /\ UNCHANGED <<row, image, verdict, req, crashed, overlap, lapse>>

\* ... and the flush of its UPDATE, which does not look at the status it replaces.
StartWrite ==
  /\ bg = "starting"
  /\ Exists(row)
  /\ Flush([row EXCEPT !.status = "running"])
  /\ bg' = "tracking"
  /\ UNCHANGED <<verdict, req, crashed, overlap, lapse>>

\* create_lane, for the master and then for every delegation.
TrackLane ==
  /\ bg = "tracking"
  /\ image.lanes < MaxLanes
  /\ Flush([image EXCEPT !.lanes = @ + 1])
  /\ UNCHANGED <<bg, verdict, req, crashed, overlap, lapse>>

StampStatusOnly(r, s) == [r EXCEPT !.status = s]
Stamp(r, s) == [r EXCEPT !.status = s, !.finished = TRUE]

\* complete_execution at the end of run_workflow.  A synthesis, which leaves the
\* status "running" when it fails, is asked for only with results, of further lanes.
Finish(outcome) ==
  /\ bg = "tracking"
  /\ image.lanes > IF outcome = "running" THEN 1 ELSE 0
  /\ Flush(Stamp(image, outcome))
  /\ bg' = "finishing"
  /\ UNCHANGED <<verdict, req, crashed, overlap, lapse>>

VerdictUnlessFailed(status) == IF status = "failed" THEN "failed" ELSE "completed"
VerdictOf(status) == IF status = "completed" THEN "completed" ELSE "failed"

Commit ==
  /\ bg = "finishing"
  /\ row' = image
  /\ image' = NoRow
  /\ Decide(VerdictOf(image.status), IF image.status = "running" THEN "synthesis" ELSE "none")
  /\ overlap' = {c \in Cancels : req[c] = "checked"}
  /\ UNCHANGED <<req, crashed>>

\* Any exception leaves the session's "async with", which rolls back, before the
\* handler opens a session of its own.
KeepTransaction == image' = image
Rollback == image' = NoRow

RaisableAfterStart == {"loading", "tracking", "finishing"}
Raisable == {"loading", "starting", "tracking", "finishing"}

Raise ==
  /\ bg \in Raisable
  /\ Rollback
  /\ bg' = "recording"
  /\ UNCHANGED <<row, verdict, req, crashed, overlap, lapse>>

-----------------------------------------------------------------------------
(* The exception handler: complete_execution(status = "failed") in a new     *)
(* session, its own failure swallowed, "execution_failed" published anyway.  *)

Upsert(s) == row' = Stamp(row, s)
Update(s) == row' = IF Exists(row) THEN Stamp(row, s) ELSE row

RecordRead ==
  /\ bg = "recording"
  /\ Exists(row)
  /\ bg' = "overwriting"
  /\ UNCHANGED <<row, image, verdict, req, crashed, overlap, lapse>>

RecordWrite ==
  /\ bg = "overwriting"
  /\ ~Locked
  /\ Update("failed")
  /\ Decide("failed", "none")
  /\ UNCHANGED <<image, req, crashed, overlap>>

\* The row is gone, or the database is: ExecutionNotFoundError or an SQL error.
RecordFails ==
  /\ bg \in Handling
  /\ ~Locked
  /\ Decide("failed", "handler")
  /\ UNCHANGED <<row, image, req, crashed, overlap>>

Publish ==
  /\ bg = "publishing"
  /\ bg' = "ended"
  /\ UNCHANGED <<row, image, verdict, req, crashed, overlap, lapse>>

-----------------------------------------------------------------------------
(* cancel_execution and delete_execution: a SELECT, then a write that waits  *)
(* for the row's lock.                                                       *)

Answer(r, a) == req' = [req EXCEPT ![r] = a]

AnyStatus(status) == TRUE
Cancellable(status) == status \in {"pending", "running"}

CancelRead(c) ==
  /\ req[c] = "idle"
  /\ bg # "absent"
  /\ Answer(c, IF ~Exists(row) THEN "missing"
               ELSE IF Cancellable(row.status) THEN "checked"
               ELSE "conflict")
  /\ UNCHANGED <<row, image, bg, verdict, crashed, overlap, lapse>>

\* A row deleted in the meantime is a StaleDataError: the request fails.
CancelWrite(c) ==
  /\ req[c] = "checked"
  /\ ~Locked
  /\ Update("cancelled")
  /\ Answer(c, IF Exists(row) THEN "cancelled" ELSE "error")
  /\ UNCHANGED <<image, bg, verdict, crashed, overlap, lapse>>

DeleteRead(d) ==
  /\ req[d] = "idle"
  /\ bg # "absent"
  /\ Answer(d, IF Exists(row) THEN "checked" ELSE "missing")
  /\ UNCHANGED <<row, image, bg, verdict, crashed, overlap, lapse>>

\* The lanes go with the row (ON DELETE CASCADE).
DeleteWrite(d) ==
  /\ req[d] = "checked"
  /\ ~Locked
  /\ row' = NoRow
  /\ Answer(d, "deleted")
  /\ UNCHANGED <<image, bg, verdict, crashed, overlap, lapse>>

\* A database error of the request's SELECT, flush or commit: its own session
\* rolls back, and the client gets the error.
RequestFails(r) ==
  /\ req[r] \in {"idle"} \cup InFlight
  /\ bg # "absent"
  /\ Answer(r, "error")
  /\ UNCHANGED <<row, image, bg, verdict, crashed, overlap, lapse>>

-----------------------------------------------------------------------------
(* The server process dies: the database rolls back, the task and the        *)
(* requests in flight are gone, and nothing at start-up looks for the row.   *)

Crash ==
  /\ ~crashed
  /\ bg # "absent"
  /\ crashed' = TRUE
  /\ image' = NoRow
  /\ bg' = IF bg = "ended" THEN "ended" ELSE "lost"
  /\ req' = [r \in Requests |-> IF req[r] \in InFlight THEN "dropped" ELSE req[r]]
  /\ UNCHANGED <<row, verdict, overlap, lapse>>

\* Nothing is left to do; any other state without a step is a deadlock.
Quiet ==
  /\ bg \in {"ended", "lost"}
  /\ \A r \in Requests : req[r] \in Answers
  /\ UNCHANGED vars

-----------------------------------------------------------------------------

BgStep ==
  \/ Launch \/ FindNoOrchestrator \/ StartRead \/ StartWrite \/ TrackLane
  \/ \E outcome \in Outcomes : Finish(outcome)
  \/ Commit \/ Raise \/ RecordRead \/ RecordWrite \/ RecordFails \/ Publish

CancelStep(c) == CancelRead(c) \/ CancelWrite(c) \/ RequestFails(c)
DeleteStep(d) == DeleteRead(d) \/ DeleteWrite(d) \/ RequestFails(d)

Next ==
  \/ CreateExecution
  \/ BgStep
  \/ \E c \in Cancels : CancelStep(c)
  \/ \E d \in Deletes : DeleteStep(d)
  \/ Crash
  \/ Quiet

Spec == Init /\ [][Next]_vars

\* Every await of the task and of a request in flight returns, or raises.
Fairness ==
  /\ WF_vars(BgStep)
  /\ \A c \in Cancels : WF_vars(CancelWrite(c))
  /\ \A d \in Deletes : WF_vars(DeleteWrite(d))

FairSpec == Spec /\ Fairness

-----------------------------------------------------------------------------
(* Safety.                                                                   *)

\* Readers see a run's lanes all at once or never: lanes are committed only
\* together with the result, although the tracker writes them one by one and
\* commit, rollback, cancel and delete race for the row.
TraceIsAtomic ==
  row.lanes > 0 => row.finished /\ bg \in Ended

\* A client that waits for the event and one that polls the row learn the same:
\* the row shows the end the task publishes, finished, unless a cancel or a
\* delete came on top.  There are three exceptions and no other.  A run without
\* an orchestrator and a handler that fails leave the row as the POST made it,
\* pending, and a failed synthesis leaves it "running" for ever, though finished.
VerdictAgreesWithRow ==
  bg \in {"publishing", "ended"} /\ Exists(row) /\ row.status # "cancelled" =>
    \/ lapse = "none" /\ row.status = verdict /\ row.finished
    \/ lapse = "synthesis" /\ verdict = "failed" /\ row.status = "running" /\ row.finished
    \/ lapse \in {"no orchestrator", "handler"} /\ verdict = "failed" /\ row = FreshRow

\* Once a delete is answered 204 no later write of the task or of a cancel
\* brings the row back: every one of them is an UPDATE.
DeletedStaysDeleted ==
  (\E d \in Deletes : req[d] = "deleted") => row = NoRow

\* A result the run committed as completed turns into "cancelled" only through
\* a cancel that had read the row before that commit: the width of the window
\* between the check of cancel_execution and its write.
CompletedLostOnlyToRace ==
  verdict = "completed" /\ row.status = "cancelled" => overlap # {}

\* An acknowledged cancel leaves an execution that every reader sees finished,
\* whatever the task starts or records afterwards.  (Not one that stays
\* cancelled: the task writes its own status over it.)
AcknowledgedCancelIsFinished ==
  (\E c \in Cancels : req[c] = "cancelled") /\ Exists(row) => row.finished

-----------------------------------------------------------------------------
(* Liveness.                                                                 *)

\* A launched run publishes its terminal event or dies with the process: the
\* handler of one session never waits for the lock of the other.
RunEnds == bg = "created" ~> bg \in {"ended", "lost"}

\* A cancel or delete waiting for the row's lock is answered: the run releases
\* it by commit, rollback or crash, and nobody takes it again.
RequestsAreAnswered == \A r \in Requests : req[r] \in InFlight ~> req[r] \in Answers

-----------------------------------------------------------------------------
(* The promise of ExecutionRecord.                                           *)

Phase == IF bg = "absent" THEN "unborn" ELSE IF Exists(row) THEN "alive" ELSE "gone"

Record == INSTANCE ExecutionRecord WITH phase <- Phase, settled <- verdict # "none"

\* The protocol of sessions, locks and handlers implements the abstract record.
ImplementsRecord == Record!Spec
=============================================================================
