--------------------------- MODULE ExecutionRecord ---------------------------
(***************************************************************************)
(* What a client of the API may rely on about one row of the table         *)
(* "executions" and its lanes, whoever writes them: an execution is        *)
(* created once, the run writes its result and its whole trace at most     *)
(* once and in one piece, a cancellation touches the status only, a        *)
(* deletion is final.  ExecutionLifecycle is the protocol of sessions and  *)
(* background task that implements it.                                     *)
(***************************************************************************)
EXTENDS Integers

CONSTANT MaxLanes      \* the most lanes one run records, a positive number

VARIABLES
  phase,               \* "unborn", "alive" or "gone"
  row,                 \* the committed row: status, finished_at set?, lanes
  settled              \* the run has had its one chance to write the row

vars == <<phase, row, settled>>

Outcomes == {"completed", "failed", "running"}
Statuses == Outcomes \cup {"pending", "cancelled"}

\* No row: what SELECT ... WHERE id = :id finds before INSERT and after DELETE.
NoRow == [status |-> "absent", finished |-> FALSE, lanes |-> 0]

\* The row that create_execution inserts.
FreshRow == [status |-> "pending", finished |-> FALSE, lanes |-> 0]

Rows == [status : Statuses \cup {"absent"}, finished : BOOLEAN, lanes : 0 .. MaxLanes]

TypeOK ==
  /\ phase \in {"unborn", "alive", "gone"}
  /\ row \in Rows
  /\ settled \in BOOLEAN

Init ==
  /\ phase = "unborn"
  /\ row = NoRow
  /\ settled = FALSE

Create ==
  /\ phase = "unborn"
  /\ phase' = "alive"
  /\ row' = FreshRow
  /\ UNCHANGED settled

\* The result and the trace become visible together: either the whole run, or
\* "failed" with nothing of what the run had recorded.
Settle ==
  /\ phase = "alive"
  /\ ~settled
  /\ settled' = TRUE
  /\ \/ \E s \in Outcomes, n \in 1 .. MaxLanes :
          row' = [status |-> s, finished |-> TRUE, lanes |-> n]
     \/ row' = [status |-> "failed", finished |-> TRUE, lanes |-> row.lanes]
  /\ UNCHANGED phase

\* The run ends and leaves no mark on the row.
GiveUp ==
  /\ phase # "unborn"
  /\ ~settled
  /\ settled' = TRUE
  /\ UNCHANGED <<phase, row>>

Withdraw ==
  /\ phase = "alive"
  /\ row' = [row EXCEPT !.status = "cancelled", !.finished = TRUE]
  /\ UNCHANGED <<phase, settled>>

Purge ==
  /\ phase = "alive"
  /\ phase' = "gone"
  /\ row' = NoRow
  /\ UNCHANGED settled

Next == Create \/ Settle \/ GiveUp \/ Withdraw \/ Purge

Spec == Init /\ [][Next]_vars
=============================================================================
