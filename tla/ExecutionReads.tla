--------------------------- MODULE ExecutionReads ---------------------------
(***************************************************************************)
(* Those who read an execution while it lives: GET of the detail, of the   *)
(* timeline and of the list, the state_sync of the live stream, the first  *)
(* half of cancel and delete.  All of them load it through selectinload,   *)
(* which is one SELECT for the row, one for its lanes and one for the      *)
(* steps of these lanes; at READ COMMITTED each sees its own moment, and   *)
(* the run may commit, or a delete, between any two.                       *)
(***************************************************************************)
EXTENDS ExecutionLifecycle, Sequences

CONSTANT Readers       \* the clients that poll

VARIABLE view          \* what each reader has loaded

allReadsVars == <<vars, view>>

\* The statements in the order in which selectinload emits them.
ChildrenFirst == <<"lanes", "steps", "row">>
Statements == <<"row", "lanes", "steps">>

\* "done" counts the statements; "steps" is the number of lanes whose steps came.
Views == [done : 0 .. Len(Statements), status : Statuses \cup {"absent"},
          lanes : 0 .. MaxLanes, steps : 0 .. MaxLanes]

Unread == [done |-> 0, status |-> "absent", lanes |-> 0, steps |-> 0]

ReadsInit ==
  /\ Init
  /\ view = [r \in Readers |-> Unread]

-----------------------------------------------------------------------------

Smaller(m, n) == IF m < n THEN m ELSE n

\* What a view becomes by one statement.
Loaded(v) ==
  LET op == Statements[v.done + 1]
  IN  [done   |-> v.done + 1,
       status |-> IF op = "row" THEN row.status ELSE v.status,
       lanes  |-> IF op = "lanes" THEN row.lanes ELSE v.lanes,
       steps  |-> IF op = "steps" THEN Smaller(v.lanes, row.lanes) ELSE v.steps]

\* The first statement finds the execution, or the answer is 404.
BeginRead(r) ==
  /\ view[r].done = 0
  /\ Exists(row)
  /\ view' = [view EXCEPT ![r] = Loaded(Unread)]
  /\ UNCHANGED vars

\* A list stops after the lanes, the detail and the timeline after the steps.
LoadChildren(r) ==
  /\ view[r].done \in 1 .. Len(Statements) - 1
  /\ view' = [view EXCEPT ![r] = Loaded(view[r])]
  /\ UNCHANGED vars

Answered(r) == view[r].done \in {2, Len(Statements)}

\* The answer is sent and forgotten; the client polls again.
Forget(r) ==
  /\ Answered(r)
  /\ view' = [view EXCEPT ![r] = Unread]
  /\ UNCHANGED vars

ReaderStep(r) == BeginRead(r) \/ LoadChildren(r) \/ Forget(r)

\* A crash takes the readers' sessions with it.
ReadsNext ==
  \/ /\ CreateExecution \/ BgStep \/ Quiet
        \/ (\E c \in Cancels : CancelStep(c)) \/ (\E d \in Deletes : DeleteStep(d))
     /\ UNCHANGED view
  \/ Crash /\ view' = [r \in Readers |-> Unread]
  \/ \E r \in Readers : ReaderStep(r)

ReadsSpec == ReadsInit /\ [][ReadsNext]_allReadsVars

ReadsFairSpec == ReadsSpec /\ Fairness

-----------------------------------------------------------------------------
(* Safety.                                                                   *)

\* No answer shows a part of a run.  A status that only the run writes comes
\* with the run's lanes and all their steps, lanes come all or not at all, and
\* always with their steps, unless the execution was deleted between two
\* statements.  (A status from before the run's end may come with the lanes.)
AnswersAreWhole ==
  \A r \in Readers : Answered(r) /\ Exists(row) =>
    /\ view[r].status \in {"completed", "running"} => view[r].lanes > 0
    /\ view[r].lanes \in {0, row.lanes}
    /\ view[r].done = Len(Statements) => view[r].steps = view[r].lanes
=============================================================================
