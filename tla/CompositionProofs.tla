-------------------------- MODULE CompositionProofs --------------------------
(***************************************************************************)
(* Proofs about the compositions of ExecutionLifecycle: the readers        *)
(* (ExecutionReads), the pool (ConnectionPool) and the live stream         *)
(* (LiveStream), for any number of readers, requests, sessions, clients    *)
(* and lanes and any size of the pool and the queues.  Each adds to the    *)
(* execution and takes nothing away: its steps are steps of the lifecycle  *)
(* or leave it alone, so the invariant of ExecutionLifecycleProofs can be  *)
(* used, and what is proved anew is what the addition knows of it.         *)
(***************************************************************************)
EXTENDS ExecutionReads, ConnectionPool, LiveStream, ExecutionLifecycleProofs,
        FiniteSetTheorems

-----------------------------------------------------------------------------
(***************************************************************************)
(* Answers are whole.                                                      *)
(* Two facts about the execution carry it: lanes that are visible stay as  *)
(* they are while the row exists, and a row that was deleted does not come *)
(* back.  The rest follows a reader from statement to statement.           *)
(***************************************************************************)

RunStatuses == {"completed", "running"}

\* A status that only the run commits comes with the run's lanes.
RunWritesLanes == row.status \in RunStatuses => row.lanes > 0

\* What one reader has loaded so far, compared with the row as it is now.
ViewAgrees(v) ==
  /\ v.status \in RunStatuses => row.lanes > 0
  /\ v.done >= 2 => /\ v.lanes \in {0, row.lanes}
                    /\ v.status \in RunStatuses => v.lanes > 0
  /\ v.done = 3 => v.steps = v.lanes

ViewsTyped == view \in [Readers -> Views]

ViewsAgree ==
  \A r \in Readers :
    /\ view[r].done > 0 => bg # "absent"
    /\ view[r].done > 0 /\ Exists(row) => ViewAgrees(view[r])

ReadsIInv == RunWritesLanes /\ ViewsTyped /\ ViewsAgree

-----------------------------------------------------------------------------

\* What any step of the execution leaves of the row.
LEMMA RowSteps ==
  ASSUME IInv, RunWritesLanes, [Next]_vars
  PROVE  /\ RunWritesLanes'
         /\ Exists(row') /\ row.lanes > 0 => row'.lanes = row.lanes
         /\ Exists(row') /\ ~Exists(row) => bg = "absent"
         /\ bg' = "absent" => bg = "absent"
<1> DEFINE Goal == /\ RunWritesLanes'
                   /\ Exists(row') /\ row.lanes > 0 => row'.lanes = row.lanes
                   /\ Exists(row') /\ ~Exists(row) => bg = "absent"
                   /\ bg' = "absent" => bg = "absent"
<1> SUFFICES Goal
  OBVIOUS
<1>1. ASSUME row' = row, bg' = "absent" => bg = "absent" PROVE Goal
  BY <1>1 DEF RunWritesLanes
<1>2. CASE CreateExecution
  BY <1>2 DEF CreateExecution, FreshRow, RunWritesLanes, RunStatuses, IInv, TaskProgress, Ended, NoRow
<1>3. CASE BgStep
  <2>1. CASE Commit
    <3>1. image.lanes > 0 /\ Exists(row) /\ row.lanes = 0
      BY <2>1 DEF Commit, IInv, TaskProgress, LockProtocol, InTx, Ended
    <3>2. QED
      BY <2>1, <3>1 DEF Commit, Decide, RunWritesLanes
  <2>2. CASE RecordWrite
    <3>1. row' = IF Exists(row) THEN [row EXCEPT !.status = "failed", !.finished = TRUE] ELSE row
      BY <2>2 DEF RecordWrite, Update, Stamp
    <3>2. row'.lanes = row.lanes /\ (Exists(row) => row'.status = "failed") /\ (~Exists(row) => row' = row)
      BY <3>1 DEF IInv, TypeOK, Rows
    <3>3. QED
      BY <2>2, <3>2 DEF RecordWrite, Decide, RunWritesLanes, RunStatuses
  <2>3. CASE \E outcome \in Outcomes : Finish(outcome)
    BY <1>1, <2>3 DEF Finish, Flush
  <2>4. CASE \/ Launch \/ FindNoOrchestrator \/ StartRead \/ StartWrite \/ TrackLane
             \/ Raise \/ RecordRead \/ RecordFails \/ Publish
    BY <1>1, <2>4 DEF Launch, FindNoOrchestrator, StartRead, StartWrite, TrackLane, Flush,
                      Raise, RecordRead, RecordFails, Publish, Decide
  <2>5. QED
    BY <1>3, <2>1, <2>2, <2>3, <2>4 DEF BgStep
<1>4. ASSUME NEW c \in Cancels, CancelStep(c) PROVE Goal
  <2>1. CASE CancelRead(c)
    BY <1>1, <2>1 DEF CancelRead
  <2>2. CASE CancelWrite(c)
    <3>1. row' = IF Exists(row) THEN [row EXCEPT !.status = "cancelled", !.finished = TRUE] ELSE row
      BY <2>2 DEF CancelWrite, Update, Stamp
    <3>2. row'.lanes = row.lanes /\ (Exists(row) => row'.status = "cancelled") /\ (~Exists(row) => row' = row)
      BY <3>1 DEF IInv, TypeOK, Rows
    <3>3. QED
      BY <2>2, <3>2 DEF CancelWrite, RunWritesLanes, RunStatuses
  <2>3. CASE RequestFails(c)
    BY <1>1, <2>3 DEF RequestFails
  <2>4. QED
    BY <1>4, <2>1, <2>2, <2>3 DEF CancelStep
<1>5. ASSUME NEW d \in Deletes, DeleteStep(d) PROVE Goal
  <2>1. CASE DeleteRead(d)
    BY <1>1, <2>1 DEF DeleteRead
  <2>2. CASE DeleteWrite(d)
    BY <2>2 DEF DeleteWrite, NoRow, Exists, RunWritesLanes, RunStatuses
  <2>3. CASE RequestFails(d)
    BY <1>1, <2>3 DEF RequestFails
  <2>4. QED
    BY <1>5, <2>1, <2>2, <2>3 DEF DeleteStep
<1>6. CASE Crash
  BY <1>1, <1>6 DEF Crash
<1>7. CASE Quiet \/ UNCHANGED vars
  BY <1>1, <1>7 DEF Quiet, vars
<1>8. QED
  BY <1>2, <1>3, <1>4, <1>5, <1>6, <1>7 DEF Next

-----------------------------------------------------------------------------

LEMMA ThreeStatements ==
  /\ Len(Statements) = 3
  /\ Statements[1] = "row" /\ Statements[2] = "lanes" /\ Statements[3] = "steps"
BY DEF Statements

\* A statement adds what the database holds at its moment.
LEMMA Statement ==
  ASSUME NEW v \in Views, v.done < 3, TypeOK, RunWritesLanes,
         v.done > 0 => ViewAgrees(v),
         v.done = 0 => v = Unread
  PROVE  /\ Loaded(v) \in Views
         /\ Loaded(v).done > 0
         /\ ViewAgrees(Loaded(v))
<1> DEFINE w == Loaded(v)
<1> USE ThreeStatements, MaxLanesIsPositive
<1>1. row.status \in Statuses \cup {"absent"} /\ row.lanes \in 0 .. MaxLanes
  BY DEF TypeOK, Rows
<1>2. v.done \in 0 .. 3 /\ v.lanes \in 0 .. MaxLanes /\ v.steps \in 0 .. MaxLanes
      /\ v.status \in Statuses \cup {"absent"}
  BY DEF Views
<1>3. CASE v.done = 0
  <2>1. w = [done |-> 1, status |-> row.status, lanes |-> 0, steps |-> 0]
    BY <1>3 DEF Loaded, Unread
  <2>2. QED
    BY <1>1, <2>1 DEF Views, ViewAgrees, RunWritesLanes
<1>4. CASE v.done = 1
  <2>1. w = [done |-> 2, status |-> v.status, lanes |-> row.lanes, steps |-> v.steps]
    BY <1>4 DEF Loaded
  <2>2. QED
    BY <1>1, <1>2, <1>4, <2>1 DEF Views, ViewAgrees
<1>5. CASE v.done = 2
  <2>1. w = [done |-> 3, status |-> v.status, lanes |-> v.lanes, steps |-> Smaller(v.lanes, row.lanes)]
    BY <1>5 DEF Loaded
  <2>2. Smaller(v.lanes, row.lanes) = v.lanes
    BY <1>1, <1>2, <1>5 DEF ViewAgrees, Smaller
  <2>3. QED
    BY <1>1, <1>2, <1>5, <2>1, <2>2 DEF Views, ViewAgrees
<1>6. QED
  BY <1>2, <1>3, <1>4, <1>5

\* A step of the execution does not make a loaded view wrong.
LEMMA ViewsOutlastSteps ==
  ASSUME IInv, ReadsIInv, [Next]_vars, view' = view
  PROVE  ReadsIInv'
<1>1. RunWritesLanes'
  BY RowSteps DEF ReadsIInv
<1>2. ViewsTyped'
  BY DEF ReadsIInv, ViewsTyped
<1>3. ASSUME NEW r \in Readers
      PROVE  /\ view[r].done > 0 => bg' # "absent"
             /\ view[r].done > 0 /\ Exists(row') => ViewAgrees(view[r])'
  <2>1. view[r].done > 0 => bg # "absent" /\ bg' # "absent"
    BY RowSteps DEF ReadsIInv, ViewsAgree
  <2>2. ASSUME view[r].done > 0, Exists(row') PROVE ViewAgrees(view[r])'
    <3>1. Exists(row) /\ (row.lanes > 0 => row'.lanes = row.lanes)
      BY <2>1, <2>2, RowSteps DEF ReadsIInv
    <3>2. ViewAgrees(view[r])
      BY <2>2, <3>1 DEF ReadsIInv, ViewsAgree
    <3>3. row.lanes \in Nat /\ row'.lanes \in Nat /\ view[r].lanes \in Nat
      BY NextTypeOK, MaxLanesIsPositive DEF IInv, TypeOK, Rows, ReadsIInv, ViewsTyped, Views
    <3>4. QED
      BY <3>1, <3>2, <3>3 DEF ViewAgrees
  <2>3. QED
    BY <2>1, <2>2
<1>4. ViewsAgree'
  BY <1>3 DEF ViewsAgree
<1>5. QED
  BY <1>1, <1>2, <1>4 DEF ReadsIInv

\* A reader's own statement.
LEMMA ReaderSteps ==
  ASSUME IInv, ReadsIInv, NEW r \in Readers, ReaderStep(r)
  PROVE  ReadsIInv'
<1> USE ThreeStatements DEF ReadsIInv, ViewsTyped, ViewsAgree
<1>1. row' = row /\ bg' = bg /\ RunWritesLanes'
  BY DEF ReaderStep, BeginRead, LoadChildren, Forget, vars, RunWritesLanes
<1>2. ASSUME NEW w \in Views, view' = [view EXCEPT ![r] = w],
             w.done > 0 => bg # "absent" /\ (Exists(row) => ViewAgrees(w))
      PROVE  ReadsIInv'
  <2>1. \A q \in Readers : q # r => view'[q] = view[q]
    BY <1>2
  <2>2. view'[r] = w /\ view' \in [Readers -> Views]
    BY <1>2
  <2>3. ASSUME NEW q \in Readers
        PROVE  /\ view'[q].done > 0 => bg' # "absent"
               /\ view'[q].done > 0 /\ Exists(row') => ViewAgrees(view'[q])
    BY <1>1, <1>2, <2>1, <2>2
  <2>4. \A v : ViewAgrees(v)' <=> ViewAgrees(v)
    BY <1>1 DEF ViewAgrees
  <2>5. QED
    BY <1>1, <2>2, <2>3, <2>4
<1>3. Unread \in Views /\ Unread.done = 0
  BY MaxLanesIsPositive DEF Unread, Views
<1>4. CASE BeginRead(r)
  <2>1. bg # "absent"
    BY <1>4 DEF BeginRead, IInv, TaskProgress, NoRow, Exists
  <2>2. Loaded(Unread) \in Views /\ ViewAgrees(Loaded(Unread))
    BY <1>3, Statement DEF IInv
  <2>3. QED
    BY <1>2, <1>4, <2>1, <2>2 DEF BeginRead
<1>5. CASE LoadChildren(r)
  <2>1. view[r] \in Views /\ view[r].done \in 1 .. 2 /\ bg # "absent"
    BY <1>5 DEF LoadChildren
  <2>2. CASE Exists(row)
    <3>1. Loaded(view[r]) \in Views /\ ViewAgrees(Loaded(view[r]))
      BY <2>1, <2>2, Statement DEF IInv
    <3>2. QED
      BY <1>2, <1>5, <2>1, <3>1 DEF LoadChildren
  <2>3. CASE ~Exists(row)
    <3>1. Loaded(view[r]) \in Views
      BY <2>1, MaxLanesIsPositive DEF Loaded, Views, IInv, TypeOK, Rows, Smaller
    <3>2. QED
      BY <1>2, <1>5, <2>1, <2>3, <3>1 DEF LoadChildren
  <2>4. QED
    BY <2>2, <2>3
<1>6. CASE Forget(r)
  <2>1. Unread.done > 0 => bg # "absent" /\ (Exists(row) => ViewAgrees(Unread))
    BY <1>3
  <2>2. view' = [view EXCEPT ![r] = Unread]
    BY <1>6 DEF Forget
  <2>3. QED
    BY <1>2, <1>3, <2>1, <2>2
<1>7. QED
  BY <1>4, <1>5, <1>6 DEF ReaderStep

-----------------------------------------------------------------------------

LEMMA ReadsNextIsNext == [ReadsNext]_allReadsVars => [Next]_vars
BY DEF ReadsNext, allReadsVars, Next, ReaderStep, BeginRead, LoadChildren, Forget

LEMMA NextReadsIInv == IInv /\ ReadsIInv /\ [ReadsNext]_allReadsVars => ReadsIInv'
<1> SUFFICES ASSUME IInv, ReadsIInv, [ReadsNext]_allReadsVars PROVE ReadsIInv'
  OBVIOUS
<1>1. [Next]_vars
  BY ReadsNextIsNext
<1>2. CASE view' = view
  BY <1>1, <1>2, ViewsOutlastSteps
<1>3. CASE Crash /\ view' = [r \in Readers |-> Unread]
  <2>1. Unread \in Views /\ Unread.done = 0
    BY MaxLanesIsPositive, ThreeStatements DEF Unread, Views
  <2>2. RunWritesLanes'
    BY <1>1, RowSteps DEF ReadsIInv
  <2>3. QED
    BY <1>3, <2>1, <2>2 DEF ReadsIInv, ViewsTyped, ViewsAgree
<1>4. CASE \E r \in Readers : ReaderStep(r)
  BY <1>4, ReaderSteps
<1>5. QED
  BY <1>2, <1>3, <1>4 DEF ReadsNext, allReadsVars

\* Readers do not disturb the execution: its theorems hold next to them.
THEOREM ReadsRefinement == ReadsSpec => Spec
<1>1. ReadsInit => Init
  BY DEF ReadsInit
<1>2. QED
  BY <1>1, ReadsNextIsNext, PTL DEF ReadsSpec, Spec

\* No answer shows a part of a run, however commits, cancels and deletes fall
\* between the statements of its reader.
THEOREM WholeAnswers == ReadsSpec => []AnswersAreWhole
<1>1. ReadsInit => ReadsIInv
  <2>1. Unread \in Views /\ Unread.done = 0
    BY MaxLanesIsPositive, ThreeStatements DEF Unread, Views
  <2>2. QED
    BY <2>1 DEF ReadsInit, Init, NoRow, ReadsIInv, RunWritesLanes, RunStatuses, ViewsTyped, ViewsAgree
<1>2. ReadsSpec => []IInv
  BY ReadsRefinement, Invariance, PTL
<1>3. IInv /\ ReadsIInv => AnswersAreWhole
  BY ThreeStatements DEF ReadsIInv, ViewsAgree, ViewAgrees, AnswersAreWhole, Answered, RunStatuses
<1>4. QED
  BY <1>1, <1>2, <1>3, NextReadsIInv, PTL DEF ReadsSpec

-----------------------------------------------------------------------------
(***************************************************************************)
(* The pool.                                                               *)
(* What is new is where the task may stand while its two sessions wait or  *)
(* hold a connection.                                                      *)
(***************************************************************************)

\* The run holds a connection from its first statement to its commit or
\* exception, its handler while it handles, and each waits before that.
SessionStates ==
  /\ "run" \in held => bg \in {"loading", "starting", "tracking", "finishing"}
  /\ bg \in {"starting", "tracking", "finishing"} => "run" \in held
  /\ "run" \in waiting => bg = "loading"
  /\ "handler" \in held => bg \in Handling
  /\ "handler" \in waiting => bg = "recording"

PoolIInv == PoolTypeOK /\ SessionStates

-----------------------------------------------------------------------------

\* Every step of the composition is a step of the execution or leaves it alone.
LEMMA StepRefines == [PoolNext]_allPoolVars => [Next]_vars
<1> SUFFICES ASSUME [PoolNext]_allPoolVars PROVE [Next]_vars
  OBVIOUS
<1>1. CASE CreatorCommits
  BY <1>1 DEF CreatorCommits, Next
<1>2. CASE TaskStep
  <2>1. CASE \E s \in TaskSessions : Enter(s)
    BY <2>1 DEF Enter
  <2>2. CASE RunKeeps \/ RunCommits \/ RunRaises \/ HandlerReads \/ HandlerEnds \/ WithoutSession
    BY <2>2 DEF RunKeeps, RunCommits, RunRaises, HandlerReads, HandlerEnds, WithoutSession,
                Next, BgStep
  <2>3. QED
    BY <1>2, <2>1, <2>2 DEF TaskStep
<1>3. CASE \E r \in Requests : RequestStep(r) \/ RequestErrs(r)
  BY <1>3 DEF RequestStep, RequestReads, RequestWrites, RequestErrs, Next, CancelStep, DeleteStep,
              Requests
<1>4. CASE \E s \in Sessions : Enter(s) \/ Serve(s) \/ Close(s)
  <2>1. PICK s \in Sessions : Enter(s) \/ Serve(s) \/ Close(s)
    BY <1>4
  <2>2. CASE Enter(s) \/ Close(s) \/ Checkout(s)
    BY <2>2 DEF Enter, Close, Checkout
  <2>3. CASE CheckoutFails(s)
    BY <2>3 DEF CheckoutFails, Next, BgStep
  <2>4. QED
    BY <2>1, <2>2, <2>3 DEF Serve
<1>5. CASE PoolCrash
  BY <1>5 DEF PoolCrash, Next
<1>6. CASE UNCHANGED allPoolVars
  BY <1>6 DEF allPoolVars
<1>7. QED
  BY <1>1, <1>2, <1>3, <1>4, <1>5, <1>6 DEF PoolNext

\* The safety part of ImplementsLifecycle: with scarce connections the execution
\* is still one of ExecutionLifecycle, so every theorem about that module holds.
THEOREM LifecycleRefinement == PoolSpec => Spec
<1>1. PoolInit => Init
  BY DEF PoolInit
<1>2. QED
  BY <1>1, StepRefines, PTL DEF PoolSpec, Spec

-----------------------------------------------------------------------------

LEMMA InitPool == PoolInit => PoolIInv
<1> SUFFICES ASSUME PoolInit PROVE PoolIInv
  OBVIOUS
<1>1. Cardinality(held) = 0
  BY FS_EmptySet DEF PoolInit
<1>2. PoolTypeOK
  BY <1>1, PoolIsNotEmpty DEF PoolTypeOK, PoolInit
<1>3. SessionStates
  BY DEF SessionStates, PoolInit, Init
<1>4. QED
  BY <1>2, <1>3 DEF PoolIInv

\* A set of sessions that shrinks stays within the pool's size.
LEMMA Shrinks ==
  ASSUME NEW H, NEW G, H \subseteq Sessions, G \subseteq H, Cardinality(H) <= PoolSize
  PROVE  Cardinality(G) <= PoolSize
<1>1. IsFiniteSet(H)
  BY FS_Subset, SessionsAreDistinct
<1>2. Cardinality(G) <= Cardinality(H) /\ Cardinality(G) \in Nat /\ Cardinality(H) \in Nat
  BY <1>1, FS_Subset, FS_CardinalityType
<1>3. QED
  BY <1>2, PoolIsNotEmpty

\* The pool never gives out more than it has, and who holds does not wait.
LEMMA NextPoolTypeOK == PoolTypeOK /\ [PoolNext]_allPoolVars => PoolTypeOK'
<1> SUFFICES ASSUME PoolTypeOK, [PoolNext]_allPoolVars PROVE PoolTypeOK'
  OBVIOUS
<1> USE DEF PoolTypeOK
<1>1. ASSUME held' \subseteq held, waiting' \subseteq waiting, refused' \subseteq Requests
      PROVE  PoolTypeOK'
  BY <1>1, Shrinks
<1>2. CASE CreatorCommits
  BY <1>1, <1>2 DEF CreatorCommits, GiveBack
<1>3. CASE TaskStep
  <2>1. CASE \E s \in TaskSessions : Enter(s)
    BY <2>1 DEF Enter, TaskSessions, Sessions
  <2>2. CASE RunKeeps \/ RunCommits \/ RunRaises \/ HandlerReads \/ HandlerEnds \/ WithoutSession
    BY <1>1, <2>2 DEF RunKeeps, RunCommits, RunRaises, HandlerReads, HandlerEnds, WithoutSession,
                      GiveBack, HeldAfterRaise, poolVars
  <2>3. QED
    BY <1>3, <2>1, <2>2 DEF TaskStep
<1>4. CASE \E r \in Requests : RequestStep(r) \/ RequestErrs(r)
  BY <1>1, <1>4 DEF RequestStep, RequestReads, RequestWrites, RequestErrs, GiveBack, poolVars
<1>5. ASSUME NEW s \in Sessions, Enter(s) \/ Serve(s) \/ Close(s)
      PROVE  PoolTypeOK'
  <2>1. CASE Enter(s)
    BY <2>1 DEF Enter
  <2>2. CASE Checkout(s)
    <3>1. IsFiniteSet(held) /\ s \notin held
      BY <2>2, FS_Subset, SessionsAreDistinct DEF Checkout
    <3>2. Cardinality(held') = Cardinality(held) + 1 /\ Cardinality(held) \in Nat
      BY <2>2, <3>1, FS_AddElement, FS_CardinalityType DEF Checkout
    <3>3. Cardinality(held') <= PoolSize
      BY <2>2, <3>2, PoolIsNotEmpty DEF Checkout, Exhausted
    <3>4. QED
      BY <2>2, <3>3 DEF Checkout
  <2>3. CASE CheckoutFails(s)
    <3>1. refused' \subseteq Requests /\ waiting' \subseteq waiting /\ held' = held
      BY <2>3 DEF CheckoutFails
    <3>2. QED
      BY <1>1, <3>1
  <2>4. CASE Close(s)
    BY <1>1, <2>4 DEF Close, GiveBack
  <2>5. QED
    BY <1>5, <2>1, <2>2, <2>3, <2>4 DEF Serve
<1>6. CASE PoolCrash
  BY <1>1, <1>6 DEF PoolCrash
<1>7. CASE UNCHANGED allPoolVars
  BY <1>1, <1>7 DEF allPoolVars, poolVars
<1>8. QED
  BY <1>2, <1>3, <1>4, <1>5, <1>6, <1>7 DEF PoolNext

-----------------------------------------------------------------------------

\* Requests do not move the task.
LEMMA RequestsLeaveTask ==
  ASSUME NEW r \in Requests,
         CancelRead(r) \/ CancelWrite(r) \/ DeleteRead(r) \/ DeleteWrite(r) \/ RequestFails(r)
  PROVE  bg' = bg
BY DEF CancelRead, CancelWrite, DeleteRead, DeleteWrite, RequestFails

\* The task leaves the pool's queue and gives connections back at the right places.
LEMMA NextSessionStates == PoolIInv /\ [PoolNext]_allPoolVars => SessionStates'
<1> SUFFICES ASSUME PoolIInv, [PoolNext]_allPoolVars PROVE SessionStates'
  OBVIOUS
<1> USE SessionsAreDistinct DEF PoolIInv, PoolTypeOK, SessionStates, TaskSessions, Handling
<1>1. ASSUME bg' = bg, waiting' \subseteq waiting,
             held' \cap TaskSessions = held \cap TaskSessions
      PROVE  SessionStates'
  BY <1>1
<1>2. CASE CreatorCommits
  BY <1>2 DEF CreatorCommits, GiveBack, CreateExecution
<1>3. CASE TaskStep
  <2>1. CASE \E s \in TaskSessions : Enter(s)
    BY <2>1 DEF Enter, Begins, vars
  <2>2. CASE RunKeeps
    BY <2>2 DEF RunKeeps, StartRead, StartWrite, TrackLane, Finish, poolVars
  <2>3. CASE RunCommits
    BY <2>3 DEF RunCommits, FindNoOrchestrator, Commit, Decide, GiveBack
  <2>4. CASE RunRaises
    BY <2>4 DEF RunRaises, Raise, Raisable, HeldAfterRaise
  <2>5. CASE HandlerReads
    BY <2>5 DEF HandlerReads, RecordRead, poolVars
  <2>6. CASE HandlerEnds
    BY <2>6 DEF HandlerEnds, RecordWrite, RecordFails, Decide, GiveBack
  <2>7. CASE WithoutSession
    BY <2>7 DEF WithoutSession, Launch, Publish, poolVars
  <2>8. QED
    BY <1>3, <2>1, <2>2, <2>3, <2>4, <2>5, <2>6, <2>7 DEF TaskStep
<1>4. CASE \E r \in Requests : RequestStep(r) \/ RequestErrs(r)
  <2>1. PICK r \in Requests : RequestStep(r) \/ RequestErrs(r)
    BY <1>4
  <2>2. bg' = bg
    BY <2>1, RequestsLeaveTask DEF RequestStep, RequestReads, RequestWrites, RequestErrs
  <2>3. waiting' = waiting /\ held' \cap TaskSessions = held \cap TaskSessions
    BY <2>1 DEF RequestStep, RequestReads, RequestWrites, RequestErrs, GiveBack, poolVars
  <2>4. QED
    BY <1>1, <2>2, <2>3
<1>5. ASSUME NEW s \in Sessions, Enter(s) \/ Serve(s) \/ Close(s)
      PROVE  SessionStates'
  <2>1. CASE Enter(s)
    BY <2>1 DEF Enter, Begins, vars
  <2>2. CASE Checkout(s)
    BY <2>2 DEF Checkout, vars
  <2>3. CASE CheckoutFails(s)
    <3>1. CASE s = "run" /\ Raise
      BY <2>3, <3>1 DEF CheckoutFails, Raise
    <3>2. CASE s = "handler" /\ RecordFails
      BY <2>3, <3>2 DEF CheckoutFails, RecordFails, Decide
    <3>3. CASE s \notin TaskSessions /\ UNCHANGED vars
      BY <1>1, <2>3, <3>3 DEF CheckoutFails, vars
    <3>4. QED
      BY <2>3, <3>1, <3>2, <3>3 DEF CheckoutFails
  <2>4. CASE Close(s)
    <3>1. s \notin TaskSessions
      BY <2>4 DEF Close
    <3>2. QED
      BY <1>1, <2>4, <3>1 DEF Close, GiveBack, vars
  <2>5. QED
    BY <1>5, <2>1, <2>2, <2>3, <2>4 DEF Serve
<1>6. CASE PoolCrash
  BY <1>6 DEF PoolCrash, Crash
<1>7. CASE UNCHANGED allPoolVars
  BY <1>7 DEF allPoolVars, vars, poolVars
<1>8. QED
  BY <1>2, <1>3, <1>4, <1>5, <1>6, <1>7 DEF PoolNext

\* Behind the theorems below: types and places of the sessions, next to the
\* invariant of the execution itself.
THEOREM PoolInvariance == PoolSpec => [](IInv /\ PoolIInv)
<1>1. PoolIInv /\ [PoolNext]_allPoolVars => PoolIInv'
  BY NextPoolTypeOK, NextSessionStates DEF PoolIInv
<1>2. PoolSpec => []PoolIInv
  BY InitPool, <1>1, PTL DEF PoolSpec
<1>3. PoolSpec => []IInv
  BY LifecycleRefinement, Invariance, PTL
<1>4. QED
  BY <1>2, <1>3, PTL

\* The pool never exceeds its size, whatever sessions do.
THEOREM PoolTypeCorrect == PoolSpec => []PoolTypeOK
<1>1. PoolIInv => PoolTypeOK
  BY DEF PoolIInv
<1>2. QED
  BY <1>1, PoolInvariance, PTL

\* No session waits for a connection while its task keeps one, and a row lock is
\* kept only by a session that has its connection.
THEOREM HoldAndWaitFree == PoolSpec => []NoHoldAndWait
<1>1. IInv /\ PoolIInv => NoHoldAndWait
  BY DEF IInv, PoolIInv, PoolTypeOK, SessionStates, LockProtocol, NoHoldAndWait, TaskSessions,
         Handling, InTx
<1>2. QED
  BY <1>1, PoolInvariance, PTL

\* An exhausted pool always has a session that can go on: a circular wait over
\* connections and the row's lock cannot arise.
THEOREM CircularWaitFree == PoolSpec => []NoCircularWait
<1>1. ASSUME IInv, PoolIInv PROVE NoCircularWait
  <2> SUFFICES ASSUME Exhausted
               PROVE  \E s \in held : ~WaitsForLock(s) /\ ~WaitsForSibling(s)
    BY DEF NoCircularWait
  <2>1. held # {}
    BY FS_EmptySet, PoolIsNotEmpty DEF Exhausted
  <2>2. \A s \in held : ~WaitsForSibling(s)
    BY <1>1 DEF PoolIInv, SessionStates, WaitsForSibling, Handling
  <2>3. CASE Locked
    <3>1. "run" \in held /\ "run" \notin Requests
      BY <1>1, <2>3, SessionsAreDistinct
      DEF IInv, LockProtocol, PoolIInv, SessionStates, InTx, TaskSessions
    <3>2. ~WaitsForLock("run")
      BY <3>1 DEF WaitsForLock
    <3>3. QED
      BY <2>2, <3>1, <3>2
  <2>4. CASE ~Locked
    BY <2>1, <2>2, <2>4 DEF WaitsForLock
  <2>5. QED
    BY <2>3, <2>4
<1>2. QED
  BY <1>1, PoolInvariance, PTL

-----------------------------------------------------------------------------
(***************************************************************************)
(* The live stream.                                                        *)
(* The three safety properties carry each other: the last event reaches    *)
(* every listener because listeners are in the list, and a client that is  *)
(* told nothing read the row after the end, of which VerdictAgreesWithRow  *)
(* knows what it shows.                                                    *)
(***************************************************************************)

\* The clients' variables have their types; the lifecycle's own are in IInv.
ClientsTyped ==
  /\ subs \subseteq Watchers
  /\ inbox \in [Watchers -> Seq({"completed", "failed"})]
  /\ client \in [Watchers -> {"idle", "closed"} \cup Connected]
  /\ seen \in [Watchers -> {"nothing"} \cup Statuses]

\* Who is connected before the launch is early: nobody else can be in the list
\* that the launch replaces.
OnlyTheEarlyAreUnlisted ==
  bg \in {"absent", "created"} => \A w \in Watchers : client[w] \in Connected => w \in early

StreamIInv ==
  /\ ClientsTyped
  /\ OnlyTheEarlyAreUnlisted
  /\ NoDeadSubscriber
  /\ ListenersAreSubscribed
  /\ EndIsQueuedOrShown

Over == {"ended", "lost"}

-----------------------------------------------------------------------------

LEMMA TwoOperations == Order[1] = "register" /\ Order[2] = "read"
BY DEF Order

\* The stream adds to the lifecycle and changes nothing of it.
LEMMA StreamNextIsNext == [StreamNext]_allStreamVars => [Next]_vars
<1> SUFFICES ASSUME [StreamNext]_allStreamVars PROVE [Next]_vars
  OBVIOUS
<1>1. CASE OtherStep
  BY <1>1 DEF OtherStep, OtherBgStep, Next, BgStep, CancelStep, DeleteStep
<1>2. CASE LaunchStream \/ PublishVerdict
  BY <1>2 DEF LaunchStream, PublishVerdict, Next, BgStep
<1>3. CASE \E c \in Cancels : CancelCommits(c) \/ CancelPublishes(c)
  BY <1>3 DEF CancelCommits, CancelPublishes, Next, CancelStep
<1>4. CASE \E w \in Watchers : Connect(w) \/ HandlerStep(w) \/ HangUp(w)
  BY <1>4 DEF Connect, HandlerStep, SyncState, RejectUnknown, SyncFails, Receive,
              NoticeHangUp, HangUp
<1>5. CASE PopQueues \/ StreamCrash \/ StreamQuiet
  BY <1>5 DEF PopQueues, StreamCrash, StreamQuiet, Quiet, Next
<1>6. CASE UNCHANGED allStreamVars
  BY <1>6 DEF allStreamVars
<1>7. QED
  BY <1>1, <1>2, <1>3, <1>4, <1>5, <1>6 DEF StreamNext

\* The queue has room for one event: afterwards it is not empty.
LEMMA PutFills ==
  ASSUME NEW q \in Seq({"completed", "failed"}), NEW e \in {"completed", "failed"}
  PROVE  Put(q, e) \in Seq({"completed", "failed"}) /\ Put(q, e) # <<>>
<1>1. CASE Len(q) < QueueSize
  BY <1>1 DEF Put
<1>2. CASE ~(Len(q) < QueueSize)
  <2>1. Put(q, e) = q
    BY <1>2 DEF Put
  <2>2. Len(q) # 0
    BY <1>2, QueueHasRoom
  <2>3. QED
    BY <2>1, <2>2
<1>3. QED
  BY <1>1, <1>2

LEMMA PublishingTypes ==
  ASSUME ClientsTyped, NEW e \in {"completed", "failed"}, PublishEvent(e)
  PROVE  /\ inbox' \in [Watchers -> Seq({"completed", "failed"})]
         /\ \A w \in subs : inbox'[w] # <<>>
         /\ \A w \in Watchers : inbox[w] # <<>> => inbox'[w] # <<>>
BY PutFills DEF ClientsTyped, PublishEvent

-----------------------------------------------------------------------------
(* Steps of the task and of the requests.                                    *)

\* A step that leaves the clients alone and does not end the run.
LEMMA ClientsOutlastSteps ==
  ASSUME StreamIInv, UNCHANGED <<subs, inbox, client, seen, early>>,
         bg = "ended" => lapse' = lapse,
         bg' = "ended" => bg = "ended", bg' \notin Over => bg \notin Over,
         bg' \in {"absent", "created"} => bg \in {"absent", "created"}
  PROVE  StreamIInv'
<1>1. ClientsTyped' /\ OnlyTheEarlyAreUnlisted'
  BY DEF StreamIInv, ClientsTyped, OnlyTheEarlyAreUnlisted
<1>2. NoDeadSubscriber' /\ ListenersAreSubscribed'
  BY DEF StreamIInv, NoDeadSubscriber, ListenersAreSubscribed, Over
<1>3. EndIsQueuedOrShown'
  BY DEF StreamIInv, EndIsQueuedOrShown, Shows
<1>4. QED
  BY <1>1, <1>2, <1>3 DEF StreamIInv

\* What the steps of the task and of the requests do to the phase of the run.
LEMMA PhaseSteps ==
  ASSUME OtherStep \/ \E c \in Cancels : CancelWrite(c)
  PROVE  /\ bg = "ended" => lapse' = lapse
         /\ bg' = "ended" => bg = "ended"
         /\ bg \in Over => bg' \in Over
         /\ bg' \in {"absent", "created"} => bg \in {"absent", "created"}
BY DEF OtherStep, OtherBgStep, CreateExecution, FindNoOrchestrator, StartRead, StartWrite,
       TrackLane, Finish, Commit, Raise, RecordRead, RecordWrite, RecordFails, Decide,
       CancelRead, CancelWrite, DeleteStep, DeleteRead, DeleteWrite, RequestFails,
       Over, Raisable, Handling

LEMMA TaskAndRequestSteps ==
  ASSUME IInv, StreamIInv,
         \/ OtherStep \/ LaunchStream \/ PublishVerdict \/ PopQueues
         \/ \E c \in Cancels : CancelCommits(c) \/ CancelPublishes(c)
         \/ StreamCrash \/ StreamQuiet \/ UNCHANGED allStreamVars
  PROVE  StreamIInv'
<1>1. CASE OtherStep
  <2>1. UNCHANGED <<subs, inbox, client, seen, early>>
    BY <1>1 DEF OtherStep, streamVars
  <2>2. QED
    BY <1>1, <2>1, PhaseSteps, ClientsOutlastSteps
<1>2. CASE LaunchStream
  <2>1. /\ bg' = "loading" /\ subs' = {} /\ bg = "created"
        /\ UNCHANGED <<inbox, client, seen, early>>
    BY <1>2 DEF LaunchStream, Launch
  <2>2. QED
    BY <2>1 DEF StreamIInv, ClientsTyped, OnlyTheEarlyAreUnlisted, NoDeadSubscriber,
                ListenersAreSubscribed, EndIsQueuedOrShown
<1>3. CASE PublishVerdict
  <2>1. /\ bg = "publishing" /\ bg' = "ended" /\ PublishEvent(verdict)
        /\ UNCHANGED <<subs, client, seen, early>>
    BY <1>3 DEF PublishVerdict, Publish
  <2>2. verdict \in {"completed", "failed"}
    BY <2>1 DEF IInv, TypeOK, TaskProgress
  <2>3. /\ inbox' \in [Watchers -> Seq({"completed", "failed"})]
        /\ \A w \in subs : inbox'[w] # <<>>
    BY <2>1, <2>2, PublishingTypes DEF StreamIInv
  <2>4. EndIsQueuedOrShown'
    <3>1. ASSUME NEW w \in Watchers \ early, client[w] = "streaming" PROVE inbox'[w] # <<>>
      BY <2>1, <2>3, <3>1 DEF StreamIInv, ListenersAreSubscribed, Connected
    <3>2. QED
      BY <2>1, <3>1 DEF EndIsQueuedOrShown
  <2>5. QED
    BY <2>1, <2>3, <2>4 DEF StreamIInv, ClientsTyped, OnlyTheEarlyAreUnlisted, NoDeadSubscriber,
                            ListenersAreSubscribed
<1>4. CASE PopQueues
  <2>1. bg = "ended" /\ bg' = bg /\ subs' = {} /\ UNCHANGED <<inbox, client, seen, early, lapse>>
    BY <1>4 DEF PopQueues, MayPop, vars
  <2>2. QED
    BY <2>1 DEF StreamIInv, ClientsTyped, OnlyTheEarlyAreUnlisted, NoDeadSubscriber,
                ListenersAreSubscribed, EndIsQueuedOrShown, Shows
<1>5. ASSUME NEW c \in Cancels, CancelCommits(c) PROVE StreamIInv'
  BY <1>5, PhaseSteps, ClientsOutlastSteps DEF CancelCommits
<1>6. ASSUME NEW c \in Cancels, CancelPublishes(c) PROVE StreamIInv'
  <2>1. PublishEvent("failed") /\ bg' = bg /\ UNCHANGED <<subs, client, seen, early, lapse>>
    BY <1>6 DEF CancelPublishes, vars
  <2>2. /\ inbox' \in [Watchers -> Seq({"completed", "failed"})]
        /\ \A w \in Watchers : inbox[w] # <<>> => inbox'[w] # <<>>
    BY <2>1, PublishingTypes DEF StreamIInv
  <2>3. QED
    BY <2>1, <2>2 DEF StreamIInv, ClientsTyped, OnlyTheEarlyAreUnlisted, NoDeadSubscriber,
                      ListenersAreSubscribed, EndIsQueuedOrShown, Shows
<1>7. CASE StreamCrash
  <2>1. /\ bg' \in Over /\ subs' = {} /\ early' = early
        /\ inbox' = [w \in Watchers |-> <<>>]
        /\ seen' = [w \in Watchers |-> "nothing"]
        /\ client' = [w \in Watchers |-> IF client[w] \in Connected THEN "closed" ELSE client[w]]
    BY <1>7 DEF StreamCrash, Crash, Over
  <2>2. \A w \in Watchers : client'[w] \notin Connected
    BY <2>1 DEF Connected
  <2>3. ClientsTyped'
    BY <2>1 DEF StreamIInv, ClientsTyped, Connected
  <2>4. QED
    BY <2>1, <2>2, <2>3 DEF StreamIInv, OnlyTheEarlyAreUnlisted, NoDeadSubscriber,
                            ListenersAreSubscribed, EndIsQueuedOrShown, Connected
<1>8. CASE StreamQuiet \/ UNCHANGED allStreamVars
  BY <1>8, ClientsOutlastSteps DEF StreamQuiet, Quiet, vars, allStreamVars, streamVars
<1>9. QED
  BY <1>1, <1>2, <1>3, <1>4, <1>5, <1>6, <1>7, <1>8

-----------------------------------------------------------------------------
(* Steps of a connection.                                                    *)

LEMMA ConnectionSteps ==
  ASSUME IInv, StreamIInv, NEW w \in Watchers, Connect(w) \/ HandlerStep(w) \/ HangUp(w)
  PROVE  StreamIInv'
<1> USE TwoOperations
<1>0. bg' = bg /\ lapse' = lapse
  BY DEF Connect, HandlerStep, SyncState, RejectUnknown, SyncFails, Receive, NoticeHangUp, HangUp, vars
<1>1. CASE Connect(w)
  <2>1. /\ client[w] = "idle" /\ client' = [client EXCEPT ![w] = "registered"]
        /\ subs' = subs \cup {w} /\ UNCHANGED <<inbox, seen>>
        /\ early' = IF bg = "created" THEN early \cup {w} ELSE early
        /\ bg # "absent"
    BY <1>1 DEF Connect, Do
  <2>2. ClientsTyped' /\ OnlyTheEarlyAreUnlisted' /\ NoDeadSubscriber' /\ ListenersAreSubscribed'
    BY <1>0, <2>1 DEF StreamIInv, ClientsTyped, OnlyTheEarlyAreUnlisted, NoDeadSubscriber,
                      ListenersAreSubscribed, Connected
  <2>3. EndIsQueuedOrShown'
    BY <1>0, <2>1 DEF StreamIInv, ClientsTyped, EndIsQueuedOrShown, Shows
  <2>4. QED
    BY <2>2, <2>3 DEF StreamIInv
<1>2. CASE SyncState(w)
  <2>1. /\ client[w] = "registered" /\ client' = [client EXCEPT ![w] = "streaming"]
        /\ seen' = [seen EXCEPT ![w] = row.status]
        /\ Exists(row)
        /\ UNCHANGED <<inbox, subs, early>>
    BY <1>2 DEF SyncState, Do
  <2>2. row.status \in Statuses
    BY <2>1 DEF IInv, TypeOK, Rows, Exists
  <2>3. ASSUME bg = "ended" PROVE Shows(row.status)
    <3>1. verdict \in {"completed", "failed"}
      BY <2>3 DEF IInv, TypeOK, TaskProgress
    <3>2. CASE row.status = "cancelled"
      BY <3>2 DEF Shows
    <3>3. CASE row.status # "cancelled"
      <4>1. \/ lapse = "none" /\ row.status = verdict
            \/ lapse = "synthesis" /\ row.status = "running"
            \/ lapse \in {"no orchestrator", "handler"} /\ row = FreshRow
        BY <2>1, <2>3, <3>3 DEF IInv, VerdictAgreesWithRow
      <4>2. FreshRow.status = "pending"
        BY DEF FreshRow
      <4>3. QED
        BY <3>1, <4>1, <4>2 DEF Shows
    <3>4. QED
      BY <3>2, <3>3
  <2>4. ClientsTyped' /\ OnlyTheEarlyAreUnlisted' /\ NoDeadSubscriber' /\ ListenersAreSubscribed'
    BY <1>0, <2>1, <2>2 DEF StreamIInv, ClientsTyped, OnlyTheEarlyAreUnlisted, NoDeadSubscriber,
                            ListenersAreSubscribed, Connected
  <2>5. EndIsQueuedOrShown'
    <3>1. \A s : Shows(s)' <=> Shows(s)
      BY <1>0 DEF Shows
    <3>2. ASSUME NEW v \in Watchers \ early, bg = "ended", client'[v] = "streaming", inbox[v] = <<>>
          PROVE  Shows(seen'[v])
      BY <2>1, <2>3, <3>2 DEF StreamIInv, ClientsTyped, EndIsQueuedOrShown
    <3>3. QED
      BY <1>0, <2>1, <3>1, <3>2 DEF EndIsQueuedOrShown
  <2>6. QED
    BY <2>4, <2>5 DEF StreamIInv
<1>3. CASE RejectUnknown(w) \/ SyncFails(w) \/ Receive(w) \/ NoticeHangUp(w)
  <2>1. /\ client' = [client EXCEPT ![w] = "closed"] /\ subs' = subs \ {w}
        /\ seen' = [seen EXCEPT ![w] = "nothing"] /\ early' = early
    BY <1>3 DEF RejectUnknown, SyncFails, Receive, NoticeHangUp, Leave
  <2>2. /\ inbox' \in [Watchers -> Seq({"completed", "failed"})]
        /\ \A v \in Watchers : v # w => inbox'[v] = inbox[v]
        /\ \A v \in Watchers : v # w => seen'[v] = seen[v]
    <3>1. CASE Receive(w)
      <4>1. inbox[w] \in Seq({"completed", "failed"}) /\ inbox[w] # <<>>
        BY <3>1 DEF Receive, StreamIInv, ClientsTyped
      <4>2. Tail(inbox[w]) \in Seq({"completed", "failed"})
        BY <4>1
      <4>3. QED
        BY <2>1, <3>1, <4>2 DEF Receive, StreamIInv, ClientsTyped
    <3>2. CASE RejectUnknown(w) \/ SyncFails(w) \/ NoticeHangUp(w)
      BY <2>1, <3>2 DEF RejectUnknown, SyncFails, NoticeHangUp, StreamIInv, ClientsTyped
    <3>3. QED
      BY <1>3, <3>1, <3>2
  <2>3. \A v \in Watchers : v # w => client'[v] = client[v]
    BY <2>1 DEF StreamIInv, ClientsTyped
  <2>4. client'[w] \notin Connected /\ client'[w] # "streaming"
    BY <2>1 DEF StreamIInv, ClientsTyped, Connected
  <2>5. ClientsTyped'
    BY <2>1, <2>2 DEF StreamIInv, ClientsTyped
  <2>6. NoDeadSubscriber'
    BY <2>1, <2>3 DEF StreamIInv, NoDeadSubscriber, ClientsTyped
  <2>7. ListenersAreSubscribed'
    BY <1>0, <2>1, <2>3, <2>4 DEF StreamIInv, ListenersAreSubscribed
  <2>8. EndIsQueuedOrShown'
    <3>1. \A s : Shows(s)' <=> Shows(s)
      BY <1>0 DEF Shows
    <3>2. QED
      BY <1>0, <2>1, <2>2, <2>3, <2>4, <3>1 DEF StreamIInv, EndIsQueuedOrShown
  <2>9. OnlyTheEarlyAreUnlisted'
    BY <1>0, <2>1, <2>3, <2>4 DEF StreamIInv, OnlyTheEarlyAreUnlisted
  <2>10. QED
    BY <2>5, <2>6, <2>7, <2>8, <2>9 DEF StreamIInv
<1>4. CASE HangUp(w)
  BY <1>4, <1>0, ClientsOutlastSteps DEF HangUp
<1>5. QED
  BY <1>1, <1>2, <1>3, <1>4 DEF HandlerStep

-----------------------------------------------------------------------------

\* The stream does not disturb the execution: its theorems hold next to it.
THEOREM StreamRefinement == StreamSpec => Spec
<1>1. StreamInit => Init
  BY DEF StreamInit
<1>2. QED
  BY <1>1, StreamNextIsNext, PTL DEF StreamSpec, Spec

\* The inductive invariant of queues and clients.
THEOREM StreamInvariance == StreamSpec => []StreamIInv
<1>1. StreamInit => StreamIInv
  BY DEF StreamInit, Init, StreamIInv, ClientsTyped, OnlyTheEarlyAreUnlisted, NoDeadSubscriber,
         ListenersAreSubscribed, EndIsQueuedOrShown, Connected
<1>2. IInv /\ StreamIInv /\ [StreamNext]_allStreamVars => StreamIInv'
  BY TaskAndRequestSteps, ConnectionSteps DEF StreamNext
<1>3. StreamSpec => []IInv
  BY StreamRefinement, Invariance, PTL
<1>4. QED
  BY <1>1, <1>2, <1>3, PTL DEF StreamSpec

\* Whoever still waits after the task has published, and was not early, read in its
\* state_sync what VerdictAgreesWithRow allows the row of an ended run to show.
THEOREM EndReachesListeners == StreamSpec => []EndIsQueuedOrShown
<1>1. StreamIInv => EndIsQueuedOrShown
  BY DEF StreamIInv
<1>2. QED
  BY <1>1, StreamInvariance, PTL

\* A connection that is over has left its queue nowhere.
THEOREM SubscribersAreAlive == StreamSpec => []NoDeadSubscriber
<1>1. StreamIInv => NoDeadSubscriber
  BY DEF StreamIInv
<1>2. QED
  BY <1>1, StreamInvariance, PTL

\* A client that listens is in the list that the next event goes to.
THEOREM ListenersStaySubscribed == StreamSpec => []ListenersAreSubscribed
<1>1. StreamIInv => ListenersAreSubscribed
  BY DEF StreamIInv
<1>2. QED
  BY <1>1, StreamInvariance, PTL

=============================================================================
