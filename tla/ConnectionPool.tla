--------------------------- MODULE ConnectionPool ---------------------------
(***************************************************************************)
(* The connection pool of database.py composed with ExecutionLifecycle.    *)
(* Every database session of the service takes one connection out of a     *)
(* bounded pool at its first statement and gives it back when it commits   *)
(* or is closed.  A session that finds none waits, at most pool_timeout    *)
(* seconds, then its first statement raises.                               *)
(*                                                                         *)
(* A run keeps its connection during all language model calls, a cancel or *)
(* delete keeps one while it waits for the run's row lock, and the failure *)
(* handler needs a second one.                                             *)
(***************************************************************************)
EXTENDS ExecutionLifecycle

CONSTANTS
  Others,              \* sessions of other executions, readers and clients
  PoolSize             \* pool_size + max_overflow, 5 + 10

ASSUME PoolIsNotEmpty == PoolSize \in Nat \ {0}

\* The sessions of this execution: of the request that creates it, of its run
\* and of the run's failure handler.
TaskSessions == {"run", "handler"}
Sessions == {"creator"} \cup TaskSessions \cup Requests \cup Others

ASSUME SessionsAreDistinct ==
  /\ ({"creator"} \cup TaskSessions) \cap (Requests \cup Others) = {}
  /\ Requests \cap Others = {}
  /\ IsFiniteSet(Sessions)

VARIABLES
  held,                \* the sessions that have a connection
  waiting,             \* the sessions that wait for one
  refused              \* the requests that failed for want of one

poolVars == <<held, waiting, refused>>
allPoolVars == <<vars, poolVars>>

PoolTypeOK ==
  /\ held \subseteq Sessions
  /\ Cardinality(held) <= PoolSize
  /\ waiting \subseteq Sessions \ held
  /\ refused \subseteq Requests

PoolInit ==
  /\ Init
  /\ held = {}
  /\ waiting = {}
  /\ refused = {}

-----------------------------------------------------------------------------
(* The pool.                                                                 *)

Exhausted == Cardinality(held) >= PoolSize

\* A session is at its first statement.
Begins(s) ==
  \/ s = "creator" /\ bg = "absent"
  \/ s = "run" /\ bg = "loading"
  \/ s = "handler" /\ bg = "recording"
  \/ s \in Requests /\ req[s] = "idle" /\ s \notin refused /\ bg # "absent"
  \/ s \in Others

Enter(s) ==
  /\ Begins(s)
  /\ s \notin held \cup waiting
  /\ waiting' = waiting \cup {s}
  /\ UNCHANGED <<vars, held, refused>>

Checkout(s) ==
  /\ s \in waiting
  /\ ~Exhausted
  /\ held' = held \cup {s}
  /\ waiting' = waiting \ {s}
  /\ UNCHANGED <<vars, refused>>

NeverTimesOut == FALSE
TimesOut == Exhausted

\* PostgreSQL may refuse the connection that the pool opens.
Refuses == ~Exhausted

\* The exception of the first statement, and who handles it.
CheckoutFails(s) ==
  /\ s \in waiting
  /\ TimesOut \/ Refuses
  /\ waiting' = waiting \ {s}
  /\ \/ s = "run" /\ Raise
     \/ s = "handler" /\ RecordFails
     \/ s \notin TaskSessions /\ UNCHANGED vars
  /\ refused' = IF s \in Requests THEN refused \cup {s} ELSE refused
  /\ UNCHANGED held

GiveBack(s) ==
  /\ held' = held \ {s}
  /\ UNCHANGED <<waiting, refused>>

-----------------------------------------------------------------------------
(* The sessions of the execution: the steps of ExecutionLifecycle, each with *)
(* what it does to the session's connection.                                 *)

\* commit() gives the connection back before the task is created.
CreatorCommits ==
  /\ "creator" \in held
  /\ CreateExecution
  /\ GiveBack("creator")

RunKeeps ==
  /\ "run" \in held
  /\ StartRead \/ StartWrite \/ TrackLane \/ \E outcome \in Outcomes : Finish(outcome)
  /\ UNCHANGED poolVars

RunCommits ==
  /\ "run" \in held
  /\ FindNoOrchestrator \/ Commit
  /\ GiveBack("run")

\* The handler follows the "async with" block of the run, and is not inside it.
HandlerInsideTheBlock == held
HeldAfterRaise == held \ {"run"}

RunRaises ==
  /\ "run" \in held
  /\ Raise
  /\ held' = HeldAfterRaise
  /\ UNCHANGED <<waiting, refused>>

HandlerReads ==
  /\ "handler" \in held
  /\ RecordRead
  /\ UNCHANGED poolVars

HandlerEnds ==
  /\ "handler" \in held
  /\ RecordWrite \/ RecordFails
  /\ GiveBack("handler")

WithoutSession ==
  /\ Launch \/ Publish
  /\ UNCHANGED poolVars

\* The answers 404 and 409 leave the connection to the end of the dependency.
RequestReads(r) ==
  /\ r \in held
  /\ \/ r \in Cancels /\ CancelRead(r)
     \/ r \in Deletes /\ DeleteRead(r)
  /\ UNCHANGED poolVars

RequestWrites(r) ==
  /\ r \in held
  /\ \/ r \in Cancels /\ CancelWrite(r)
     \/ r \in Deletes /\ DeleteWrite(r)
  /\ GiveBack(r)

\* An error of the SELECT, flush or commit: get_db's "async with" closes the session.
RequestErrs(r) ==
  /\ r \in held
  /\ RequestFails(r)
  /\ GiveBack(r)

\* get_db closes the session of a request that has its answer, an error included.
WithoutErrors(r) == req[r] \in {"cancelled", "deleted"}
IsOver(r) == req[r] \in Answers

Close(s) ==
  /\ s \in held
  /\ \/ s \in Requests /\ IsOver(s)
     \/ s \in Others \cup {"creator"}
  /\ UNCHANGED vars
  /\ GiveBack(s)

\* The pool dies with the process, and so do the sessions that wait.
PoolCrash ==
  /\ Crash
  /\ held' = {}
  /\ waiting' = {}
  /\ refused' = refused \cup {r \in Requests : req[r] = "idle" /\ r \in held \cup waiting}

-----------------------------------------------------------------------------

TaskStep ==
  \/ \E s \in TaskSessions : Enter(s)
  \/ RunKeeps \/ RunCommits \/ RunRaises \/ HandlerReads \/ HandlerEnds
  \/ WithoutSession

RequestStep(r) == RequestReads(r) \/ RequestWrites(r)

Serve(s) == Checkout(s) \/ CheckoutFails(s)

PoolNext ==
  \/ CreatorCommits
  \/ TaskStep
  \/ \E r \in Requests : RequestStep(r) \/ RequestErrs(r)
  \/ \E s \in Sessions : Enter(s) \/ Serve(s) \/ Close(s)
  \/ PoolCrash

PoolSpec == PoolInit /\ [][PoolNext]_allPoolVars

\* Who has a connection goes on, who waits is served or times out.  Nothing is
\* assumed of other sessions: they may keep their connections for ever.
PoolFairness ==
  /\ WF_allPoolVars(TaskStep)
  /\ \A s \in TaskSessions \cup Requests : WF_allPoolVars(Serve(s))
  /\ \A r \in Requests : WF_allPoolVars(RequestStep(r)) /\ WF_allPoolVars(Close(r))

PoolFairSpec == PoolSpec /\ PoolFairness

-----------------------------------------------------------------------------
(* Safety.                                                                   *)

\* Nobody waits for a connection while keeping one, nor while keeping the row's
\* lock.  The run and its handler are two sessions of one task, and each cancel
\* may wait for the lock: one connection kept too long would let fifteen
\* failing runs wait for each other.
NoHoldAndWait ==
  /\ TaskSessions \cap waiting # {} => TaskSessions \cap held = {}
  /\ Locked => "run" \in held

\* An exhausted pool is not a deadlock: however many cancels and deletes keep
\* connections while they wait for the run's row lock, some session that has a
\* connection waits for nothing.
WaitsForLock(s) == s \in Requests /\ req[s] = "checked" /\ Locked
WaitsForSibling(s) == s = "run" /\ "handler" \in waiting

NoCircularWait ==
  waiting # {} /\ Exhausted =>
    \E s \in held : ~WaitsForLock(s) /\ ~WaitsForSibling(s)

-----------------------------------------------------------------------------
(* Liveness.                                                                 *)

\* No path leaks a connection: not the answers 404 and 409, not an exception in
\* the run, in a write or in the handler.
ConnectionsReturn ==
  \A s \in TaskSessions \cup Requests : s \in held ~> s \notin held

\* With the pool the execution is still one of ExecutionLifecycle, fairness
\* included: what that module assumes of the task and of requests follows from
\* the timeout of the pool, although other sessions may never let go.
ImplementsLifecycle == FairSpec
=============================================================================
