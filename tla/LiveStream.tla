----------------------------- MODULE LiveStream -----------------------------
(***************************************************************************)
(* The WebSocket stream of one execution (execution_live_stream and        *)
(* _publish_event in api/executions_router.py) composed with               *)
(* ExecutionLifecycle: the entry of the dictionary _event_queues, one      *)
(* queue per connected client, and the events that the background task and *)
(* the cancel requests publish.  Heartbeats change nothing and are left    *)
(* out, except that sending one reveals a client that has left.            *)
(***************************************************************************)
EXTENDS ExecutionLifecycle, Sequences

CONSTANTS
  Watchers,            \* the WebSocket connections
  QueueSize            \* asyncio.Queue(maxsize = 100)

ASSUME QueueHasRoom == QueueSize \in Nat \ {0}

VARIABLES
  listed,              \* execution_id is a key of _event_queues
  subs,                \* the clients whose queue is in the key's list
  inbox,               \* what is waiting in each client's queue
  client,              \* where each connection stands
  seen,                \* the status in a client's state_sync, forgotten when it is closed
  left,                \* the clients that have gone away, unknown to the server
  popped,              \* the background task has removed the key
  announcing,          \* the cancels that have committed and not yet published
  early                \* history: the clients that connected before the task was launched

streamVars == <<listed, subs, inbox, client, seen, left, popped, announcing, early>>
allStreamVars == <<vars, streamVars>>

Connected == {"registered", "streaming"}

StreamTypeOK ==
  /\ TypeOK
  /\ listed \in BOOLEAN
  /\ subs \subseteq Watchers
  /\ inbox \in [Watchers -> Seq({"completed", "failed"})]
  /\ client \in [Watchers -> {"idle", "closed"} \cup Connected]
  /\ seen \in [Watchers -> {"nothing"} \cup Statuses]
  /\ left \subseteq Watchers
  /\ popped \in BOOLEAN
  /\ announcing \subseteq Cancels
  /\ early \subseteq Watchers

StreamInit ==
  /\ Init
  /\ listed = FALSE
  /\ subs = {}
  /\ inbox = [w \in Watchers |-> <<>>]
  /\ client = [w \in Watchers |-> "idle"]
  /\ seen = [w \in Watchers |-> "nothing"]
  /\ left = {}
  /\ popped = FALSE
  /\ announcing = {}
  /\ early = {}

-----------------------------------------------------------------------------
(* Publishing.                                                               *)

\* put_nowait, with QueueFull swallowed.
Put(q, e) == IF Len(q) < QueueSize THEN Append(q, e) ELSE q

PublishToFirst(e) ==
  inbox' = [w \in Watchers |->
              IF w \in subs /\ w = CHOOSE v \in subs : TRUE THEN Put(inbox[w], e) ELSE inbox[w]]
PublishEvent(e) ==
  inbox' = [w \in Watchers |-> IF w \in subs THEN Put(inbox[w], e) ELSE inbox[w]]

\* execute_workflow assigns a fresh list to the key before it creates the task:
\* the queues of early clients are in nobody's list any more.
LaunchStream ==
  /\ Launch
  /\ listed' = TRUE
  /\ subs' = {}
  /\ UNCHANGED <<inbox, client, seen, left, popped, announcing, early>>

PublishVerdict ==
  /\ Publish
  /\ PublishEvent(verdict)
  /\ UNCHANGED <<listed, subs, client, seen, left, popped, announcing, early>>

\* The "finally" of the background task comes after the event.
PopBeforePublish == bg \in {"publishing", "ended"}
MayPop == bg = "ended"

PopQueues ==
  /\ MayPop
  /\ ~popped
  /\ popped' = TRUE
  /\ listed' = FALSE
  /\ subs' = {}
  /\ UNCHANGED <<vars, inbox, client, seen, left, announcing, early>>

\* The commit of a cancel, and its event once the commit has returned.
CancelCommits(c) ==
  /\ CancelWrite(c)
  /\ announcing' = IF req'[c] = "cancelled" THEN announcing \cup {c} ELSE announcing
  /\ UNCHANGED <<listed, subs, inbox, client, seen, left, popped, early>>

CancelPublishes(c) ==
  /\ c \in announcing
  /\ announcing' = announcing \ {c}
  /\ PublishEvent("failed")
  /\ UNCHANGED <<vars, listed, subs, client, seen, left, popped, early>>

\* Every other step of the lifecycle leaves the stream alone.
OtherBgStep ==
  \/ FindNoOrchestrator \/ StartRead \/ StartWrite \/ TrackLane
  \/ \E outcome \in Outcomes : Finish(outcome)
  \/ Commit \/ Raise \/ RecordRead \/ RecordWrite \/ RecordFails

OtherStep ==
  /\ \/ CreateExecution
     \/ OtherBgStep
     \/ \E c \in Cancels : CancelRead(c) \/ RequestFails(c)
     \/ \E d \in Deletes : DeleteStep(d)
  /\ UNCHANGED streamVars

-----------------------------------------------------------------------------
(* execution_live_stream.                                                    *)

\* The handler registers the client's queue first and reads the state second.
ReadThenRegister == <<"read", "register">>
Order == <<"register", "read">>

\* A state_sync shows the status of the committed row.
Do(op, w) ==
  /\ subs' = IF op = "register" THEN subs \cup {w} ELSE subs
  /\ seen' = IF op = "read" THEN [seen EXCEPT ![w] = row.status] ELSE seen

\* Nobody has the id from the answer of the POST before the task is launched, but
\* the row is committed by then, and a client can have it from the list.

Connect(w) ==
  /\ client[w] = "idle"
  /\ bg # "absent"
  /\ client' = [client EXCEPT ![w] = "registered"]
  /\ listed' = TRUE
  /\ Do(Order[1], w)
  /\ early' = IF bg = "created" THEN early \cup {w} ELSE early
  /\ UNCHANGED <<vars, inbox, left, popped, announcing>>

SyncState(w) ==
  /\ client[w] = "registered"
  /\ w \notin left
  /\ Exists(row)
  /\ client' = [client EXCEPT ![w] = "streaming"]
  /\ Do(Order[2], w)
  /\ UNCHANGED <<vars, listed, inbox, left, popped, announcing, early>>

\* The "finally" of the handler; the key itself stays in the dictionary.
LeaveInPlace(w) ==
  /\ client' = [client EXCEPT ![w] = "closed"]
  /\ seen' = [seen EXCEPT ![w] = "nothing"]
  /\ UNCHANGED subs
Leave(w) ==
  /\ client' = [client EXCEPT ![w] = "closed"]
  /\ seen' = [seen EXCEPT ![w] = "nothing"]
  /\ subs' = subs \ {w}

RejectUnknown(w) ==
  /\ client[w] = "registered"
  /\ ~Exists(row)
  /\ Leave(w)
  /\ UNCHANGED <<vars, listed, inbox, left, popped, announcing, early>>

\* A database error of the catch-up leaves the handler through its "finally".
SyncFails(w) ==
  /\ client[w] = "registered"
  /\ Leave(w)
  /\ UNCHANGED <<vars, listed, inbox, left, popped, announcing, early>>

\* Both event types end the loop: the first event a client receives is its last.
Receive(w) ==
  /\ client[w] = "streaming"
  /\ w \notin left
  /\ inbox[w] # <<>>
  /\ inbox' = [inbox EXCEPT ![w] = Tail(@)]
  /\ Leave(w)
  /\ UNCHANGED <<vars, listed, left, popped, announcing, early>>

HangUp(w) ==
  /\ client[w] \in Connected
  /\ w \notin left
  /\ left' = left \cup {w}
  /\ UNCHANGED <<vars, listed, subs, inbox, client, seen, popped, announcing, early>>

\* WebSocketDisconnect from the next send: state, event or heartbeat.
NoticeHangUp(w) ==
  /\ client[w] \in Connected
  /\ w \in left
  /\ Leave(w)
  /\ UNCHANGED <<vars, listed, inbox, left, popped, announcing, early>>

-----------------------------------------------------------------------------

\* _event_queues and the connections live in the process.
StreamCrash ==
  /\ Crash
  /\ listed' = FALSE
  /\ subs' = {}
  /\ inbox' = [w \in Watchers |-> <<>>]
  /\ client' = [w \in Watchers |-> IF client[w] \in Connected THEN "closed" ELSE client[w]]
  /\ seen' = [w \in Watchers |-> "nothing"]
  /\ popped' = TRUE
  /\ announcing' = {}
  /\ UNCHANGED <<left, early>>

StreamQuiet ==
  /\ Quiet
  /\ popped
  /\ announcing = {}
  /\ \A w \in Watchers : client[w] \in {"streaming", "closed"}
  /\ UNCHANGED streamVars

StreamBgStep == LaunchStream \/ (OtherBgStep /\ UNCHANGED streamVars) \/ PublishVerdict

HandlerStep(w) ==
  SyncState(w) \/ RejectUnknown(w) \/ SyncFails(w) \/ Receive(w) \/ NoticeHangUp(w)

StreamNext ==
  \/ OtherStep
  \/ LaunchStream \/ PublishVerdict \/ PopQueues
  \/ \E c \in Cancels : CancelCommits(c) \/ CancelPublishes(c)
  \/ \E w \in Watchers : Connect(w) \/ HandlerStep(w) \/ HangUp(w)
  \/ StreamCrash
  \/ StreamQuiet

StreamSpec == StreamInit /\ [][StreamNext]_allStreamVars

\* The event loop runs the task and every handler that can go on.
StreamFairness ==
  /\ WF_allStreamVars(StreamBgStep)
  /\ WF_allStreamVars(PopQueues)
  /\ \A c \in Cancels : WF_allStreamVars(CancelPublishes(c))
  /\ \A w \in Watchers : WF_allStreamVars(HandlerStep(w))

StreamFairSpec == StreamSpec /\ StreamFairness

-----------------------------------------------------------------------------
(* Safety.                                                                   *)

\* No client falls between the catch-up and the events: one that still waits
\* with an empty queue after the task has published saw an end of the execution
\* in its state_sync.  It rests on the queue being registered before the row is
\* read.  Not promised: to early clients, whose queue the launch discards, and
\* where the row does not show the end: a late client is then told "running"
\* (failed synthesis) or "pending" (no orchestrator, failed handler) and waits.
Shows(status) ==
  \/ status \in {"completed", "failed", "cancelled"}
  \/ status = "running" /\ lapse = "synthesis"
  \/ status = "pending" /\ lapse \in {"no orchestrator", "handler"}

EndIsQueuedOrShown ==
  \A w \in Watchers \ early :
    bg = "ended" /\ client[w] = "streaming" /\ inbox[w] = <<>> => Shows(seen[w])

\* A connection that is over has left its queue in no list, so that no later
\* event, and cancels still publish, is put where nobody reads.  (The key of a
\* client that comes after the task has popped it stays in the dictionary.)
NoDeadSubscriber == \A w \in subs : client[w] \in Connected

\* A client that listens is in the list that the task's event goes to.  Not
\* promised: to early clients, and once the task has published, when the list is
\* popped and the event of a later cancel reaches none of those who had waited.
ListenersAreSubscribed ==
  \A w \in Watchers \ early :
    client[w] \in Connected /\ bg \notin {"ended", "lost"} => w \in subs

-----------------------------------------------------------------------------
(* Liveness.                                                                 *)

\* A client subscribed while the run is under way is released: it receives a
\* terminal event, or it left, or the process died.
SubscribersAreReleased ==
  \A w \in Watchers :
    w \in subs /\ bg \notin {"created", "ended", "lost"} ~> client[w] = "closed"

=============================================================================
