------------------------------ MODULE Bindings ------------------------------
(***************************************************************************)
(* The rows of one owner in an association table, and the requests that    *)
(* change them: bind_sub_agents, add_sub_agent and remove_sub_agent of an  *)
(* orchestrator (services/orchestrator_service.py).  The functions         *)
(* bind_tools, add_tool and remove_tool of a sub-agent                     *)
(* (services/sub_agent_service.py) are the same code over another table.   *)
(*                                                                         *)
(* A request loads the collection, replaces it, and flushes the difference *)
(* to what it loaded: SQLAlchemy inserts and deletes single rows.  The     *)
(* rows are locked until COMMIT; a key that another session has inserted   *)
(* in the meantime is an IntegrityError, which no handler catches.         *)
(***************************************************************************)
EXTENDS FiniteSets

CONSTANTS
  Requests,            \* the requests that change the bindings of one owner
  Items                \* what can be bound to it

VARIABLES
  bound,               \* the committed rows of the association table
  active,              \* the items whose committed is_active is true
  pc,                  \* where each request stands, or its answer
  asked,               \* what each request asks for
  seen,                \* the collection as the request loaded it
  found,               \* the active items the request's second SELECT returned
  since                \* history: which of them were switched off afterwards

vars == <<bound, active, pc, asked, seen, found, since>>

Wishes ==
  [kind : {"add", "remove"}, items : {{i} : i \in Items}]
    \cup [kind : {"replace"}, items : SUBSET Items]

NoWish == [kind |-> "none", items |-> {}]

InFlight == {"checking", "writing", "flushed"}
Answers  == {"ok", "missing", "error"}

TypeOK ==
  /\ bound \in SUBSET Items
  /\ active \in SUBSET Items
  /\ pc \in [Requests -> {"idle"} \cup InFlight \cup Answers]
  /\ asked \in [Requests -> Wishes \cup {NoWish}]
  /\ seen \in [Requests -> SUBSET Items]
  /\ found \in [Requests -> SUBSET Items]
  /\ since \in [Requests -> SUBSET Items]

\* create_orchestrator binds what it is given; items are switched off later.
Init ==
  /\ bound \in SUBSET Items
  /\ active \in SUBSET Items
  /\ pc = [r \in Requests |-> "idle"]
  /\ asked = [r \in Requests |-> NoWish]
  /\ seen = [r \in Requests |-> {}]
  /\ found = [r \in Requests |-> {}]
  /\ since = [r \in Requests |-> {}]

Goto(r, l) == pc' = [pc EXCEPT ![r] = l]

-----------------------------------------------------------------------------
(* A request.                                                                *)

\* get_orchestrator loads the owner and its collection; an unbinding and an
\* empty list look up no items.
Read(r, w) ==
  /\ pc[r] = "idle"
  /\ asked' = [asked EXCEPT ![r] = w]
  /\ seen' = [seen EXCEPT ![r] = bound]
  /\ Goto(r, IF w.kind = "remove" \/ w.items = {} THEN "writing" ELSE "checking")
  /\ UNCHANGED <<bound, active, found, since>>

\* _load_sub_agents: one missing or inactive item refuses the request.
CheckExistence(r) ==
  /\ pc[r] = "checking"
  /\ found' = [found EXCEPT ![r] = asked[r].items]
  /\ Goto(r, "writing")
  /\ UNCHANGED <<bound, active, asked, seen, since>>

Check(r) ==
  /\ pc[r] = "checking"
  /\ found' = [found EXCEPT ![r] = asked[r].items \cap active]
  /\ Goto(r, IF asked[r].items \subseteq active THEN "writing" ELSE "missing")
  /\ UNCHANGED <<bound, active, asked, seen, since>>

\* The list the request assigns to the collection.
AssignedNested(r) ==
  IF asked[r].kind = "add" THEN seen[r] \cup {found[r]}
  ELSE IF asked[r].kind = "remove" THEN seen[r] \ asked[r].items
  ELSE found[r]

Assigned(r) ==
  IF asked[r].kind = "add" THEN seen[r] \cup found[r]
  ELSE IF asked[r].kind = "remove" THEN seen[r] \ asked[r].items
  ELSE found[r]

\* The unit of work writes the difference to what was loaded.
NoDeletes(r) == {}

Inserts(r) == Assigned(r) \ seen[r]
Deletes(r) == seen[r] \ Assigned(r)

Rows(r) == Inserts(r) \cup Deletes(r)

\* The SELECTs lock nothing; a written row stays locked to the end of the transaction.
HoldersFromTheRead == {"writing", "flushed"}
Holders == {"flushed"}
Free(r) == \A q \in Requests \ {r} : pc[q] \in Holders => Rows(q) \cap Rows(r) = {}

Collides(r) == Inserts(r) \cap bound # {}

Flush(r) ==
  /\ pc[r] = "writing"
  /\ Free(r)
  /\ Goto(r, IF Collides(r) THEN "error" ELSE "flushed")
  /\ UNCHANGED <<bound, active, asked, seen, found, since>>

WholeCollection(r) == Assigned(r)
Difference(r) == (bound \ Deletes(r)) \cup Inserts(r)

Commit(r) ==
  /\ pc[r] = "flushed"
  /\ bound' = Difference(r)
  /\ Goto(r, "ok")
  /\ UNCHANGED <<active, asked, seen, found, since>>

\* Any await may raise; the session rolls back.  That covers a DELETE of a row
\* that is gone, which the driver may or may not report, and a deadlock broken
\* by the database.
Fail(r) ==
  /\ pc[r] \in InFlight
  /\ Goto(r, "error")
  /\ UNCHANGED <<bound, active, asked, seen, found, since>>

-----------------------------------------------------------------------------
(* The items' own requests: one column of one row, the last writer wins.     *)

Deactivate(i) ==
  /\ active' = active \ {i}
  /\ since' = [r \in Requests |-> since[r] \cup ({i} \cap found[r])]
  /\ UNCHANGED <<bound, pc, asked, seen, found>>

Activate(i) ==
  /\ active' = active \cup {i}
  /\ UNCHANGED <<bound, pc, asked, seen, found, since>>

-----------------------------------------------------------------------------

Proceed(r) == Check(r) \/ Flush(r) \/ Commit(r)

Next ==
  \/ \E r \in Requests : (\E w \in Wishes : Read(r, w)) \/ Proceed(r) \/ Fail(r)
  \/ \E i \in Items : Deactivate(i) \/ Activate(i)

Spec == Init /\ [][Next]_vars

\* Every await returns or raises; a lock that is free is given.
Fairness == \A r \in Requests : WF_vars(Proceed(r))

FairSpec == Spec /\ Fairness

-----------------------------------------------------------------------------
(* What a granted request has achieved.                                      *)

Wanted(w) == IF w.kind \in {"add", "replace"} THEN w.items ELSE {}

Unwanted(w) ==
  IF w.kind = "remove" THEN w.items
  ELSE IF w.kind = "replace" THEN Items \ w.items
  ELSE {}

\* At the moment a request is granted, all it wants is bound and all it speaks
\* against is not, except where another request has undone it since the
\* collection was loaded: stale collections lose nothing else.
GrantedIsDone ==
  [][\A r \in Requests : pc[r] # "ok" /\ pc'[r] = "ok" =>
       /\ Wanted(asked[r]) \subseteq bound' \cup (seen[r] \ bound)
       /\ Unwanted(asked[r]) \cap bound' \subseteq bound \ seen[r]]_vars

\* A request binds no inactive item, except one that was switched off after the
\* request had looked: the SELECT that asks for is_active locks nothing, and the
\* UPDATE that switches an item off neither waits for its bindings nor ends them.
NothingInactiveIsBound ==
  [][\A r \in Requests : pc[r] # "ok" /\ pc'[r] = "ok" =>
       bound' \ bound \subseteq active \cup since[r]]_vars

\* A request that has begun is answered: it waits only for rows of a request that
\* is itself about to commit or to fail.
RequestsAreAnswered ==
  \A r \in Requests : pc[r] \in InFlight ~> pc[r] \in Answers

-----------------------------------------------------------------------------
(* The promise of BindingSet.                                                *)

AnswerOf(l) ==
  IF l = "ok" THEN "granted" ELSE IF l \in Answers THEN "refused" ELSE "none"

Set == INSTANCE BindingSet WITH answer <- [r \in Requests |-> AnswerOf(pc[r])]

\* The requests, each with its own stale collection, implement the abstract set:
\* nobody's binding is lost to a request that does not speak against it.
ImplementsSet == Set!Spec
=============================================================================
