----------------------------- MODULE BindingSet -----------------------------
(***************************************************************************)
(* What a client may rely on when it changes which sub-agents are bound to *)
(* an orchestrator, or which tools to a sub-agent, while others do the     *)
(* same: a request is granted or refused as a whole, it binds only what it *)
(* names and unbinds only what it speaks against.  Bindings is the         *)
(* protocol of sessions that implements it.                                *)
(***************************************************************************)
EXTENDS FiniteSets

CONSTANTS
  Requests,            \* the requests that change the bindings of one owner
  Items                \* what can be bound to it

VARIABLES
  bound,               \* the committed bindings
  asked,               \* what each request asks for
  answer               \* "none", "granted" or "refused"

vars == <<bound, asked, answer>>

Wishes ==
  [kind : {"add", "remove"}, items : {{i} : i \in Items}]
    \cup [kind : {"replace"}, items : SUBSET Items]

NoWish == [kind |-> "none", items |-> {}]

\* What a request may bind, and what it may unbind.
Wanted(w) == IF w.kind \in {"add", "replace"} THEN w.items ELSE {}

Unwanted(w) ==
  IF w.kind = "remove" THEN w.items
  ELSE IF w.kind = "replace" THEN Items \ w.items
  ELSE {}

Init ==
  /\ bound \in SUBSET Items
  /\ asked = [r \in Requests |-> NoWish]
  /\ answer = [r \in Requests |-> "none"]

Ask(r, w) ==
  /\ asked[r] = NoWish
  /\ asked' = [asked EXCEPT ![r] = w]
  /\ UNCHANGED <<bound, answer>>

Pending(r) == asked[r] # NoWish /\ answer[r] = "none"

Grant(r) ==
  /\ Pending(r)
  /\ answer' = [answer EXCEPT ![r] = "granted"]
  /\ \E in \in SUBSET Wanted(asked[r]), out \in SUBSET Unwanted(asked[r]) :
       bound' = (bound \ out) \cup in
  /\ UNCHANGED asked

Refuse(r) ==
  /\ Pending(r)
  /\ answer' = [answer EXCEPT ![r] = "refused"]
  /\ UNCHANGED <<bound, asked>>

Next == \E r \in Requests : (\E w \in Wishes : Ask(r, w)) \/ Grant(r) \/ Refuse(r)

Spec == Init /\ [][Next]_vars
=============================================================================
