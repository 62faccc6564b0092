--------------------------- MODULE BindingsProofs ---------------------------
(***************************************************************************)
(* Proofs about Bindings, for any requests and any items.                  *)
(***************************************************************************)
EXTENDS Bindings, TLAPS

\* A request that has not begun asks for nothing; one that has asks for
\* something.
WishShape ==
  \A r \in Requests : IF pc[r] = "idle" THEN asked[r] = NoWish ELSE asked[r] \in Wishes

\* A request that writes has found every item it wants: a missing one has
\* refused it; only requests that want something look for it.
WishIsFound ==
  \A r \in Requests :
    /\ pc[r] \in {"idle", "checking"} => found[r] = {}
    /\ pc[r] = "checking" => Wanted(asked[r]) = asked[r].items
    /\ pc[r] \in {"writing", "flushed"} => found[r] = Wanted(asked[r])

\* What a request has found is active, or was switched off since.
FoundWasActive ==
  \A r \in Requests : found[r] \subseteq active \cup since[r]

IInv == TypeOK /\ WishShape /\ WishIsFound /\ FoundWasActive

-----------------------------------------------------------------------------

\* What a wish may bind and unbind lies within the items.
LEMMA WishTypes ==
  ASSUME NEW w \in Wishes
  PROVE  /\ w.kind \in {"add", "remove", "replace"} /\ w.items \in SUBSET Items
         /\ Wanted(w) \in SUBSET Items /\ Unwanted(w) \in SUBSET Items
         /\ w # NoWish
BY DEF Wishes, Wanted, Unwanted, NoWish

LEMMA InitIInv == Init => IInv
BY DEF Init, IInv, TypeOK, WishShape, WishIsFound, FoundWasActive, InFlight, Answers

\* A commit writes the difference: it binds only what is wanted and unbinds
\* only what is not.
LEMMA DifferenceIsWished ==
  ASSUME IInv, NEW r \in Requests, pc[r] = "flushed"
  PROVE  /\ Inserts(r) = Wanted(asked[r]) \ seen[r]
         /\ Deletes(r) = seen[r] \cap Unwanted(asked[r])
<1>1. /\ asked[r] \in Wishes /\ seen[r] \in SUBSET Items
      /\ found[r] = Wanted(asked[r])
  BY DEF IInv, TypeOK, WishShape, WishIsFound
<1>2. asked[r].kind \in {"add", "remove", "replace"} /\ asked[r].items \in SUBSET Items
  BY <1>1, WishTypes
<1>3. CASE asked[r].kind = "add"
  BY <1>1, <1>3 DEF Inserts, Deletes, Assigned, Wanted, Unwanted
<1>4. CASE asked[r].kind = "remove"
  BY <1>1, <1>2, <1>4 DEF Inserts, Deletes, Assigned, Wanted, Unwanted
<1>5. CASE asked[r].kind = "replace"
  BY <1>1, <1>2, <1>5 DEF Inserts, Deletes, Assigned, Wanted, Unwanted
<1>6. QED
  BY <1>2, <1>3, <1>4, <1>5

\* One step per action.
LEMMA NextIInv == IInv /\ [Next]_vars => IInv'
<1> SUFFICES ASSUME IInv, [Next]_vars PROVE IInv'
  OBVIOUS
<1> USE DEF IInv, Goto
<1>1. ASSUME NEW r \in Requests, NEW w \in Wishes, Read(r, w)
      PROVE  IInv'
  <2>1. TypeOK'
    BY <1>1, WishTypes DEF TypeOK, Read, InFlight
  <2>2. WishShape'
    BY <1>1 DEF TypeOK, WishShape, Read
  <2>3. IF w.kind = "remove" \/ w.items = {} THEN Wanted(w) = {} ELSE Wanted(w) = w.items
    BY WishTypes DEF Wanted
  <2>4. WishIsFound'
    BY <1>1, <2>3 DEF TypeOK, WishIsFound, Read
  <2>5. FoundWasActive'
    BY <1>1 DEF FoundWasActive, Read
  <2>6. QED
    BY <2>1, <2>2, <2>4, <2>5
<1>2. ASSUME NEW r \in Requests, Check(r)
      PROVE  IInv'
  <2>1. asked[r] \in Wishes
    BY <1>2 DEF WishShape, Check
  <2>2. TypeOK'
    BY <1>2, <2>1, WishTypes DEF TypeOK, Check, InFlight, Answers
  <2>3. WishShape'
    BY <1>2 DEF TypeOK, WishShape, Check
  <2>4. WishIsFound'
    BY <1>2 DEF TypeOK, WishIsFound, Check
  <2>5. FoundWasActive'
    BY <1>2 DEF TypeOK, FoundWasActive, Check
  <2>6. QED
    BY <2>2, <2>3, <2>4, <2>5
<1>3. ASSUME NEW r \in Requests, Flush(r) \/ Fail(r)
      PROVE  IInv'
  <2>1. TypeOK'
    BY <1>3 DEF TypeOK, Flush, Fail, InFlight, Answers
  <2>2. WishShape'
    BY <1>3 DEF TypeOK, WishShape, Flush, Fail, InFlight
  <2>3. WishIsFound'
    BY <1>3 DEF TypeOK, WishIsFound, Flush, Fail, InFlight
  <2>4. FoundWasActive'
    BY <1>3 DEF FoundWasActive, Flush, Fail
  <2>5. QED
    BY <2>1, <2>2, <2>3, <2>4
<1>4. ASSUME NEW r \in Requests, Commit(r)
      PROVE  IInv'
  <2>1. Inserts(r) \in SUBSET Items
    <3>1. asked[r] \in Wishes /\ Inserts(r) = Wanted(asked[r]) \ seen[r]
      BY <1>4, DifferenceIsWished DEF WishShape, Commit
    <3>2. QED
      BY <3>1, WishTypes
  <2>2. TypeOK'
    BY <1>4, <2>1 DEF TypeOK, Commit, Difference, Answers
  <2>3. WishShape'
    BY <1>4 DEF TypeOK, WishShape, Commit
  <2>4. WishIsFound'
    BY <1>4 DEF TypeOK, WishIsFound, Commit
  <2>5. FoundWasActive'
    BY <1>4 DEF FoundWasActive, Commit
  <2>6. QED
    BY <2>2, <2>3, <2>4, <2>5
<1>5. ASSUME NEW i \in Items, Deactivate(i) \/ Activate(i)
      PROVE  IInv'
  <2>1. TypeOK'
    BY <1>5 DEF TypeOK, Deactivate, Activate
  <2>2. WishShape' /\ WishIsFound'
    BY <1>5 DEF WishShape, WishIsFound, Deactivate, Activate
  <2>3. FoundWasActive'
    BY <1>5 DEF FoundWasActive, Deactivate, Activate
  <2>4. QED
    BY <2>1, <2>2, <2>3
<1>6. CASE UNCHANGED vars
  BY <1>6 DEF TypeOK, WishShape, WishIsFound, FoundWasActive, vars
<1>7. QED
  BY <1>1, <1>2, <1>3, <1>4, <1>5, <1>6 DEF Next, Proceed

\* Every reachable state satisfies the inductive invariant.
THEOREM Invariance == Spec => []IInv
<1>1. Init => IInv
  BY InitIInv
<1>2. IInv /\ [Next]_vars => IInv'
  BY NextIInv
<1>3. QED
  BY <1>1, <1>2, PTL DEF Spec

\* The association table holds items and nothing else.
THEOREM TypeCorrect == Spec => []TypeOK
BY Invariance, PTL DEF IInv

-----------------------------------------------------------------------------
(* What a granted request has achieved.                                      *)

\* Only a commit grants, and what it writes is the difference.
LEMMA NextGrants ==
  ASSUME IInv, Next, NEW r \in Requests, pc[r] # "ok", pc'[r] = "ok"
  PROVE  Commit(r)
<1> USE DEF IInv, TypeOK, Goto
<1>1. ASSUME NEW q \in Requests, NEW w \in Wishes, Read(q, w)
      PROVE  FALSE
  BY <1>1 DEF Read
<1>2. ASSUME NEW q \in Requests, Check(q) \/ Flush(q) \/ Fail(q)
      PROVE  FALSE
  BY <1>2 DEF Check, Flush, Fail
<1>3. ASSUME NEW q \in Requests, Commit(q)
      PROVE  Commit(r)
  BY <1>3 DEF Commit
<1>4. ASSUME NEW i \in Items, Deactivate(i) \/ Activate(i)
      PROVE  FALSE
  BY <1>4 DEF Deactivate, Activate
<1>5. QED
  BY <1>1, <1>2, <1>3, <1>4 DEF Next, Proceed

\* A granted request has done what it was asked, except for what another one has
\* undone since it loaded the collection.
THEOREM GrantsAreDone == Spec => GrantedIsDone
<1>1. ASSUME IInv, [Next]_vars
      PROVE  [\A r \in Requests : pc[r] # "ok" /\ pc'[r] = "ok" =>
                /\ Wanted(asked[r]) \subseteq bound' \cup (seen[r] \ bound)
                /\ Unwanted(asked[r]) \cap bound' \subseteq bound \ seen[r]]_vars
  <2> SUFFICES ASSUME Next, NEW r \in Requests, pc[r] # "ok", pc'[r] = "ok"
               PROVE  /\ Wanted(asked[r]) \subseteq bound' \cup (seen[r] \ bound)
                      /\ Unwanted(asked[r]) \cap bound' \subseteq bound \ seen[r]
    BY <1>1
  <2>1. pc[r] = "flushed" /\ bound' = (bound \ Deletes(r)) \cup Inserts(r)
    BY <1>1, NextGrants DEF Commit, Difference
  <2>2. /\ Inserts(r) = Wanted(asked[r]) \ seen[r]
        /\ Deletes(r) = seen[r] \cap Unwanted(asked[r])
    BY <1>1, <2>1, DifferenceIsWished
  <2>3. Wanted(asked[r]) \cap Unwanted(asked[r]) = {}
    BY DEF Wanted, Unwanted
  <2>4. QED
    BY <2>1, <2>2, <2>3
<1>2. QED
  BY <1>1, Invariance, PTL DEF Spec, GrantedIsDone

\* A request binds only what was active when it looked, or has been switched off
\* since: whatever the other requests of the owner and of the items do.
THEOREM ActiveWhenBound == Spec => NothingInactiveIsBound
<1>1. ASSUME IInv, [Next]_vars
      PROVE  [\A r \in Requests : pc[r] # "ok" /\ pc'[r] = "ok" =>
                bound' \ bound \subseteq active \cup since[r]]_vars
  <2> SUFFICES ASSUME Next, NEW r \in Requests, pc[r] # "ok", pc'[r] = "ok"
               PROVE  bound' \ bound \subseteq active \cup since[r]
    BY <1>1
  <2>1. pc[r] = "flushed" /\ bound' = (bound \ Deletes(r)) \cup Inserts(r)
    BY <1>1, NextGrants DEF Commit, Difference
  <2>2. Inserts(r) = Wanted(asked[r]) \ seen[r] /\ found[r] = Wanted(asked[r])
    BY <1>1, <2>1, DifferenceIsWished DEF IInv, WishIsFound
  <2>3. found[r] \subseteq active \cup since[r]
    BY <1>1 DEF IInv, FoundWasActive
  <2>4. QED
    BY <2>1, <2>2, <2>3
<1>2. QED
  BY <1>1, Invariance, PTL DEF Spec, NothingInactiveIsBound

-----------------------------------------------------------------------------
(* The refinement of BindingSet.                                             *)

\* The two modules speak of the same wishes.
LEMMA SameWishes ==
  /\ Set!Wishes = Wishes /\ Set!NoWish = NoWish
  /\ \A w : Set!Wanted(w) = Wanted(w) /\ Set!Unwanted(w) = Unwanted(w)
BY DEF Set!Wishes, Wishes, Set!NoWish, NoWish, Set!Wanted, Wanted, Set!Unwanted, Unwanted

\* Every step of the protocol is a step of the set or leaves it unchanged.
LEMMA NextRefines == IInv /\ [Next]_vars => [Set!Next]_(Set!vars)
<1> SUFFICES ASSUME IInv, [Next]_vars PROVE Set!Next \/ UNCHANGED Set!vars
  OBVIOUS
<1> DEFINE answer == [r \in Requests |-> AnswerOf(pc[r])]
<1>1. TypeOK /\ WishShape
  BY DEF IInv
<1>2. ASSUME NEW r \in Requests, NEW w \in Wishes, Read(r, w)
      PROVE  Set!Next
  <2>1. asked[r] = NoWish /\ asked' = [asked EXCEPT ![r] = w] /\ bound' = bound
    BY <1>1, <1>2 DEF WishShape, Read
  <2>2. answer' = answer
    BY <1>1, <1>2 DEF Read, Goto, AnswerOf, Answers, TypeOK
  <2>3. Set!Ask(r, w)
    BY <2>1, <2>2, SameWishes DEF Set!Ask
  <2>4. QED
    BY <2>3, SameWishes DEF Set!Next
<1>3. ASSUME NEW r \in Requests, pc[r] \in InFlight, NEW l \in {"missing", "error"},
             pc' = [pc EXCEPT ![r] = l], UNCHANGED <<bound, asked>>
      PROVE  Set!Next
  <2>1. asked[r] # NoWish
    BY <1>1, <1>3, WishTypes DEF WishShape, InFlight
  <2>2. answer[r] = "none" /\ answer' = [answer EXCEPT ![r] = "refused"]
    BY <1>1, <1>3 DEF AnswerOf, InFlight, Answers, TypeOK
  <2>3. Set!Refuse(r)
    BY <1>3, <2>1, <2>2, SameWishes DEF Set!Refuse, Set!Pending
  <2>4. QED
    BY <2>3 DEF Set!Next
<1>4. ASSUME NEW r \in Requests, pc[r] \in InFlight, NEW l \in InFlight,
             pc' = [pc EXCEPT ![r] = l], UNCHANGED <<bound, asked>>
      PROVE  UNCHANGED Set!vars
  <2>1. answer' = answer
    BY <1>1, <1>4 DEF AnswerOf, InFlight, Answers, TypeOK
  <2>2. QED
    BY <1>4, <2>1 DEF Set!vars
<1>5. ASSUME NEW r \in Requests, Commit(r)
      PROVE  Set!Next
  <2>1. /\ pc[r] = "flushed" /\ asked' = asked /\ pc' = [pc EXCEPT ![r] = "ok"]
        /\ bound' = (bound \ Deletes(r)) \cup Inserts(r)
    BY <1>5 DEF Commit, Difference, Goto
  <2>2. asked[r] # NoWish
    BY <1>1, <2>1, WishTypes DEF WishShape
  <2>3. answer[r] = "none" /\ answer' = [answer EXCEPT ![r] = "granted"]
    BY <1>1, <2>1 DEF AnswerOf, Answers, TypeOK
  <2>4. /\ Inserts(r) \in SUBSET Set!Wanted(asked[r])
        /\ Deletes(r) \in SUBSET Set!Unwanted(asked[r])
    BY <2>1, DifferenceIsWished, SameWishes
  <2>5. Set!Grant(r)
    BY <2>1, <2>2, <2>3, <2>4, SameWishes DEF Set!Grant, Set!Pending
  <2>6. QED
    BY <2>5 DEF Set!Next
<1>6. ASSUME NEW r \in Requests, Check(r) \/ Flush(r) \/ Fail(r)
      PROVE  Set!Next \/ UNCHANGED Set!vars
  BY <1>3, <1>4, <1>6 DEF Check, Flush, Fail, Goto, InFlight
<1>7. ASSUME NEW i \in Items, Deactivate(i) \/ Activate(i)
      PROVE  UNCHANGED Set!vars
  BY <1>7 DEF Deactivate, Activate, Set!vars
<1>8. CASE UNCHANGED vars
  BY <1>8 DEF vars, Set!vars
<1>9. QED
  BY <1>2, <1>5, <1>6, <1>7, <1>8 DEF Next, Proceed

\* Requests with stale collections implement the abstract set.
THEOREM SetRefinement == Spec => ImplementsSet
<1>1. Init => Set!Init
  BY SameWishes DEF Init, Set!Init, AnswerOf, Answers
<1>2. IInv /\ [Next]_vars => [Set!Next]_(Set!vars)
  BY NextRefines
<1>3. QED
  BY <1>1, <1>2, Invariance, PTL DEF Spec, ImplementsSet, Set!Spec
=============================================================================
