------------------------- MODULE MasterRunnerProofs -------------------------
(***************************************************************************)
(* Proofs about MasterRunner, for any sub-agents, any number of rounds and *)
(* any length of plans.  They rest on one inductive invariant, IInv.       *)
(***************************************************************************)
EXTENDS MasterRunner, DataInduction

Early   == {"loading", "starting", "opening"}
InRound == {"delegating", "executing", "recording"}
Late    == {"planning", "synthesizing", "finalizing"} \cup InRound

\* The lanes the round has opened for its delegations.
Opened == IF pc = "delegating" THEN cursor - 1 ELSE Len(delegations)

\* Where the round stands, told from pc.
RoundShape ==
  /\ pc \in Early => results = <<>>
  /\ pc \notin InRound \cup {"raised"} => delegations = <<>>
  /\ pc \in {"delegating", "recording"} => cursor \in 1 .. Len(delegations) + 1
  /\ pc = "delegating" => \A i \in DOMAIN delegations : delegations[i].status = "pending"
  /\ pc = "recording" => \A i \in DOMAIN delegations : Over(delegations[i])

\* The lanes are numbered without a gap: the master's, one for each result, one
\* for each delegation opened so far.
LaneNumbers ==
  /\ pc \in Early => DOMAIN lanes = {}
  /\ pc \in Late => DOMAIN lanes = 0 .. Len(results) + Opened
  /\ pc \notin {"clash"}

\* Every round has room for one plan.
Room ==
  /\ Len(results) + Len(delegations) <= iteration * MaxPlan
  /\ DOMAIN lanes \subseteq 0 .. iteration * MaxPlan

Matches(lane, r) ==
  /\ lane.actor = r.agent
  /\ lane.status = r.status
  /\ lane.prompt + lane.completion = r.tokens

\* Lane k belongs to result k, and behind the results to the delegations: those
\* recorded match already, the others have no step yet.
LaneOwners ==
  /\ pc \in Late => \A k \in 1 .. Len(results) : Matches(lanes[k], results[k])
  /\ pc \in InRound => \A j \in 1 .. Opened :
       LET lane == lanes[Len(results) + j]
       IN /\ lane.actor = delegations[j].agent
          /\ IF pc = "recording" /\ j < cursor
             THEN Matches(lane, delegations[j])
             ELSE lane.steps = 0

\* A run without an orchestrator has ended before it recorded anything.
NoOrchestrator == error = "no orchestrator" => pc = "done"

IInv ==
  /\ TypeOK
  /\ RoundShape
  /\ LaneNumbers
  /\ Room
  /\ LaneOwners
  /\ NoOrchestrator

-----------------------------------------------------------------------------

KnownPlans == UNION {[1 .. n -> Agents] : n \in 0 .. MaxPlan}

\* Whatever names a list has, the known ones are a list of sub-agents, and no
\* longer: by induction over the length of the list.
LEMMA KnownNamesAreAgents ==
  \A n \in Nat : \A names \in [1 .. n -> Agents \cup {Unknown}] :
    KnownNames(names) \in Seq(Agents) /\ Len(KnownNames(names)) <= n
<1> DEFINE parts(names) == [i \in DOMAIN names |-> KnownOrNothing(names[i])]
           Fine(n) == \A names \in [1 .. n -> Agents \cup {Unknown}] :
                        /\ FlattenSeq(parts(names)) \in Seq(Agents)
                        /\ Len(FlattenSeq(parts(names))) <= n
           T == {n \in Nat : Fine(n)}
<1>1. ASSUME NEW name PROVE KnownOrNothing(name) \in Seq(Agents) /\ Len(KnownOrNothing(name)) \in {0, 1}
  <2>1. CASE name \in Agents
    <3>1. KnownOrNothing(name) = <<name>>
      BY <2>1 DEF KnownOrNothing
    <3>2. <<name>> \in Seq(Agents) /\ Len(<<name>>) \in {0, 1}
      BY <2>1
    <3>3. QED
      BY <3>1, <3>2
  <2>2. CASE name \notin Agents
    <3>1. KnownOrNothing(name) = <<>>
      BY <2>2 DEF KnownOrNothing
    <3>2. <<>> \in Seq(Agents) /\ Len(<<>>) \in {0, 1}
      OBVIOUS
    <3>3. QED
      BY <3>1, <3>2
  <2>3. QED
    BY <2>1, <2>2
<1>2. Fine(0)
  <2> SUFFICES ASSUME NEW names \in [1 .. 0 -> Agents \cup {Unknown}]
               PROVE  /\ FlattenSeq(parts(names)) \in Seq(Agents)
                      /\ Len(FlattenSeq(parts(names))) <= 0
    OBVIOUS
  <2>1. parts(names) = <<>>
    OBVIOUS
  <2> HIDE DEF parts
  <2>2. FlattenSeq(<<>>) = <<>>
    BY DEF FlattenSeq
  <2>3. FlattenSeq(parts(names)) = <<>>
    BY <2>1, <2>2
  <2>4. <<>> \in Seq(Agents) /\ Len(<<>>) <= 0
    OBVIOUS
  <2>5. QED
    BY <2>3, <2>4
<1>3. ASSUME NEW n \in Nat, Fine(n) PROVE Fine(n + 1)
  <2> SUFFICES ASSUME NEW names \in [1 .. n + 1 -> Agents \cup {Unknown}]
               PROVE  /\ FlattenSeq(parts(names)) \in Seq(Agents)
                      /\ Len(FlattenSeq(parts(names))) <= n + 1
    OBVIOUS
  <2> DEFINE front == [i \in 1 .. n |-> names[i]]
             last == KnownOrNothing(names[n + 1])
  <2>1. front \in [1 .. n -> Agents \cup {Unknown}]
    OBVIOUS
  <2>2. FlattenSeq(parts(front)) \in Seq(Agents) /\ Len(FlattenSeq(parts(front))) <= n
    BY <1>3, <2>1
  <2>3. last \in Seq(Agents) /\ Len(last) \in {0, 1}
    BY <1>1
  <2>4. parts(front) \in Seq(Seq(Agents)) /\ Len(parts(front)) = n
    <3>1. parts(front) \in [1 .. n -> Seq(Agents)]
      BY <1>1
    <3>2. ASSUME NEW f \in [1 .. n -> Seq(Agents)]
          PROVE  f \in Seq(Seq(Agents)) /\ Len(f) = n
      OBVIOUS
    <3> HIDE DEF parts, front
    <3>3. QED
      BY <3>1, <3>2
  <2>5. parts(names) = Append(parts(front), last)
    <3>1. parts(names) = [i \in 1 .. n + 1 |-> KnownOrNothing(names[i])]
      OBVIOUS
    <3>2. parts(front) = [i \in 1 .. n |-> KnownOrNothing(names[i])]
      OBVIOUS
    <3> HIDE DEF parts, front
    <3>3. Append(parts(front), last) =
            [i \in 1 .. n + 1 |-> IF i = n + 1 THEN last ELSE parts(front)[i]]
      BY <2>3, <2>4
    <3>4. QED
      BY <3>1, <3>2, <3>3
  <2> HIDE DEF parts, front, last
  <2>6. FlattenSeq(parts(names)) = FlattenSeq(parts(front)) \o last
    BY <2>3, <2>4, <2>5, FlattenAppend
  <2>7. QED
    BY <2>2, <2>3, <2>6
<1>4. Nat \subseteq T
  <2>1. 0 \in T /\ \A n \in Nat : n \in T => n + 1 \in T
    BY <1>2, <1>3
  <2> HIDE DEF T
  <2>2. QED
    BY <2>1, NumberInduction
<1>5. QED
  BY <1>4 DEF KnownNames

LEMMA KnownNamesOfPlan == \A names \in Plans : KnownNames(names) \in KnownPlans
<1> SUFFICES ASSUME NEW names \in Plans PROVE KnownNames(names) \in KnownPlans
  OBVIOUS
<1>1. PICK n \in 1 .. MaxPlan : names \in [1 .. n -> Agents \cup {Unknown}]
  BY DEF Plans
<1>2. n \in Nat /\ n <= MaxPlan /\ MaxPlan \in Nat
  BY BoundsAreNatural
<1>3. KnownNames(names) \in Seq(Agents) /\ Len(KnownNames(names)) <= n
  BY <1>1, <1>2, KnownNamesAreAgents
<1>4. Len(KnownNames(names)) \in 0 .. MaxPlan
  BY <1>2, <1>3
<1>5. KnownNames(names) \in [1 .. Len(KnownNames(names)) -> Agents]
  BY <1>3
<1>6. QED
  BY <1>4, <1>5 DEF KnownPlans

\* The arithmetic of rooms: an iteration adds the room of one plan.
LEMMA RoomArithmetic ==
  ASSUME NEW n \in Nat
  PROVE  /\ n * MaxPlan \in Nat
         /\ (n + 1) * MaxPlan = n * MaxPlan + MaxPlan
         /\ n <= MaxIterations => n * MaxPlan <= MaxIterations * MaxPlan
BY BoundsAreNatural, IterationsArePositive, SMT

\* What the types say of the two lists and of the lanes.
LEMMA Lists ==
  ASSUME TypeOK
  PROVE  /\ Len(delegations) \in Nat /\ DOMAIN delegations = 1 .. Len(delegations)
         /\ \A i \in DOMAIN delegations : delegations[i] \in Delegation
         /\ Len(results) \in Nat /\ DOMAIN results = 1 .. Len(results)
         /\ \A k \in DOMAIN results : results[k] \in Result
         /\ \A k \in DOMAIN lanes : lanes[k] \in Lane
         /\ cursor \in Nat /\ iteration \in Nat /\ iteration <= MaxIterations
<1>1. /\ delegations \in Seq(Delegation)
      /\ results \in Seq(Result)
      /\ lanes \in [DOMAIN lanes -> Lane]
      /\ cursor \in Nat
      /\ iteration \in 0 .. MaxIterations
  BY DEF TypeOK
<1>2. QED
  BY <1>1, IterationsArePositive

\* Before the load of the workflow nothing is recorded.
LEMMA InitIInv == Init => IInv
<1> SUFFICES ASSUME Init PROVE IInv
  OBVIOUS
<1>1. DOMAIN lanes = {} /\ lanes \in [{} -> Lane]
  BY DEF Init
<1>2. /\ delegations \in Seq(Delegation) /\ Len(delegations) = 0 /\ DOMAIN delegations = {}
      /\ results \in Seq(Result) /\ Len(results) = 0
  <2>1. delegations = <<>> /\ results = <<>>
    BY DEF Init
  <2>2. QED
    BY <2>1
<1>3. TypeOK
  <2>1. iteration = 0
    BY DEF Init
  <2>2. iteration \in 0 .. MaxIterations
    BY <2>1, IterationsArePositive
  <2>3. QED
    BY <1>1, <1>2, <2>2 DEF Init, TypeOK
<1>4. RoundShape /\ LaneNumbers /\ LaneOwners
  BY <1>1, <1>2 DEF Init, RoundShape, LaneNumbers, LaneOwners, Early, Late, InRound
<1>5. Room
  <2>1. 0 * MaxPlan = 0
    BY BoundsAreNatural
  <2>2. iteration = 0
    BY DEF Init
  <2>3. QED
    BY <1>1, <1>2, <2>1, <2>2 DEF Room
<1>6. NoOrchestrator
  BY DEF Init, NoOrchestrator
<1>7. QED
  BY <1>3, <1>4, <1>5, <1>6 DEF IInv

-----------------------------------------------------------------------------
(* Steps that only move on: no lane, no delegation and no result changes.    *)

\* A step that changes no lane, delegation or result keeps the invariant, if pc
\* goes where the lists it leaves behind belong.
LEMMA MovesOn ==
  ASSUME IInv, UNCHANGED <<strategy, iteration, delegations, results, lanes>>,
         TypeOK', RoundShape', NoOrchestrator',
         pc' \notin {"clash"},
         pc' \in Early => pc \in Early,
         pc' \in Late => pc \in Late /\ Opened' = Opened,
         pc' \in InRound => pc \in InRound /\ (pc = "recording" => pc' = "recording"),
         pc' = "recording" => IF pc = "recording" THEN cursor' = cursor ELSE cursor' = 1
  PROVE  IInv'
<1>1. LaneNumbers'
  BY DEF IInv, LaneNumbers
<1>2. Room'
  BY DEF IInv, Room
<1>3. LaneOwners'
  <2>1. ASSUME pc' \in Late, NEW k \in 1 .. Len(results)
        PROVE  Matches(lanes[k], results[k])
    BY <2>1 DEF IInv, LaneOwners
  <2>2. ASSUME pc' \in InRound, NEW j \in 1 .. Opened
        PROVE  LET lane == lanes[Len(results) + j]
               IN /\ lane.actor = delegations[j].agent
                  /\ IF pc' = "recording" /\ j < cursor'
                     THEN Matches(lane, delegations[j])
                     ELSE lane.steps = 0
    BY <2>2 DEF IInv, LaneOwners, InRound
  <2>3. QED
    BY <2>1, <2>2 DEF LaneOwners, Matches, InRound, Late
<1>4. QED
  BY <1>1, <1>2, <1>3 DEF IInv

\* The early exit, the calls before the loop, the ends of the phases, and an
\* exception from the tracker.
LEMMA Moves ==
  ASSUME IInv, FindNoOrchestrator \/ StartExecution \/ PlanExhausted \/ Execute \/ Collect
               \/ UsePlanAsAnswer \/ Raise
  PROVE  IInv'
<1> USE DEF Goto, InRound, Early, Late
<1>1. TypeOK /\ RoundShape /\ NoOrchestrator
  BY DEF IInv
<1>2. CASE FindNoOrchestrator
  <2>1. TypeOK' /\ RoundShape' /\ NoOrchestrator'
    BY <1>1, <1>2 DEF FindNoOrchestrator, TypeOK, RoundShape, NoOrchestrator
  <2>2. QED
    BY <1>2, <2>1, MovesOn DEF FindNoOrchestrator
<1>3. CASE StartExecution
  <2>1. TypeOK' /\ RoundShape' /\ NoOrchestrator'
    BY <1>1, <1>3 DEF StartExecution, TypeOK, RoundShape, NoOrchestrator
  <2>2. QED
    BY <1>3, <2>1, MovesOn DEF StartExecution
<1>4. CASE PlanExhausted \/ UsePlanAsAnswer
  <2>1. TypeOK' /\ RoundShape' /\ NoOrchestrator'
    BY <1>1, <1>4 DEF PlanExhausted, UsePlanAsAnswer, TypeOK, RoundShape, NoOrchestrator
  <2>2. Opened' = Opened
    BY <1>4 DEF PlanExhausted, UsePlanAsAnswer, Opened
  <2>3. QED
    BY <1>4, <2>1, <2>2, MovesOn DEF PlanExhausted, UsePlanAsAnswer
<1>5. CASE Execute
  <2>1. TypeOK' /\ RoundShape' /\ NoOrchestrator'
    BY <1>1, <1>5 DEF Execute, TypeOK, RoundShape, NoOrchestrator
  <2>2. Opened' = Opened
    BY <1>1, <1>5, Lists DEF Execute, Opened, RoundShape
  <2>3. QED
    BY <1>5, <2>1, <2>2, MovesOn DEF Execute
<1>6. CASE Collect
  <2>1. TypeOK' /\ NoOrchestrator'
    BY <1>1, <1>6 DEF Collect, TypeOK, NoOrchestrator
  <2>2. RoundShape'
    BY <1>1, <1>6, Lists DEF Collect, AllOver, RoundShape, Over
  <2>3. Opened' = Opened
    BY <1>6 DEF Collect, Opened
  <2>4. QED
    BY <1>6, <2>1, <2>2, <2>3, MovesOn DEF Collect
<1>7. CASE Raise
  <2>1. TypeOK' /\ RoundShape' /\ NoOrchestrator'
    BY <1>1, <1>7 DEF Raise, TypeOK, RoundShape, NoOrchestrator
  <2>2. QED
    BY <1>7, <2>1, MovesOn DEF Raise
<1>8. QED
  BY <1>2, <1>3, <1>4, <1>5, <1>6, <1>7

\* A run that has ended changes nothing.
LEMMA Stutters ==
  ASSUME IInv, Quiet \/ UNCHANGED vars
  PROVE  IInv'
<1>1. UNCHANGED vars
  BY DEF Quiet
<1> USE <1>1 DEF IInv, vars
<1>2. TypeOK' /\ NoOrchestrator'
  BY DEF TypeOK, NoOrchestrator
<1>3. RoundShape' /\ LaneNumbers' /\ Room'
  BY DEF RoundShape, LaneNumbers, Room, Opened, Over
<1>4. LaneOwners'
  BY DEF LaneOwners, Opened, Matches
<1>5. QED
  BY <1>2, <1>3, <1>4

-----------------------------------------------------------------------------
(* The master lane.                                                          *)

\* The master's lane is the first: its number cannot be taken.
LEMMA OpenMasterLaneStep ==
  ASSUME IInv, OpenMasterLane
  PROVE  IInv'
<1> USE DEF Goto, InRound, Early, Late
<1>1. /\ pc = "opening" /\ DOMAIN lanes = {}
      /\ results = <<>> /\ delegations = <<>>
  BY DEF IInv, RoundShape, LaneNumbers, OpenMasterLane
<1>2. /\ pc' = "planning" /\ DOMAIN lanes' = {0}
      /\ lanes'[0] = NewLane("master") /\ lanes' \in [{0} -> Lane]
      /\ UNCHANGED <<strategy, iteration, delegations, cursor, results, status, error>>
  BY <1>1 DEF OpenMasterLane, InsertLane, WithLane, NewLane, Lane
<1>3. TypeOK'
  <2>1. TypeOK /\ DOMAIN lanes' \subseteq Nat /\ lanes' \in [DOMAIN lanes' -> Lane]
    BY <1>2 DEF IInv
  <2>2. QED
    BY <1>2, <2>1 DEF TypeOK
<1>4. Len(results) = 0 /\ Len(delegations) = 0 /\ DOMAIN delegations = {}
  BY <1>1
<1>5. RoundShape' /\ LaneNumbers' /\ LaneOwners'
  BY <1>1, <1>2, <1>4 DEF RoundShape, LaneNumbers, LaneOwners, Opened
<1>6. Room'
  <2>1. iteration * MaxPlan \in Nat
    BY Lists, RoomArithmetic DEF IInv
  <2>2. QED
    BY <1>2, <1>4, <2>1 DEF Room
<1>7. NoOrchestrator'
  BY <1>1, <1>2, <1>4 DEF IInv, NoOrchestrator
<1>8. QED
  BY <1>3, <1>5, <1>6, <1>7 DEF IInv


\* Steps of the master are counted in lane 0, which LaneOwners says nothing of.
SubLanesKept ==
  /\ DOMAIN lanes' = DOMAIN lanes
  /\ lanes' \in [DOMAIN lanes -> Lane]
  /\ \A k \in DOMAIN lanes \ {0} : lanes'[k] = lanes[k]

\* A step recorded in lane 0 leaves the lanes of the sub-agents alone.
LEMMA MasterLane ==
  ASSUME TypeOK, 0 \in DOMAIN lanes,
         NEW n \in Nat, MasterSteps(n)
  PROVE  SubLanesKept
<1>1. lanes[0] \in Lane /\ \A k \in DOMAIN lanes : lanes[k] \in Lane
  BY Lists
<1>2. lanes' = [lanes EXCEPT ![0] = [lanes[0] EXCEPT !.steps = lanes[0].steps + n]]
  BY DEF MasterSteps
<1>3. [lanes[0] EXCEPT !.steps = lanes[0].steps + n] \in Lane
  BY <1>1 DEF Lane
<1>4. lanes \in [DOMAIN lanes -> Lane]
  BY DEF TypeOK
<1>5. QED
  BY <1>2, <1>3, <1>4 DEF SubLanesKept

\* The delegations a turn leaves behind: none, or a plan about to be opened.
NewRound ==
  /\ delegations' \in Seq(Delegation)
  /\ Len(delegations') <= MaxPlan
  /\ \A i \in DOMAIN delegations' : delegations'[i].status = "pending"
  /\ cursor' \in Nat
  /\ pc' \in {"synthesizing", "raised", "delegating"}
  /\ IF pc' = "delegating" THEN cursor' = 1 ELSE delegations' = <<>>

\* A turn of the planning loop, whatever the master answers.
LEMMA PlanTurn ==
  ASSUME IInv, Plan, SubLanesKept, NewRound,
         UNCHANGED <<strategy, results>>,
         status' \in {"running", "completed", "failed"},
         error' \in {error, "planning"}
  PROVE  IInv'
<1>1. /\ TypeOK /\ pc = "planning" /\ delegations = <<>>
      /\ DOMAIN lanes = 0 .. Len(results) + Len(delegations)
      /\ error # "no orchestrator"
  BY DEF IInv, Plan, RoundShape, LaneNumbers, Opened, NoOrchestrator, InRound, Late
<1>2. Len(delegations) = 0 /\ Len(results) \in Nat
  BY <1>1, Lists
<1>3. DOMAIN lanes = 0 .. Len(results)
  <2>1. Len(results) + Len(delegations) = Len(results)
    BY <1>2
  <2>2. QED
    BY <1>1, <2>1
<1>4. iteration' = iteration + 1 /\ iteration' \in 0 .. MaxIterations
  <2>1. iteration \in Nat
    BY <1>1, Lists
  <2>2. iteration' = iteration + 1 /\ iteration < MaxIterations
    BY DEF Plan, MayIterate
  <2>3. QED
    BY <2>1, <2>2, IterationsArePositive
<1>5. /\ Len(delegations') \in Nat /\ Len(delegations') <= MaxPlan
      /\ DOMAIN delegations' = 1 .. Len(delegations')
      /\ pc' # "delegating" => Len(delegations') = 0
      /\ pc' = "delegating" => cursor' = 1
      /\ pc' \in {"synthesizing", "raised", "delegating"}
  <2>1. /\ delegations' \in Seq(Delegation)
        /\ Len(delegations') <= MaxPlan
        /\ pc' \in {"synthesizing", "raised", "delegating"}
        /\ IF pc' = "delegating" THEN cursor' = 1 ELSE delegations' = <<>>
    BY DEF NewRound
  <2>2. QED
    BY <2>1
<1>6. TypeOK'
  <2>1. /\ delegations' \in Seq(Delegation) /\ cursor' \in Nat
        /\ DOMAIN lanes' \subseteq Nat /\ lanes' \in [DOMAIN lanes' -> Lane]
    BY <1>3 DEF NewRound, SubLanesKept
  <2>2. /\ results \in Seq(Result) /\ strategy \in {"parallel", "sequential"}
        /\ error \in {"empty", "no orchestrator", "planning", "synthesis"}
    BY <1>1 DEF TypeOK
  <2>3. QED
    BY <1>4, <1>5, <2>1, <2>2 DEF TypeOK
<1>7. RoundShape'
  <2>1. pc' # "delegating" => delegations' = <<>>
    BY DEF NewRound
  <2>2. \A i \in DOMAIN delegations' : delegations'[i].status = "pending"
    BY DEF NewRound
  <2>3. pc' = "delegating" => cursor' \in 1 .. Len(delegations') + 1
    BY <1>5
  <2>4. QED
    BY <1>5, <2>1, <2>2, <2>3 DEF RoundShape, InRound, Early
<1>8. Opened' = 0
  BY <1>5 DEF Opened
<1>9. LaneNumbers'
  BY <1>2, <1>3, <1>5, <1>8 DEF LaneNumbers, SubLanesKept, Early
<1>10. Room'
  <2>1. /\ iteration * MaxPlan \in Nat
        /\ (iteration + 1) * MaxPlan = iteration * MaxPlan + MaxPlan
    BY <1>1, Lists, RoomArithmetic
  <2>2. Len(results) <= iteration * MaxPlan
    BY <1>2, <2>1 DEF IInv, Room
  <2>3. Len(results') + Len(delegations') <= iteration' * MaxPlan
    BY <1>2, <1>4, <1>5, <2>1, <2>2, BoundsAreNatural
  <2>4. DOMAIN lanes' \subseteq 0 .. iteration' * MaxPlan
    BY <1>2, <1>3, <1>4, <2>1, <2>2, BoundsAreNatural DEF SubLanesKept
  <2>5. QED
    BY <2>3, <2>4 DEF Room
<1>11. LaneOwners'
  <2>1. \A k \in 1 .. Len(results) : Matches(lanes[k], results[k])
    BY <1>1 DEF IInv, LaneOwners, Late
  <2>2. \A k \in 1 .. Len(results) : lanes'[k] = lanes[k]
    BY <1>2, <1>3 DEF SubLanesKept
  <2>3. QED
    BY <1>2, <1>8, <2>1, <2>2 DEF LaneOwners, Matches
<1>12. NoOrchestrator'
  BY <1>1 DEF NoOrchestrator
<1>13. QED
  BY <1>6, <1>7, <1>9, <1>10, <1>11, <1>12 DEF IInv

\* A turn of the loop asks for a plan: it fails, ends the loop, or fills an
\* empty list with pending delegations.
LEMMA PlanSteps ==
  ASSUME IInv, PlanFails \/ PlanIsEmpty \/ PlanIsMalformed
               \/ \E names \in Plans : PlanNames(names)
  PROVE  IInv'
<1>1. TypeOK /\ Plan
  BY DEF IInv, PlanFails, PlanIsEmpty, PlanIsMalformed, PlanNames
<1>2. delegations = <<>> /\ 0 \in DOMAIN lanes
  <2>1. delegations = <<>> /\ DOMAIN lanes = 0 .. Len(results) + Len(delegations)
    BY <1>1 DEF IInv, Plan, RoundShape, LaneNumbers, Late, InRound, Opened
  <2>2. QED
    BY <1>1, <2>1, Lists
<1>3. cursor \in Nat /\ status \in {"running", "completed", "failed"}
  BY <1>1 DEF TypeOK
<1>4. ASSUME UNCHANGED <<delegations, cursor>>, pc' \in {"synthesizing", "raised"}
      PROVE  NewRound
  BY <1>2, <1>3, <1>4, BoundsAreNatural DEF NewRound
<1>5. CASE PlanFails
  <2>1. SubLanesKept
    BY <1>1, <1>5 DEF TypeOK, PlanFails, SubLanesKept
  <2>2. QED
    BY <1>1, <1>4, <1>5, <2>1, PlanTurn DEF PlanFails, Goto
<1>6. CASE PlanIsEmpty \/ PlanIsMalformed
  <2>1. SubLanesKept
    BY <1>1, <1>2, <1>6, MasterLane DEF PlanIsEmpty, PlanIsMalformed
  <2>2. QED
    BY <1>1, <1>3, <1>4, <1>6, <2>1, PlanTurn DEF PlanIsEmpty, PlanIsMalformed, Goto
<1>7. CASE \E names \in Plans : PlanNames(names)
  <2>1. PICK names \in Plans : PlanNames(names)
    BY <1>7
  <2> DEFINE known == KnownNames(names)
  <2>2. PICK n \in 0 .. MaxPlan : known \in [1 .. n -> Agents]
    BY KnownNamesOfPlan DEF KnownPlans
  <2>3. SubLanesKept
    BY <1>1, <1>2, <2>1, MasterLane DEF PlanNames
  <2>4. NewRound
    <3>1. CASE known = <<>>
      BY <1>4, <2>1, <3>1 DEF PlanNames, Goto
    <3>2. CASE known # <<>>
      <4>1. delegations' = [i \in 1 .. n |-> Pending(known[i])] /\ cursor' = 1 /\ pc' = "delegating"
        BY <2>1, <2>2, <3>2 DEF PlanNames, Goto
      <4>2. \A i \in 1 .. n :
              Pending(known[i]) \in Delegation /\ Pending(known[i]).status = "pending"
        BY <2>2 DEF Pending, Delegation
      <4>3. delegations' \in [1 .. n -> Delegation] /\ n \in Nat
        BY <4>1, <4>2, BoundsAreNatural
      <4>4. delegations' \in Seq(Delegation) /\ Len(delegations') = n
        BY <4>3
      <4>5. QED
        BY <4>1, <4>2, <4>4, BoundsAreNatural DEF NewRound
    <3>3. QED
      BY <3>1, <3>2
  <2>5. QED
    BY <1>1, <1>3, <2>1, <2>3, <2>4, PlanTurn DEF PlanNames
<1>8. QED
  BY <1>5, <1>6, <1>7

-----------------------------------------------------------------------------
(* Delegate and execute.                                                     *)

\* The lane of the next delegation gets the first free number.
LEMMA OpenLaneStep ==
  ASSUME IInv, OpenLane
  PROVE  IInv'
<1> DEFINE n == Len(results)
           k == n + cursor
<1>1. TypeOK /\ RoundShape /\ Room /\ LaneOwners /\ LaneNumbers /\ NoOrchestrator
  BY DEF IInv
<1>2. /\ n \in Nat /\ Len(delegations) \in Nat /\ DOMAIN delegations = 1 .. Len(delegations)
      /\ cursor \in Nat /\ iteration \in Nat
  BY <1>1, Lists
<1>3. pc = "delegating" /\ cursor <= Len(delegations)
  BY DEF OpenLane
<1>4. cursor >= 1
  BY <1>1, <1>2, <1>3 DEF RoundShape
<1>5. DOMAIN lanes = 0 .. k - 1
  <2>1. DOMAIN lanes = 0 .. n + (cursor - 1)
    BY <1>1, <1>3 DEF LaneNumbers, Opened, Late, InRound
  <2>2. n + (cursor - 1) = k - 1
    BY <1>2
  <2>3. QED
    BY <2>1, <2>2
<1>6. UNCHANGED <<strategy, iteration, delegations, results, status, error>> /\ cursor' = cursor + 1
  BY DEF OpenLane
<1>7. pc' = "delegating" /\ lanes' = WithLane(k, NewLane(delegations[cursor].agent))
  <2>1. k \notin DOMAIN lanes
    BY <1>2, <1>4, <1>5
  <2>2. QED
    BY <2>1 DEF OpenLane, InsertLane, LaneIndex, Goto
<1>8. /\ DOMAIN lanes' = 0 .. k
      /\ lanes'[k] = NewLane(delegations[cursor].agent)
      /\ \A j \in 0 .. k - 1 : lanes'[j] = lanes[j]
  BY <1>2, <1>5, <1>7 DEF WithLane
<1>9. TypeOK'
  <2>1. delegations[cursor].agent \in Agents
    BY <1>1, <1>2, <1>3, <1>4, Lists DEF Delegation
  <2>2. NewLane(delegations[cursor].agent) \in Lane
    BY <2>1 DEF NewLane, Lane
  <2>3. \A j \in 0 .. k - 1 : lanes[j] \in Lane
    BY <1>1, <1>5, Lists
  <2>4. lanes' \in [DOMAIN lanes' -> Lane] /\ DOMAIN lanes' \subseteq Nat
    BY <1>2, <1>5, <1>7, <1>8, <2>2, <2>3 DEF WithLane
  <2>5. cursor' \in Nat
    BY <1>2, <1>6
  <2>6. QED
    BY <1>1, <1>6, <1>7, <2>4, <2>5 DEF TypeOK
<1>10. RoundShape'
  <2>1. cursor' \in 1 .. Len(delegations) + 1
    BY <1>2, <1>3, <1>4, <1>6
  <2>2. \A i \in DOMAIN delegations : delegations[i].status = "pending"
    BY <1>1, <1>3 DEF RoundShape
  <2>3. QED
    BY <1>6, <1>7, <2>1, <2>2 DEF RoundShape, InRound, Early
<1>11. Opened = cursor - 1 /\ Opened' = cursor
  <2>1. Opened = cursor - 1 /\ Opened' = cursor' - 1
    BY <1>3, <1>7 DEF Opened
  <2>2. QED
    BY <1>2, <1>6, <2>1
<1>12. LaneNumbers'
  BY <1>6, <1>7, <1>8, <1>11 DEF LaneNumbers, Early
<1>13. Room'
  <2>1. iteration * MaxPlan \in Nat
    BY <1>2, RoomArithmetic
  <2>2. n + Len(delegations) <= iteration * MaxPlan
    BY <1>1 DEF Room
  <2>3. k \in 0 .. iteration * MaxPlan
    BY <1>2, <1>3, <2>1, <2>2
  <2>4. QED
    BY <1>6, <1>8, <2>1, <2>2, <2>3 DEF Room
<1>14. LaneOwners'
  <2>1. \A j \in 1 .. n : Matches(lanes[j], results[j])
    BY <1>1, <1>3 DEF LaneOwners, Late, InRound
  <2>2. \A j \in 1 .. n : lanes'[j] = lanes[j]
    BY <1>2, <1>4, <1>8
  <2>3. ASSUME NEW j \in 1 .. cursor
        PROVE  lanes'[n + j].actor = delegations[j].agent /\ lanes'[n + j].steps = 0
    <3>1. CASE j = cursor
      BY <1>8, <3>1 DEF NewLane
    <3>2. CASE j # cursor
      <4>1. j \in 1 .. Opened /\ n + j \in 0 .. k - 1
        BY <1>2, <1>11, <3>2
      <4>2. lanes[n + j].actor = delegations[j].agent /\ lanes[n + j].steps = 0
        BY <1>1, <1>3, <4>1 DEF LaneOwners, InRound
      <4>3. QED
        BY <1>8, <4>1, <4>2
    <3>3. QED
      BY <3>1, <3>2
  <2>4. QED
    BY <1>6, <1>7, <1>11, <2>1, <2>2, <2>3 DEF LaneOwners, Matches
<1>15. NoOrchestrator'
  BY <1>1, <1>3, <1>6 DEF NoOrchestrator
<1>16. QED
  BY <1>9, <1>10, <1>12, <1>13, <1>14, <1>15 DEF IInv

\* A step of one sub-agent changes its own delegation and nothing else.
LEMMA DelegationStep ==
  ASSUME IInv, pc = "executing", NEW i \in DOMAIN delegations, NEW d \in Delegation,
         d.agent = delegations[i].agent,
         delegations' = [delegations EXCEPT ![i] = d],
         UNCHANGED <<pc, strategy, iteration, cursor, results, status, error, lanes>>
  PROVE  IInv'
<1>1. TypeOK /\ delegations \in Seq(Delegation)
  BY DEF IInv, TypeOK
<1>2. /\ delegations' \in Seq(Delegation)
      /\ Len(delegations') = Len(delegations) /\ DOMAIN delegations' = DOMAIN delegations
      /\ \A j \in DOMAIN delegations : delegations'[j].agent = delegations[j].agent
  BY <1>1
<1>3. TypeOK'
  BY <1>1, <1>2 DEF TypeOK
<1>4. RoundShape'
  BY DEF IInv, RoundShape, InRound, Early
<1>5. Opened' = Opened /\ Opened = Len(delegations)
  BY <1>2 DEF Opened
<1>6. LaneNumbers' /\ Room'
  BY <1>2, <1>5 DEF IInv, LaneNumbers, Room
<1>7. LaneOwners'
  <2>1. \A j \in 1 .. Opened : /\ lanes[Len(results) + j].actor = delegations[j].agent
                               /\ lanes[Len(results) + j].steps = 0
    BY DEF IInv, LaneOwners, InRound
  <2>2. DOMAIN delegations = 1 .. Opened
    BY <1>1, <1>5
  <2>3. \A k \in 1 .. Len(results) : Matches(lanes[k], results[k])
    BY DEF IInv, LaneOwners, InRound, Late
  <2>4. QED
    BY <1>2, <1>5, <2>1, <2>2, <2>3 DEF LaneOwners, Matches
<1>8. NoOrchestrator'
  BY DEF IInv, NoOrchestrator
<1>9. QED
  BY <1>3, <1>4, <1>6, <1>7, <1>8 DEF IInv

\* A sub-agent starts, returns or crashes.
LEMMA AgentSteps ==
  ASSUME IInv, NEW i \in DOMAIN delegations, AgentStep(i)
  PROVE  IInv'
<1>1. TypeOK
  BY DEF IInv
<1>2. pc = "executing"
  BY DEF AgentStep, StartAgent, AgentReturns, AgentCrashes
<1>3. /\ delegations[i] \in Delegation
      /\ DOMAIN delegations = 1 .. Len(delegations) /\ Len(delegations) \in Nat
  BY <1>1, Lists
<1>4. CASE StartAgent(i)
  <2> DEFINE d == [delegations[i] EXCEPT !.status = "running"]
  <2>1. d \in Delegation /\ d.agent = delegations[i].agent
    BY <1>3 DEF Delegation
  <2>2. QED
    BY <1>2, <1>4, <2>1, DelegationStep DEF StartAgent
<1>5. ASSUME NEW d \in Delegation, d.agent = delegations[i].agent,
             delegations' = [delegations EXCEPT ![i] = d],
             UNCHANGED <<pc, strategy, iteration, cursor, results, status, error, lanes>>
      PROVE  IInv'
  BY <1>2, <1>5, DelegationStep
<1>6. CASE AgentCrashes(i)
  <2> DEFINE d == [delegations[i] EXCEPT !.status = "failed"]
  <2>1. d \in Delegation /\ d.agent = delegations[i].agent /\ Over(d)
    BY <1>3 DEF Delegation, Over
  <2>2. QED
    BY <1>5, <1>6, <2>1 DEF AgentCrashes
<1>7. ASSUME NEW s \in {"completed", "failed"}, NEW t \in Tokens, NEW n \in 0 .. MaxToolCalls,
             AgentReturns(i, s, t, n)
      PROVE  IInv'
  <2> DEFINE d == [delegations[i] EXCEPT !.status = s, !.tokens = t, !.tools = n]
  <2>1. t \in Nat /\ n \in Nat
    BY BoundsAreNatural
  <2>2. d \in Delegation /\ d.agent = delegations[i].agent /\ Over(d)
    BY <1>3, <2>1 DEF Delegation, Over
  <2>3. delegations' = [delegations EXCEPT ![i] = d]
    BY <1>3, <1>7 DEF AgentReturns, Delegation
  <2>4. QED
    BY <1>5, <1>7, <2>2, <2>3 DEF AgentReturns
<1>8. QED
  BY <1>4, <1>6, <1>7 DEF AgentStep

-----------------------------------------------------------------------------
(* Record the results.                                                       *)

\* The halves of a token count add up to it.
LEMMA Halves ==
  ASSUME NEW t \in Nat
  PROVE  t \div 2 \in Nat /\ CompletionTokens(t) \in Nat /\ t \div 2 + CompletionTokens(t) = t
BY DEF CompletionTokens

\* What is recorded in a lane says what its delegation says, halves and all.
LEMMA RecordedLane ==
  ASSUME NEW lane \in Lane, NEW d \in Delegation, Over(d), lane.actor = d.agent
  PROVE  Recorded(lane, d) \in Lane /\ Matches(Recorded(lane, d), d)
<1>1. d.tokens \in Nat /\ d.tools \in Nat /\ d.status \in {"completed", "failed"}
  BY DEF Delegation, Over
<1>2. PICK a \in Nat, b \in Nat, c \in Nat :
        a = 1 + d.tools /\ b = d.tokens \div 2 /\ c = CompletionTokens(d.tokens)
  <2>1. d.tokens \div 2 \in Nat /\ CompletionTokens(d.tokens) \in Nat
    BY <1>1, Halves
  <2>2. 1 + d.tools \in Nat
    BY <1>1
  <2>3. QED
    BY <2>1, <2>2
<1> DEFINE r == Recorded(lane, d)
<1>3. /\ r \in Lane /\ r.actor = d.agent /\ r.status = d.status
      /\ r.prompt = b /\ r.completion = c
  <2>1. r = [lane EXCEPT !.status = d.status, !.steps = a, !.prompt = b, !.completion = c]
    BY <1>2 DEF Recorded
  <2> HIDE DEF r
  <2>2. QED
    BY <1>1, <2>1 DEF Lane
<1> HIDE DEF r
<1>4. r.prompt + r.completion = d.tokens
  BY <1>1, <1>2, <1>3, Halves
<1>5. Matches(r, d)
  BY <1>3, <1>4 DEF Matches
<1>6. QED
  BY <1>3, <1>5 DEF r

\* The lane found by number is the one opened for the delegation, and empty.
LEMMA RecordResultStep ==
  ASSUME IInv, RecordResult
  PROVE  IInv'
<1> DEFINE n == Len(results)
           k == n + cursor
           d == delegations[cursor]
<1>1. TypeOK /\ RoundShape /\ Room /\ LaneOwners /\ LaneNumbers /\ NoOrchestrator
  BY DEF IInv
<1>2. /\ n \in Nat /\ Len(delegations) \in Nat /\ DOMAIN delegations = 1 .. Len(delegations)
      /\ cursor \in Nat
  BY <1>1, Lists
<1>3. pc = "recording" /\ cursor <= Len(delegations)
  BY DEF RecordResult
<1>4. cursor \in 1 .. Len(delegations)
  <2>1. cursor >= 1
    BY <1>1, <1>2, <1>3 DEF RoundShape
  <2>2. QED
    BY <1>2, <1>3, <2>1
<1>5. d \in Delegation /\ Over(d)
  <2>1. cursor \in DOMAIN delegations
    BY <1>2, <1>4
  <2>2. QED
    BY <1>1, <1>3, <2>1, Lists DEF RoundShape
<1>6. Opened = Len(delegations) /\ DOMAIN lanes = 0 .. n + Len(delegations)
  BY <1>1, <1>3 DEF Opened, LaneNumbers, Late, InRound
<1>7. k \in DOMAIN lanes
  BY <1>2, <1>4, <1>6
<1>8. lanes[k].steps = 0 /\ lanes[k].actor = d.agent /\ lanes[k] \in Lane
  <2>1. lanes[k].steps = 0 /\ lanes[k].actor = d.agent
    BY <1>1, <1>2, <1>3, <1>4, <1>6 DEF LaneOwners, InRound
  <2>2. QED
    BY <1>1, <1>7, <2>1, Lists
<1>9. /\ lanes' = [lanes EXCEPT ![k] = Recorded(lanes[k], d)]
      /\ pc' = "recording" /\ cursor' = cursor + 1
      /\ UNCHANGED <<strategy, iteration, delegations, results, status, error>>
  <2>1. ~(lanes[k].steps > 0)
    BY <1>8
  <2>2. QED
    BY <1>3, <1>7, <2>1 DEF RecordResult, RecordIndex
<1>10. Recorded(lanes[k], d) \in Lane /\ Matches(Recorded(lanes[k], d), d)
  BY <1>5, <1>8, RecordedLane
<1>11. /\ DOMAIN lanes' = DOMAIN lanes
       /\ lanes'[k] = Recorded(lanes[k], d)
       /\ \A j \in DOMAIN lanes : j # k => lanes'[j] = lanes[j]
  BY <1>7, <1>9
<1>12. TypeOK'
  <2>1. lanes' \in [DOMAIN lanes' -> Lane] /\ DOMAIN lanes' \subseteq Nat
    <3>1. lanes \in [DOMAIN lanes -> Lane] /\ DOMAIN lanes \subseteq Nat
      BY <1>1 DEF TypeOK
    <3>2. QED
      BY <1>9, <1>10, <1>11, <3>1
  <2>2. cursor' \in Nat
    BY <1>2, <1>9
  <2>3. QED
    BY <1>1, <1>9, <2>1, <2>2 DEF TypeOK
<1>13. RoundShape'
  <2>1. cursor' \in 1 .. Len(delegations) + 1
    BY <1>2, <1>4, <1>9
  <2>2. \A i \in DOMAIN delegations : Over(delegations[i])
    BY <1>1, <1>3 DEF RoundShape
  <2>3. QED
    BY <1>9, <2>1, <2>2 DEF RoundShape, Over, InRound, Early
<1>14. Opened' = Len(delegations)
  BY <1>9 DEF Opened
<1>15. LaneNumbers' /\ Room'
  BY <1>1, <1>6, <1>9, <1>11, <1>14 DEF LaneNumbers, Room, Early
<1>16. LaneOwners'
  <2>1. ASSUME NEW j \in 1 .. n
        PROVE  Matches(lanes'[j], results[j])
    <3>1. j \in DOMAIN lanes /\ j # k
      BY <1>2, <1>4, <1>6
    <3>2. Matches(lanes[j], results[j])
      BY <1>1, <1>3 DEF LaneOwners, Late, InRound
    <3>3. QED
      BY <1>11, <3>1, <3>2
  <2>2. ASSUME NEW j \in 1 .. Len(delegations)
        PROVE  LET lane == lanes'[n + j]
               IN /\ lane.actor = delegations[j].agent
                  /\ IF j < cursor + 1 THEN Matches(lane, delegations[j]) ELSE lane.steps = 0
    <3>1. CASE j = cursor
      BY <1>8, <1>10, <1>11, <1>2, <3>1 DEF Matches
    <3>2. CASE j # cursor
      <4>1. /\ lanes[n + j].actor = delegations[j].agent
            /\ IF j < cursor THEN Matches(lanes[n + j], delegations[j]) ELSE lanes[n + j].steps = 0
        BY <1>1, <1>3, <1>6 DEF LaneOwners, InRound
      <4>2. lanes'[n + j] = lanes[n + j]
        BY <1>2, <1>6, <1>11, <3>2
      <4>3. j < cursor <=> j < cursor + 1
        BY <1>2, <3>2
      <4>4. QED
        BY <4>1, <4>2, <4>3
    <3>3. QED
      BY <3>1, <3>2
  <2>3. QED
    BY <1>9, <1>14, <2>1, <2>2 DEF LaneOwners, Matches
<1>17. NoOrchestrator'
  BY <1>1, <1>3, <1>9 DEF NoOrchestrator
<1>18. QED
  BY <1>12, <1>13, <1>15, <1>16, <1>17 DEF IInv

\* What concatenation does to two lists.
LEMMA Concatenation ==
  ASSUME NEW S, NEW r \in Seq(S), NEW q \in Seq(S)
  PROVE  /\ r \o q \in Seq(S) /\ Len(r \o q) = Len(r) + Len(q)
         /\ \A j \in 1 .. Len(r) : (r \o q)[j] = r[j]
         /\ \A i \in 1 .. Len(q) : (r \o q)[Len(r) + i] = q[i]
<1>1. r \o q \in Seq(S) /\ Len(r \o q) = Len(r) + Len(q)
  OBVIOUS
<1>2. ASSUME NEW j \in 1 .. Len(r) PROVE (r \o q)[j] = r[j]
  OBVIOUS
<1>3. ASSUME NEW i \in 1 .. Len(q) PROVE (r \o q)[Len(r) + i] = q[i]
  OBVIOUS
<1>4. QED
  BY <1>1, <1>2, <1>3

\* The round's delegations become results, behind the earlier ones, in the order
\* of their lanes.
LEMMA EndRoundStep ==
  ASSUME IInv, EndRound
  PROVE  IInv'
<1> DEFINE n == Len(results)
           m == Len(delegations)
           new == [i \in DOMAIN delegations |-> ResultOf(delegations[i])]
<1>1. TypeOK /\ RoundShape /\ Room /\ LaneOwners /\ LaneNumbers /\ NoOrchestrator
  BY DEF IInv
<1>2. /\ n \in Nat /\ m \in Nat /\ DOMAIN delegations = 1 .. m /\ cursor \in Nat
      /\ \A i \in 1 .. m : delegations[i] \in Delegation
  BY <1>1, Lists
<1>3. pc = "recording" /\ cursor > m
  BY DEF EndRound
<1>4. cursor = m + 1 /\ \A i \in 1 .. m : Over(delegations[i])
  <2>1. cursor \in 1 .. m + 1 /\ \A i \in DOMAIN delegations : Over(delegations[i])
    BY <1>1, <1>3 DEF RoundShape
  <2>2. QED
    BY <1>2, <1>3, <2>1
<1>5. /\ results' = results \o new /\ delegations' = <<>> /\ pc' = "planning"
      /\ UNCHANGED <<strategy, iteration, cursor, status, error, lanes>>
  BY DEF EndRound, Goto
<1>6. new \in Seq(Result) /\ Len(new) = m
  <2>1. \A i \in 1 .. m : ResultOf(delegations[i]) \in Result
    BY <1>2, <1>4 DEF ResultOf, Result, Delegation, Over
  <2>2. new \in [1 .. m -> Result]
    BY <1>2, <2>1
  <2>3. QED
    BY <1>2, <2>2
<1>7. results \in Seq(Result)
  BY <1>1 DEF TypeOK
<1>8. /\ results' \in Seq(Result) /\ Len(results') = n + m
      /\ \A j \in 1 .. n : results'[j] = results[j]
      /\ \A i \in 1 .. m : results'[n + i] = ResultOf(delegations[i])
  <2> HIDE DEF new
  <2>1. /\ results' \in Seq(Result) /\ Len(results') = n + m
        /\ \A j \in 1 .. n : results'[j] = results[j]
        /\ \A i \in 1 .. m : results'[n + i] = new[i]
    <3>1. results' = results \o new
      BY <1>5
    <3>2. results \o new \in Seq(Result) /\ Len(results \o new) = n + Len(new)
      BY <1>6, <1>7, Concatenation
    <3>3. \A j \in 1 .. n : (results \o new)[j] = results[j]
      BY <1>6, <1>7, Concatenation
    <3>4. \A i \in 1 .. Len(new) : (results \o new)[n + i] = new[i]
      BY <1>6, <1>7, Concatenation
    <3>5. QED
      BY <1>6, <3>1, <3>2, <3>3, <3>4
  <2>2. \A i \in 1 .. m : new[i] = ResultOf(delegations[i])
    BY <1>2 DEF new
  <2>3. QED
    BY <2>1, <2>2
<1> HIDE DEF new
<1>9. delegations' \in Seq(Delegation) /\ Len(delegations') = 0 /\ DOMAIN delegations' = {}
  BY <1>5
<1>10. TypeOK'
  BY <1>1, <1>5, <1>8, <1>9 DEF TypeOK
<1>11. RoundShape' /\ NoOrchestrator'
  BY <1>1, <1>3, <1>5, <1>9 DEF RoundShape, NoOrchestrator, Early, InRound
<1>12. DOMAIN lanes = 0 .. n + m /\ Opened = m
  BY <1>1, <1>3 DEF LaneNumbers, Opened, Late, InRound
<1>13. Opened' = 0
  BY <1>5, <1>9 DEF Opened
<1>14. LaneNumbers'
  <2>1. Len(results') + 0 = n + m
    BY <1>2, <1>8
  <2>2. QED
    BY <1>5, <1>12, <1>13, <2>1 DEF LaneNumbers, Early
<1>15. Room'
  <2>1. n + m <= iteration * MaxPlan /\ DOMAIN lanes \subseteq 0 .. iteration * MaxPlan
    BY <1>1 DEF Room
  <2>2. Len(results') + Len(delegations') = n + m
    BY <1>2, <1>8, <1>9
  <2>3. QED
    BY <1>5, <2>1, <2>2 DEF Room
<1>16. LaneOwners'
  <2>1. ASSUME NEW j \in 1 .. n + m
        PROVE  Matches(lanes[j], results'[j])
    <3>1. CASE j \in 1 .. n
      <4>1. Matches(lanes[j], results[j])
        BY <1>1, <1>3, <3>1 DEF LaneOwners, Late, InRound
      <4>2. QED
        BY <1>8, <3>1, <4>1
    <3>2. CASE j \notin 1 .. n
      <4>1. PICK i \in 1 .. m : j = n + i
        <5>1. j - n \in 1 .. m /\ j = n + (j - n)
          BY <1>2, <3>2
        <5>2. QED
          BY <5>1
      <4>2. Matches(lanes[n + i], delegations[i])
        <5>1. i < cursor
          BY <1>2, <1>4
        <5>2. QED
          BY <1>1, <1>3, <1>12, <5>1 DEF LaneOwners, InRound
      <4>3. results'[j] = ResultOf(delegations[i])
        BY <1>8, <4>1
      <4>4. QED
        BY <4>1, <4>2, <4>3 DEF Matches, ResultOf
    <3>3. QED
      BY <3>1, <3>2
  <2>2. QED
    BY <1>5, <1>8, <2>1 DEF LaneOwners, Matches, InRound
<1>17. QED
  BY <1>10, <1>11, <1>14, <1>15, <1>16 DEF IInv

-----------------------------------------------------------------------------
(* Synthesize and finalize.                                                  *)

\* After the loop only lane 0, the status and the error change.
LEMMA LastSteps ==
  ASSUME IInv, pc \in {"synthesizing", "finalizing"}, SubLanesKept,
         pc' \in {"finalizing", "done"},
         UNCHANGED <<strategy, iteration, delegations, cursor, results>>,
         status' \in {"running", "completed", "failed"},
         error' \in {error, "empty", "synthesis"}
  PROVE  IInv'
<1>1. /\ TypeOK /\ RoundShape /\ Room /\ LaneOwners /\ LaneNumbers
      /\ NoOrchestrator
  BY DEF IInv
<1>2. Len(results) \in Nat
  BY <1>1, Lists
<1>3. delegations = <<>>
  BY <1>1 DEF RoundShape, InRound
<1>4. DOMAIN lanes = 0 .. Len(results) + Opened /\ Opened' = Opened /\ Opened = 0
  BY <1>1, <1>3 DEF LaneNumbers, Late, Opened
<1>5. TypeOK'
  <2>1. /\ error \in {"empty", "no orchestrator", "planning", "synthesis"}
        /\ DOMAIN lanes \subseteq Nat
    BY <1>1 DEF TypeOK
  <2>2. DOMAIN lanes' \subseteq Nat /\ lanes' \in [DOMAIN lanes' -> Lane]
    BY <2>1 DEF SubLanesKept
  <2>3. QED
    BY <1>1, <2>1, <2>2 DEF TypeOK
<1>6. RoundShape'
  BY <1>1, <1>3 DEF RoundShape, Early, InRound
<1>7. LaneNumbers' /\ Room'
  BY <1>1, <1>4 DEF LaneNumbers, Room, SubLanesKept, Early
<1>8. LaneOwners'
  <2>1. \A k \in 1 .. Len(results) : Matches(lanes[k], results[k])
    BY <1>1 DEF LaneOwners, Late
  <2>2. \A k \in 1 .. Len(results) : lanes'[k] = lanes[k]
    <3>1. \A k \in 1 .. Len(results) : k \in (0 .. Len(results)) \ {0}
      BY <1>2
    <3>2. Len(results) + Opened = Len(results)
      BY <1>2, <1>4
    <3>3. QED
      BY <1>4, <3>1, <3>2 DEF SubLanesKept
  <2>3. QED
    BY <2>1, <2>2 DEF LaneOwners, Matches, InRound
<1>9. NoOrchestrator'
  BY <1>1 DEF NoOrchestrator
<1>10. QED
  BY <1>5, <1>6, <1>7, <1>8, <1>9 DEF IInv

\* Synthesis and the end of the run.
LEMMA FinalSteps ==
  ASSUME IInv, (\E e \in {error, "empty", "synthesis"} : Synthesize(e)) \/ Finalize
  PROVE  IInv'
<1>1. TypeOK /\ status \in {"running", "completed", "failed"}
  BY DEF IInv, TypeOK
<1>2. pc \in {"synthesizing", "finalizing"}
  BY DEF Synthesize, Finalize
<1>3. 0 \in DOMAIN lanes
  <2>1. DOMAIN lanes = 0 .. Len(results) + Len(delegations)
    BY <1>2 DEF IInv, LaneNumbers, Late, Opened
  <2>2. Len(results) \in Nat /\ Len(delegations) \in Nat
    BY <1>1, Lists
  <2>3. 0 \in 0 .. Len(results) + Len(delegations)
    BY <2>2
  <2>4. QED
    BY <2>1, <2>3
<1>4. CASE \E e \in {error, "empty", "synthesis"} : Synthesize(e)
  <2>1. PICK e \in {error, "empty", "synthesis"} : Synthesize(e)
    BY <1>4
  <2>2. SubLanesKept
    BY <1>1, <1>3, <2>1, MasterLane DEF Synthesize
  <2>3. QED
    BY <1>1, <1>2, <2>1, <2>2, LastSteps DEF Synthesize, Goto
<1>5. CASE Finalize
  <2>1. lanes' = [lanes EXCEPT ![0] = [lanes[0] EXCEPT !.status = "completed"]]
    BY <1>5 DEF Finalize
  <2>2. [lanes[0] EXCEPT !.status = "completed"] \in Lane
    BY <1>1, <1>3, Lists DEF Lane
  <2>3. lanes \in [DOMAIN lanes -> Lane]
    BY <1>1 DEF TypeOK
  <2>4. SubLanesKept
    BY <2>1, <2>2, <2>3 DEF SubLanesKept
  <2>5. status' \in {"running", "completed", "failed"}
    BY <1>1, <1>5 DEF Finalize, FinalStatus
  <2>6. QED
    BY <1>1, <1>2, <1>5, <2>4, <2>5, LastSteps DEF Finalize, Goto
<1>6. QED
  BY <1>4, <1>5

-----------------------------------------------------------------------------

\* Every step of the run preserves the invariant.
LEMMA NextIInv == IInv /\ [Next]_vars => IInv'
<1> SUFFICES ASSUME IInv, [Next]_vars PROVE IInv'
  OBVIOUS
<1>1. CASE FindNoOrchestrator \/ StartExecution \/ PlanExhausted \/ Execute \/ Collect
           \/ UsePlanAsAnswer \/ Raise
  BY <1>1, Moves
<1>2. CASE OpenMasterLane
  BY <1>2, OpenMasterLaneStep
<1>3. CASE PlanFails \/ PlanIsEmpty \/ PlanIsMalformed
           \/ \E names \in Plans : PlanNames(names)
  BY <1>3, PlanSteps
<1>4. CASE OpenLane
  BY <1>4, OpenLaneStep
<1>5. CASE \E i \in DOMAIN delegations : AgentStep(i)
  BY <1>5, AgentSteps
<1>6. CASE RecordResult
  BY <1>6, RecordResultStep
<1>7. CASE EndRound
  BY <1>7, EndRoundStep
<1>8. CASE (\E e \in {error, "empty", "synthesis"} : Synthesize(e)) \/ Finalize
  BY <1>8, FinalSteps
<1>9. CASE Quiet \/ UNCHANGED vars
  BY <1>9, Stutters
<1>10. QED
  BY <1>1, <1>2, <1>3, <1>4, <1>5, <1>6, <1>7, <1>8, <1>9 DEF Next, RunStep, PlanStep

\* Every reachable state satisfies the inductive invariant.
THEOREM Invariance == Spec => []IInv
<1>1. Init => IInv
  BY InitIInv
<1>2. IInv /\ [Next]_vars => IInv'
  BY NextIInv
<1>3. QED
  BY <1>1, <1>2, PTL DEF Spec

\* The variables keep their types.
THEOREM TypeCorrect == Spec => []TypeOK
BY Invariance, PTL DEF IInv

\* No lane number and no step number is used twice, over any number of rounds.
THEOREM KeysNeverClash == Spec => []NoKeyClash
<1>1. IInv => NoKeyClash
  BY DEF IInv, LaneNumbers, NoKeyClash
<1>2. QED
  BY <1>1, Invariance, PTL

\* Behind every result there is the lane of the same sub-agent, status and
\* tokens, and there is no other.
THEOREM LanesOfResults == Spec => []LanesMatchResults
<1>1. ASSUME IInv, pc \in {"planning", "synthesizing", "finalizing"}
      PROVE  DOMAIN lanes = 0 .. Len(results)
  <2>1. delegations = <<>> /\ DOMAIN lanes = 0 .. Len(results) + Len(delegations)
    BY <1>1 DEF IInv, RoundShape, LaneNumbers, Opened, InRound, Late
  <2>2. Len(results) + Len(delegations) = Len(results)
    BY <1>1, <2>1, Lists DEF IInv
  <2>3. QED
    BY <2>1, <2>2
<1>2. IInv => LanesMatchResults
  BY <1>1 DEF IInv, LaneOwners, Matches, Late, LanesMatchResults
<1>3. QED
  BY <1>2, Invariance, PTL

\* Rounds, results and lanes are bounded whatever the language model answers.
THEOREM LoopBound == Spec => []LoopIsBounded
<1>1. ASSUME IInv PROVE LoopIsBounded
  <2>1. /\ iteration \in Nat /\ iteration <= MaxIterations
        /\ Len(results) \in Nat /\ Len(delegations) \in Nat
    BY <1>1, Lists DEF IInv
  <2>2. /\ Len(results) + Len(delegations) <= iteration * MaxPlan
        /\ DOMAIN lanes \subseteq 0 .. iteration * MaxPlan
    BY <1>1 DEF IInv, Room
  <2>3. /\ iteration * MaxPlan \in Nat /\ MaxIterations * MaxPlan \in Nat
        /\ iteration * MaxPlan <= MaxIterations * MaxPlan
    BY <2>1, RoomArithmetic, IterationsArePositive
  <2>4. DOMAIN lanes \in SUBSET (0 .. MaxIterations * MaxPlan)
    BY <2>2, <2>3
  <2>5. Cardinality(DOMAIN lanes) <= 1 + MaxIterations * MaxPlan
    <3>1. /\ IsFiniteSet(0 .. MaxIterations * MaxPlan)
          /\ Cardinality(0 .. MaxIterations * MaxPlan) = 1 + MaxIterations * MaxPlan
      BY <2>3, FS_Interval
    <3>2. Cardinality(DOMAIN lanes) <= Cardinality(0 .. MaxIterations * MaxPlan)
      BY <2>4, <3>1, FS_Subset
    <3>3. QED
      BY <3>1, <3>2
  <2>6. Len(results) <= iteration * MaxPlan
    BY <2>1, <2>2, <2>3
  <2>7. QED
    BY <2>1, <2>5, <2>6 DEF LoopIsBounded
<1>2. QED
  BY <1>1, Invariance, PTL

-----------------------------------------------------------------------------
(* Tokens.                                                                   *)

Used(lane) == lane.prompt + lane.completion

\* The master's own lane uses none, and nothing is added up before the end.
MasterUsesNone == pc \in Late => Used(lanes[0]) = 0

TotalIsUnset == pc # "done" => total = 0

TokensIInv == MasterUsesNone /\ TotalIsUnset /\ TokensAreConserved

\* From the first lane on there is the master's.
LEMMA MasterLaneExists == IInv /\ pc \in Late => 0 \in DOMAIN lanes /\ Len(results) \in Nat
<1> SUFFICES ASSUME IInv, pc \in Late PROVE 0 \in DOMAIN lanes /\ Len(results) \in Nat
  OBVIOUS
<1>1. /\ Len(results) \in Nat /\ Len(delegations) \in Nat
      /\ DOMAIN lanes = 0 .. Len(results) + Opened
  BY Lists DEF IInv, LaneNumbers
<1>2. Opened \in Nat
  BY <1>1 DEF IInv, RoundShape, Opened
<1>3. QED
  BY <1>1, <1>2

\* A step of the master, or one in another lane, is none of the master's tokens.
LEMMA NextMasterUsesNone == IInv /\ MasterUsesNone /\ [Next]_vars => MasterUsesNone'
<1> SUFFICES ASSUME IInv, MasterUsesNone, [Next]_vars, pc' \in Late
             PROVE  Used(lanes'[0]) = 0
  BY DEF MasterUsesNone, Used
<1>1. ASSUME pc \in Late, lanes'[0] = lanes[0] PROVE Used(lanes'[0]) = 0
  BY <1>1 DEF MasterUsesNone
<1>2. ASSUME pc \in Late, UNCHANGED lanes PROVE Used(lanes'[0]) = 0
  BY <1>1, <1>2
<1>3. ASSUME pc \in Late, NEW n \in Nat, MasterSteps(n) PROVE Used(lanes'[0]) = 0
  <2>1. 0 \in DOMAIN lanes /\ lanes[0] \in Lane
    BY <1>3, MasterLaneExists, Lists DEF IInv
  <2>2. lanes'[0] = [lanes[0] EXCEPT !.steps = lanes[0].steps + n]
    BY <1>3, <2>1 DEF MasterSteps
  <2>3. lanes'[0].prompt = lanes[0].prompt /\ lanes'[0].completion = lanes[0].completion
    BY <2>1, <2>2 DEF Lane
  <2>4. QED
    BY <1>3, <2>3 DEF MasterUsesNone, Used
<1>4. CASE FindNoOrchestrator \/ StartExecution \/ Raise
  BY <1>4 DEF FindNoOrchestrator, StartExecution, Raise, Goto, Late, InRound
<1>5. CASE OpenMasterLane
  <2>1. DOMAIN lanes = {}
    BY <1>5 DEF OpenMasterLane, IInv, LaneNumbers, Early
  <2>2. lanes' = WithLane(0, NewLane("master"))
    BY <1>5, <2>1 DEF OpenMasterLane, InsertLane
  <2>3. lanes'[0] = NewLane("master")
    BY <2>2 DEF WithLane
  <2>4. QED
    BY <2>3 DEF NewLane, Used
<1>6. CASE PlanStep
  <2>1. pc \in Late
    BY <1>6 DEF PlanStep, PlanFails, PlanIsEmpty, PlanIsMalformed, PlanNames, PlanExhausted,
                Plan, Late
  <2>2. UNCHANGED lanes \/ MasterSteps(1) \/ MasterSteps(2)
    BY <1>6 DEF PlanStep, PlanFails, PlanIsEmpty, PlanIsMalformed, PlanNames, PlanExhausted
  <2>3. QED
    BY <1>2, <1>3, <2>1, <2>2
<1>7. CASE OpenLane
  <2> DEFINE k == Len(results) + cursor
  <2>1. pc \in Late /\ k # 0
    BY <1>7, Lists DEF OpenLane, IInv, RoundShape, Late, InRound
  <2>2. UNCHANGED lanes \/ lanes' = WithLane(k, NewLane(delegations[cursor].agent))
    BY <1>7 DEF OpenLane, InsertLane, LaneIndex
  <2>3. 0 \in DOMAIN lanes
    BY <2>1, MasterLaneExists
  <2> HIDE DEF k
  <2>4. lanes'[0] = lanes[0]
    BY <2>1, <2>2, <2>3 DEF WithLane
  <2>5. QED
    BY <1>1, <2>1, <2>4
<1>8. CASE RecordResult
  <2> DEFINE k == Len(results) + cursor
  <2>1. pc \in Late /\ k # 0
    BY <1>8, Lists DEF RecordResult, IInv, RoundShape, Late, InRound
  <2>2. 0 \in DOMAIN lanes
    BY <2>1, MasterLaneExists
  <2>3. UNCHANGED lanes \/ lanes' = [lanes EXCEPT ![k] = Recorded(@, delegations[cursor])]
    BY <1>8 DEF RecordResult, RecordIndex
  <2> HIDE DEF k
  <2>4. lanes'[0] = lanes[0]
    BY <2>1, <2>2, <2>3
  <2>5. QED
    BY <1>1, <2>1, <2>4
<1>9. CASE Execute \/ Collect \/ EndRound \/ UsePlanAsAnswer
           \/ (\E i \in DOMAIN delegations : AgentStep(i)) \/ Quiet \/ UNCHANGED vars
  <2>1. UNCHANGED lanes /\ pc \in Late
    BY <1>9 DEF Execute, Collect, EndRound, UsePlanAsAnswer, AgentStep, StartAgent,
                AgentCrashes, AgentReturns, Quiet, vars, Late, InRound
  <2>2. QED
    BY <1>2, <2>1
<1>10. CASE (\E e \in {error, "empty", "synthesis"} : Synthesize(e)) \/ Finalize
  <2>1. pc \in Late /\ MasterSteps(1)
    BY <1>10 DEF Synthesize, Finalize, Goto, Late, InRound
  <2>2. QED
    BY <1>3, <2>1
<1>11. QED
  BY <1>4, <1>5, <1>6, <1>7, <1>8, <1>9, <1>10 DEF Next, RunStep

\* SUM over the steps is the sum over the results: lane 0 adds nothing and lane
\* k holds the tokens of result k.
LEMMA TotalIsSumOfResults ==
  ASSUME IInv, MasterUsesNone, pc = "finalizing"
  PROVE  TotalTokens = SumFunction([k \in DOMAIN results |-> results[k].tokens])
<1> DEFINE S == 1 .. Len(results)
           f == [k \in DOMAIN lanes |-> lanes[k].prompt + lanes[k].completion]
           g == [k \in DOMAIN results |-> results[k].tokens]
<1>1. /\ delegations = <<>> /\ DOMAIN lanes = 0 .. Len(results) + Opened
      /\ \A k \in S : Matches(lanes[k], results[k])
  BY DEF IInv, RoundShape, LaneNumbers, LaneOwners, Late, InRound
<1>2. /\ Len(results) \in Nat /\ DOMAIN results = S
      /\ \A k \in S : results[k] \in Result
      /\ \A k \in DOMAIN lanes : lanes[k] \in Lane
  BY Lists DEF IInv
<1>3. DOMAIN lanes = S \cup {0}
  <2>1. Opened = 0
    BY <1>1 DEF Opened
  <2>2. QED
    BY <1>1, <1>2, <2>1
<1>4. f \in [S \cup {0} -> Nat]
  <2>1. \A k \in DOMAIN lanes : lanes[k].prompt + lanes[k].completion \in Nat
    BY <1>2 DEF Lane
  <2>2. QED
    BY <1>3, <2>1
<1>5. g \in [S -> Nat]
  BY <1>2 DEF Result
<1>6. \A k \in S : g[k] = f[k]
  BY <1>1, <1>2, <1>3 DEF Matches
<1>7. f[0] = 0
  BY <1>3 DEF MasterUsesNone, Used, Late
<1>8. IsFiniteSet(S) /\ 0 \notin S
  BY <1>2, FS_Interval
<1>9. TotalTokens = SumFunction(f)
  BY DEF TotalTokens
<1> HIDE DEF S, f, g
<1>10. SumFunction(g) \in Nat /\ SumFunction(f) = SumFunction(g) + f[0]
  BY <1>4, <1>5, <1>6, <1>8, SumFunctionAdds
<1>11. QED
  BY <1>7, <1>9, <1>10 DEF g

LEMMA NextTotal ==
  IInv /\ TokensIInv /\ [Next]_vars => TotalIsUnset' /\ TokensAreConserved'
<1> SUFFICES ASSUME IInv, TokensIInv, [Next]_vars
             PROVE  TotalIsUnset' /\ TokensAreConserved'
  OBVIOUS
<1>1. CASE FindNoOrchestrator
  <2>1. total' = 0 /\ results' = <<>>
    BY <1>1 DEF FindNoOrchestrator, TokensIInv, TotalIsUnset, IInv, RoundShape, Early
  <2>2. [k \in DOMAIN results' |-> results'[k].tokens] \in [{} -> Nat]
    BY <2>1
  <2>3. SumFunction([k \in DOMAIN results' |-> results'[k].tokens]) = 0
    BY <2>2, SumOfNothing
  <2>4. QED
    BY <2>1, <2>3 DEF TotalIsUnset, TokensAreConserved
<1>2. CASE Finalize
  <2>1. /\ pc = "finalizing" /\ pc' = "done" /\ UNCHANGED results
        /\ total' = TotalTokens
    BY <1>2 DEF Finalize, Goto
  <2>2. QED
    BY <2>1, TotalIsSumOfResults DEF TokensIInv, TotalIsUnset, TokensAreConserved
<1>3. CASE Quiet \/ UNCHANGED vars
  BY <1>3 DEF Quiet, vars, TokensIInv, TotalIsUnset, TokensAreConserved
\* Every other step ends elsewhere and leaves the total alone.
<1>4. ASSUME pc # "done", pc' # "done", UNCHANGED total
      PROVE  TotalIsUnset' /\ TokensAreConserved'
  BY <1>4 DEF TokensIInv, TotalIsUnset, TokensAreConserved
<1>5. CASE StartExecution \/ OpenMasterLane \/ Raise
  BY <1>4, <1>5 DEF StartExecution, OpenMasterLane, InsertLane, Raise, Goto
<1>6. CASE PlanStep
  BY <1>4, <1>6 DEF PlanStep, PlanFails, PlanIsEmpty, PlanIsMalformed, PlanNames,
                    PlanExhausted, Plan, Goto
<1>7. CASE OpenLane \/ Execute \/ Collect \/ RecordResult \/ EndRound
  BY <1>4, <1>7 DEF OpenLane, InsertLane, Execute, Collect, RecordResult, EndRound, Goto
<1>8. CASE \E i \in DOMAIN delegations : AgentStep(i)
  BY <1>4, <1>8 DEF AgentStep, StartAgent, AgentCrashes, AgentReturns
<1>9. CASE (\E e \in {error, "empty", "synthesis"} : Synthesize(e)) \/ UsePlanAsAnswer
  BY <1>4, <1>9 DEF Synthesize, UsePlanAsAnswer, Goto
<1>10. QED
  BY <1>1, <1>2, <1>3, <1>5, <1>6, <1>7, <1>8, <1>9 DEF Next, RunStep

\* No token is lost or counted twice on its way from a sub-agent's result over
\* the halves in the steps to the execution's total, whatever the number of
\* rounds and of lanes.
THEOREM TokensConserved == Spec => []TokensAreConserved
<1>1. Init => TokensIInv
  BY DEF Init, TokensIInv, MasterUsesNone, TotalIsUnset, TokensAreConserved, Late, InRound
<1>2. IInv /\ TokensIInv /\ [Next]_vars => TokensIInv'
  BY NextMasterUsesNone, NextTotal DEF TokensIInv
<1>3. TokensIInv => TokensAreConserved
  BY DEF TokensIInv
<1>4. QED
  BY <1>1, <1>2, <1>3, Invariance, PTL DEF Spec

-----------------------------------------------------------------------------
(* The refinement of ExecutionLifecycle's background task.                   *)

Tracking(n) == [status |-> "running", finished |-> FALSE, lanes |-> n]

\* A synthesis, the only call whose failure leaves the status "running", has
\* results to start from.
WhyFailed ==
  /\ error = "planning" => status = "failed"
  /\ error = "synthesis" => results # <<>> /\ pc \in {"finalizing", "done", "raised"}

LEMMA NextWhyFailed == WhyFailed /\ [Next]_vars => WhyFailed'
<1> SUFFICES ASSUME WhyFailed, [Next]_vars PROVE WhyFailed'
  OBVIOUS
<1> USE DEF WhyFailed
<1>1. CASE FindNoOrchestrator \/ StartExecution \/ PlanExhausted \/ Raise \/ UsePlanAsAnswer
  BY <1>1 DEF FindNoOrchestrator, StartExecution, PlanExhausted, Raise, UsePlanAsAnswer, Goto
<1>2. CASE OpenMasterLane \/ OpenLane \/ Execute \/ Collect
  BY <1>2 DEF OpenMasterLane, OpenLane, Execute, Collect
<1>3. CASE PlanFails \/ PlanIsEmpty \/ PlanIsMalformed
  BY <1>3 DEF PlanFails, PlanIsEmpty, PlanIsMalformed, Plan
<1>4. CASE \E names \in Plans : PlanNames(names)
  BY <1>4 DEF PlanNames, Plan
<1>5. CASE RecordResult
  BY <1>5 DEF RecordResult
<1>6. CASE EndRound
  BY <1>6 DEF EndRound
<1>7. CASE \E e \in {error, "empty", "synthesis"} : Synthesize(e)
  BY <1>7 DEF Synthesize, Goto
<1>8. CASE Finalize
  BY <1>8 DEF Finalize, FinalStatus, Goto
<1>9. CASE \E i \in DOMAIN delegations : AgentStep(i)
  BY <1>9 DEF AgentStep, StartAgent, AgentReturns, AgentCrashes
<1>10. CASE Quiet \/ UNCHANGED vars
  BY <1>10 DEF Quiet, vars
<1>11. QED
  BY <1>1, <1>2, <1>3, <1>4, <1>5, <1>6, <1>7, <1>8, <1>9, <1>10 DEF Next, RunStep, PlanStep

\* From the first lane to the last step the task is tracking, and its image of
\* the row counts the lanes.
LEMMA TrackingState ==
  ASSUME IInv, pc \in Late \cup {"opening"}
  PROVE  TaskState = "tracking" /\ RowImage = Tracking(Cardinality(DOMAIN lanes))
<1>1. error # "no orchestrator"
  BY DEF IInv, NoOrchestrator, Late, InRound
<1>2. QED
  BY <1>1 DEF TaskState, RowImage, InTransaction, Tracking, Late, InRound

\* The same of the next state.
LEMMA TrackingNext ==
  ASSUME IInv', pc' \in Late \cup {"opening"}
  PROVE  TaskState' = "tracking" /\ RowImage' = Tracking(Cardinality(DOMAIN lanes'))
<1>1. error' # "no orchestrator"
  BY DEF IInv, NoOrchestrator, Late, InRound
<1>2. QED
  BY <1>1 DEF TaskState, RowImage, InTransaction, Tracking, Late, InRound

\* The start of the run is a StartWrite of the lifecycle.
LEMMA StartIsStartWrite ==
  ASSUME TaskState = "starting", TaskState' = "tracking",
         RowImage = NoRow, RowImage' = Tracking(0)
  PROVE  Lifecycle!StartWrite
<1> DEFINE F == FALSE
<1>1. /\ FreshRow = [status |-> "pending", finished |-> F, lanes |-> 0]
      /\ Tracking(0) = [status |-> "running", finished |-> F, lanes |-> 0]
  BY DEF FreshRow, Tracking
<1>2. Lifecycle!Exists(FreshRow)
  BY DEF Lifecycle!Exists, FreshRow
<1>3. FreshRow' = FreshRow
  BY DEF FreshRow
<1> HIDE DEF F
<1>4. [FreshRow EXCEPT !.status = "running"] = Tracking(0)
  BY <1>1
<1>5. Lifecycle!Flush([FreshRow EXCEPT !.status = "running"])
  BY <1>3, <1>4 DEF Lifecycle!Flush
<1>6. QED
  BY <1>2, <1>5 DEF Lifecycle!StartWrite

\* A lane more is a TrackLane of the lifecycle.
LEMMA OneLaneMore ==
  ASSUME IInv, IInv', pc \in Late \cup {"opening"}, pc' \in Late,
         NEW n \in Nat, n <= MaxIterations * MaxPlan,
         Cardinality(DOMAIN lanes) = n, Cardinality(DOMAIN lanes') = n + 1
  PROVE  Lifecycle!BgStep
<1> DEFINE F == FALSE
<1>1. /\ TaskState = "tracking" /\ RowImage = Tracking(n)
      /\ TaskState' = "tracking" /\ RowImage' = Tracking(n + 1)
  BY TrackingState, TrackingNext
<1>2. n < 1 + MaxIterations * MaxPlan
  BY IterationsArePositive, RoomArithmetic
<1>3. /\ RowImage = [status |-> "running", finished |-> F, lanes |-> n]
      /\ RowImage' = [status |-> "running", finished |-> F, lanes |-> n + 1]
  BY <1>1 DEF Tracking
<1>4. FreshRow' = FreshRow
  BY DEF FreshRow
<1> HIDE DEF F
<1>5. RowImage' = [RowImage EXCEPT !.lanes = RowImage.lanes + 1]
  BY <1>3
<1>6. Lifecycle!Flush([RowImage EXCEPT !.lanes = RowImage.lanes + 1])
  BY <1>4, <1>5 DEF Lifecycle!Flush
<1>7. RowImage.lanes < 1 + MaxIterations * MaxPlan
  BY <1>2, <1>3
<1>8. Lifecycle!TrackLane
  BY <1>1, <1>6, <1>7 DEF Lifecycle!TrackLane
<1>9. QED
  BY <1>8 DEF Lifecycle!BgStep

\* The last step is a Finish of the lifecycle.
LEMMA LastStepIsFinish ==
  ASSUME NEW n \in Nat, n > 0, NEW s, s = "running" => n > 1,
         TaskState = "tracking", RowImage = Tracking(n), TaskState' = "finishing",
         RowImage' = [status |-> s, finished |-> TRUE, lanes |-> n]
  PROVE  Lifecycle!Finish(s)
<1> DEFINE F == FALSE
           T == TRUE
           half == [RowImage EXCEPT !.status = s]
<1>1. /\ RowImage = [status |-> "running", finished |-> F, lanes |-> n]
      /\ RowImage' = [status |-> s, finished |-> T, lanes |-> n]
  BY DEF Tracking
<1>2. Lifecycle!Stamp(RowImage, s) = [RowImage EXCEPT !.status = s, !.finished = T]
  BY DEF Lifecycle!Stamp
<1>3. FreshRow' = FreshRow
  BY DEF FreshRow
<1> HIDE DEF F, T
<1>4. half = [status |-> s, finished |-> F, lanes |-> n]
  BY <1>1
<1>5. [RowImage EXCEPT !.status = s, !.finished = T] = [half EXCEPT !.finished = T]
  OBVIOUS
<1> HIDE DEF half
<1>6. [half EXCEPT !.finished = T] = [status |-> s, finished |-> T, lanes |-> n]
  BY <1>4
<1>7. Lifecycle!Flush(Lifecycle!Stamp(RowImage, s))
  BY <1>1, <1>2, <1>3, <1>5, <1>6 DEF Lifecycle!Flush
<1>8. RowImage.lanes > IF s = "running" THEN 1 ELSE 0
  BY <1>1
<1>9. QED
  BY <1>7, <1>8 DEF Lifecycle!Finish

\* Every step of the run is a step of the task or leaves it where it is.
LEMMA NextRefines ==
  IInv /\ IInv' /\ WhyFailed /\ [Next]_vars => [Lifecycle!BgStep]_(Lifecycle!vars)
<1> SUFFICES ASSUME IInv, IInv', WhyFailed, [Next]_vars
             PROVE  Lifecycle!BgStep \/ UNCHANGED Lifecycle!vars
  OBVIOUS
<1> USE DEF Goto
<1>1. /\ pc \in {"loading", "starting"} => RowImage = NoRow /\ TaskState = pc
      /\ TypeOK
  BY DEF RowImage, NoRow, InTransaction, TaskState, IInv
<1>2. ASSUME pc \in Late, pc' \in Late, DOMAIN lanes' = DOMAIN lanes
      PROVE  UNCHANGED Lifecycle!vars
  BY <1>2, TrackingState, TrackingNext DEF Lifecycle!vars
<1>3. ASSUME pc \in {"loading", "starting"} \cup Late \cup {"opening"}, pc' = "raised"
      PROVE  Lifecycle!BgStep
  <2>1. TaskState' = "recording" /\ RowImage' = NoRow
    BY <1>3 DEF TaskState, RowImage, NoRow, InTransaction
  <2>2. TaskState \in {"loading", "starting", "tracking"}
    BY <1>1, <1>3, TrackingState
  <2>3. QED
    BY <2>1, <2>2 DEF Lifecycle!BgStep, Lifecycle!Raise, Lifecycle!Rollback, Lifecycle!Raisable,
                      NoRow, Lifecycle!NoRow
<1>4. CASE FindNoOrchestrator
  <2>1. TaskState = "loading" /\ RowImage = NoRow
    BY <1>1, <1>4 DEF FindNoOrchestrator
  <2>2. TaskState' = "publishing" /\ RowImage' = NoRow
    BY <1>4 DEF FindNoOrchestrator, TaskState, RowImage, InTransaction
  <2>3. QED
    BY <2>1, <2>2 DEF Lifecycle!BgStep, Lifecycle!FindNoOrchestrator, Lifecycle!Decide
<1>5. CASE StartExecution
  <2>1. CASE pc = "loading"
    <3>1. TaskState' = "starting" /\ RowImage' = NoRow
      BY <1>5, <2>1 DEF StartExecution, TaskState, RowImage, NoRow, InTransaction
    <3>2. QED
      BY <1>1, <2>1, <3>1
         DEF FreshRow, Lifecycle!BgStep, Lifecycle!StartRead, Lifecycle!Exists
  <2>2. CASE pc = "starting"
    <3>1. DOMAIN lanes' = {} /\ pc' = "opening"
      BY <1>5, <2>2 DEF StartExecution, IInv, LaneNumbers, Early
    <3>2. TaskState' = "tracking" /\ RowImage' = Tracking(0)
      BY <3>1, TrackingNext, FS_EmptySet
    <3>3. QED
      BY <1>1, <2>2, <3>2, StartIsStartWrite DEF Lifecycle!BgStep
  <2>3. QED
    BY <1>5, <2>1, <2>2 DEF StartExecution
<1>6. CASE OpenMasterLane
  <2>1. pc = "opening" /\ DOMAIN lanes = {} /\ pc' = "planning" /\ DOMAIN lanes' = {0}
    BY <1>6 DEF OpenMasterLane, InsertLane, WithLane, IInv, LaneNumbers, Early
  <2>2. Cardinality(DOMAIN lanes) = 0 /\ Cardinality(DOMAIN lanes') = 0 + 1
    BY <2>1, FS_EmptySet, FS_Singleton
  <2>3. 0 <= MaxIterations * MaxPlan
    BY IterationsArePositive, RoomArithmetic
  <2>4. QED
    BY <2>1, <2>2, <2>3, OneLaneMore DEF Late
<1>7. CASE OpenLane
  <2> DEFINE n == Len(results) + cursor
  <2>1. pc = "delegating" /\ cursor <= Len(delegations) /\ pc' \in {"delegating", "clash"}
    BY <1>7 DEF OpenLane, InsertLane
  <2>2. pc' = "delegating"
    BY <2>1 DEF IInv, LaneNumbers
  <2>3. /\ Len(results) \in Nat /\ Len(delegations) \in Nat /\ cursor \in Nat
        /\ iteration \in Nat /\ iteration <= MaxIterations
    BY <1>1, Lists
  <2>4. DOMAIN lanes = 0 .. Len(results) + (cursor - 1)
    BY <2>1 DEF IInv, LaneNumbers, Opened, Late, InRound
  <2>5. DOMAIN lanes' = 0 .. Len(results) + (cursor + 1 - 1)
    <3>1. cursor' = cursor + 1 /\ results' = results
      BY <1>7 DEF OpenLane
    <3>2. DOMAIN lanes' = 0 .. Len(results') + (cursor' - 1)
      BY <2>2 DEF IInv, LaneNumbers, Opened, Late, InRound
    <3>3. Len(results') = Len(results)
      BY <3>1
    <3>4. Len(results') + (cursor' - 1) = Len(results) + (cursor + 1 - 1)
      BY <2>3, <3>1, <3>3
    <3>5. QED
      BY <3>2, <3>4, Zenon
  <2>6. cursor >= 1
    BY <2>1, <2>3 DEF IInv, RoundShape
  <2>7. Cardinality(DOMAIN lanes) = n /\ Cardinality(DOMAIN lanes') = n + 1
    BY <2>3, <2>4, <2>5, <2>6, FS_Interval
  <2>8. n <= MaxIterations * MaxPlan
    <3>1. Len(results) + Len(delegations) <= iteration * MaxPlan
      BY DEF IInv, Room
    <3>2. /\ iteration * MaxPlan \in Nat /\ MaxIterations * MaxPlan \in Nat
          /\ iteration * MaxPlan <= MaxIterations * MaxPlan
      BY <2>3, RoomArithmetic, IterationsArePositive
    <3>3. QED
      BY <2>1, <2>3, <3>1, <3>2
  <2>9. n \in Nat
    BY <2>3
  <2>10. QED
    BY <2>1, <2>2, <2>7, <2>8, <2>9, OneLaneMore DEF Late, InRound
<1>8. CASE PlanFails \/ PlanIsEmpty \/ PlanExhausted \/ Execute \/ Collect \/ UsePlanAsAnswer
           \/ EndRound \/ \E i \in DOMAIN delegations : AgentStep(i)
  <2>1. pc \in Late /\ pc' \in Late /\ DOMAIN lanes' = DOMAIN lanes
    BY <1>8 DEF PlanFails, PlanIsEmpty, Plan, MasterSteps, PlanExhausted, Execute, Collect,
                UsePlanAsAnswer, EndRound, AgentStep, StartAgent, AgentCrashes, AgentReturns,
                Late, InRound
  <2>2. QED
    BY <1>2, <2>1
<1>9. CASE \E names \in Plans : PlanNames(names)
  <2>1. pc \in Late /\ pc' \in Late /\ DOMAIN lanes' = DOMAIN lanes
    BY <1>9 DEF PlanNames, Plan, MasterSteps, Late, InRound
  <2>2. QED
    BY <1>2, <2>1
<1>10. CASE PlanIsMalformed \/ Raise
  <2>1. pc \in {"loading", "starting"} \cup Late \cup {"opening"} /\ pc' = "raised"
    BY <1>10 DEF PlanIsMalformed, Plan, Raise, Late, InRound
  <2>2. QED
    BY <1>3, <2>1
<1>11. CASE RecordResult
  <2>1. pc \in Late /\ pc' \in Late /\ DOMAIN lanes' = DOMAIN lanes
    <3>1. pc = "recording" /\ DOMAIN lanes' = DOMAIN lanes /\ pc' \in {"recording", "clash"}
      BY <1>11 DEF RecordResult
    <3>2. QED
      BY <3>1 DEF IInv, LaneNumbers, Late, InRound
  <2>2. QED
    BY <1>2, <2>1
<1>12. CASE \E e \in {error, "empty", "synthesis"} : Synthesize(e)
  <2>1. pc \in Late /\ pc' \in Late /\ DOMAIN lanes' = DOMAIN lanes
    BY <1>12 DEF Synthesize, MasterSteps, Late
  <2>2. QED
    BY <1>2, <2>1
<1>13. CASE Finalize
  <2> DEFINE n == Cardinality(DOMAIN lanes)
  <2>1. /\ pc = "finalizing" /\ pc' = "done" /\ DOMAIN lanes' = DOMAIN lanes
        /\ error' = error /\ status' = FinalStatus
    BY <1>13 DEF Finalize
  <2>2. /\ n = Len(results) + Len(delegations) + 1
        /\ Len(results) \in Nat /\ Len(delegations) \in Nat
    <3>1. DOMAIN lanes = 0 .. Len(results) + Len(delegations)
      BY <2>1 DEF IInv, LaneNumbers, Opened, Late
    <3>2. Len(results) \in Nat /\ Len(delegations) \in Nat
      BY <1>1, Lists
    <3>3. QED
      BY <3>1, <3>2, FS_Interval
  <2>3. TaskState = "tracking" /\ RowImage = Tracking(n)
    BY <2>1, TrackingState DEF Late
  <2>4. error # "no orchestrator"
    BY <2>1 DEF IInv, NoOrchestrator
  <2>5. status' \in {"completed", "failed", "running"}
    BY <1>1, <2>1 DEF TypeOK, FinalStatus
  <2>6. /\ TaskState' = "finishing"
        /\ RowImage' = [status |-> status', finished |-> TRUE, lanes |-> n]
    BY <2>1, <2>4 DEF TaskState, RowImage, InTransaction
  <2>7. n \in Nat /\ n > 0
    BY <2>2
  <2>8. Lifecycle!Finish(status')
    <3>1. ASSUME status' = "running" PROVE n > 1
      <4>1. error = "synthesis"
        BY <1>1, <2>1, <2>4, <3>1 DEF FinalStatus, TypeOK, WhyFailed
      <4>2. Len(results) > 0
        BY <1>1, <4>1, Lists DEF WhyFailed, TypeOK
      <4>3. QED
        BY <2>2, <4>2
    <3>2. QED
      BY <2>3, <2>6, <2>7, <3>1, LastStepIsFinish
  <2>9. QED
    BY <2>5, <2>8 DEF Lifecycle!BgStep, Lifecycle!Outcomes
<1>14. CASE Quiet \/ UNCHANGED vars
  BY <1>14 DEF Quiet, vars, Lifecycle!vars, TaskState, RowImage, InTransaction
<1>15. QED
  BY <1>4, <1>5, <1>6, <1>7, <1>8, <1>9, <1>10, <1>11, <1>12, <1>13, <1>14
     DEF Next, RunStep, PlanStep

\* What run_workflow does is what the lifecycle allows its task, so that the
\* lifecycle's results hold for it.
THEOREM TaskRefinement == Spec => ImplementsLifecycleTask
<1>0. Init => WhyFailed
  BY DEF Init, WhyFailed
<1>1. IInv /\ IInv' /\ WhyFailed /\ [Next]_vars => [Lifecycle!BgStep]_(Lifecycle!vars)
  BY NextRefines
<1>2. QED
  BY <1>0, <1>1, NextWhyFailed, Invariance, PTL DEF Spec, ImplementsLifecycleTask
-----------------------------------------------------------------------------
(* The run runs down.                                                        *)

\* A round is a plan and, for each delegation, a lane, a start, an end and a
\* record, with the two moves between these loops and the end of the round.
RoundCost == 4 * MaxPlan + 4

RoundsToCome == (MaxIterations - iteration) * RoundCost

\* What the sub-agents of this round still have to do: start, and end.
Unstarted(ds) == {i \in DOMAIN ds : ds[i].status = "pending"}
Unended(ds) == {i \in DOMAIN ds : ~Over(ds[i])}

Work(ds) == Cardinality(Unstarted(ds)) + Cardinality(Unended(ds))

CursorToCome == Len(delegations) + 1 - cursor

\* An upper bound on the steps run_workflow can still take.
Distance ==
  CASE pc = "loading" -> RoundsToCome + 6
    [] pc = "starting" -> RoundsToCome + 5
    [] pc = "opening" -> RoundsToCome + 4
    [] pc = "planning" -> RoundsToCome + 3
    [] pc = "delegating" -> RoundsToCome + 6 + CursorToCome + Work(delegations) + Len(delegations)
    [] pc = "executing" -> RoundsToCome + 5 + Work(delegations) + Len(delegations)
    [] pc = "recording" -> RoundsToCome + 4 + CursorToCome
    [] pc = "synthesizing" -> 2
    [] pc = "finalizing" -> 1
    [] pc \in {"done", "raised", "clash"} -> 0

LEMMA RoundArithmetic ==
  ASSUME NEW n \in 0 .. MaxIterations
  PROVE  /\ RoundCost \in Nat
         /\ (MaxIterations - n) * RoundCost \in Nat
         /\ (MaxIterations - n) * RoundCost = (MaxIterations - (n + 1)) * RoundCost + RoundCost
<1>1. /\ MaxIterations - n \in Nat /\ n \in Nat /\ MaxIterations \in Nat
      /\ RoundCost \in Nat
  BY IterationsArePositive, BoundsAreNatural DEF RoundCost
<1>2. QED
  BY <1>1

LEMMA Rounds ==
  TypeOK => /\ RoundsToCome \in Nat
            /\ Len(delegations) \in Nat /\ cursor \in Nat
BY RoundArithmetic, Lists DEF TypeOK, RoundsToCome

\* The sub-agents that have not started or not ended are some of the delegations.
LEMMA WorkOfRound ==
  ASSUME NEW ds \in Seq(Delegation)
  PROVE  /\ IsFiniteSet(Unstarted(ds)) /\ IsFiniteSet(Unended(ds))
         /\ Cardinality(Unstarted(ds)) \in Nat /\ Cardinality(Unended(ds)) \in Nat
         /\ Len(ds) \in Nat
         /\ Work(ds) \in 0 .. 2 * Len(ds)
<1> DEFINE n == Len(ds)
           all == 1 .. n
<1>1. n \in Nat /\ DOMAIN ds = all
  OBVIOUS
<1>2. Unstarted(ds) \in SUBSET all /\ Unended(ds) \in SUBSET all
  BY <1>1 DEF Unstarted, Unended
<1> HIDE DEF n
<1>3. IsFiniteSet(all) /\ Cardinality(all) = n
  <2>1. IsFiniteSet(all) /\ Cardinality(all) = IF 1 > n THEN 0 ELSE n - 1 + 1
    BY <1>1, FS_Interval
  <2>2. QED
    BY <1>1, <2>1
<1> HIDE DEF all
<1>4. /\ IsFiniteSet(Unstarted(ds)) /\ Cardinality(Unstarted(ds)) <= n
      /\ IsFiniteSet(Unended(ds)) /\ Cardinality(Unended(ds)) <= n
  BY <1>2, <1>3, FS_Subset
<1>5. Cardinality(Unstarted(ds)) \in Nat /\ Cardinality(Unended(ds)) \in Nat
  BY <1>4, FS_CardinalityType
<1>6. Work(ds) \in 0 .. 2 * n
  BY <1>1, <1>4, <1>5 DEF Work
<1>7. QED
  BY <1>1, <1>4, <1>5, <1>6 DEF n

LEMMA WorkIsNatural == TypeOK => Work(delegations) \in Nat
<1> SUFFICES ASSUME TypeOK PROVE Work(delegations) \in Nat
  OBVIOUS
<1>1. Work(delegations) \in 0 .. 2 * Len(delegations) /\ Len(delegations) \in Nat
  BY WorkOfRound DEF TypeOK
<1>2. QED
  BY <1>1

\* A sub-agent that starts or ends leaves less to do.
LEMMA AgentsWork ==
  ASSUME TypeOK, NEW i \in DOMAIN delegations, AgentStep(i)
  PROVE  /\ Work(delegations') < Work(delegations)
         /\ Work(delegations') \in Nat
         /\ Len(delegations') = Len(delegations)
<1>1. /\ delegations \in Seq(Delegation)
      /\ delegations[i].status \in {"pending", "running"}
      /\ delegations[i] \in Delegation
  BY Lists DEF TypeOK, AgentStep, StartAgent, AgentCrashes, AgentReturns
<1>2. PICK d \in Delegation :
        /\ delegations' = [delegations EXCEPT ![i] = d]
        /\ \/ delegations[i].status = "pending" /\ d.status = "running"
           \/ delegations[i].status = "running" /\ d.status \in {"completed", "failed"}
  <2>1. CASE StartAgent(i)
    <3>1. [delegations[i] EXCEPT !.status = "running"] \in Delegation
      BY <1>1 DEF Delegation
    <3>2. QED
      BY <1>1, <2>1, <3>1 DEF StartAgent, Delegation
  <2>2. CASE AgentCrashes(i)
    <3>1. [delegations[i] EXCEPT !.status = "failed"] \in Delegation
      BY <1>1 DEF Delegation
    <3>2. QED
      BY <1>1, <2>2, <3>1 DEF AgentCrashes, Delegation
  <2>3. ASSUME NEW s \in {"completed", "failed"}, NEW t \in Tokens, NEW n \in 0 .. MaxToolCalls,
               AgentReturns(i, s, t, n)
        PROVE  \E d \in Delegation :
                 /\ delegations' = [delegations EXCEPT ![i] = d]
                 /\ delegations[i].status = "running" /\ d.status \in {"completed", "failed"}
    <3> DEFINE d == [delegations[i] EXCEPT !.status = s, !.tokens = t, !.tools = n]
    <3>1. d \in Delegation /\ d.status = s
      <4>1. t \in Nat /\ n \in Nat
        BY BoundsAreNatural
      <4>2. QED
        BY <1>1, <4>1 DEF Delegation
    <3>2. delegations' = [delegations EXCEPT ![i] = d]
      BY <2>3 DEF AgentReturns
    <3>3. QED
      BY <2>3, <3>1, <3>2 DEF AgentReturns
  <2>4. QED
    BY <2>1, <2>2, <2>3 DEF AgentStep
<1>3. /\ DOMAIN delegations' = DOMAIN delegations
      /\ Len(delegations') = Len(delegations)
      /\ delegations'[i] = d
      /\ \A j \in DOMAIN delegations : j # i => delegations'[j] = delegations[j]
  BY <1>1, <1>2
<1>4. delegations' \in Seq(Delegation)
  BY <1>1, <1>2
<1> DEFINE s == Cardinality(Unstarted(delegations))
           t == Cardinality(Unended(delegations))
<1>5. s \in Nat /\ t \in Nat /\ Work(delegations) = s + t /\ Work(delegations') \in Nat
  <2>1. Work(delegations') \in 0 .. 2 * Len(delegations') /\ Len(delegations') \in Nat
    BY <1>4, WorkOfRound
  <2>2. QED
    BY <1>1, <2>1, WorkOfRound DEF Work
<1>6. CASE delegations[i].status = "pending" /\ d.status = "running"
  <2>1. /\ Unstarted(delegations') = Unstarted(delegations) \ {i}
        /\ i \in Unstarted(delegations)
        /\ Unended(delegations') = Unended(delegations)
    BY <1>3, <1>6 DEF Unstarted, Unended, Over
  <2>2. Cardinality(Unstarted(delegations')) = Cardinality(Unstarted(delegations)) - 1
    BY <1>1, <2>1, WorkOfRound, FS_RemoveElement
  <2>3. Work(delegations') = (s - 1) + t
    BY <2>1, <2>2 DEF Work
  <2>4. QED
    <3> HIDE DEF s, t
    <3>1. QED
      BY <1>3, <1>5, <2>3
<1>7. CASE delegations[i].status = "running" /\ d.status \in {"completed", "failed"}
  <2>1. /\ Unended(delegations') = Unended(delegations) \ {i}
        /\ i \in Unended(delegations)
        /\ Unstarted(delegations') = Unstarted(delegations)
    BY <1>3, <1>7 DEF Unstarted, Unended, Over
  <2>2. Cardinality(Unended(delegations')) = Cardinality(Unended(delegations)) - 1
    BY <1>1, <2>1, WorkOfRound, FS_RemoveElement
  <2>3. Work(delegations') = s + (t - 1)
    BY <2>1, <2>2 DEF Work
  <2>4. QED
    <3> HIDE DEF s, t
    <3>1. QED
      BY <1>3, <1>5, <2>3
<1>8. QED
  BY <1>2, <1>6, <1>7

LEMMA DistanceIsNatural == IInv => Distance \in Nat
<1> SUFFICES ASSUME IInv PROVE Distance \in Nat
  OBVIOUS
<1>1. RoundsToCome \in Nat /\ Work(delegations) \in Nat /\ Len(delegations) \in Nat
  BY Rounds, WorkIsNatural DEF IInv
<1>2. pc \in {"delegating", "recording"} => CursorToCome \in Nat
  BY <1>1 DEF IInv, RoundShape, CursorToCome
<1>3. QED
  <2>1. CASE pc \in {"delegating", "executing", "recording"}
    BY <1>1, <1>2, <2>1 DEF Distance
  <2>2. CASE pc \in {"loading", "starting", "opening", "planning"}
    BY <1>1, <2>2 DEF Distance
  <2>3. CASE pc \in {"synthesizing", "finalizing", "done", "raised", "clash"}
    BY <2>3 DEF Distance
  <2>4. QED
    BY <2>1, <2>2, <2>3 DEF IInv, TypeOK

\* A plan costs what is reserved for its round.
LEMMA PlanDistance ==
  ASSUME IInv, TypeOK', PlanStep
  PROVE  Distance' < Distance
<1>1. /\ RoundsToCome \in Nat /\ RoundsToCome' \in Nat /\ RoundCost \in Nat
      /\ MaxPlan \in Nat
  BY RoundArithmetic, BoundsAreNatural DEF IInv, TypeOK, RoundsToCome
<1>2. pc = "planning" /\ Distance = RoundsToCome + 3
  BY DEF PlanStep, PlanFails, PlanIsEmpty, PlanIsMalformed, PlanNames, PlanExhausted, Plan,
         Distance
<1>3. CASE pc' \in {"synthesizing", "raised"}
  BY <1>1, <1>2, <1>3 DEF Distance
<1>4. ASSUME NEW names \in Plans, PlanNames(names), pc' = "delegating"
      PROVE  Distance' < Distance
  <2> DEFINE known == KnownNames(names)
  <2>1. RoundsToCome = RoundsToCome' + RoundCost
    <3>1. iteration \in 0 .. MaxIterations /\ iteration' = iteration + 1
      BY <1>4 DEF PlanNames, Plan, IInv, TypeOK
    <3>2. QED
      BY <3>1, RoundArithmetic DEF RoundsToCome
  <2>2. cursor' = 1 /\ delegations' = [i \in DOMAIN known |-> Pending(known[i])]
    BY <1>4 DEF PlanNames, Goto
  <2>3. PICK n \in 0 .. MaxPlan : known \in [1 .. n -> Agents]
    BY KnownNamesOfPlan DEF KnownPlans
  <2>4. Len(delegations') = n /\ n \in Nat /\ n <= MaxPlan
    <3>1. DOMAIN delegations' = 1 .. n /\ n \in Nat /\ n <= MaxPlan
      BY <1>1, <2>2, <2>3
    <3>2. DOMAIN delegations' = 1 .. Len(delegations') /\ Len(delegations') \in Nat
      <4>1. delegations' \in Seq(Delegation)
        BY DEF TypeOK
      <4>2. QED
        BY <4>1
    <3>3. QED
      BY <3>1, <3>2
  <2>5. Work(delegations') \in 0 .. 2 * n
    <3>1. delegations' \in Seq(Delegation)
      BY DEF TypeOK
    <3>2. QED
      BY <2>4, <3>1, WorkOfRound
  <2>6. Distance' = RoundsToCome' + 6 + (n + 1 - 1) + Work(delegations') + n
    BY <1>4, <2>2, <2>4 DEF Distance, CursorToCome
  <2>7. QED
    <3> DEFINE r == RoundsToCome'
               w == Work(delegations')
    <3>1. r \in Nat /\ w \in 0 .. 2 * n /\ n \in Nat /\ MaxPlan \in Nat /\ n <= MaxPlan
      BY <1>1, <2>4, <2>5
    <3>2. Distance = r + (4 * MaxPlan + 4) + 3
      BY <1>2, <2>1 DEF RoundCost
    <3>3. Distance' = r + 6 + (n + 1 - 1) + w + n
      BY <2>6
    <3> HIDE DEF r, w
    <3>4. r + 6 + (n + 1 - 1) + w + n < r + (4 * MaxPlan + 4) + 3
      BY <3>1
    <3>5. QED
      BY <3>2, <3>3, <3>4
<1>5. QED
  BY <1>3, <1>4 DEF PlanStep, PlanFails, PlanIsEmpty, PlanIsMalformed, PlanNames, PlanExhausted,
                    Goto

LEMMA NextDistance == IInv /\ IInv' /\ [Next]_vars => [Distance' < Distance]_vars
<1> SUFFICES ASSUME IInv, IInv', RunStep \/ \E i \in DOMAIN delegations : AgentStep(i)
             PROVE  Distance' < Distance
  BY DEF Next, Quiet
<1>1. /\ RoundsToCome \in Nat /\ Work(delegations) \in Nat
      /\ Len(delegations) \in Nat /\ cursor \in Nat
  BY Rounds, WorkIsNatural DEF IInv
<1>2. pc \in {"delegating", "recording"} => CursorToCome \in Nat
  BY <1>1 DEF IInv, RoundShape, CursorToCome
<1>3. ASSUME UNCHANGED iteration PROVE RoundsToCome' = RoundsToCome
  BY <1>3 DEF RoundsToCome
<1>4. ASSUME UNCHANGED delegations
      PROVE  Work(delegations') = Work(delegations) /\ Len(delegations') = Len(delegations)
  BY <1>4
<1>5. ASSUME UNCHANGED delegations, cursor' = cursor + 1
      PROVE  CursorToCome' = CursorToCome - 1
  BY <1>1, <1>5 DEF CursorToCome
<1> HIDE DEF RoundsToCome, Work, CursorToCome
<1>6. CASE FindNoOrchestrator \/ UsePlanAsAnswer \/ Finalize
           \/ \E e \in {error, "empty", "synthesis"} : Synthesize(e)
  <2>1. \/ pc = "loading" /\ pc' = "done"
        \/ pc = "synthesizing" /\ pc' = "finalizing"
        \/ pc = "finalizing" /\ pc' = "done"
    BY <1>6 DEF FindNoOrchestrator, UsePlanAsAnswer, Finalize, Synthesize, Goto
  <2>2. QED
    BY <1>1, <2>1 DEF Distance
<1>7. CASE Raise
  BY <1>1, <1>2, <1>7 DEF Raise, Goto, Distance
<1>8. CASE StartExecution \/ OpenMasterLane
  BY <1>1, <1>3, <1>8 DEF StartExecution, OpenMasterLane, InsertLane, Goto, Distance,
                          IInv, LaneNumbers
<1>9. CASE PlanStep
  BY <1>9, PlanDistance DEF IInv
<1>10. CASE OpenLane
  <2>1. pc = "delegating" /\ pc' = "delegating" /\ cursor' = cursor + 1
        /\ UNCHANGED <<iteration, delegations>>
    BY <1>10 DEF OpenLane, InsertLane, Goto, IInv, LaneNumbers
  <2>2. QED
    BY <1>1, <1>2, <1>3, <1>4, <1>5, <2>1 DEF Distance
<1>11. CASE Execute
  <2>1. pc = "delegating" /\ pc' = "executing" /\ UNCHANGED <<iteration, delegations>>
    BY <1>11 DEF Execute, Goto
  <2>2. QED
    BY <1>1, <1>2, <1>3, <1>4, <2>1 DEF Distance
<1>12. CASE \E i \in DOMAIN delegations : AgentStep(i)
  <2>1. /\ Work(delegations') < Work(delegations) /\ Work(delegations') \in Nat
        /\ Len(delegations') = Len(delegations)
    BY <1>12, AgentsWork DEF IInv
  <2>2. pc = "executing" /\ pc' = "executing" /\ UNCHANGED iteration
    BY <1>12 DEF AgentStep, StartAgent, AgentCrashes, AgentReturns
  <2>3. QED
    BY <1>1, <1>3, <2>1, <2>2 DEF Distance
<1>13. CASE Collect
  <2>1. pc = "executing" /\ pc' = "recording" /\ cursor' = 1
        /\ UNCHANGED <<iteration, delegations>>
    BY <1>13 DEF Collect, Goto
  <2>2. CursorToCome' = Len(delegations)
    BY <1>1, <1>4, <2>1 DEF CursorToCome
  <2>3. QED
    BY <1>1, <1>3, <2>1, <2>2 DEF Distance
<1>14. CASE RecordResult
  <2>1. pc = "recording" /\ pc' = "recording" /\ cursor' = cursor + 1
        /\ UNCHANGED <<iteration, delegations>>
    BY <1>14 DEF RecordResult, Goto, IInv, LaneNumbers
  <2>2. QED
    BY <1>1, <1>2, <1>3, <1>5, <2>1 DEF Distance
<1>15. CASE EndRound
  <2>1. pc = "recording" /\ pc' = "planning" /\ UNCHANGED iteration
    BY <1>15 DEF EndRound, Goto
  <2>2. QED
    BY <1>1, <1>2, <1>3, <2>1 DEF Distance
<1>16. QED
  BY <1>6, <1>7, <1>8, <1>9, <1>10, <1>11, <1>12, <1>13, <1>14, <1>15 DEF RunStep

\* Whatever the language model plans and the sub-agents answer, run_workflow is
\* over after a number of steps known before it starts: max_iterations rounds of
\* at most four steps for each delegation and four more, and six around them.
\* That the next step is taken is what fairness adds.
THEOREM WorkflowRunsDown ==
  Spec => /\ Distance = MaxIterations * RoundCost + 6
          /\ [](Distance \in Nat)
          /\ [][Distance' < Distance]_vars
<1>1. Init => Distance = MaxIterations * RoundCost + 6
  BY IterationsArePositive DEF Init, Distance, RoundsToCome
<1>2. QED
  BY <1>1, Invariance, DistanceIsNatural, NextDistance, PTL DEF Spec

=============================================================================
