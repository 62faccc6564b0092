---------------------- MODULE ExecutionLifecycleProofs ----------------------
(***************************************************************************)
(* Proofs about ExecutionLifecycle, for any number of cancel and delete    *)
(* requests and any number of lanes.  Everything follows from one          *)
(* inductive invariant, IInv.                                              *)
(***************************************************************************)
EXTENDS ExecutionLifecycle, TLAPS

\* An absent row has no contents.
AbsentIsNoRow ==
  /\ Exists(row) \/ row = NoRow
  /\ Exists(image) \/ image = NoRow

\* The lock is held inside the transaction and nowhere else, and a locked row
\* cannot be deleted.
LockProtocol ==
  /\ Locked <=> bg \in InTx
  /\ Locked => Exists(row)

\* What the task has written so far, seen from the row and from its image.
TaskProgress ==
  /\ bg = "absent" => row = NoRow /\ \A r \in Requests : req[r] = "idle"
  /\ bg \notin Ended => /\ verdict = "none"
                        /\ row.lanes = 0
                        /\ row.status \in {"absent", "pending", "cancelled"}
  /\ bg = "finishing" => image.finished /\ image.lanes > 0 /\ image.status \in Outcomes
  /\ bg \in {"publishing", "ended"} => verdict # "none"
  /\ row.lanes > 0 => row.finished

\* Until the task decides, nothing has lapsed, and a pending row is as the POST
\* made it.
NothingDecided ==
  bg \notin Ended => lapse = "none" /\ (row.status = "pending" => row = FreshRow)

\* After a completed run only the cancels that overlapped its commit can write.
CompletedRun ==
  verdict = "completed" =>
    /\ row.status \in {"completed", "cancelled", "absent"}
    /\ \A c \in Cancels : req[c] = "checked" => c \in overlap
    /\ row.status = "cancelled" => overlap # {}

\* TypeOK plus what makes it and the safety properties inductive.
IInv ==
  /\ TypeOK
  /\ AbsentIsNoRow
  /\ LockProtocol
  /\ TaskProgress
  /\ CompletedRun
  /\ NothingDecided
  /\ VerdictAgreesWithRow
  /\ DeletedStaysDeleted
  /\ AcknowledgedCancelIsFinished

-----------------------------------------------------------------------------

\* Before the first POST there is no row, no task and no answer.
LEMMA InitIInv == Init => IInv
<1> SUFFICES ASSUME Init PROVE IInv
  OBVIOUS
<1> USE DEF Init, NoRow, Exists
<1>1. TypeOK
  <2>1. row \in Rows /\ image \in Rows
    BY MaxLanesIsPositive DEF Rows
  <2>2. req \in [Requests -> {"idle"} \cup InFlight \cup Answers]
    OBVIOUS
  <2>3. QED
    BY <2>1, <2>2 DEF TypeOK, Before
<1>2. AbsentIsNoRow /\ LockProtocol /\ NothingDecided /\ VerdictAgreesWithRow
  BY DEF AbsentIsNoRow, LockProtocol, Locked, InTx, NothingDecided, VerdictAgreesWithRow
<1>3. TaskProgress /\ CompletedRun
  BY DEF TaskProgress, CompletedRun, Ended
<1>4. DeletedStaysDeleted /\ AcknowledgedCancelIsFinished
  BY DEF DeletedStaysDeleted, AcknowledgedCancelIsFinished, Requests
<1>5. QED
  BY <1>1, <1>2, <1>3, <1>4 DEF IInv

\* The types do not depend on the rest of the invariant.
LEMMA NextTypeOK == TypeOK /\ [Next]_vars => TypeOK'
<1> SUFFICES ASSUME TypeOK, [Next]_vars PROVE TypeOK'
  OBVIOUS
<1> USE MaxLanesIsPositive
    DEF TypeOK, Rows, NoRow, Statuses, Before, InTx, Handling, Ended, InFlight, Answers, Requests
<1>0. lapse' \in {"none"} \cup Lapses
  <2>1. lapse' = lapse \/ lapse' \in {"none", "no orchestrator", "synthesis", "handler"}
    BY DEF Next, vars, CreateExecution, BgStep, Launch, FindNoOrchestrator, StartRead, StartWrite,
           TrackLane, Finish, Commit, Raise, RecordRead, RecordWrite, RecordFails, Publish, Decide,
           CancelStep, CancelRead, CancelWrite, DeleteStep, DeleteRead, DeleteWrite, RequestFails,
           Crash, Quiet
  <2>2. QED
    BY <2>1 DEF Lapses
<1> USE <1>0
<1>1. CASE CreateExecution
  BY <1>1 DEF CreateExecution, FreshRow
<1>2. CASE Launch
  BY <1>2 DEF Launch
<1>3. CASE FindNoOrchestrator
  BY <1>3 DEF FindNoOrchestrator, Decide
<1>4. CASE StartRead
  BY <1>4 DEF StartRead
<1>5. CASE StartWrite
  BY <1>5 DEF StartWrite, Flush
<1>6. CASE TrackLane
  BY <1>6 DEF TrackLane, Flush
<1>7. CASE \E outcome \in Outcomes : Finish(outcome)
  BY <1>7 DEF Finish, Flush, Stamp, Outcomes
<1>8. CASE Commit
  BY <1>8 DEF Commit, Decide, VerdictOf
<1>9. CASE Raise
  BY <1>9 DEF Raise, Rollback, Raisable
<1>10. CASE RecordRead
  BY <1>10 DEF RecordRead
<1>11. CASE RecordWrite
  BY <1>11 DEF RecordWrite, Decide, Update, Stamp
<1>12. CASE RecordFails
  BY <1>12 DEF RecordFails, Decide
<1>13. CASE Publish
  BY <1>13 DEF Publish
<1>14. CASE \E c \in Cancels : CancelRead(c)
  BY <1>14 DEF CancelRead, Answer, Cancellable
<1>15. CASE \E c \in Cancels : CancelWrite(c)
  <2>1. PICK c \in Cancels : CancelWrite(c)
    BY <1>15
  <2>2. row' \in Rows
    BY <2>1 DEF CancelWrite, Update, Stamp
  <2>3. req' \in [Requests -> {"idle"} \cup InFlight \cup Answers]
    BY <2>1 DEF CancelWrite, Answer
  <2>4. QED
    BY <2>1, <2>2, <2>3 DEF CancelWrite
<1>16. CASE \E d \in Deletes : DeleteRead(d)
  BY <1>16 DEF DeleteRead, Answer
<1>17. CASE \E d \in Deletes : DeleteWrite(d)
  BY <1>17 DEF DeleteWrite, Answer
<1>18. CASE Crash
  BY <1>18 DEF Crash
<1>19. CASE \E r \in Requests : RequestFails(r)
  BY <1>19 DEF RequestFails, Answer
<1>20. CASE Quiet
  BY <1>20 DEF Quiet, vars
<1>21. CASE UNCHANGED vars
  BY <1>21 DEF vars
<1>22. QED
  BY <1>1, <1>2, <1>3, <1>4, <1>5, <1>6, <1>7, <1>8, <1>9, <1>10, <1>11, <1>12,
     <1>13, <1>14, <1>15, <1>16, <1>17, <1>18, <1>19, <1>20, <1>21
     DEF Next, BgStep, CancelStep, DeleteStep, Requests

\* Without the comparison of verdict and row.  One step per action; the write of a
\* cancel, which disturbs most of the invariant, is split by conjunct.
Core ==
  /\ AbsentIsNoRow
  /\ LockProtocol
  /\ TaskProgress
  /\ CompletedRun
  /\ DeletedStaysDeleted
  /\ AcknowledgedCancelIsFinished

LEMMA NextCore == IInv /\ [Next]_vars => Core'
<1> SUFFICES ASSUME IInv, [Next]_vars PROVE Core'
  OBVIOUS
<1>0. TypeOK'
  BY NextTypeOK DEF IInv
<1> USE <1>0, RequestsAreDisjoint
    DEF IInv, Core, TypeOK, Rows, AbsentIsNoRow, LockProtocol, Locked, TaskProgress, CompletedRun,
        DeletedStaysDeleted, AcknowledgedCancelIsFinished,
        Exists, NoRow, Before, InTx, Handling, Ended, Requests
<1>1. CASE CreateExecution
  BY <1>1 DEF CreateExecution, FreshRow
<1>2. CASE Launch
  BY <1>2 DEF Launch
<1>3. CASE FindNoOrchestrator
  BY <1>3 DEF FindNoOrchestrator, Decide
<1>4. CASE StartRead
  BY <1>4 DEF StartRead
<1>5. CASE StartWrite
  BY <1>5 DEF StartWrite, Flush
<1>6. CASE TrackLane
  BY <1>6 DEF TrackLane, Flush
<1>7. CASE \E outcome \in Outcomes : Finish(outcome)
  BY <1>7 DEF Finish, Flush, Stamp, Outcomes
<1>8. CASE Commit
  BY <1>8 DEF Commit, Decide, VerdictOf
<1>9. CASE Raise
  BY <1>9 DEF Raise, Rollback, Raisable
<1>10. CASE RecordRead
  BY <1>10 DEF RecordRead
<1>11. CASE RecordWrite
  BY <1>11 DEF RecordWrite, Decide, Update, Stamp
<1>12. CASE RecordFails
  BY <1>12 DEF RecordFails, Decide
<1>13. CASE Publish
  BY <1>13 DEF Publish
<1>14. CASE \E c \in Cancels : CancelRead(c)
  BY <1>14 DEF CancelRead, Answer, Cancellable
<1>15. CASE \E c \in Cancels : CancelWrite(c)
  <2>1. PICK c \in Cancels : CancelWrite(c)
    BY <1>15
  <2> USE <2>1 DEF CancelWrite, Answer, Update, Stamp
  <2>2. AbsentIsNoRow' /\ LockProtocol' /\ TaskProgress'
    OBVIOUS
  <2>3. CompletedRun'
    OBVIOUS
  <2>4. DeletedStaysDeleted'
    OBVIOUS
  <2>5. AcknowledgedCancelIsFinished'
    OBVIOUS
  <2>6. QED
    BY <2>2, <2>3, <2>4, <2>5
<1>16. CASE \E d \in Deletes : DeleteRead(d)
  BY <1>16 DEF DeleteRead, Answer
<1>17. CASE \E d \in Deletes : DeleteWrite(d)
  BY <1>17 DEF DeleteWrite, Answer
<1>18. CASE Crash
  BY <1>18 DEF Crash
<1>19. CASE \E r \in Requests : RequestFails(r)
  BY <1>19 DEF RequestFails, Answer, InFlight
<1>20. CASE Quiet
  BY <1>20 DEF Quiet, vars
<1>21. CASE UNCHANGED vars
  BY <1>21 DEF vars
<1>22. QED
  BY <1>1, <1>2, <1>3, <1>4, <1>5, <1>6, <1>7, <1>8, <1>9, <1>10, <1>11, <1>12,
     <1>13, <1>14, <1>15, <1>16, <1>17, <1>18, <1>19, <1>20, <1>21
     DEF Next, BgStep, CancelStep, DeleteStep, Requests

\* What the task decides, and what its row shows then and later.
LEMMA NextVerdict == IInv /\ [Next]_vars => NothingDecided' /\ VerdictAgreesWithRow'
<1> SUFFICES ASSUME IInv, [Next]_vars PROVE NothingDecided' /\ VerdictAgreesWithRow'
  OBVIOUS
<1>0. row \in Rows /\ image \in Rows
  BY DEF IInv, TypeOK
<1> USE <1>0 DEF NothingDecided, VerdictAgreesWithRow, Rows, FreshRow, NoRow, Exists, Ended
<1>1. ASSUME UNCHANGED <<row, lapse, verdict>>, bg' \in {"publishing", "ended"} => bg \in {"publishing", "ended"},
             bg' \notin Ended => bg \notin Ended
      PROVE  NothingDecided' /\ VerdictAgreesWithRow'
  BY <1>1 DEF IInv
<1>2. CASE CreateExecution
  BY <1>2 DEF CreateExecution, IInv
<1>3. CASE Launch \/ StartRead \/ StartWrite \/ TrackLane \/ Raise \/ RecordRead \/ Publish
           \/ \E outcome \in Outcomes : Finish(outcome)
  BY <1>1, <1>3 DEF Launch, StartRead, StartWrite, TrackLane, Raise, RecordRead, Publish, Finish,
                    Flush, Raisable
<1>4. CASE FindNoOrchestrator \/ RecordFails
  <2>1. bg \notin Ended
    BY <1>4 DEF FindNoOrchestrator, RecordFails, Handling
  <2>2. Exists(row) /\ row.status # "cancelled" => row = FreshRow
    BY <2>1 DEF IInv, TaskProgress
  <2>3. QED
    BY <1>4, <2>2 DEF FindNoOrchestrator, RecordFails, Decide
<1>5. CASE Commit
  <2>1. image.finished /\ image.status \in Outcomes
    BY <1>5 DEF Commit, IInv, TaskProgress
  <2>2. QED
    BY <1>5, <2>1 DEF Commit, Decide, VerdictOf, Outcomes
<1>6. CASE RecordWrite
  BY <1>6 DEF RecordWrite, Decide, Update, Stamp
<1>7. ASSUME NEW c \in Cancels, CancelWrite(c) PROVE NothingDecided' /\ VerdictAgreesWithRow'
  <2>1. row' = row \/ row'.status = "cancelled"
    BY <1>7 DEF CancelWrite, Update, Stamp
  <2>2. QED
    BY <1>7, <2>1 DEF CancelWrite, IInv
<1>8. ASSUME NEW d \in Deletes, DeleteWrite(d) PROVE NothingDecided' /\ VerdictAgreesWithRow'
  BY <1>8 DEF DeleteWrite, IInv
<1>9. CASE \/ \E c \in Cancels : CancelRead(c)
           \/ \E d \in Deletes : DeleteRead(d)
           \/ \E r \in Requests : RequestFails(r)
  BY <1>1, <1>9 DEF CancelRead, DeleteRead, RequestFails
<1>10. CASE Crash
  BY <1>10 DEF Crash, IInv
<1>11. CASE Quiet \/ UNCHANGED vars
  BY <1>1, <1>11 DEF Quiet, vars
<1>12. QED
  BY <1>2, <1>3, <1>4, <1>5, <1>6, <1>7, <1>8, <1>9, <1>10, <1>11
     DEF Next, BgStep, CancelStep, DeleteStep, Requests

LEMMA NextIInv == IInv /\ [Next]_vars => IInv'
BY NextTypeOK, NextCore, NextVerdict DEF IInv, Core

\* Every reachable state satisfies the inductive invariant.
THEOREM Invariance == Spec => []IInv
<1>1. Init => IInv
  BY InitIInv
<1>2. IInv /\ [Next]_vars => IInv'
  BY NextIInv
<1>3. QED
  BY <1>1, <1>2, PTL DEF Spec

\* The variables keep their types: no writer leaves a status outside the CHECK
\* constraint of the table.
THEOREM TypeCorrect == Spec => []TypeOK
BY Invariance, PTL DEF IInv

\* No reader ever sees a part of a run's trace.
THEOREM TraceAtomicity == Spec => []TraceIsAtomic
<1>1. IInv => TraceIsAtomic
  BY DEF IInv, TypeOK, Rows, TaskProgress, TraceIsAtomic
<1>2. QED
  BY <1>1, Invariance, PTL

\* The row shows the published end, or one of the three lapses explains exactly
\* what it shows instead.
THEOREM VerdictAgreement == Spec => []VerdictAgreesWithRow
BY Invariance, PTL DEF IInv

\* A deletion is final.
THEOREM DeletionIsFinal == Spec => []DeletedStaysDeleted
BY Invariance, PTL DEF IInv

\* Only a cancel that overlapped the commit overwrites a completed result.
THEOREM CompletedSurvives == Spec => []CompletedLostOnlyToRace
<1>1. IInv => CompletedLostOnlyToRace
  BY DEF IInv, CompletedRun, CompletedLostOnlyToRace
<1>2. QED
  BY <1>1, Invariance, PTL

\* An acknowledged cancel is seen as finished.
THEOREM CancelIsSeen == Spec => []AcknowledgedCancelIsFinished
BY Invariance, PTL DEF IInv

-----------------------------------------------------------------------------
(* The refinement of ExecutionRecord.                                        *)

\* Every step of the protocol is a step of the record or leaves it unchanged.
LEMMA NextRefines == IInv /\ [Next]_vars => [Record!Next]_(Record!vars)
<1> SUFFICES ASSUME IInv, [Next]_vars PROVE [Record!Next]_(Record!vars)
  OBVIOUS
<1> USE DEF Phase, Record!vars, IInv, Exists, NoRow, Record!NoRow
<1>1. CASE CreateExecution
  BY <1>1 DEF CreateExecution, FreshRow, TaskProgress, Record!Next, Record!Create, Record!FreshRow
<1>2. CASE Launch
  BY <1>2 DEF Launch
<1>3. CASE FindNoOrchestrator
  BY <1>3 DEF FindNoOrchestrator, Decide, TaskProgress, Ended, Record!Next, Record!GiveUp
<1>4. CASE StartRead \/ StartWrite \/ TrackLane \/ Raise \/ RecordRead \/ Publish
  BY <1>4 DEF StartRead, StartWrite, TrackLane, Raise, RecordRead, Publish, Flush, Raisable
<1>5. CASE \E outcome \in Outcomes : Finish(outcome)
  BY <1>5 DEF Finish, Flush
<1>6. CASE Commit
  <2>1. /\ Phase = "alive" /\ Phase' = "alive"
        /\ verdict = "none" /\ verdict' # "none"
    BY <1>6 DEF Commit, Decide, VerdictOf, LockProtocol, Locked, InTx, TaskProgress, Ended
  <2>2. /\ row' = [status |-> image.status, finished |-> TRUE, lanes |-> image.lanes]
        /\ image.status \in Record!Outcomes /\ image.lanes \in 1 .. MaxLanes
    BY <1>6, MaxLanesIsPositive
       DEF Commit, TypeOK, Rows, TaskProgress, Outcomes, Record!Outcomes
  <2>3. QED
    BY <2>1, <2>2 DEF Record!Next, Record!Settle
<1>7. CASE RecordWrite
  <2>1. CASE Exists(row)
    BY <1>7, <2>1 DEF RecordWrite, Decide, Update, Stamp, TypeOK, Rows, TaskProgress, Ended,
                      Record!Next, Record!Settle
  <2>2. CASE ~Exists(row)
    BY <1>7, <2>2 DEF RecordWrite, Decide, Update, TaskProgress, Ended, Record!Next, Record!GiveUp
  <2>3. QED
    BY <2>1, <2>2
<1>8. CASE RecordFails
  BY <1>8 DEF RecordFails, Decide, Handling, TaskProgress, Ended, Record!Next, Record!GiveUp
<1>9. CASE \E c \in Cancels : CancelRead(c)
  BY <1>9 DEF CancelRead
<1>10. CASE \E c \in Cancels : CancelWrite(c)
  <2>1. bg # "absent"
    BY <1>10 DEF CancelWrite, TaskProgress, Requests
  <2>2. QED
    BY <1>10, <2>1 DEF CancelWrite, Update, Stamp, Record!Next, Record!Withdraw
<1>11. CASE \E d \in Deletes : DeleteRead(d)
  BY <1>11 DEF DeleteRead
<1>12. CASE \E d \in Deletes : DeleteWrite(d)
  <2>1. bg # "absent"
    BY <1>12 DEF DeleteWrite, TaskProgress, Requests
  <2>2. QED
    BY <1>12, <2>1 DEF DeleteWrite, AbsentIsNoRow, Record!Next, Record!Purge
<1>13. CASE Crash
  BY <1>13 DEF Crash
<1>14. CASE Quiet \/ UNCHANGED vars \/ \E r \in Requests : RequestFails(r)
  BY <1>14 DEF Quiet, vars, RequestFails
<1>15. QED
  BY <1>1, <1>2, <1>3, <1>4, <1>5, <1>6, <1>7, <1>8, <1>9, <1>10, <1>11, <1>12, <1>13, <1>14
     DEF Next, BgStep, CancelStep, DeleteStep, Requests

\* Sessions, lock, handler, cancels and deletes together implement the record
\* that the API promises.
THEOREM RecordRefinement == Spec => ImplementsRecord
<1>1. Init => Record!Init
  BY DEF Init, Phase, Record!Init, NoRow, Record!NoRow
<1>2. IInv /\ [Next]_vars => [Record!Next]_(Record!vars)
  BY NextRefines
<1>3. QED
  BY <1>1, <1>2, Invariance, PTL DEF Spec, ImplementsRecord, Record!Spec
-----------------------------------------------------------------------------
(* The task runs down.                                                       *)

\* An upper bound on the steps the task can still take.
TaskDistance ==
  CASE bg = "absent" -> MaxLanes + 9
    [] bg = "created" -> MaxLanes + 8
    [] bg = "loading" -> MaxLanes + 7
    [] bg = "starting" -> MaxLanes + 6
    [] bg = "tracking" -> MaxLanes - image.lanes + 5
    [] bg = "finishing" -> 4
    [] bg = "recording" -> 3
    [] bg = "overwriting" -> 2
    [] bg = "publishing" -> 1
    [] bg \in {"ended", "lost"} -> 0

TaskMoves == bg' # bg \/ image' # image

LEMMA TaskDistanceBound == IInv => TaskDistance \in 0 .. MaxLanes + 9
<1> SUFFICES ASSUME IInv PROVE TaskDistance \in 0 .. MaxLanes + 9
  OBVIOUS
<1>1. image.lanes \in 0 .. MaxLanes /\ MaxLanes \in Nat
  BY MaxLanesIsPositive DEF IInv, TypeOK, Rows
<1>2. CASE bg = "tracking"
  BY <1>1, <1>2 DEF TaskDistance
<1>3. CASE bg # "tracking"
  <2>1. \/ bg \in {"absent", "created", "loading", "starting"}
        \/ bg \in {"finishing", "recording", "overwriting", "publishing", "ended", "lost"}
    BY <1>3 DEF IInv, TypeOK, Before, InTx, Handling, Ended
  <2>2. TaskDistance \in {0, 1, 2, 3, 4, MaxLanes + 6, MaxLanes + 7, MaxLanes + 8, MaxLanes + 9}
    BY <2>1 DEF TaskDistance
  <2>3. QED
    BY <1>1, <2>2
<1>4. QED
  BY <1>2, <1>3

\* Nothing but the task's own steps and a crash moves it, and they move it on.
LEMMA NextTaskDistance ==
  IInv /\ IInv' /\ [Next]_vars => [TaskMoves => TaskDistance' < TaskDistance]_vars
<1> SUFFICES ASSUME IInv, IInv', Next, TaskMoves PROVE TaskDistance' < TaskDistance
  BY DEF vars, TaskMoves
<1>1. /\ MaxLanes \in Nat \ {0}
      /\ image.lanes \in 0 .. MaxLanes /\ image'.lanes \in 0 .. MaxLanes
  BY MaxLanesIsPositive DEF IInv, TypeOK, Rows
<1>2. CASE CreateExecution
  BY <1>1, <1>2 DEF CreateExecution, TaskDistance
<1>3. CASE Launch \/ FindNoOrchestrator \/ StartRead
  <2>1. CASE Launch
    BY <1>1, <2>1 DEF Launch, TaskDistance
  <2>2. CASE FindNoOrchestrator
    <3>1. bg = "loading" /\ bg' = "publishing"
      BY <2>2 DEF FindNoOrchestrator, Decide
    <3>2. QED
      BY <1>1, <3>1 DEF TaskDistance
  <2>3. CASE StartRead
    BY <1>1, <2>3 DEF StartRead, TaskDistance
  <2>4. QED
    BY <1>3, <2>1, <2>2, <2>3
<1>4. CASE StartWrite
  <2>1. row.lanes = 0
    BY <1>4 DEF StartWrite, IInv, TaskProgress, Ended
  <2>2. row \in Rows
    BY DEF IInv, TypeOK
  <2>3. image'.lanes = 0
    BY <1>4, <2>1, <2>2 DEF StartWrite, Flush, Rows
  <2>4. bg = "starting" /\ bg' = "tracking"
    BY <1>4 DEF StartWrite
  <2>5. QED
    BY <1>1, <2>3, <2>4 DEF TaskDistance
<1>5. CASE TrackLane
  <2>1. image \in Rows
    BY DEF IInv, TypeOK
  <2>2. image'.lanes = image.lanes + 1
    BY <1>5, <2>1 DEF TrackLane, Flush, Rows
  <2>3. bg = "tracking" /\ bg' = "tracking"
    BY <1>5 DEF TrackLane
  <2>4. QED
    BY <1>1, <2>2, <2>3 DEF TaskDistance
<1>6. CASE \E outcome \in Outcomes : Finish(outcome)
  BY <1>1, <1>6 DEF Finish, TaskDistance
<1>7. CASE Commit
  BY <1>7 DEF Commit, Decide, TaskDistance
<1>8. CASE Raise
  BY <1>1, <1>8 DEF Raise, Raisable, TaskDistance
<1>9. CASE RecordRead \/ RecordWrite \/ RecordFails \/ Publish
  BY <1>9 DEF RecordRead, RecordWrite, RecordFails, Publish, Decide, Handling, TaskDistance
<1>10. CASE Crash
  <2>1. bg # "ended"
    BY <1>10 DEF Crash, TaskMoves, IInv, LockProtocol, Locked, AbsentIsNoRow, InTx
  <2>2. bg' = "lost" /\ bg # "lost" /\ bg # "absent"
    BY <1>10, <2>1 DEF Crash, TaskMoves, IInv, LockProtocol, Locked, AbsentIsNoRow, InTx
  <2>3. TaskDistance' = 0
    BY <2>2 DEF TaskDistance
  <2>4. TaskDistance \in 0 .. MaxLanes + 9
    BY TaskDistanceBound
  <2>5. TaskDistance # 0
    <3>1. CASE bg = "tracking"
      BY <1>1, <3>1 DEF TaskDistance
    <3>2. CASE bg # "tracking"
      <4>1. bg \in {"created", "loading", "starting", "finishing", "recording",
                    "overwriting", "publishing"}
        BY <2>1, <2>2, <3>2 DEF IInv, TypeOK, Before, InTx, Handling, Ended
      <4>2. TaskDistance \in {1, 2, 3, 4, MaxLanes + 6, MaxLanes + 7, MaxLanes + 8}
        BY <4>1 DEF TaskDistance
      <4>3. QED
        BY <1>1, <4>2
    <3>3. QED
      BY <3>1, <3>2
  <2>6. QED
    BY <1>1, <2>3, <2>4, <2>5
<1>11. CASE \/ \E c \in Cancels : CancelStep(c)
            \/ \E d \in Deletes : DeleteStep(d)
            \/ Quiet
  BY <1>11 DEF CancelStep, CancelRead, CancelWrite, DeleteStep, DeleteRead, DeleteWrite,
               RequestFails, Quiet, vars, TaskMoves
<1>12. QED
  BY <1>2, <1>3, <1>4, <1>5, <1>6, <1>7, <1>8, <1>9, <1>10, <1>11 DEF Next, BgStep

\* Whatever requests do, the task moves at most MaxLanes + 9 times: it never
\* returns to a statement it has passed, and no request moves it.  That it does
\* move is what fairness adds.
THEOREM TaskRunsDown ==
  Spec => /\ [](TaskDistance \in 0 .. MaxLanes + 9)
          /\ [][TaskMoves => TaskDistance' < TaskDistance]_vars
BY Invariance, TaskDistanceBound, NextTaskDistance, PTL DEF Spec

=============================================================================
