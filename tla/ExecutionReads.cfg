SPECIFICATION ReadsFairSpec
CONSTANTS
  Cancels = {c1, c2}
  Deletes = {d1, d2}
  MaxLanes = 3
  Readers = {g1}
INVARIANTS
  TypeOK
  TraceIsAtomic
  VerdictAgreesWithRow
  DeletedStaysDeleted
  CompletedLostOnlyToRace
  AcknowledgedCancelIsFinished
  AnswersAreWhole
PROPERTIES
  RunEnds
  RequestsAreAnswered
  ImplementsRecord
