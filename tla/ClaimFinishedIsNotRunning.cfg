SPECIFICATION FairSpec
CONSTANTS
  Cancels = {c1}
  Deletes = {d1}
  MaxLanes = 2
INVARIANT
  FinishedIsNotRunning
