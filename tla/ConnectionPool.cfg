SPECIFICATION PoolFairSpec
CONSTANTS
  Cancels = {c1}
  Deletes = {d1}
  MaxLanes = 2
  Others = {o1, o2}
  PoolSize = 2
INVARIANTS
  NoHoldAndWait
  NoCircularWait
PROPERTIES
  ConnectionsReturn
  ImplementsLifecycle
