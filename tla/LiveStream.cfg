SPECIFICATION StreamFairSpec
CONSTANTS
  Cancels = {c1}
  Deletes = {d1}
  MaxLanes = 2
  Watchers = {w1, w2}
  QueueSize = 1
INVARIANTS
  EndIsQueuedOrShown
  NoDeadSubscriber
  ListenersAreSubscribed
PROPERTIES
  SubscribersAreReleased
