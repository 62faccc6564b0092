SPECIFICATION FairSpec
CONSTANTS
  Agents = {a1, a2}
  Unknown = ghost
  MaxIterations = 2
  MaxPlan = 2
  Tokens = {0, 3}
  MaxToolCalls = 0
INVARIANTS
  TypeOK
  NoKeyClash
  LanesMatchResults
  TokensAreConserved
  LoopIsBounded
PROPERTIES
  RunTerminates
  ImplementsLifecycleTask
