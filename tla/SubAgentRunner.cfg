SPECIFICATION FairSpec
CONSTANTS
  Tools = {t1, t2}
  Foreign = ghost
  MaxReactSteps = 3
  MaxCalls = 2
  Usage = {0, 7}
INVARIANTS
  TypeOK
  CallsAreAnswered
  LogIsTheConversation
PROPERTIES
  ImplementsAgentRun
