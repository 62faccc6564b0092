SPECIFICATION FairSpec
CONSTANTS
  Requests = {r1, r2}
  Items = {i1, i2}
INVARIANTS
  TypeOK
PROPERTIES
  GrantedIsDone
  NothingInactiveIsBound
  ImplementsSet
  RequestsAreAnswered
