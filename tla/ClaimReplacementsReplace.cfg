SPECIFICATION Spec
CONSTANTS
  Requests = {r1, r2}
  Items = {i1, i2}
INVARIANTS
  ReplacementsReplace
