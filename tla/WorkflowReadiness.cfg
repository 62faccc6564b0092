SPECIFICATION Spec
CONSTANTS
  Orchestrators = {o1}
  Agents = {a1, a2}
  Tools = {t1}
  None = None
  MaxWrites = 3
INVARIANTS
  RunDefectsAreLater
  RefusalsAreFounded
