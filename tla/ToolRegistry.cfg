SPECIFICATION Spec
CONSTANTS
  Sessions = {s1, s2}
  Ids = {t1, t2}
  Names = {n1, n2}
  Builtins = {n1}
  Registered = {n1}
  CustomTypes = {"api_call"}
  MaxFields = 1
  Unset = Unset
  Null = Null
INVARIANTS
  TypeOK
PROPERTIES
  StartCompletesTheRegistry
  BuiltinsAreDeletedOnlyByRace
  ColumnsBelongToTheirWriters
