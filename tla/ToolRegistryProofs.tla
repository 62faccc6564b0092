------------------------- MODULE ToolRegistryProofs -------------------------
(***************************************************************************)
(* Proofs about ToolRegistry, for any sessions, ids, names and types.      *)
(***************************************************************************)
EXTENDS ToolRegistry, TLAPS

\* What a session writes to exists; a delete was let through.
CallShape ==
  \A s \in Sessions : call[s] # NoCall =>
    /\ call[s].id \in DOMAIN rows
    /\ call[s].kind = "delete" =>
         call[s].patch = Deactivation /\ call[s].seen.tool_type # "builtin"

IInv == TypeOK /\ CallShape

-----------------------------------------------------------------------------

\* A session with a call has loaded a row and a patch.
LEMMA CallTypes ==
  ASSUME TypeOK, NEW s \in Sessions, call[s] # NoCall
  PROVE  /\ call[s] \in Calls
         /\ call[s].id \in Ids /\ call[s].seen \in Tool
         /\ \/ call[s].patch = Deactivation
            \/ call[s].patch \in [name : Names \cup {Unset, Null}, tool_type : Types \cup {Unset, Null},
                                  is_active : BOOLEAN \cup {Unset, Null}]
BY DEF TypeOK, Calls, Patches

\* A call is not the absence of one.
LEMMA CallIsSome == \A c \in Calls : c # NoCall
BY DEF Calls, NoCall

LEMMA InitIInv == Init => IInv
<1> SUFFICES ASSUME Init PROVE IInv
  OBVIOUS
<1>1. DOMAIN rows = {}
  BY DEF Init
<1>2. rows \in [DOMAIN rows -> Tool]
  BY <1>1 DEF Init
<1>3. QED
  BY <1>1, <1>2 DEF Init, IInv, TypeOK, CallShape

\* What an update writes into a column is the old value or a value of the
\* column's type: nulls are refused.
LEMMA UpdatedRow ==
  ASSUME IInv, NEW s \in Sessions, call[s] # NoCall, ~Violates(s)
  PROVE  /\ Update(s) \in [DOMAIN rows -> Tool]
         /\ DOMAIN Update(s) = DOMAIN rows
         /\ \A i \in DOMAIN rows \ {call[s].id} : Update(s)[i] = rows[i]
         /\ \A c \in Columns : Update(s)[call[s].id][c] =
              IF c \in Changed(s) THEN call[s].patch[c] ELSE rows[call[s].id][c]
<1> DEFINE id == call[s].id
           row == [c \in Columns |-> IF c \in Changed(s) THEN Given(s, c) ELSE rows[id][c]]
<1>1. id \in DOMAIN rows /\ rows[id] \in Tool /\ rows \in [DOMAIN rows -> Tool]
  BY DEF IInv, TypeOK, CallShape
<1>2. Update(s) = [rows EXCEPT ![id] = row]
  BY DEF Update
<1>3. \A c \in Changed(s) : c \in Columns /\ Given(s, c) = call[s].patch[c]
                            /\ call[s].patch[c] # Unset /\ call[s].patch[c] # Null
  BY DEF Changed, Given, Violates
<1>4. "name" \in Changed(s) => call[s].patch["name"] \in Names
  BY <1>3, CallTypes DEF IInv, Deactivation
<1>5. "tool_type" \in Changed(s) => call[s].patch["tool_type"] \in Types
  BY <1>3, CallTypes DEF IInv, Deactivation
<1>6. "is_active" \in Changed(s) => call[s].patch["is_active"] \in BOOLEAN
  <2>1. CASE call[s].patch = Deactivation
    BY <2>1 DEF Deactivation
  <2>2. CASE call[s].patch # Deactivation
    BY <1>3, <2>2, CallTypes DEF IInv
  <2>3. QED
    BY <2>1, <2>2
<1>7. row \in Tool
  <2>1. row = [name |-> row["name"], tool_type |-> row["tool_type"], is_active |-> row["is_active"]]
    BY DEF Columns
  <2>2. row["name"] \in Names
    BY <1>1, <1>3, <1>4 DEF Columns, Tool
  <2>3. row["tool_type"] \in Types
    BY <1>1, <1>3, <1>5 DEF Columns, Tool
  <2>4. row["is_active"] \in BOOLEAN
    BY <1>1, <1>3, <1>6 DEF Columns, Tool
  <2>5. QED
    BY <2>1, <2>2, <2>3, <2>4 DEF Tool
<1>8. \A c \in Columns : row[c] = IF c \in Changed(s) THEN call[s].patch[c] ELSE rows[id][c]
  BY <1>3
<1> HIDE DEF row
<1>9. QED
  BY <1>1, <1>2, <1>7, <1>8

\* What the start of the server leaves and adds.
LEMMA StartRows ==
  ASSUME TypeOK, Start
  PROVE  /\ rows' \in [DOMAIN rows' -> Tool] /\ DOMAIN rows' \subseteq Ids
         /\ DOMAIN rows \subseteq DOMAIN rows'
         /\ \A i \in DOMAIN rows : rows'[i] = Upserted(rows[i])
         /\ \A i \in DOMAIN rows' \ DOMAIN rows :
              \E n \in Missing : rows'[i] = NewTool(n, "builtin")
         /\ \A i, j \in DOMAIN rows' \ DOMAIN rows : rows'[i].name = rows'[j].name => i = j
         /\ \A n \in Missing : \E i \in DOMAIN rows' : rows'[i] = NewTool(n, "builtin")
<1>1. PICK new \in SUBSET (Ids \ DOMAIN rows) : \E name \in Bijection(new, Missing) :
        rows' = [i \in DOMAIN rows \cup new |->
                   IF i \in new THEN NewTool(name[i], "builtin") ELSE Upserted(rows[i])]
  BY DEF Start
<1>2. PICK name \in Bijection(new, Missing) :
        rows' = [i \in DOMAIN rows \cup new |->
                   IF i \in new THEN NewTool(name[i], "builtin") ELSE Upserted(rows[i])]
  BY <1>1
<1>3. /\ name \in [new -> Missing]
      /\ \A i, j \in new : name[i] = name[j] => i = j
      /\ \A n \in Missing : \E i \in new : name[i] = n
  BY DEF Bijection, Injection, Surjection, IsInjective
<1>4. DOMAIN rows' = DOMAIN rows \cup new /\ DOMAIN rows' \ DOMAIN rows = new
  BY <1>2
<1>5. \A i \in DOMAIN rows : rows'[i] = Upserted(rows[i])
  BY <1>2
<1>6. \A i \in new : rows'[i] = NewTool(name[i], "builtin")
  BY <1>2
<1>7. \A tool \in Tool : Upserted(tool) \in Tool
  BY DEF Upserted, Tool, Types
<1>8. \A n \in Missing : n \in Names /\ NewTool(n, "builtin") \in Tool /\ NewTool(n, "builtin").name = n
  BY BuiltinsAreRegistered DEF Missing, NewTool, Tool, Types
<1>9. \A i \in DOMAIN rows' : rows'[i] \in Tool
  BY <1>3, <1>4, <1>5, <1>6, <1>7, <1>8 DEF TypeOK
<1>10. rows' \in [DOMAIN rows' -> Tool]
  <2>1. rows' = [i \in DOMAIN rows' |-> rows'[i]]
    BY <1>2
  <2>2. QED
    BY <1>9, <2>1
<1>11. DOMAIN rows' \subseteq Ids
  BY <1>4 DEF TypeOK
<1>12. QED
  BY <1>3, <1>4, <1>5, <1>6, <1>8, <1>10, <1>11

\* A row keeps its name over a start; a new one has a name that was missing.
LEMMA StartNames ==
  ASSUME TypeOK, Start
  PROVE  /\ \A i \in DOMAIN rows : rows'[i].name = rows[i].name
         /\ \A i \in DOMAIN rows' \ DOMAIN rows : rows'[i].name \in Missing
         /\ \A i, j \in DOMAIN rows' : rows'[i].name = rows'[j].name => i = j
<1>1. \A tool \in Tool : Upserted(tool).name = tool.name
  BY DEF Upserted, Tool
<1>2. \A i \in DOMAIN rows : rows'[i].name = rows[i].name
  BY <1>1, StartRows DEF TypeOK
<1>3. \A i \in DOMAIN rows' \ DOMAIN rows : rows'[i].name \in Missing
  BY StartRows DEF NewTool
<1>4. \A i \in DOMAIN rows : rows[i].name \notin Missing
  BY DEF Missing, Taken
<1>5. QED
  BY <1>2, <1>3, <1>4, StartRows DEF TypeOK

\* One step per action.
LEMMA NextIInv == IInv /\ [Next]_vars => IInv'
<1> SUFFICES ASSUME IInv, [Next]_vars PROVE IInv'
  OBVIOUS
<1> USE DEF IInv
<1>1. CASE Start
  <2>1. TypeOK'
    <3>1. up' \in BOOLEAN /\ call' = call
      BY <1>1 DEF Start
    <3>2. QED
      BY <1>1, <3>1, StartRows, StartNames DEF TypeOK
  <2>2. CallShape'
    BY <1>1, StartRows DEF CallShape, Start
  <2>3. QED
    BY <2>1, <2>2
<1>2. CASE Crash
  BY <1>2 DEF Crash, TypeOK, CallShape
<1>3. ASSUME NEW i \in Ids, NEW n \in Names, NEW t \in Types, CreateTool(i, n, t)
      PROVE  IInv'
  <2>1. NewTool(n, t) \in Tool /\ NewTool(n, t).name = n
    BY DEF NewTool, Tool
  <2>2. /\ DOMAIN rows' = DOMAIN rows \cup {i}
        /\ rows' = [j \in DOMAIN rows \cup {i} |-> IF j = i THEN NewTool(n, t) ELSE rows[j]]
        /\ i \notin DOMAIN rows /\ UNCHANGED <<up, call>>
        /\ \A j \in DOMAIN rows : rows[j].name # n
    BY <1>3 DEF CreateTool, Taken
  <2>3. TypeOK'
    BY <2>1, <2>2 DEF TypeOK
  <2>4. CallShape'
    BY <2>2 DEF CallShape
  <2>5. QED
    BY <2>3, <2>4
<1>4. ASSUME NEW s \in Sessions, Write(s)
      PROVE  IInv'
  <2>1. /\ call[s] # NoCall /\ UNCHANGED up
        /\ call' = [call EXCEPT ![s] = NoCall]
    BY <1>4 DEF Write
  <2>2. CASE Violates(s)
    BY <1>4, <2>1, <2>2 DEF Write, TypeOK, CallShape
  <2>3. CASE ~Violates(s)
    <3>1. rows' = Update(s)
      BY <1>4, <2>3 DEF Write
    <3>2. DOMAIN rows' = DOMAIN rows /\ rows' \in [DOMAIN rows -> Tool]
      BY <2>1, <2>3, <3>1, UpdatedRow
    <3>3. \A i, j \in DOMAIN rows : rows'[i].name = rows'[j].name => i = j
      <4>1. \A i \in DOMAIN rows \ {call[s].id} : rows'[i] = rows[i]
        BY <2>1, <2>3, <3>1, UpdatedRow
      <4>2. rows'[call[s].id]["name"] =
              IF "name" \in Changed(s) THEN call[s].patch["name"] ELSE rows[call[s].id]["name"]
        BY <2>1, <2>3, <3>1, UpdatedRow DEF Columns
      <4>3. "name" \in Changed(s) =>
              \A i \in DOMAIN rows \ {call[s].id} : rows[i].name # call[s].patch["name"]
        BY <2>3 DEF Violates, Given, Changed
      <4>4. QED
        BY <4>1, <4>2, <4>3 DEF TypeOK
    <3>4. TypeOK'
      BY <2>1, <3>2, <3>3 DEF TypeOK
    <3>5. CallShape'
      BY <2>1, <3>2 DEF TypeOK, CallShape
    <3>6. QED
      BY <3>4, <3>5
  <2>4. QED
    BY <2>2, <2>3
<1>5. ASSUME NEW s \in Sessions, Fail(s)
      PROVE  IInv'
  BY <1>5 DEF Fail, TypeOK, CallShape
<1>6. ASSUME NEW s \in Sessions, NEW i \in Ids, NEW kind \in {"update", "delete"},
             NEW p \in Patches \cup {Deactivation}, Load(s, kind, i, p),
             kind = "delete" => p = Deactivation /\ Deletable(rows[i])
      PROVE  IInv'
  <2>1. i \in DOMAIN rows /\ rows[i] \in Tool
    BY <1>6 DEF Load, TypeOK
  <2>2. DEFINE c == [kind |-> kind, id |-> i, patch |-> p, seen |-> rows[i]]
  <2>3. c \in Calls
    BY <2>1 DEF Calls
  <2>4. c.id = i /\ c.kind = kind /\ c.patch = p /\ c.seen = rows[i]
    OBVIOUS
  <2>5. call' = [call EXCEPT ![s] = c] /\ UNCHANGED <<rows, up>>
    BY <1>6 DEF Load
  <2> HIDE DEF c
  <2>6. TypeOK'
    BY <2>3, <2>5 DEF TypeOK
  <2>7. CallShape'
    BY <1>6, <2>1, <2>4, <2>5 DEF TypeOK, CallShape, Deletable
  <2>8. QED
    BY <2>6, <2>7
<1>7. CASE UNCHANGED vars
  BY <1>7 DEF vars, TypeOK, CallShape
<1>8. QED
  BY <1>1, <1>2, <1>3, <1>4, <1>5, <1>6, <1>7 DEF Next, LoadUpdate, LoadDelete

-----------------------------------------------------------------------------

\* The invariant holds in every reachable state.
THEOREM Invariance == Spec => []IInv
BY InitIInv, NextIInv, PTL DEF Spec

\* Tool names stay unique, whatever requests and starts do, and no column is
\* ever null.
THEOREM TypeCorrect == Spec => []TypeOK
BY Invariance, PTL DEF IInv

\* Which step starts the server, and which changes a row that exists.
LEMMA StepKinds ==
  ASSUME IInv, [Next]_vars
  PROVE  /\ ~up /\ up' => Start
         /\ \A i \in DOMAIN rows : rows'[i] # rows[i] =>
              \/ Start
              \/ \E s \in Sessions : Write(s) /\ ~Violates(s) /\ call[s].id = i
<1>1. CASE Start
  BY <1>1
<1>2. CASE Crash
  BY <1>2 DEF Crash
<1>3. ASSUME NEW i \in Ids, NEW n \in Names, NEW t \in Types, CreateTool(i, n, t)
      PROVE  UNCHANGED up /\ \A j \in DOMAIN rows : rows'[j] = rows[j]
  BY <1>3 DEF CreateTool
<1>4. ASSUME NEW s \in Sessions, Write(s)
      PROVE  /\ UNCHANGED up
             /\ \A i \in DOMAIN rows : rows'[i] # rows[i] => ~Violates(s) /\ call[s].id = i
  BY <1>4, UpdatedRow DEF Write
<1>5. ASSUME NEW s \in Sessions, Fail(s)
      PROVE  UNCHANGED <<rows, up>>
  BY <1>5 DEF Fail
<1>6. ASSUME NEW s \in Sessions, NEW i \in Ids, NEW kind, NEW p, Load(s, kind, i, p)
      PROVE  UNCHANGED <<rows, up>>
  BY <1>6 DEF Load
<1>7. CASE UNCHANGED vars
  BY <1>7 DEF vars
<1>8. QED
  BY <1>1, <1>2, <1>3, <1>4, <1>5, <1>6, <1>7 DEF Next, LoadUpdate, LoadDelete

\* A call that is written is over.
LEMMA WriteEnds ==
  ASSUME TypeOK, NEW s \in Sessions, Write(s)
  PROVE  Ends(s)
BY DEF TypeOK, Write, Ends

\* What sync_builtin_tools promises: after every start the built-in tools are
\* there and resolve, and nothing else is touched.
THEOREM StartCompletes == Spec => StartCompletesTheRegistry
<1>1. ASSUME IInv, [Next]_vars, ~up, up'
      PROVE  /\ \A n \in Builtins : \E i \in DOMAIN rows' :
                  rows'[i].name = n /\ rows'[i].tool_type = "builtin" /\ Resolvable(rows'[i])
             /\ \A i \in DOMAIN rows :
                  /\ i \in DOMAIN rows' /\ rows'[i].name = rows[i].name
                  /\ rows'[i].is_active = rows[i].is_active
                  /\ Resolvable(rows[i]) => Resolvable(rows'[i])
  <2>1. Start /\ TypeOK
    BY <1>1, StepKinds DEF IInv
  <2>2. \A i \in DOMAIN rows : i \in DOMAIN rows' /\ rows'[i] = Upserted(rows[i]) /\ rows[i] \in Tool
    BY <2>1, StartRows DEF TypeOK
  <2>3. ASSUME NEW tool \in Tool
        PROVE  /\ Upserted(tool).name = tool.name
               /\ Upserted(tool).is_active = tool.is_active
               /\ tool.name \in Builtins => Upserted(tool).tool_type = "builtin"
               /\ Resolvable(tool) => Resolvable(Upserted(tool))
    BY BuiltinsAreRegistered DEF Upserted, Tool, Resolvable
  <2>4. ASSUME NEW n \in Builtins
        PROVE  \E i \in DOMAIN rows' :
                 rows'[i].name = n /\ rows'[i].tool_type = "builtin" /\ Resolvable(rows'[i])
    <3>1. CASE Taken(n)
      <4>1. PICK i \in DOMAIN rows : rows[i].name = n
        BY <3>1 DEF Taken
      <4>2. i \in DOMAIN rows' /\ rows'[i] = Upserted(rows[i]) /\ rows[i] \in Tool
        BY <2>2, <4>1
      <4>3. rows'[i].name = n /\ rows'[i].tool_type = "builtin"
        BY <2>3, <4>1, <4>2
      <4>4. QED
        BY <4>2, <4>3, BuiltinsAreRegistered DEF Resolvable
    <3>2. CASE ~Taken(n)
      <4>1. n \in Missing
        BY <3>2 DEF Missing
      <4>2. PICK i \in DOMAIN rows' : rows'[i] = NewTool(n, "builtin")
        BY <2>1, <4>1, StartRows
      <4>3. QED
        BY <4>2, BuiltinsAreRegistered DEF NewTool, Resolvable
    <3>3. QED
      BY <3>1, <3>2
  <2>5. ASSUME NEW i \in DOMAIN rows
        PROVE  /\ i \in DOMAIN rows' /\ rows'[i].name = rows[i].name
               /\ rows'[i].is_active = rows[i].is_active
               /\ Resolvable(rows[i]) => Resolvable(rows'[i])
    <3>1. i \in DOMAIN rows' /\ rows'[i] = Upserted(rows[i]) /\ rows[i] \in Tool
      BY <2>2, <2>5
    <3>2. QED
      BY <2>3, <3>1
  <2>6. QED
    BY <2>4, <2>5
<1>2. QED
  BY <1>1, Invariance, PTL DEF Spec, StartCompletesTheRegistry

\* The only way past the guard of delete_tool.
THEOREM DeletionRace == Spec => BuiltinsAreDeletedOnlyByRace
<1>1. ASSUME IInv, [Next]_vars, NEW i \in DOMAIN rows,
             rows[i].tool_type = "builtin", rows[i].is_active, ~rows'[i].is_active
      PROVE  \E s \in Sessions :
               /\ Ends(s) /\ call[s].id = i
               /\ \/ call[s].kind = "update" /\ call[s].patch.is_active = FALSE
                  \/ call[s].kind = "delete" /\ call[s].seen.tool_type # "builtin"
  <2>1. rows'[i] # rows[i]
    BY <1>1
  <2>2. ~Start
    <3>1. ASSUME Start PROVE FALSE
      <4>1. rows'[i] = Upserted(rows[i]) /\ rows[i] \in Tool
        BY <1>1, <3>1, StartRows DEF IInv, TypeOK
      <4>2. Upserted(rows[i]).is_active = rows[i].is_active
        BY <4>1 DEF Upserted, Tool
      <4>3. QED
        BY <1>1, <4>1, <4>2
    <3>2. QED
      BY <3>1
  <2>3. PICK s \in Sessions : Write(s) /\ ~Violates(s) /\ call[s].id = i
    BY <1>1, <2>1, <2>2, StepKinds
  <2>4. Ends(s) /\ call[s] # NoCall /\ call[s].kind \in {"update", "delete"}
    BY <1>1, <2>3, WriteEnds, CallTypes DEF IInv, Calls, Ends
  <2>5. call[s].kind = "delete" => call[s].seen.tool_type # "builtin"
    BY <1>1, <2>4 DEF IInv, CallShape
  <2>6. call[s].patch.is_active = FALSE
    <3>1. rows'[i]["is_active"] =
            IF "is_active" \in Changed(s) THEN call[s].patch["is_active"] ELSE rows[i]["is_active"]
      BY <1>1, <2>3, <2>4, UpdatedRow DEF Write, Columns
    <3>2. rows'[i] \in Tool /\ rows[i] \in Tool
      BY <1>1, <2>3, <2>4, UpdatedRow DEF Write, IInv, TypeOK
    <3>3. rows'[i].is_active \in BOOLEAN /\ rows[i].is_active \in BOOLEAN
      BY <3>2 DEF Tool
    <3>4. QED
      BY <1>1, <3>1, <3>3
  <2>7. QED
    BY <2>3, <2>4, <2>5, <2>6
<1>2. IInv /\ [Next]_vars =>
        [\A i \in DOMAIN rows :
           rows[i].tool_type = "builtin" /\ rows[i].is_active /\ ~rows'[i].is_active =>
             \E s \in Sessions :
               /\ Ends(s) /\ call[s].id = i
               /\ \/ call[s].kind = "update" /\ call[s].patch.is_active = FALSE
                  \/ call[s].kind = "delete" /\ call[s].seen.tool_type # "builtin"]_vars
  BY <1>1
<1>3. QED
  BY <1>2, Invariance, PTL DEF Spec, BuiltinsAreDeletedOnlyByRace

\* Stale rows lose no update.
THEOREM NoLostUpdate == Spec => ColumnsBelongToTheirWriters
<1>1. ASSUME IInv, [Next]_vars, NEW i \in DOMAIN rows, NEW c \in Columns, rows'[i][c] # rows[i][c]
      PROVE  \/ ~up /\ c = "tool_type" /\ rows[i].name \in Builtins
             \/ \E s \in Sessions : Ends(s) /\ call[s].id = i /\ call[s].patch[c] = rows'[i][c]
  <2>1. CASE Start
    <3>1. rows'[i] = Upserted(rows[i]) /\ rows[i] \in Tool
      BY <1>1, <2>1, StartRows DEF IInv, TypeOK
    <3>2. rows[i].name \in Builtins /\ c = "tool_type"
      BY <1>1, <3>1 DEF Upserted, Tool, Columns
    <3>3. QED
      BY <2>1, <3>2 DEF Start
  <2>2. CASE ~Start
    <3>1. PICK s \in Sessions : Write(s) /\ ~Violates(s) /\ call[s].id = i
      BY <1>1, <2>2, StepKinds
    <3>2. Ends(s) /\ call[s] # NoCall
      BY <1>1, <3>1, WriteEnds DEF IInv, Ends
    <3>3. rows'[i][c] = IF c \in Changed(s) THEN call[s].patch[c] ELSE rows[i][c]
      BY <1>1, <3>1, <3>2, UpdatedRow DEF Write
    <3>4. QED
      BY <1>1, <3>1, <3>2, <3>3
  <2>3. QED
    BY <2>1, <2>2
<1>2. IInv /\ [Next]_vars =>
        [\A i \in DOMAIN rows : \A c \in Columns :
           rows'[i][c] # rows[i][c] =>
             \/ ~up /\ c = "tool_type" /\ rows[i].name \in Builtins
             \/ \E s \in Sessions : Ends(s) /\ call[s].id = i /\ call[s].patch[c] = rows'[i][c]]_vars
  BY <1>1
<1>3. QED
  BY <1>2, Invariance, PTL DEF Spec, ColumnsBelongToTheirWriters
=============================================================================
