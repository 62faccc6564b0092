---------------------------- MODULE ToolRegistry ----------------------------
(***************************************************************************)
(* The table of tool definitions: created, updated and soft-deleted over   *)
(* the API (services/tool_service.py, api/tools_router.py), and brought in *)
(* line with the built-in tools at every start of the server               *)
(* (services/builtin_sync.py, before any request is served).               *)
(*                                                                         *)
(* A PUT and a DELETE load the row in one statement and write it in a      *)
(* later one; the UPDATE names the columns that differ from what was       *)
(* loaded.  Flush and COMMIT are one step here: in between a request only  *)
(* reads its own row back, and another session sees nothing of it but the  *)
(* lock it waits for.                                                      *)
(***************************************************************************)
EXTENDS FiniteSets, Functions

CONSTANTS
  Sessions,            \* requests in flight at one time
  Ids,                 \* ids of rows; one for every name is enough
  Names,               \* names of tools
  Builtins,            \* the names in BUILTIN_TOOLS
  Registered,          \* the names in ALL_TOOLS, which resolve_tools looks up
  CustomTypes,         \* the types other than "builtin"
  MaxFields,           \* bound on the columns that one PUT sets
  Unset, Null          \* a column a PUT leaves out, one it sets to null

ASSUME BuiltinsAreRegistered == Builtins \subseteq Registered /\ Registered \subseteq Names
ASSUME BuiltinIsNoCustomType == "builtin" \notin CustomTypes
ASSUME NoValues ==
  /\ Unset # Null
  /\ \A v \in {Unset, Null} :
       v \notin Names /\ v \notin CustomTypes \cup {"builtin"} /\ v \notin BOOLEAN

VARIABLES
  rows,                \* the committed rows, by id
  up,                  \* the server serves requests
  call                 \* what each session has loaded and is about to write

vars == <<rows, up, call>>

Types == {"builtin"} \cup CustomTypes
Tool  == [name : Names, tool_type : Types, is_active : BOOLEAN]

Columns == {"name", "tool_type", "is_active"}

\* ToolUpdate: every column may be left out, or be null.
Patches ==
  {p \in [name : Names \cup {Unset, Null}, tool_type : Types \cup {Unset, Null},
          is_active : BOOLEAN \cup {Unset, Null}] :
     Cardinality({c \in Columns : p[c] # Unset}) \in 1..MaxFields}

Deactivation == [name |-> Unset, tool_type |-> Unset, is_active |-> FALSE]

NoCall == [kind |-> "none"]

Calls == [kind : {"update", "delete"}, id : Ids, patch : Patches \cup {Deactivation}, seen : Tool]

\* The name is UNIQUE.
TypeOK ==
  /\ DOMAIN rows \subseteq Ids
  /\ rows \in [DOMAIN rows -> Tool]
  /\ \A i, j \in DOMAIN rows : rows[i].name = rows[j].name => i = j
  /\ up \in BOOLEAN
  /\ call \in [Sessions -> Calls \cup {NoCall}]

Init ==
  /\ rows = << >>
  /\ up = FALSE
  /\ call = [s \in Sessions |-> NoCall]

Taken(n) == \E i \in DOMAIN rows : rows[i].name = n

NewTool(n, t) == [name |-> n, tool_type |-> t, is_active |-> TRUE]

-----------------------------------------------------------------------------
(* The start of the server: sync_builtin_tools.                              *)

MissingInactive == {n \in Builtins : ~ \E i \in DOMAIN rows : rows[i].name = n /\ rows[i].is_active}
Missing == {n \in Builtins : ~Taken(n)}

\* An existing row gets the type back, and keeps is_active.
UpsertedTexts(tool) == tool
Upserted(tool) ==
  IF tool.name \in Builtins THEN [tool EXCEPT !.tool_type = "builtin"] ELSE tool

Start ==
  /\ ~up
  /\ up' = TRUE
  /\ \E new \in SUBSET (Ids \ DOMAIN rows) : \E name \in Bijection(new, Missing) :
       rows' = [i \in DOMAIN rows \cup new |->
                  IF i \in new THEN NewTool(name[i], "builtin") ELSE Upserted(rows[i])]
  /\ UNCHANGED call

Crash ==
  /\ up
  /\ up' = FALSE
  /\ call' = [s \in Sessions |-> NoCall]
  /\ UNCHANGED rows

-----------------------------------------------------------------------------
(* The requests.                                                             *)

\* A name that is taken is an IntegrityError and answered 409.
CreateTool(i, n, t) ==
  /\ up
  /\ i \notin DOMAIN rows
  /\ ~Taken(n)
  /\ rows' = [j \in DOMAIN rows \cup {i} |-> IF j = i THEN NewTool(n, t) ELSE rows[j]]
  /\ UNCHANGED <<up, call>>

Load(s, kind, i, p) ==
  /\ up
  /\ call[s] = NoCall
  /\ i \in DOMAIN rows
  /\ call' = [call EXCEPT ![s] = [kind |-> kind, id |-> i, patch |-> p, seen |-> rows[i]]]
  /\ UNCHANGED <<rows, up>>

\* "Built-in tools cannot be deleted", says the answer.
DeletableAny(tool) == TRUE
Deletable(tool) == tool.tool_type # "builtin"

LoadUpdate(s, i, p) == Load(s, "update", i, p)
LoadDelete(s, i) ==
  i \in DOMAIN rows /\ Deletable(rows[i]) /\ Load(s, "delete", i, Deactivation)

\* The columns of the UPDATE; without any there is none.
AllColumns(s) == Columns
Changed(s) == {c \in Columns : call[s].patch[c] \notin {Unset, call[s].seen[c]}}

Given(s, c) == IF call[s].patch[c] = Unset THEN call[s].seen[c] ELSE call[s].patch[c]

\* NOT NULL and UNIQUE.
Violates(s) ==
  \/ \E c \in Changed(s) : Given(s, c) = Null
  \/ "name" \in Changed(s) /\ \E i \in DOMAIN rows \ {call[s].id} : rows[i].name = Given(s, "name")

Update(s) ==
  [rows EXCEPT ![call[s].id] =
     [c \in Columns |-> IF c \in Changed(s) THEN Given(s, c) ELSE @[c]]]

\* An IntegrityError rolls back and is answered 409.
Write(s) ==
  /\ call[s] # NoCall
  /\ rows' = IF Violates(s) THEN rows ELSE Update(s)
  /\ call' = [call EXCEPT ![s] = NoCall]
  /\ UNCHANGED up

\* Any await may raise; the session rolls back.
Fail(s) ==
  /\ call[s] # NoCall
  /\ call' = [call EXCEPT ![s] = NoCall]
  /\ UNCHANGED <<rows, up>>

-----------------------------------------------------------------------------

Next ==
  \/ Start \/ Crash
  \/ \E i \in Ids, n \in Names, t \in Types : CreateTool(i, n, t)
  \/ \E s \in Sessions : Write(s) \/ Fail(s)
  \/ \E s \in Sessions, i \in Ids :
       LoadDelete(s, i) \/ \E p \in Patches : LoadUpdate(s, i, p)

Spec == Init /\ [][Next]_vars

-----------------------------------------------------------------------------
(* Properties.                                                               *)

\* resolve_tools raises for a built-in type whose name is not registered, and
\* with it the sub-agent's run fails.
Resolvable(tool) == tool.tool_type = "builtin" => tool.name \in Registered

\* After every start each built-in tool has its row, of its type, and resolves;
\* the start broke no other tool, and left alone names and who is active, so
\* that a second start would change nothing.
StartCompletesTheRegistry ==
  [][~up /\ up' =>
       /\ \A n \in Builtins : \E i \in DOMAIN rows' :
            rows'[i].name = n /\ rows'[i].tool_type = "builtin" /\ Resolvable(rows'[i])
       /\ \A i \in DOMAIN rows :
            /\ i \in DOMAIN rows' /\ rows'[i].name = rows[i].name
            /\ rows'[i].is_active = rows[i].is_active
            /\ Resolvable(rows[i]) => Resolvable(rows'[i])]_vars

Ends(s) == call[s] # NoCall /\ call'[s] = NoCall

\* A built-in tool is switched off by an update that says so, or by a delete that
\* was let through while the tool had another type.
BuiltinsAreDeletedOnlyByRace ==
  [][\A i \in DOMAIN rows :
       rows[i].tool_type = "builtin" /\ rows[i].is_active /\ ~rows'[i].is_active =>
         \E s \in Sessions :
           /\ Ends(s) /\ call[s].id = i
           /\ \/ call[s].kind = "update" /\ call[s].patch.is_active = FALSE
              \/ call[s].kind = "delete" /\ call[s].seen.tool_type # "builtin"]_vars

\* No update is lost to a row loaded earlier: a column changes only by a request
\* that sets this column to this value, or by the start of the server.
ColumnsBelongToTheirWriters ==
  [][\A i \in DOMAIN rows : \A c \in Columns :
       rows'[i][c] # rows[i][c] =>
         \/ ~up /\ c = "tool_type" /\ rows[i].name \in Builtins
         \/ \E s \in Sessions : Ends(s) /\ call[s].id = i /\ call[s].patch[c] = rows'[i][c]]_vars
=============================================================================
