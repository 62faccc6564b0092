-------------------------- MODULE WorkflowReadiness --------------------------
(***************************************************************************)
(* A workflow is judged by validate_workflow (services/workflow_service.py)*)
(* and run by a background task that loads it again, while anybody may     *)
(* change it.  The workflow names an orchestrator, which is bound to       *)
(* sub-agents, which are bound to tools; selectinload reads this tree by   *)
(* one SELECT for each level, each at its own moment.                      *)
(*                                                                         *)
(* A request that changes the configuration is one step, its COMMIT: the   *)
(* UPDATE of a PUT names the columns that differ from what it had loaded,  *)
(* so a stale PUT is one with fewer columns.  How two rebindings merge is  *)
(* the subject of Bindings.  No row of the tree is ever deleted.           *)
(***************************************************************************)
EXTENDS Integers, FiniteSets

CONSTANTS
  Orchestrators, Agents, Tools,
  None,                \* orchestrator_id of a workflow without one
  MaxWrites            \* bound on the parts and bindings written in one episode

ASSUME Kinds ==
  /\ Orchestrators \cap Agents = {} /\ Orchestrators \cap Tools = {} /\ Agents \cap Tools = {}
  /\ None \notin Orchestrators

VARIABLES
  workflow,            \* the set of the workflow's row, empty before it is created
  active,              \* is_active of every part
  bound,               \* the two association tables
  pc,                  \* where the request, and then its task, stands
  read,                \* statements of the current load that are done
  tree,                \* what they have loaded
  \* History: what was written after validate_workflow had read it, and whether
  \* the configuration has had a defect since this validation began.
  moved, switched, rebound, wrong

config  == <<workflow, active, bound>>
session == <<pc, read, tree>>
history == <<moved, switched, rebound, wrong>>
vars    == <<config, session, history>>

Parts == Orchestrators \cup Agents \cup Tools
Edges == (Orchestrators \X Agents) \cup (Agents \X Tools)

Row  == [orchestrator_id : Orchestrators \cup {None}, is_active : BOOLEAN]
Tree == [root : Orchestrators \cup {None}, edges : SUBSET Edges, off : SUBSET Parts]

Unread == [root |-> None, edges |-> {}, off |-> {}]

TypeOK ==
  /\ workflow \in SUBSET Row /\ \A u, v \in workflow : u = v
  /\ active \in [Parts -> BOOLEAN]
  /\ bound \subseteq Edges
  /\ pc \in {"idle", "validating", "loading", "running"}
  /\ read \in 0 .. 4
  /\ tree \in Tree
  /\ moved \in BOOLEAN
  /\ switched \subseteq Parts
  /\ rebound \subseteq Edges
  /\ wrong \in BOOLEAN

\* Sub-agents and tools are bound when they are created; is_active defaults to true.
Init ==
  /\ workflow = {}
  /\ active = [p \in Parts |-> TRUE]
  /\ bound \in SUBSET Edges
  /\ pc = "idle" /\ read = 0 /\ tree = Unread
  /\ moved = FALSE /\ switched = {} /\ rebound = {} /\ wrong = FALSE

-----------------------------------------------------------------------------
(* What a session loads, and what validate_workflow asks of it.              *)

From(owners) == {e \in bound : e[1] \in owners}
Ends(es) == {e[2] : e \in es}
Off(parts) == {p \in parts : ~active[p]}

TeamOf(t) == {a \in Agents : <<t.root, a>> \in t.edges}

\* The checks of validate_workflow; those of model_name and provider cannot
\* fail, both are NOT NULL and no schema lets them be empty.
AgentsAreFine(t) ==
  /\ t.root # None
  /\ TeamOf(t) # {}
  /\ t.off \cap (Orchestrators \cup Agents) = {}
IsValid(t) ==
  /\ t.root # None
  /\ TeamOf(t) # {}
  /\ t.off = {}

\* The tree of an orchestrator as the tables have it at one moment.
Now(o) ==
  LET team == From({o})
      es == team \cup From(Ends(team))
  IN  [root |-> o, edges |-> es, off |-> Off(({o} \cap Orchestrators) \cup Ends(es))]

Defective == \E w \in workflow : ~IsValid(Now(w.orchestrator_id))

-----------------------------------------------------------------------------
(* The configuration changes.                                                *)

\* The history of an episode; in between there is none.
Written(parts, edges) ==
  /\ switched' = IF pc = "idle" THEN {} ELSE switched \cup parts
  /\ rebound' = IF pc = "idle" THEN {} ELSE rebound \cup edges
  /\ Cardinality(switched') + Cardinality(rebound') <= MaxWrites

Judged == wrong' = (pc = "validating" /\ (wrong \/ Defective'))

CreateWorkflow(o) ==
  /\ workflow = {}
  /\ workflow' = {[orchestrator_id |-> o, is_active |-> TRUE]}
  /\ UNCHANGED <<active, bound, session, history>>

\* The orchestrator must exist; whether it is active is not asked.
UpdateWorkflow(o, b) ==
  /\ workflow # {}
  /\ workflow' = {[orchestrator_id |-> o, is_active |-> b]}
  /\ moved' = (moved \/ (pc # "idle" /\ \E w \in workflow : w.orchestrator_id # o))
  /\ UNCHANGED <<active, bound, session, switched, rebound>>
  /\ Judged

DeleteWorkflow ==
  /\ workflow' = {[w EXCEPT !.is_active = FALSE] : w \in workflow}
  /\ UNCHANGED <<active, bound, session, history>>

\* PUT of is_active, or DELETE, of an orchestrator, a sub-agent or a tool.
Switch(p) ==
  /\ active' = [active EXCEPT ![p] = ~@]
  /\ Written({p}, {})
  /\ UNCHANGED <<workflow, bound, session, moved>>
  /\ Judged

\* The owner's bindings are replaced, added to or taken from.
Rebind(p, es) ==
  /\ bound' = (bound \ From({p})) \cup es
  /\ Written({}, (From({p}) \ es) \cup (es \ bound))
  /\ UNCHANGED <<workflow, active, session, moved>>
  /\ Judged

-----------------------------------------------------------------------------
(* get_workflow: four statements.                                            *)

\* What validate_workflow has just read counts as unwritten.
Looked(parts, edges) ==
  /\ switched' = IF pc = "validating" THEN switched \ parts ELSE switched
  /\ rebound' = IF pc = "validating" THEN rebound \ edges ELSE rebound
  /\ UNCHANGED <<moved, wrong, config, pc>>

\* The first statement; a workflow that does not exist is answered 404.
BeginValidation ==
  /\ pc = "idle"
  /\ \E w \in workflow : tree' = [Unread EXCEPT !.root = w.orchestrator_id]
  /\ pc' = "validating" /\ read' = 1
  /\ wrong' = Defective
  /\ UNCHANGED <<config, moved, switched, rebound>>

BeginTask ==
  /\ pc = "loading" /\ read = 0
  /\ \E w \in workflow : tree' = [Unread EXCEPT !.root = w.orchestrator_id]
  /\ read' = 1
  /\ UNCHANGED <<config, pc, history>>

ReadOrchestrator ==
  /\ read = 1 /\ tree.root # None
  /\ read' = 2
  /\ tree' = [tree EXCEPT !.off = Off({tree.root})]
  /\ Looked({tree.root}, {})

ReadSubAgents ==
  /\ read = 2
  /\ read' = 3
  /\ LET es == From({tree.root})
     IN  /\ tree' = [tree EXCEPT !.edges = es, !.off = @ \cup Off(Ends(es))]
         /\ Looked(Ends(es), {tree.root} \X Agents)

ReadEveryTool ==
  /\ read = 3
  /\ read' = 4
  /\ LET es == From(Agents)
     IN  /\ tree' = [tree EXCEPT !.edges = @ \cup es, !.off = @ \cup Off(Ends(es))]
         /\ Looked(Ends(es), Agents \X Tools)
ReadTools ==
  /\ read = 3
  /\ read' = 4
  /\ LET es == From(TeamOf(tree))
     IN  /\ tree' = [tree EXCEPT !.edges = @ \cup es, !.off = @ \cup Off(Ends(es))]
         /\ Looked(Ends(es), TeamOf(tree) \X Tools)

Complete == read = 4 \/ (read = 1 /\ tree.root = None)

-----------------------------------------------------------------------------
(* The request and its task.                                                 *)

Forget ==
  /\ pc' = "idle" /\ read' = 0 /\ tree' = Unread
  /\ moved' = FALSE /\ switched' = {} /\ rebound' = {} /\ wrong' = FALSE
  /\ UNCHANGED config

\* POST /execute: the execution is committed and its task begins.
Execute ==
  /\ pc = "validating" /\ Complete
  /\ IsValid(tree)
  /\ pc' = "loading" /\ read' = 0 /\ tree' = Unread
  /\ wrong' = FALSE
  /\ UNCHANGED <<config, moved, switched, rebound>>

\* run_workflow: build_capability_map loads the orchestrator again, in the task's
\* session, which keeps every attribute that it has loaded before: the run goes
\* on with the tree of the first load.
BuildCapabilityMap ==
  /\ pc = "loading" /\ Complete /\ tree.root # None
  /\ pc' = "running"
  /\ UNCHANGED <<config, read, tree, history>>

\* The verdict is answered, 422 when it is not valid; a GET tells what it has
\* read; without an orchestrator run_workflow returns at once; the run is over;
\* an await raises, or the server goes down.
End == pc # "idle" /\ Forget

ReadStep == BeginTask \/ ReadOrchestrator \/ ReadSubAgents \/ ReadTools
Settle == Execute \/ BuildCapabilityMap \/ End
Change ==
  \/ DeleteWorkflow
  \/ \E o \in Orchestrators \cup {None} :
       CreateWorkflow(o) \/ \E b \in BOOLEAN : UpdateWorkflow(o, b)
  \/ \E p \in Parts : Switch(p) \/ \E es \in SUBSET {e \in Edges : e[1] = p} : Rebind(p, es)

Next == BeginValidation \/ ReadStep \/ Settle \/ Change

Spec == Init /\ [][Next]_vars

-----------------------------------------------------------------------------
(* Safety.                                                                   *)

\* Whatever the run finds wrong with its workflow was written after
\* validate_workflow had read that place: a missing orchestrator by a PUT of the
\* workflow, a part that is switched off by its own switch or by whatever brought
\* it into the tree, a missing team by a rebinding.
RunDefectsAreLater ==
  pc \in {"loading", "running"} /\ Complete /\ ~moved =>
    /\ tree.root # None
    /\ tree.root \in tree.off => tree.root \in switched
    /\ TeamOf(tree) = {} => \E a \in Agents : <<tree.root, a>> \in rebound
    /\ \A a \in TeamOf(tree) : <<tree.root, a>> \notin rebound =>
         /\ a \in tree.off => a \in switched
         /\ \A x \in Tools : <<a, x>> \in tree.edges \ rebound =>
              (x \in tree.off => x \in switched)

\* A refusal is founded although its four statements see four moments: at some
\* moment of the validation the configuration did have a defect.  Only a torn
\* read can refuse what was never wrong, and it takes a PUT that gives the
\* workflow another orchestrator, or a rebinding of the team after the team was
\* read; a switch, or a rebinding of tools, never suffices.
RefusalsAreFounded ==
  pc = "validating" /\ Complete /\ ~IsValid(tree) =>
    wrong \/ moved \/ \E a \in Agents : <<tree.root, a>> \in rebound
=============================================================================
