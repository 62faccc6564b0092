----------------------- MODULE WorkflowReadinessProofs -----------------------
(***************************************************************************)
(* Proofs about WorkflowReadiness, for any orchestrators, sub-agents and   *)
(* tools.  What validate_workflow has read still holds of the tables,      *)
(* except where the history says otherwise; a valid verdict turns this     *)
(* into a statement about the tables alone, which lasts until the task     *)
(* reads them.                                                             *)
(***************************************************************************)
EXTENDS WorkflowReadiness, TLAPS

Names(o) == \A w \in workflow : w.orchestrator_id = o

\* How far a tree can be filled after each statement.
Shape ==
  /\ pc = "idle" => read = 0 /\ switched = {} /\ rebound = {}
  /\ pc # "idle" => workflow # {}
  /\ pc = "validating" => read >= 1
  /\ pc = "running" => read = 4 /\ tree.root # None
  /\ read >= 2 => tree.root # None
  /\ read <= 1 => tree.off = {}
  /\ read <= 2 => tree.edges = {} /\ tree.off \subseteq Orchestrators
  /\ read <= 3 => tree.off \cap Tools = {} /\ tree.edges \subseteq {tree.root} \X Agents

\* What the tables still say of what validate_workflow has read.
RootHolds == ~moved => Names(tree.root)
OrchestratorHolds ==
  read >= 2 => (tree.root \notin tree.off \cup switched => active[tree.root])
TeamHolds ==
  read >= 3 =>
    \A a \in Agents :
      /\ <<tree.root, a>> \notin rebound => (<<tree.root, a>> \in bound <=> a \in TeamOf(tree))
      /\ a \in TeamOf(tree) /\ a \notin tree.off \cup switched => active[a]
ToolsHold ==
  read >= 4 =>
    \A a \in TeamOf(tree), x \in Tools :
      /\ <<a, x>> \notin rebound => (<<a, x>> \in bound <=> <<a, x>> \in tree.edges)
      /\ <<a, x>> \in tree.edges /\ x \notin tree.off \cup switched => active[x]

ValidatorRead ==
  pc = "validating" => RootHolds /\ OrchestratorHolds /\ TeamHolds /\ ToolsHold

\* The part of the tables below one orchestrator has no defect that is not later.
Sound(o) ==
  /\ o # None
  /\ o \notin switched => active[o]
  /\ (\A a \in Agents : <<o, a>> \notin rebound) => \E a \in Agents : <<o, a>> \in bound
  /\ \A a \in Agents : <<o, a>> \in bound /\ <<o, a>> \notin rebound =>
       /\ a \notin switched => active[a]
       /\ \A x \in Tools : <<a, x>> \in bound /\ <<a, x>> \notin rebound =>
            (x \notin switched => active[x])

Launched == pc \in {"loading", "running"}

TablesAreSound == Launched /\ ~moved => \A w \in workflow : Sound(w.orchestrator_id)

TaskRoot == read >= 1 => Names(tree.root)
TaskOrchestrator == read >= 2 => (tree.root \in tree.off => tree.root \in switched)
TaskTeam ==
  read >= 3 =>
    /\ TeamOf(tree) = {} => \E a \in Agents : <<tree.root, a>> \in rebound
    /\ \A a \in TeamOf(tree) : <<tree.root, a>> \notin rebound =>
         <<tree.root, a>> \in bound /\ (a \in tree.off => a \in switched)
TaskTools ==
  read >= 4 =>
    \A a \in TeamOf(tree), x \in Tools :
      <<tree.root, a>> \notin rebound /\ <<a, x>> \in tree.edges /\ <<a, x>> \notin rebound =>
        (x \in tree.off => x \in switched)

TaskRead == Launched /\ ~moved => TaskRoot /\ TaskOrchestrator /\ TaskTeam /\ TaskTools

\* Until the configuration has a defect, validate_workflow reads none.
Rebound == \E a \in Agents : <<tree.root, a>> \in rebound

Founded ==
  pc = "validating" /\ ~wrong /\ ~moved =>
    /\ ~Defective
    /\ read = 2 => tree.off = {}
    /\ read >= 3 /\ ~Rebound => TeamOf(tree) # {} /\ tree.off = {}

IInv == TypeOK /\ Shape /\ ValidatorRead /\ TablesAreSound /\ TaskRead /\ Founded

-----------------------------------------------------------------------------
(* What a statement returns.                                                 *)

LEMMA TeamRows ==
  ASSUME TypeOK, NEW o \in Orchestrators
  PROVE  /\ From({o}) \subseteq {o} \X Agents
         /\ \A a \in Agents : <<o, a>> \in From({o}) <=> <<o, a>> \in bound
         /\ Ends(From({o})) = {a \in Agents : <<o, a>> \in bound}
<1>1. bound \subseteq (Orchestrators \X Agents) \cup (Agents \X Tools)
  BY DEF TypeOK, Edges
<1>2. ASSUME NEW e \in From({o})
      PROVE  /\ e \in bound
             /\ \E a \in Agents : e = <<o, a>>
  BY <1>1, <1>2, Kinds DEF From
<1>3. \A a \in Agents : <<o, a>> \in From({o}) <=> <<o, a>> \in bound
  BY DEF From
<1>4. From({o}) \subseteq {o} \X Agents
  BY <1>2
<1>5. Ends(From({o})) \subseteq {a \in Agents : <<o, a>> \in bound}
  BY <1>2 DEF Ends
<1>6. {a \in Agents : <<o, a>> \in bound} \subseteq Ends(From({o}))
  BY <1>3 DEF Ends
<1>7. QED
  BY <1>3, <1>4, <1>5, <1>6

LEMMA ToolRows ==
  ASSUME TypeOK, NEW team \in SUBSET Agents
  PROVE  /\ From(team) \subseteq team \X Tools
         /\ \A a \in team, x \in Tools : <<a, x>> \in From(team) <=> <<a, x>> \in bound
         /\ Ends(From(team)) \subseteq Tools
         /\ \A a \in team, x \in Tools : <<a, x>> \in bound => x \in Ends(From(team))
<1>1. bound \subseteq (Orchestrators \X Agents) \cup (Agents \X Tools)
  BY DEF TypeOK, Edges
<1>2. ASSUME NEW e \in From(team)
      PROVE  \E a \in team, x \in Tools : e = <<a, x>>
  <2>1. e \in bound /\ e[1] \in team
    BY DEF From
  <2>2. CASE e \in Orchestrators \X Agents
    BY <2>1, <2>2, Kinds
  <2>3. CASE e \in Agents \X Tools
    BY <2>1, <2>3
  <2>4. QED
    BY <1>1, <2>1, <2>2, <2>3
<1>3. \A a \in team, x \in Tools : <<a, x>> \in From(team) <=> <<a, x>> \in bound
  BY DEF From
<1>4. From(team) \subseteq team \X Tools
  BY <1>2
<1>5. Ends(From(team)) \subseteq Tools
  BY <1>2 DEF Ends
<1>6. \A a \in team, x \in Tools : <<a, x>> \in bound => x \in Ends(From(team))
  <2> SUFFICES ASSUME NEW a \in team, NEW x \in Tools, <<a, x>> \in bound
               PROVE  x \in Ends(From(team))
    OBVIOUS
  <2>1. <<a, x>> \in From(team) /\ <<a, x>>[2] = x
    BY <1>3
  <2>2. QED
    BY <2>1 DEF Ends
<1>7. QED
  BY <1>3, <1>4, <1>5, <1>6

LEMMA EdgeKinds ==
  /\ \A o \in Orchestrators, a \in Agents : <<o, a>> \in Edges
  /\ \A a \in Agents, x \in Tools : <<a, x>> \in Edges
  /\ \A o \in Orchestrators, x \in Tools : <<o, x>> \notin Edges
BY Kinds DEF Edges

-----------------------------------------------------------------------------
(* Types.                                                                    *)

LEMMA InitType == Init => TypeOK
<1> SUFFICES ASSUME Init PROVE TypeOK
  OBVIOUS
<1>1. Unread \in Tree
  BY DEF Unread, Tree
<1>2. active \in [Parts -> BOOLEAN]
  BY DEF Init
<1>3. workflow \in SUBSET Row /\ \A u, v \in workflow : u = v
  BY DEF Init
<1>4. moved \in BOOLEAN /\ wrong \in BOOLEAN
  BY DEF Init
<1>5. QED
  BY <1>1, <1>2, <1>3, <1>4 DEF Init, TypeOK

LEMMA StepType == TypeOK /\ Shape /\ [Next]_vars => TypeOK'
<1> SUFFICES ASSUME TypeOK, Shape, [Next]_vars PROVE TypeOK'
  OBVIOUS
<1> USE DEF session, history, config
<1>u. Unread \in Tree
  BY DEF Unread, Tree
<1>w. wrong' \in BOOLEAN
  <2>1. CASE Change
    <3>1. wrong \in BOOLEAN
      BY DEF TypeOK
    <3>2. CASE Judged
      BY <3>2 DEF Judged
    <3>3. CASE wrong' = wrong
      BY <3>1, <3>3
    <3>4. Judged \/ wrong' = wrong
      BY <2>1 DEF Change, DeleteWorkflow, CreateWorkflow, UpdateWorkflow, Switch, Rebind
    <3>5. QED
      BY <3>2, <3>3, <3>4
  <2>2. CASE BeginValidation
    BY <2>2 DEF BeginValidation, Defective
  <2>3. CASE ReadStep \/ BuildCapabilityMap \/ UNCHANGED vars
    <3>1. wrong \in BOOLEAN
      BY DEF TypeOK
    <3>2. wrong' = wrong
      BY <2>3 DEF ReadStep, BeginTask, ReadOrchestrator, ReadSubAgents, ReadTools, Looked,
                  BuildCapabilityMap, vars
    <3>3. QED
      BY <3>1, <3>2
  <2>4. CASE Execute \/ End
    BY <2>4 DEF Execute, End, Forget
  <2>5. QED
    BY <2>1, <2>2, <2>3, <2>4 DEF Next, Settle
<1>1. CASE BeginValidation \/ BeginTask
  <2>1. PICK w \in workflow : tree' = [Unread EXCEPT !.root = w.orchestrator_id]
    BY <1>1 DEF BeginValidation, BeginTask
  <2>2. w.orchestrator_id \in Orchestrators \cup {None}
    BY DEF TypeOK, Row
  <2>3. tree' \in Tree
    BY <2>1, <2>2 DEF Unread, Tree
  <2>4. QED
    BY <1>w, <1>1, <2>3 DEF TypeOK, BeginValidation, BeginTask
<1>2. CASE ReadOrchestrator
  <2>1. Off({tree.root}) \subseteq Parts
    BY <1>2 DEF Off, ReadOrchestrator, TypeOK, Tree, Parts
  <2>2. tree' \in Tree
    BY <1>2, <2>1 DEF ReadOrchestrator, TypeOK, Tree
  <2>3. QED
    BY <1>2, <2>2 DEF TypeOK, ReadOrchestrator, Looked
<1>3. CASE ReadSubAgents
  <2> DEFINE es == From({tree.root})
  <2>1. tree.root \in Orchestrators
    BY <1>3 DEF ReadSubAgents, Shape, TypeOK, Tree
  <2>2. es \subseteq Edges /\ Off(Ends(es)) \subseteq Parts
    BY <2>1, TeamRows DEF From, TypeOK, Off, Parts
  <2>3. tree' \in Tree
    BY <1>3, <2>2 DEF ReadSubAgents, TypeOK, Tree
  <2>4. QED
    BY <1>3, <2>3 DEF TypeOK, ReadSubAgents, Looked
<1>4. CASE ReadTools
  <2> DEFINE es == From(TeamOf(tree))
  <2>1. TeamOf(tree) \in SUBSET Agents
    BY DEF TeamOf
  <2>2. es \subseteq Edges /\ Off(Ends(es)) \subseteq Parts
    BY <2>1, ToolRows DEF From, TypeOK, Off, Parts
  <2>3. tree' \in Tree
    BY <1>4, <2>2 DEF ReadTools, TypeOK, Tree
  <2>4. QED
    BY <1>4, <2>3 DEF TypeOK, ReadTools, Looked
<1>5. CASE Execute \/ End
  <2>1. CASE Execute
    BY <1>w, <2>1, <1>u DEF Execute, TypeOK
  <2>2. CASE End
    <3>1. moved' \in BOOLEAN
      BY <2>2 DEF End, Forget
    <3>2. tree' \in Tree
      BY <2>2, <1>u DEF End, Forget
    <3>3. QED
      BY <1>w, <2>2, <3>1, <3>2 DEF End, Forget, TypeOK
  <2>3. QED
    BY <1>5, <2>1, <2>2
<1>6. CASE BuildCapabilityMap
  BY <1>6 DEF BuildCapabilityMap, TypeOK
<1>7. CASE Change
  <2>1. CASE DeleteWorkflow
    <3>1. \A w \in workflow : [w EXCEPT !.is_active = FALSE] \in Row
      BY DEF TypeOK, Row
    <3>2. QED
      BY <2>1, <3>1 DEF DeleteWorkflow, TypeOK
  <2>2. ASSUME NEW o \in Orchestrators \cup {None}, CreateWorkflow(o) PROVE TypeOK'
    <3>1. [orchestrator_id |-> o, is_active |-> TRUE] \in Row
      BY DEF Row
    <3>2. QED
      BY <2>2, <3>1 DEF CreateWorkflow, TypeOK
  <2>3. ASSUME NEW o \in Orchestrators \cup {None}, NEW b \in BOOLEAN, UpdateWorkflow(o, b)
        PROVE  TypeOK'
    <3>1. [orchestrator_id |-> o, is_active |-> b] \in Row
      BY DEF Row
    <3>2. moved' \in BOOLEAN
      BY <2>3 DEF UpdateWorkflow
    <3>3. QED
      BY <1>w, <2>3, <3>1, <3>2 DEF UpdateWorkflow, TypeOK
  <2>4. ASSUME NEW p \in Parts, Switch(p) PROVE TypeOK'
    <3>1. active' \in [Parts -> BOOLEAN]
      BY <2>4 DEF Switch, TypeOK
    <3>2. QED
      BY <1>w, <2>4, <3>1 DEF Switch, Written, TypeOK
  <2>5. ASSUME NEW p \in Parts, NEW es \in SUBSET {e \in Edges : e[1] = p}, Rebind(p, es)
        PROVE  TypeOK'
    BY <1>w, <2>5 DEF Rebind, Written, From, TypeOK
  <2>6. QED
    BY <1>7, <2>1, <2>2, <2>3, <2>4, <2>5 DEF Change
<1>8. CASE UNCHANGED vars
  BY <1>8 DEF vars, TypeOK
<1>9. QED
  BY <1>1, <1>2, <1>3, <1>4, <1>5, <1>6, <1>7, <1>8 DEF Next, ReadStep, Settle

-----------------------------------------------------------------------------
(* How far a tree is filled.                                                 *)

LEMMA StepShape == TypeOK /\ Shape /\ [Next]_vars => Shape'
<1> SUFFICES ASSUME TypeOK, Shape, [Next]_vars PROVE Shape'
  OBVIOUS
<1> USE DEF session, history, config
<1>1. CASE BeginValidation \/ BeginTask
  <2>1. PICK w \in workflow : tree' = [Unread EXCEPT !.root = w.orchestrator_id]
    BY <1>1 DEF BeginValidation, BeginTask
  <2>2. tree'.off = {} /\ tree'.edges = {}
    BY <2>1 DEF Unread
  <2>3. QED
    BY <1>1, <2>2 DEF Shape, BeginValidation, BeginTask
<1>2. CASE ReadOrchestrator
  <2>1. tree.root \in Orchestrators /\ tree'.root = tree.root
    BY <1>2 DEF ReadOrchestrator, TypeOK, Tree
  <2>2. tree'.off \subseteq Orchestrators /\ tree'.edges = {}
    BY <1>2, <2>1 DEF ReadOrchestrator, Shape, Off, TypeOK, Tree
  <2>3. tree'.off \cap Tools = {}
    BY <2>2, Kinds
  <2>4. QED
    BY <1>2, <2>1, <2>2, <2>3 DEF ReadOrchestrator, Looked, Shape
<1>3. CASE ReadSubAgents
  <2> DEFINE es == From({tree.root})
  <2>1. tree.root \in Orchestrators /\ tree'.root = tree.root
    BY <1>3 DEF ReadSubAgents, Shape, TypeOK, Tree
  <2>2. tree'.edges = es /\ tree'.off = tree.off \cup Off(Ends(es))
    BY <1>3 DEF ReadSubAgents, TypeOK, Tree
  <2>3. es \subseteq {tree.root} \X Agents /\ Ends(es) \subseteq Agents
    BY <2>1, TeamRows
  <2>4. tree'.off \cap Tools = {}
    BY <1>3, <2>2, <2>3, Kinds DEF ReadSubAgents, Shape, Off
  <2>5. QED
    BY <1>3, <2>1, <2>2, <2>3, <2>4, Kinds DEF ReadSubAgents, Looked, Shape
<1>4. CASE ReadTools
  <2>1. tree'.root = tree.root
    BY <1>4 DEF ReadTools, TypeOK, Tree
  <2>2. QED
    BY <1>4, <2>1 DEF ReadTools, Looked, Shape
<1>5. CASE Execute \/ End
  <2>1. tree' = Unread /\ read' = 0 /\ (pc' = "loading" \/ pc' = "idle")
    BY <1>5 DEF Execute, End, Forget
  <2>2. pc' # "idle" => workflow' # {}
    BY <1>5 DEF Execute, End, Forget, Shape
  <2>3. pc' = "idle" => switched' = {} /\ rebound' = {}
    BY <1>5 DEF Execute, End, Forget
  <2>4. QED
    BY <2>1, <2>2, <2>3 DEF Shape, Unread
<1>6. CASE BuildCapabilityMap
  BY <1>6 DEF BuildCapabilityMap, Complete, Shape
<1>7. CASE Change
  <2>1. UNCHANGED session
    BY <1>7 DEF Change, DeleteWorkflow, CreateWorkflow, UpdateWorkflow, Switch, Rebind
  <2>2. workflow # {} => workflow' # {}
    BY <1>7 DEF Change, DeleteWorkflow, CreateWorkflow, UpdateWorkflow, Switch, Rebind
  <2>3. pc = "idle" => switched' = {} /\ rebound' = {}
    BY <1>7 DEF Change, DeleteWorkflow, CreateWorkflow, UpdateWorkflow, Switch, Rebind,
                Written, Shape
  <2>4. QED
    BY <2>1, <2>2, <2>3 DEF Shape
<1>8. CASE UNCHANGED vars
  BY <1>8 DEF vars, Shape
<1>9. QED
  BY <1>1, <1>2, <1>3, <1>4, <1>5, <1>6, <1>7, <1>8 DEF Next, ReadStep, Settle

-----------------------------------------------------------------------------
(* What a change of the configuration leaves alone.                          *)

SameElsewhere ==
  /\ ~moved' => ~moved /\ \A u \in workflow' : \E w \in workflow : u.orchestrator_id = w.orchestrator_id
  /\ switched \subseteq switched' /\ rebound \subseteq rebound'
  /\ \A p \in Parts : p \notin switched' => active'[p] = active[p]
  /\ \A e \in Edges : e \notin rebound' => (e \in bound' <=> e \in bound)

LEMMA ChangesAreRecorded ==
  ASSUME TypeOK, Shape, Change, pc # "idle"
  PROVE  SameElsewhere /\ UNCHANGED session
<1> USE DEF session, history, config
<1>1. CASE DeleteWorkflow
  <2>1. \A w \in workflow : [w EXCEPT !.is_active = FALSE].orchestrator_id = w.orchestrator_id
    BY DEF TypeOK, Row
  <2>2. QED
    BY <1>1, <2>1 DEF DeleteWorkflow, SameElsewhere
<1>2. ASSUME NEW o \in Orchestrators \cup {None}, CreateWorkflow(o)
      PROVE  SameElsewhere /\ UNCHANGED session
  BY <1>2 DEF CreateWorkflow, Shape
<1>3. ASSUME NEW o \in Orchestrators \cup {None}, NEW b \in BOOLEAN, UpdateWorkflow(o, b)
      PROVE  SameElsewhere /\ UNCHANGED session
  <2>1. workflow' = {[orchestrator_id |-> o, is_active |-> b]} /\ workflow # {}
    BY <1>3 DEF UpdateWorkflow
  <2>2. ~moved' => ~moved /\ \A w \in workflow : w.orchestrator_id = o
    BY <1>3 DEF UpdateWorkflow
  <2>3. \A u \in workflow' : u.orchestrator_id = o
    BY <2>1
  <2>4. QED
    BY <1>3, <2>1, <2>2, <2>3 DEF UpdateWorkflow, SameElsewhere
<1>4. ASSUME NEW p \in Parts, Switch(p) PROVE SameElsewhere /\ UNCHANGED session
  <2>1. \A q \in Parts : q \notin switched' => active'[q] = active[q]
    BY <1>4 DEF Switch, Written, TypeOK
  <2>2. QED
    BY <1>4, <2>1 DEF Switch, Written, SameElsewhere
<1>5. ASSUME NEW p \in Parts, NEW es \in SUBSET {e \in Edges : e[1] = p}, Rebind(p, es)
      PROVE  SameElsewhere /\ UNCHANGED session
  BY <1>5 DEF Rebind, Written, SameElsewhere
<1>6. QED
  BY <1>1, <1>2, <1>3, <1>4, <1>5 DEF Change

-----------------------------------------------------------------------------
(* What validate_workflow has read still holds.                              *)

LEMMA TeamAfterSubAgents ==
  ASSUME TypeOK, Shape, ReadSubAgents
  PROVE  /\ tree.root \in Orchestrators /\ tree'.root = tree.root
         /\ tree'.off = tree.off \cup {a \in Agents : <<tree.root, a>> \in bound /\ ~active[a]}
         /\ \A a \in Agents : <<tree.root, a>> \in tree'.edges <=> <<tree.root, a>> \in bound
         /\ Ends(From({tree.root})) = {a \in Agents : <<tree.root, a>> \in bound}
         /\ TeamOf(tree') = {a \in Agents : <<tree.root, a>> \in bound}
<1>1. tree.root \in Orchestrators
  BY DEF ReadSubAgents, Shape, TypeOK, Tree
<1>2. /\ tree'.root = tree.root
      /\ tree'.edges = From({tree.root})
      /\ tree'.off = tree.off \cup Off(Ends(From({tree.root})))
  BY DEF ReadSubAgents, TypeOK, Tree
<1>3. QED
  BY <1>1, <1>2, TeamRows DEF Off, TeamOf

LEMMA TreeAfterTools ==
  ASSUME TypeOK, Shape, ReadTools
  PROVE  /\ tree.root \in Orchestrators /\ tree'.root = tree.root
         /\ TeamOf(tree') = TeamOf(tree)
         /\ \A a \in TeamOf(tree), x \in Tools :
              /\ <<a, x>> \in tree'.edges <=> <<a, x>> \in bound
              /\ <<a, x>> \in bound => (x \in tree'.off <=> ~active[x])
         /\ \A p \in Orchestrators \cup Agents : p \in tree'.off <=> p \in tree.off
         /\ Ends(From(TeamOf(tree))) \subseteq Tools
<1> DEFINE team == TeamOf(tree)
<1>1. tree.root \in Orchestrators
  BY DEF ReadTools, Shape, TypeOK, Tree
<1>2. /\ tree'.root = tree.root
      /\ tree'.edges = tree.edges \cup From(team)
      /\ tree'.off = tree.off \cup Off(Ends(From(team)))
  BY DEF ReadTools, TypeOK, Tree
<1>3. team \in SUBSET Agents
  BY DEF TeamOf
<1>4. tree.off \cap Tools = {} /\ tree.edges \subseteq {tree.root} \X Agents
  BY DEF ReadTools, Shape
<1>5. From(team) \subseteq team \X Tools
  BY <1>3, ToolRows
<1>6. TeamOf(tree') = team
  BY <1>1, <1>2, <1>3, <1>5, Kinds DEF TeamOf
<1>7. ASSUME NEW a \in team, NEW x \in Tools
      PROVE  /\ <<a, x>> \in tree'.edges <=> <<a, x>> \in bound
             /\ <<a, x>> \in bound => (x \in tree'.off <=> ~active[x])
  <2>1. <<a, x>> \notin tree.edges
    BY <1>1, <1>3, <1>4, Kinds
  <2>2. <<a, x>> \in From(team) <=> <<a, x>> \in bound
    BY <1>3, ToolRows
  <2>3. <<a, x>> \in bound => x \in Ends(From(team))
    BY <1>3, ToolRows
  <2>4. QED
    BY <1>2, <1>4, <2>1, <2>2, <2>3 DEF Off
<1>8. Ends(From(team)) \subseteq Tools
  BY <1>3, ToolRows
<1>9. \A p \in Orchestrators \cup Agents : p \in tree'.off <=> p \in tree.off
  BY <1>2, <1>8, Kinds DEF Off
<1>10. QED
  BY <1>1, <1>2, <1>6, <1>7, <1>8, <1>9

LEMMA ValidatorStep ==
  TypeOK /\ Shape /\ ValidatorRead /\ [Next]_vars => ValidatorRead'
<1> SUFFICES ASSUME TypeOK, Shape, ValidatorRead, [Next]_vars, pc' = "validating"
             PROVE  RootHolds' /\ OrchestratorHolds' /\ TeamHolds' /\ ToolsHold'
  BY DEF ValidatorRead
<1> USE DEF session, history, config
<1>1. CASE BeginValidation
  <2>1. PICK w \in workflow : tree' = [Unread EXCEPT !.root = w.orchestrator_id]
    BY <1>1 DEF BeginValidation
  <2>2. tree'.root = w.orchestrator_id /\ read' = 1 /\ workflow' = workflow
    BY <1>1, <2>1 DEF BeginValidation, Unread
  <2>3. RootHolds'
    BY <2>2 DEF RootHolds, Names, TypeOK
  <2>4. QED
    BY <2>2, <2>3 DEF OrchestratorHolds, TeamHolds, ToolsHold
<1>2. CASE ReadOrchestrator
  <2>1. tree.root \in Orchestrators /\ tree'.root = tree.root /\ tree'.off = Off({tree.root})
    BY <1>2 DEF ReadOrchestrator, TypeOK, Tree
  <2>2. pc = "validating" /\ read' = 2 /\ UNCHANGED <<moved, workflow, active>>
    BY <1>2 DEF ReadOrchestrator, Looked
  <2>3. RootHolds'
    BY <2>1, <2>2 DEF ValidatorRead, RootHolds, Names
  <2>4. OrchestratorHolds'
    BY <2>1, <2>2 DEF OrchestratorHolds, Off
  <2>5. QED
    BY <2>2, <2>3, <2>4 DEF TeamHolds, ToolsHold
<1>3. CASE ReadSubAgents
  <2> DEFINE root == tree.root
  <2>1. /\ root \in Orchestrators /\ tree'.root = root
        /\ tree'.off = tree.off \cup {a \in Agents : <<root, a>> \in bound /\ ~active[a]}
        /\ Ends(From({root})) = {a \in Agents : <<root, a>> \in bound}
        /\ TeamOf(tree') = {a \in Agents : <<root, a>> \in bound}
    BY <1>3, TeamAfterSubAgents
  <2>2. pc = "validating" /\ read = 2 /\ read' = 3 /\ UNCHANGED <<moved, workflow, active, bound>>
    BY <1>3 DEF ReadSubAgents, Looked
  <2>3. switched' = switched \ {a \in Agents : <<root, a>> \in bound}
    BY <1>3, <2>1, <2>2 DEF ReadSubAgents, Looked
  <2>4. RootHolds'
    BY <2>1, <2>2 DEF ValidatorRead, RootHolds, Names
  <2>5. OrchestratorHolds'
    BY <2>1, <2>2, <2>3, Kinds DEF ValidatorRead, OrchestratorHolds
  <2>6. TeamHolds'
    BY <2>1, <2>2, <2>3 DEF TeamHolds
  <2>7. QED
    BY <2>2, <2>4, <2>5, <2>6 DEF ToolsHold
<1>4. CASE ReadTools
  <2> DEFINE root == tree.root
             team == TeamOf(tree)
  <2>1. /\ root \in Orchestrators /\ tree'.root = root /\ TeamOf(tree') = team
        /\ \A a \in team, x \in Tools :
             /\ <<a, x>> \in tree'.edges <=> <<a, x>> \in bound
             /\ <<a, x>> \in bound => (x \in tree'.off <=> ~active[x])
        /\ \A p \in Orchestrators \cup Agents : p \in tree'.off <=> p \in tree.off
        /\ Ends(From(team)) \subseteq Tools
    BY <1>4, TreeAfterTools
  <2>2. pc = "validating" /\ read = 3 /\ read' = 4 /\ UNCHANGED <<moved, workflow, active, bound>>
    BY <1>4 DEF ReadTools, Looked
  <2>3. /\ switched' = switched \ Ends(From(team))
        /\ rebound' = rebound \ (team \X Tools)
    BY <1>4, <2>2 DEF ReadTools, Looked
  <2>4. RootHolds'
    BY <2>1, <2>2 DEF ValidatorRead, RootHolds, Names
  <2>5. root \notin switched' <=> root \notin switched
    BY <2>1, <2>3, Kinds
  <2>6. OrchestratorHolds'
    BY <2>1, <2>2, <2>5 DEF ValidatorRead, OrchestratorHolds
  <2>7. TeamHolds'
    <3>1. ASSUME NEW a \in Agents
          PROVE  /\ <<root, a>> \notin rebound' <=> <<root, a>> \notin rebound
                 /\ a \notin switched' <=> a \notin switched
      BY <2>1, <2>3, Kinds
    <3>2. QED
      BY <2>1, <2>2, <3>1 DEF ValidatorRead, TeamHolds
  <2>8. ToolsHold'
    BY <2>1, <2>2, <2>3 DEF ToolsHold, TeamOf
  <2>9. QED
    BY <2>4, <2>6, <2>7, <2>8
<1>5. CASE Change
  <2>0. pc # "idle"
    <3>1. UNCHANGED session
      BY <1>5 DEF Change, DeleteWorkflow, CreateWorkflow, UpdateWorkflow, Switch, Rebind
    <3>2. QED
      BY <3>1
  <2>1. SameElsewhere /\ UNCHANGED session
    BY <1>5, <2>0, ChangesAreRecorded
  <2>2. UNCHANGED <<pc, read, tree>> /\ TeamOf(tree') = TeamOf(tree)
    BY <2>1
  <2>3. RootHolds'
    BY <2>1, <2>2 DEF ValidatorRead, RootHolds, Names, SameElsewhere
  <2>4. read >= 2 => tree.root \in Parts /\ \A a \in Agents : <<tree.root, a>> \in Edges
    BY EdgeKinds DEF Shape, TypeOK, Tree, Parts
  <2>5. OrchestratorHolds'
    BY <2>1, <2>2, <2>4 DEF ValidatorRead, OrchestratorHolds, SameElsewhere
  <2>6. TeamHolds'
    BY <2>1, <2>2, <2>4 DEF ValidatorRead, TeamHolds, SameElsewhere, TypeOK, Parts
  <2>7. \A a \in TeamOf(tree), x \in Tools : <<a, x>> \in Edges /\ x \in Parts
    BY EdgeKinds DEF TeamOf, Parts
  <2>8. ToolsHold'
    BY <2>1, <2>2, <2>7 DEF ValidatorRead, ToolsHold, SameElsewhere
  <2>9. QED
    BY <2>3, <2>5, <2>6, <2>8
<1>6. CASE UNCHANGED vars
  BY <1>6 DEF vars, ValidatorRead, RootHolds, Names, OrchestratorHolds, TeamHolds, ToolsHold, TeamOf
<1>7. CASE BeginTask \/ Settle
  BY <1>7 DEF BeginTask, Settle, Execute, BuildCapabilityMap, End, Forget
<1>8. QED
  BY <1>1, <1>2, <1>3, <1>4, <1>5, <1>6, <1>7 DEF Next, ReadStep

-----------------------------------------------------------------------------
(* A valid verdict: the tables have no defect that is not later.             *)

LEMMA VerdictIsSound ==
  ASSUME TypeOK, Shape, ValidatorRead, Execute
  PROVE  ~moved => \A w \in workflow : Sound(w.orchestrator_id)
<1> SUFFICES ASSUME ~moved, NEW w \in workflow PROVE Sound(w.orchestrator_id)
  OBVIOUS
<1> DEFINE o == tree.root
<1>1. /\ pc = "validating" /\ read = 4
      /\ o # None /\ TeamOf(tree) # {} /\ tree.off = {}
  BY DEF Execute, Complete, IsValid
<1>2. w.orchestrator_id = o /\ o \in Orchestrators
  BY <1>1 DEF ValidatorRead, RootHolds, Names, TypeOK, Tree
<1>3. o \notin switched => active[o]
  BY <1>1 DEF ValidatorRead, OrchestratorHolds
<1>4. (\A a \in Agents : <<o, a>> \notin rebound) => \E a \in Agents : <<o, a>> \in bound
  BY <1>1 DEF ValidatorRead, TeamHolds, TeamOf
<1>5. ASSUME NEW a \in Agents, <<o, a>> \in bound, <<o, a>> \notin rebound
      PROVE  /\ a \notin switched => active[a]
             /\ \A x \in Tools : <<a, x>> \in bound /\ <<a, x>> \notin rebound =>
                  (x \notin switched => active[x])
  <2>1. a \in TeamOf(tree)
    BY <1>1, <1>5 DEF ValidatorRead, TeamHolds
  <2>2. ASSUME a \notin switched PROVE active[a]
    <3>1. a \notin tree.off \cup switched
      BY <1>1, <2>2
    <3>2. TeamHolds /\ read >= 3
      BY <1>1 DEF ValidatorRead
    <3>3. QED
      BY <2>1, <3>1, <3>2 DEF TeamHolds
  <2>3. ASSUME NEW x \in Tools, <<a, x>> \in bound, <<a, x>> \notin rebound, x \notin switched
        PROVE  active[x]
    BY <1>1, <2>1, <2>3 DEF ValidatorRead, ToolsHold
  <2>4. QED
    BY <2>2, <2>3
<1>6. QED
  BY <1>1, <1>2, <1>3, <1>4, <1>5 DEF Sound

LEMMA SoundStep ==
  ASSUME TypeOK, Shape, Launched, Change,
         NEW o \in Orchestrators \cup {None}, Sound(o)
  PROVE  Sound(o)'
<1>1. SameElsewhere
  BY ChangesAreRecorded DEF Launched
<1>2. o \in Orchestrators
  BY DEF Sound
<1>3. o \notin switched' => active'[o]
  BY <1>1, <1>2 DEF Sound, SameElsewhere, Parts
<1>4. \A a \in Agents : <<o, a>> \notin rebound' =>
        <<o, a>> \notin rebound /\ (<<o, a>> \in bound' <=> <<o, a>> \in bound)
  BY <1>1, <1>2, EdgeKinds DEF SameElsewhere
<1>5. (\A a \in Agents : <<o, a>> \notin rebound') => \E a \in Agents : <<o, a>> \in bound'
  BY <1>4 DEF Sound
<1>6. ASSUME NEW a \in Agents, <<o, a>> \in bound', <<o, a>> \notin rebound'
      PROVE  /\ a \notin switched' => active'[a]
             /\ \A x \in Tools : <<a, x>> \in bound' /\ <<a, x>> \notin rebound' =>
                  (x \notin switched' => active'[x])
  <2>1. <<o, a>> \in bound /\ <<o, a>> \notin rebound
    BY <1>4, <1>6
  <2>2. ASSUME a \notin switched' PROVE active'[a]
    <3>1. active'[a] = active[a] /\ a \notin switched
      BY <1>1, <2>2 DEF SameElsewhere, Parts
    <3>2. QED
      BY <2>1, <3>1 DEF Sound
  <2>3. ASSUME NEW x \in Tools, <<a, x>> \in bound', <<a, x>> \notin rebound', x \notin switched'
        PROVE  active'[x]
    <3>1. active'[x] = active[x] /\ x \notin switched
      BY <1>1, <2>3 DEF SameElsewhere, Parts
    <3>2. <<a, x>> \in bound /\ <<a, x>> \notin rebound
      BY <1>1, <2>3, EdgeKinds DEF SameElsewhere
    <3>3. QED
      BY <2>1, <3>1, <3>2 DEF Sound
  <2>4. QED
    BY <2>2, <2>3
<1>7. QED
  BY <1>2, <1>3, <1>5, <1>6 DEF Sound

LEMMA TablesStep ==
  TypeOK /\ Shape /\ ValidatorRead /\ TablesAreSound /\ [Next]_vars => TablesAreSound'
<1> SUFFICES ASSUME TypeOK, Shape, ValidatorRead, TablesAreSound, [Next]_vars,
                    Launched', ~moved'
             PROVE  \A w \in workflow' : Sound(w.orchestrator_id)'
  BY DEF TablesAreSound
<1> USE DEF session, history, config
<1>1. CASE Execute
  <2>1. UNCHANGED <<workflow, active, bound, moved, switched, rebound>>
    BY <1>1 DEF Execute
  <2>2. QED
    BY <1>1, <2>1, VerdictIsSound DEF Sound
<1>2. CASE Change
  <2>1. UNCHANGED session
    BY <1>2 DEF Change, DeleteWorkflow, CreateWorkflow, UpdateWorkflow, Switch, Rebind
  <2>2. Launched
    BY <2>1 DEF Launched
  <2>3. SameElsewhere
    BY <1>2, <2>2, ChangesAreRecorded DEF Launched
  <2>4. SUFFICES ASSUME NEW u \in workflow' PROVE Sound(u.orchestrator_id)'
    OBVIOUS
  <2>5. PICK w \in workflow : u.orchestrator_id = w.orchestrator_id
    BY <2>3 DEF SameElsewhere
  <2>6. w.orchestrator_id \in Orchestrators \cup {None} /\ Sound(w.orchestrator_id)
    BY <2>2, <2>3 DEF TablesAreSound, SameElsewhere, TypeOK, Row
  <2>7. Sound(w.orchestrator_id)'
    BY <1>2, <2>2, <2>6, SoundStep
  <2>8. QED
    BY <2>5, <2>7 DEF Sound
<1>3. CASE BeginTask \/ BuildCapabilityMap \/ ReadOrchestrator \/ ReadSubAgents \/ ReadTools
  <2>1. Launched /\ UNCHANGED <<workflow, active, bound, moved, switched, rebound>>
    BY <1>3 DEF BeginTask, BuildCapabilityMap, ReadOrchestrator, ReadSubAgents, ReadTools,
                Looked, Launched
  <2>2. QED
    BY <2>1 DEF TablesAreSound, Sound
<1>4. CASE BeginValidation \/ End
  BY <1>4 DEF BeginValidation, End, Forget, Launched
<1>5. CASE UNCHANGED vars
  BY <1>5 DEF vars, TablesAreSound, Launched, Sound
<1>6. QED
  BY <1>1, <1>2, <1>3, <1>4, <1>5 DEF Next, ReadStep, Settle

-----------------------------------------------------------------------------
(* What the task reads of tables without earlier defects.                    *)

LEMMA TaskStep ==
  ASSUME TypeOK, Shape, TablesAreSound, TaskRead, [Next]_vars
  PROVE  TaskRead'
<1> SUFFICES ASSUME Launched', ~moved'
             PROVE  TaskRoot' /\ TaskOrchestrator' /\ TaskTeam' /\ TaskTools'
  BY DEF TaskRead
<1> USE DEF session, history, config
<1>0. ASSUME Launched, ~moved
      PROVE  /\ TaskRoot /\ TaskOrchestrator /\ TaskTeam /\ TaskTools
             /\ read >= 2 => Sound(tree.root)
  <2>1. TaskRoot /\ TaskOrchestrator /\ TaskTeam /\ TaskTools
    BY <1>0 DEF TaskRead
  <2>2. PICK w \in workflow : TRUE
    BY <1>0 DEF Shape, Launched
  <2>3. read >= 2 => w.orchestrator_id = tree.root
    BY <2>1 DEF TaskRoot, Names, TypeOK
  <2>4. QED
    BY <1>0, <2>1, <2>3 DEF TablesAreSound
<1>1. CASE BeginTask
  <2>1. PICK w \in workflow : tree' = [Unread EXCEPT !.root = w.orchestrator_id]
    BY <1>1 DEF BeginTask
  <2>2. tree'.root = w.orchestrator_id /\ read' = 1 /\ workflow' = workflow
    BY <1>1, <2>1 DEF BeginTask, Unread
  <2>3. TaskRoot'
    BY <2>2 DEF TaskRoot, Names, TypeOK
  <2>4. QED
    BY <2>2, <2>3 DEF TaskOrchestrator, TaskTeam, TaskTools
<1>2. CASE ReadOrchestrator
  <2>1. tree.root \in Orchestrators /\ tree'.root = tree.root /\ tree'.off = Off({tree.root})
    BY <1>2 DEF ReadOrchestrator, TypeOK, Tree
  <2>2. /\ Launched /\ read = 1 /\ read' = 2
        /\ UNCHANGED <<moved, workflow, active, switched, rebound>>
    BY <1>2 DEF ReadOrchestrator, Looked, Launched
  <2>3. TaskRoot'
    BY <1>0, <2>1, <2>2 DEF TaskRoot, Names
  <2>4. Sound(tree.root)
    BY <1>0, <2>2 DEF TablesAreSound, TaskRoot, Names, Shape, Launched
  <2>5. TaskOrchestrator'
    BY <2>1, <2>2, <2>4 DEF TaskOrchestrator, Sound, Off
  <2>6. QED
    BY <2>2, <2>3, <2>5 DEF TaskTeam, TaskTools
<1>3. CASE ReadSubAgents
  <2> DEFINE root == tree.root
  <2>1. /\ root \in Orchestrators /\ tree'.root = root
        /\ tree'.off = tree.off \cup {a \in Agents : <<root, a>> \in bound /\ ~active[a]}
        /\ TeamOf(tree') = {a \in Agents : <<root, a>> \in bound}
    BY <1>3, TeamAfterSubAgents
  <2>2. /\ Launched /\ read = 2 /\ read' = 3
        /\ UNCHANGED <<moved, workflow, active, bound, switched, rebound>>
    BY <1>3 DEF ReadSubAgents, Looked, Launched
  <2>3. TaskRoot'
    BY <1>0, <2>1, <2>2 DEF TaskRoot, Names
  <2>4. Sound(root)
    BY <1>0, <2>2
  <2>5. tree.off \subseteq Orchestrators
    BY <2>2 DEF Shape
  <2>6. TaskOrchestrator'
    BY <1>0, <2>1, <2>2, Kinds DEF TaskOrchestrator
  <2>7. ASSUME NEW a \in Agents, <<root, a>> \in bound, <<root, a>> \notin rebound,
               a \in tree'.off
        PROVE  a \in switched
    <3>1. ~active[a]
      BY <2>1, <2>5, <2>7, Kinds
    <3>2. QED
      BY <2>4, <2>7, <3>1 DEF Sound
  <2>8. TeamOf(tree') = {} => \E a \in Agents : <<root, a>> \in rebound
    BY <2>1, <2>4 DEF Sound
  <2>9. TaskTeam'
    BY <2>1, <2>2, <2>7, <2>8 DEF TaskTeam
  <2>10. QED
    BY <2>2, <2>3, <2>6, <2>9 DEF TaskTools
<1>4. CASE ReadTools
  <2> DEFINE root == tree.root
             team == TeamOf(tree)
  <2>1. /\ root \in Orchestrators /\ tree'.root = root /\ TeamOf(tree') = team
        /\ \A a \in team, x \in Tools :
             /\ <<a, x>> \in tree'.edges <=> <<a, x>> \in bound
             /\ <<a, x>> \in bound => (x \in tree'.off <=> ~active[x])
        /\ \A p \in Orchestrators \cup Agents : p \in tree'.off <=> p \in tree.off
    BY <1>4, TreeAfterTools
  <2>2. /\ Launched /\ read = 3 /\ read' = 4
        /\ UNCHANGED <<moved, workflow, active, bound, switched, rebound>>
    BY <1>4 DEF ReadTools, Looked, Launched
  <2>3. TaskRoot'
    BY <1>0, <2>1, <2>2 DEF TaskRoot, Names
  <2>4. TaskOrchestrator'
    BY <1>0, <2>1, <2>2 DEF TaskOrchestrator
  <2>5. team \subseteq Agents
    BY DEF TeamOf
  <2>6. TaskTeam'
    BY <1>0, <2>1, <2>2, <2>5 DEF TaskTeam
  <2>7. ASSUME NEW a \in team, NEW x \in Tools, <<root, a>> \notin rebound,
               <<a, x>> \in tree'.edges, <<a, x>> \notin rebound, x \in tree'.off
        PROVE  x \in switched
    <3>1. <<a, x>> \in bound /\ ~active[x]
      BY <2>1, <2>7
    <3>2. <<root, a>> \in bound
      BY <1>0, <2>2, <2>7 DEF TaskTeam
    <3>3. Sound(root)
      BY <1>0, <2>2
    <3>4. QED
      BY <2>5, <2>7, <3>1, <3>2, <3>3 DEF Sound
  <2>8. TaskTools'
    BY <2>1, <2>2, <2>7 DEF TaskTools
  <2>9. QED
    BY <2>3, <2>4, <2>6, <2>8
<1>5. CASE Change
  <2>1. UNCHANGED session
    BY <1>5 DEF Change, DeleteWorkflow, CreateWorkflow, UpdateWorkflow, Switch, Rebind
  <2>2. Launched /\ UNCHANGED <<read, tree>> /\ TeamOf(tree') = TeamOf(tree)
    BY <2>1 DEF Launched
  <2>3. SameElsewhere /\ ~moved
    BY <1>5, <2>2, ChangesAreRecorded DEF Launched, SameElsewhere
  <2>4. TaskRoot'
    BY <1>0, <2>2, <2>3 DEF TaskRoot, Names, SameElsewhere
  <2>5. TaskOrchestrator'
    BY <1>0, <2>2, <2>3 DEF TaskOrchestrator, SameElsewhere
  <2>6. read >= 3 => \A a \in Agents : <<tree.root, a>> \in Edges
    BY EdgeKinds DEF Shape, TypeOK, Tree
  <2>7. TaskTeam'
    BY <1>0, <2>2, <2>3, <2>6 DEF TaskTeam, SameElsewhere, TeamOf
  <2>8. TaskTools'
    BY <1>0, <2>2, <2>3 DEF TaskTools, SameElsewhere
  <2>9. QED
    BY <2>4, <2>5, <2>7, <2>8
<1>6. CASE Execute
  BY <1>6 DEF Execute, TaskRoot, TaskOrchestrator, TaskTeam, TaskTools
<1>7. CASE BuildCapabilityMap
  <2>1. Launched /\ UNCHANGED <<workflow, active, bound, moved, switched, rebound, read, tree>>
    BY <1>7 DEF BuildCapabilityMap, Launched
  <2>2. QED
    BY <1>0, <2>1 DEF TaskRoot, Names, TaskOrchestrator, TaskTeam, TaskTools, TeamOf
<1>8. CASE BeginValidation \/ End
  BY <1>8 DEF BeginValidation, End, Forget, Launched
<1>9. CASE UNCHANGED vars
  BY <1>0, <1>9 DEF vars, Launched, TaskRoot, Names, TaskOrchestrator, TaskTeam, TaskTools, TeamOf
<1>10. QED
  BY <1>1, <1>2, <1>3, <1>4, <1>5, <1>6, <1>7, <1>8, <1>9 DEF Next, ReadStep, Settle

-----------------------------------------------------------------------------
(* A validation that reads a defect.                                         *)

LEMMA NowOf ==
  ASSUME TypeOK, NEW o \in Orchestrators, IsValid(Now(o))
  PROVE  /\ {a \in Agents : <<o, a>> \in bound} # {}
         /\ active[o]
         /\ \A a \in Agents : <<o, a>> \in bound =>
              active[a] /\ \A x \in Tools : <<a, x>> \in bound => active[x]
<1> DEFINE team == {a \in Agents : <<o, a>> \in bound}
           es == From({o}) \cup From(Ends(From({o})))
<1>1. Ends(From({o})) = team /\ team \in SUBSET Agents
  BY TeamRows
<1>2. /\ Now(o).root = o /\ Now(o).edges = es
      /\ Now(o).off = Off(({o} \cap Orchestrators) \cup Ends(es))
  BY DEF Now
<1>3. \A a \in Agents : <<o, a>> \in es => <<o, a>> \in bound
  BY DEF From
<1>4. team # {}
  BY <1>2, <1>3 DEF IsValid, TeamOf
<1>5. \A p \in Parts : p = o \/ p \in Ends(es) => active[p]
  BY <1>2 DEF IsValid, Off
<1>6. team \subseteq Ends(es)
  BY <1>1 DEF Ends
<1>7. \A a \in team, x \in Tools : <<a, x>> \in bound => x \in Ends(es)
  <2> SUFFICES ASSUME NEW a \in team, NEW x \in Tools, <<a, x>> \in bound
               PROVE  x \in Ends(es)
    OBVIOUS
  <2>1. x \in Ends(From(team))
    BY <1>1, ToolRows
  <2>2. QED
    BY <1>1, <2>1 DEF Ends
<1>8. QED
  BY <1>4, <1>5, <1>6, <1>7 DEF Parts

LEMMA NoDefect ==
  ASSUME TypeOK, Shape, ValidatorRead, Founded, pc = "validating", ~wrong, ~moved
  PROVE  tree.root # None /\ IsValid(Now(tree.root))
<1>1. PICK w \in workflow : TRUE
  BY DEF Shape
<1>2. w.orchestrator_id = tree.root
  BY DEF ValidatorRead, RootHolds, Names
<1>3. IsValid(Now(tree.root))
  BY <1>1, <1>2 DEF Founded, Defective
<1>4. QED
  BY <1>3 DEF IsValid, Now

LEMMA FoundedStep ==
  TypeOK /\ Shape /\ ValidatorRead /\ Founded /\ [Next]_vars => Founded'
<1> SUFFICES ASSUME TypeOK, Shape, ValidatorRead, Founded, [Next]_vars,
                    pc' = "validating", ~wrong', ~moved'
             PROVE  /\ ~Defective'
                    /\ read' = 2 => tree'.off = {}
                    /\ read' >= 3 /\ ~Rebound' => TeamOf(tree') # {} /\ tree'.off = {}
  BY DEF Founded
<1> USE DEF session, history, config
<1>1. ASSUME UNCHANGED <<active, bound>>
      PROVE  \A o : Now(o)' = Now(o)
  BY <1>1 DEF Now, From, Off
<1>2. CASE BeginValidation
  <2>1. ~Defective'
    BY <1>1, <1>2 DEF BeginValidation, Defective
  <2>2. QED
    BY <1>2, <2>1 DEF BeginValidation
<1>3. CASE ReadOrchestrator \/ ReadSubAgents \/ ReadTools
  <2>1. /\ pc = "validating" /\ ~wrong /\ ~moved
        /\ UNCHANGED <<workflow, active, bound>>
    BY <1>3 DEF ReadOrchestrator, ReadSubAgents, ReadTools, Looked
  <2>2. ~Defective'
    BY <1>1, <2>1 DEF Founded, Defective
  <2>3. tree.root \in Orchestrators /\ IsValid(Now(tree.root))
    BY <2>1, NoDefect DEF TypeOK, Tree
  <2> DEFINE root == tree.root
  <2>4. /\ {a \in Agents : <<root, a>> \in bound} # {}
        /\ active[root]
        /\ \A a \in Agents : <<root, a>> \in bound =>
             active[a] /\ \A x \in Tools : <<a, x>> \in bound => active[x]
    BY <2>3, NowOf
  <2>5. CASE ReadOrchestrator
    <3>1. tree'.off = Off({root})
      BY <2>5 DEF ReadOrchestrator, TypeOK, Tree
    <3>2. QED
      BY <2>2, <2>4, <2>5, <3>1 DEF ReadOrchestrator, Off
  <2>6. CASE ReadSubAgents
    <3>1. tree.off = {} /\ read' = 3
      BY <2>1, <2>6 DEF ReadSubAgents, Founded
    <3>2. TeamOf(tree') # {} /\ tree'.off = {}
      BY <2>4, <2>6, <3>1, TeamAfterSubAgents
    <3>3. QED
      BY <2>2, <3>1, <3>2
  <2>7. CASE ReadTools
    <3> DEFINE team == TeamOf(tree)
    <3>1. SUFFICES ASSUME ~Rebound' PROVE TeamOf(tree') # {} /\ tree'.off = {}
      BY <2>2, <2>7 DEF ReadTools
    <3>2. read = 3 /\ tree'.root = root /\ tree'.off = tree.off \cup Off(Ends(From(team)))
      BY <2>7 DEF ReadTools, TypeOK, Tree
    <3>3. rebound' = rebound \ (team \X Tools) /\ team \in SUBSET Agents
      BY <2>1, <2>7 DEF ReadTools, Looked, TeamOf
    <3>4. ~Rebound
      BY <2>3, <3>1, <3>2, <3>3, Kinds DEF Rebound
    <3>5. team # {} /\ tree.off = {}
      BY <2>1, <3>2, <3>4 DEF Founded
    <3>6. \A a \in team : <<root, a>> \in bound
      BY <2>1, <3>2, <3>3, <3>4 DEF ValidatorRead, TeamHolds, Rebound
    <3>7. ASSUME NEW x \in Ends(From(team)) PROVE active[x]
      <4>1. PICK e \in From(team) : x = e[2]
        BY <3>7 DEF Ends
      <4>2. e \in team \X Tools /\ e \in bound
        BY <3>3, ToolRows DEF From
      <4>3. e[1] \in team /\ e[2] \in Tools /\ <<e[1], e[2]>> \in bound
        BY <4>2
      <4>4. QED
        BY <2>4, <3>3, <3>6, <4>1, <4>3
    <3>8. TeamOf(tree') = team
      BY <2>7, TreeAfterTools
    <3>9. QED
      BY <3>2, <3>5, <3>7, <3>8 DEF Off
  <2>8. QED
    BY <1>3, <2>5, <2>6, <2>7
<1>4. CASE Change
  <2>1. UNCHANGED session /\ pc = "validating"
    BY <1>4 DEF Change, DeleteWorkflow, CreateWorkflow, UpdateWorkflow, Switch, Rebind
  <2>2. ~moved /\ rebound \subseteq rebound'
    BY <1>4, <2>1, ChangesAreRecorded DEF SameElsewhere
  <2>3. ~wrong /\ ~Defective'
    <3>1. CASE DeleteWorkflow
      <4>1. ~wrong /\ ~Defective
        BY <2>1, <2>2, <3>1 DEF DeleteWorkflow, Founded
      <4>2. \A o : Now(o)' = Now(o)
        BY <1>1, <3>1 DEF DeleteWorkflow
      <4>3. \A u \in workflow' : \E w \in workflow : u.orchestrator_id = w.orchestrator_id
        BY <1>4, <2>1, ChangesAreRecorded DEF SameElsewhere
      <4>4. QED
        BY <4>1, <4>2, <4>3 DEF Defective
    <3>2. CASE \E o \in Orchestrators \cup {None} : CreateWorkflow(o)
      BY <2>1, <3>2 DEF CreateWorkflow, Shape
    <3>3. CASE \E o \in Orchestrators \cup {None}, b \in BOOLEAN : UpdateWorkflow(o, b)
      BY <2>1, <3>3 DEF UpdateWorkflow, Judged
    <3>4. CASE \E p \in Parts : Switch(p)
      BY <2>1, <3>4 DEF Switch, Judged
    <3>5. CASE \E p \in Parts : \E es \in SUBSET {e \in Edges : e[1] = p} : Rebind(p, es)
      BY <2>1, <3>5 DEF Rebind, Judged
    <3>6. QED
      BY <1>4, <3>1, <3>2, <3>3, <3>4, <3>5 DEF Change
  <2>4. QED
    BY <2>1, <2>2, <2>3 DEF Founded, Rebound, TeamOf
<1>5. CASE BeginTask \/ Settle
  BY <1>5 DEF BeginTask, Settle, Execute, BuildCapabilityMap, End, Forget
<1>6. CASE UNCHANGED vars
  <2>1. \A o : Now(o)' = Now(o)
    BY <1>1, <1>6 DEF vars
  <2>2. QED
    BY <1>6, <2>1 DEF vars, Founded, Rebound, TeamOf, Defective
<1>7. QED
  BY <1>2, <1>3, <1>4, <1>5, <1>6 DEF Next, ReadStep

-----------------------------------------------------------------------------

LEMMA InitInv == Init => IInv
<1> SUFFICES ASSUME Init PROVE IInv
  OBVIOUS
<1>1. Shape
  BY Kinds DEF Init, Shape, Unread
<1>2. ValidatorRead /\ TablesAreSound /\ TaskRead /\ Founded
  BY DEF Init, ValidatorRead, TablesAreSound, TaskRead, Launched, Founded
<1>3. QED
  BY <1>1, <1>2, InitType DEF IInv

\* The inductive invariant of the configuration, the verdict and the task.
THEOREM Invariance == Spec => []IInv
<1>1. IInv /\ [Next]_vars => IInv'
  BY StepType, StepShape, ValidatorStep, TablesStep, TaskStep, FoundedStep DEF IInv
<1>2. QED
  BY InitInv, <1>1, PTL DEF Spec

\* The tables, the sessions and the history keep their types.
THEOREM TypeCorrect == Spec => []TypeOK
<1>1. IInv => TypeOK
  BY DEF IInv
<1>2. QED
  BY <1>1, Invariance, PTL

\* Whatever a run finds wrong with its workflow was written after
\* validate_workflow had read that place, for any configuration and any changes.
THEOREM DefectsAreLater == Spec => []RunDefectsAreLater
<1>1. IInv => RunDefectsAreLater
  <2> SUFFICES ASSUME IInv, Launched, Complete, ~moved
               PROVE  /\ tree.root # None
                      /\ tree.root \in tree.off => tree.root \in switched
                      /\ TeamOf(tree) = {} => \E a \in Agents : <<tree.root, a>> \in rebound
                      /\ \A a \in TeamOf(tree) : <<tree.root, a>> \notin rebound =>
                           /\ a \in tree.off => a \in switched
                           /\ \A x \in Tools : <<a, x>> \in tree.edges \ rebound =>
                                (x \in tree.off => x \in switched)
    BY DEF RunDefectsAreLater, Launched
  <2>1. TaskRoot /\ TaskOrchestrator /\ TaskTeam /\ TaskTools
    BY DEF IInv, TaskRead
  <2>2. tree.root # None
    <3>1. PICK w \in workflow : TRUE
      BY DEF IInv, Shape, Launched
    <3>2. w.orchestrator_id = tree.root
      BY <2>1 DEF TaskRoot, Names, Complete
    <3>3. QED
      BY <3>2 DEF IInv, TablesAreSound, Sound
  <2>3. read = 4
    BY <2>2 DEF Complete
  <2>4. QED
    BY <2>1, <2>2, <2>3 DEF TaskOrchestrator, TaskTeam, TaskTools
<1>2. QED
  BY <1>1, Invariance, PTL

\* A refusal of validate_workflow that no torn read explains is founded, for any
\* configuration and any changes.
THEOREM RefusedForADefect == Spec => []RefusalsAreFounded
<1>1. IInv => RefusalsAreFounded
  <2> SUFFICES ASSUME IInv, pc = "validating", Complete, ~wrong, ~moved, ~Rebound
               PROVE  IsValid(tree)
    BY DEF RefusalsAreFounded, Rebound
  <2>1. tree.root # None
    BY NoDefect DEF IInv
  <2>2. read = 4
    BY <2>1 DEF Complete
  <2>3. QED
    BY <2>1, <2>2 DEF IInv, Founded, IsValid
<1>2. QED
  BY <1>1, Invariance, PTL
=============================================================================
