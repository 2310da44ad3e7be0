------------------------------ MODULE DispatchPlan ------------------------------
(***************************************************************************)
(* Dispatch plans: what compileDispatchPlan, validateDispatchPlan and      *)
(* collectDependencyClosure of src/src/server/dispatch-plan.ts do with the *)
(* tasks a model hands to plan_tasks.  A plan is a sequence of tasks:      *)
(*   id    agent   the task and who is to do it                            *)
(*   deps  twice   dependsOn as a set, and whether it repeats a task       *)
(*   needs         its inputs, each an output of another task              *)
(*   outs          its expectedOutputs; output n stands for 'project_n',   *)
(*                 output 1 for 'project'                                  *)
(*   kind          taskKind: "code", "other" or "unset"                    *)
(*   says          what the patterns of the compiler find in its text      *)
(***************************************************************************)
EXTENDS Integers, Sequences, FiniteSets

CONSTANT Agents        \* the agents of the conversation but the orchestrator

(* A text that no pattern matches; the fields are the tasks it refers to,  *)
(* the topics (PRD, UI design, frontend) it reads and makes, whether it    *)
(* asks for an artifact, for a review, and for code.                       *)
PlainText == [names |-> {}, reads |-> {}, makes |-> {}, asks |-> FALSE,
              review |-> FALSE, code |-> FALSE]

Topic == {"prd", "ui_design", "frontend"}
Text == [names : SUBSET STRING, reads : SUBSET Topic, makes : SUBSET Topic,
         asks : BOOLEAN, review : BOOLEAN, code : BOOLEAN]
Output == [id : Nat, project : BOOLEAN, required : BOOLEAN]
PlanTask == [id : STRING, agent : STRING, deps : SUBSET STRING, twice : BOOLEAN,
             needs : SUBSET [from : STRING, out : Nat], outs : SUBSET Output,
             kind : {"code", "other", "unset"}, says : Text]

TasksIn(plan) == {plan[i] : i \in 1..Len(plan)}
IdsOf(tasks) == {t.id : t \in tasks}
-------------------------------------------------------------------------------
(* compileDispatchPlan.  A task's missing dependencies are inferred from   *)
(* the tasks listed before it, as the model wrote them.                    *)
Delivers(t) == (\E o \in t.outs : o.required) \/ t.says.makes # {} \/ t.says.asks

Inferred(plan, i) ==
  {plan[j].id : j \in {k \in 1..i-1 :
     \/ plan[k].id \in plan[i].says.names
     \/ plan[i].says.reads \cap plan[k].says.makes # {}
     \/ plan[i].says.review /\ Delivers(plan[k])}}

(* normalizeTaskContract: a code task has a required project output.       *)
IsCode(t) == \/ t.kind = "code"
             \/ t.kind = "unset" /\ (t.says.code \/ \E o \in t.outs : o.project)

NextOutput(used) ==
  CHOOSE n \in 1..(Cardinality(used) + 1) : n \notin used /\ \A m \in 1..(n-1) : m \in used

Normalized(t) ==
  IF ~IsCode(t) THEN t
  ELSE IF \E o \in t.outs : o.project
  THEN [t EXCEPT !.outs = {[o EXCEPT !.required = @ \/ o.project] : o \in t.outs}]
  ELSE [t EXCEPT !.outs = @ \cup {[id |-> NextOutput(IdsOf(t.outs)),
                                   project |-> TRUE, required |-> TRUE]}]

Compile(plan) ==
  [i \in 1..Len(plan) |->
     Normalized([plan[i] EXCEPT !.deps = @ \cup Inferred(plan, i)
                                           \cup {n.from : n \in plan[i].needs}])]
-------------------------------------------------------------------------------
(* The tasks that can be reached from task id over dependsOn, within the   *)
(* given tasks.                                                            *)
DepsOf(tasks, id) == UNION {t.deps : t \in {u \in tasks : u.id = id}}

Upstream(tasks, id) ==
  LET Within[n \in 0..Cardinality(tasks)] ==
        IF n = 0 THEN DepsOf(tasks, id)
        ELSE Within[n-1] \cup UNION {DepsOf(tasks, d) : d \in Within[n-1]}
  IN Within[Cardinality(tasks)] \cap IdsOf(tasks)

(* assertAcyclicDispatchPlan: the depth-first search meets no task on its  *)
(* own path.                                                               *)
OnCycle(tasks, id) == id \in Upstream(tasks, id)
Acyclic(tasks) == \A t \in tasks : ~OnCycle(tasks, t.id)

(* collectDependencyClosure marks a task as seen when it comes back from   *)
(* its dependencies, so on a cycle it does not come back.                  *)
ClosureEnds(tasks, id) == \A d \in Upstream(tasks, id) : ~OnCycle(tasks, d)

(* validateDispatchPlan; known are the tasks of earlier rounds.            *)
Source(plan, known, id) ==
  {t \in TasksIn(plan) : t.id = id} \cup {t \in known : t.id = id /\ id \notin IdsOf(TasksIn(plan))}

Sound(t, plan, known) ==
  /\ t.agent \in Agents
  /\ ~t.twice /\ t.id \notin t.deps
  /\ t.deps \subseteq IdsOf(TasksIn(plan)) \cup IdsOf(known)
  /\ \A o, q \in t.outs : o.id = q.id => o = q
  /\ \A n \in t.needs : /\ n.from # t.id
                        /\ \E u \in Source(plan, known, n.from) : n.out \in IdsOf(u.outs)

Valid(plan, known) ==
  /\ plan # <<>>
  /\ \A i, j \in 1..Len(plan) : plan[i].id = plan[j].id => i = j
  /\ \A t \in TasksIn(plan) : Sound(t, plan, known)
  /\ Acyclic(TasksIn(plan))

(* planItemsById and mergeExternalPlanItems: the later task of an id wins. *)
Merged(known, plan) == {t \in known : t.id \notin IdsOf(TasksIn(plan))} \cup TasksIn(plan)
===============================================================================
