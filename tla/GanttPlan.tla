------------------------------ MODULE GanttPlan ------------------------------
(***************************************************************************)
(* The schedule plans of sim-lib-gantt (model.rs) and the boundary check   *)
(* every entry point applies to them (critical.rs, validate_plan).  A task *)
(* keeps its id and its duration in days, finish minus start; names,       *)
(* percentages and absolute dates matter only to field checks of the same  *)
(* shape as the duration's and are left out.                               *)
(***************************************************************************)
EXTENDS Integers, Sequences

CONSTANT TaskId

LinkKind == {"finish-start", "start-start", "finish-finish", "start-finish"}
Task == [id: TaskId, duration: Int]
TaskLink == [predecessor: TaskId, successor: TaskId, kind: LinkKind, lag_days: Int]
Plan == [tasks: Seq(Task), links: Seq(TaskLink)]

TaskIds(plan) == {plan.tasks[i].id : i \in DOMAIN plan.tasks}

ValidPlan(plan) ==
    /\ \A i \in DOMAIN plan.tasks : plan.tasks[i].duration >= 0
    /\ \A i, j \in DOMAIN plan.tasks : plan.tasks[i].id = plan.tasks[j].id => i = j
    /\ \A k \in DOMAIN plan.links :
          {plan.links[k].predecessor, plan.links[k].successor} \subseteq TaskIds(plan)
==============================================================================
