------------------------------ MODULE GanttStore ------------------------------
(***************************************************************************)
(* The plan store of sim-lib-gantt (local.rs): save_plan replaces a plan   *)
(* in one transaction of five kinds of statement, load_plan reads it back  *)
(* with three queries in no transaction.  Several processes share the      *)
(* file; the relational layer (external) runs one writing transaction at a *)
(* time, keeps its changes from other sessions until it commits, enforces  *)
(* the keys of gantt_schema statement by statement and rolls back when a   *)
(* statement fails or the process dies.  How the file is created is the    *)
(* protocol of DocStore.                                                   *)
(*                                                                         *)
(* The rows of a plan are kept as the sequences their position column      *)
(* orders them by.                                                         *)
(***************************************************************************)
EXTENDS GanttPlan, FiniteSets, SequencesExt

CONSTANTS Process, PlanId, None,
          SavedPlan    \* the plans callers hand to save_plan

ASSUME NoneAssumption == None \notin Process /\ None \notin Plan
ASSUME SavedPlanAssumption == SavedPlan \subseteq Plan

VARIABLES
    plans,    \* table gantt_plans
    tasks,    \* table gantt_tasks: plan id -> rows by position
    links,    \* table gantt_links: plan id -> rows by position
    tx,       \* the writing transaction: its process, place and own tables
    loading,  \* per process: what load_plan has read so far
    saved,    \* history: plan id -> the plan save_plan last committed
    overtaken,  \* history: processes whose plan was saved while they load it
    reply     \* the answer to the last call

vars == <<plans, tasks, links, tx, loading, saved, overtaken, reply>>

NoTx == [step |-> "none"]
Progress(step, t, l) == [step |-> step, process |-> tx.process, id |-> tx.id,
                         plan |-> tx.plan, tasks |-> t, links |-> l]
NoLoad == [step |-> "none"]
Answer(op, kind, plan) == [op |-> op, kind |-> kind, plan |-> plan]

Init ==
    /\ plans = {}
    /\ tasks = [id \in PlanId |-> <<>>]
    /\ links = [id \in PlanId |-> <<>>]
    /\ tx = NoTx
    /\ loading = [p \in Process |-> NoLoad]
    /\ saved = [id \in PlanId |-> None]
    /\ overtaken = {}
    /\ reply = Answer("none", "none", None)

(***************************************************************************)
(* save_plan                                                               *)
(***************************************************************************)
\* Validation, then the transaction opens with the plan row, inserted unless
\* it is there.
BeginSave(p, id, plan) ==
    /\ loading[p] = NoLoad
    /\ tx = NoTx
    /\ \/ /\ ValidPlan(plan)
          /\ tx' = [step |-> "delete_links", process |-> p, id |-> id, plan |-> plan,
                    tasks |-> tasks, links |-> links]
          /\ UNCHANGED reply
       \/ /\ ~ValidPlan(plan)
          /\ reply' = Answer("save_plan", "err", None)
          /\ UNCHANGED tx
    /\ UNCHANGED <<plans, tasks, links, loading, saved, overtaken>>

\* Mutant of DeleteLinks: the predicate on plan_id is dropped.
DeleteAllLinks ==
    /\ tx.step = "delete_links"
    /\ tx' = Progress("delete_tasks", tx.tasks, [id \in PlanId |-> <<>>])
    /\ UNCHANGED <<plans, tasks, links, loading, saved, overtaken, reply>>

\* Mutant of DeleteLinks: the statement is left out.
SkipDeleteLinks ==
    /\ tx.step = "delete_links"
    /\ tx' = Progress("delete_tasks", tx.tasks, tx.links)
    /\ UNCHANGED <<plans, tasks, links, loading, saved, overtaken, reply>>

DeleteLinks ==
    /\ tx.step = "delete_links"
    /\ tx' = Progress("delete_tasks", tx.tasks, [tx.links EXCEPT ![tx.id] = <<>>])
    /\ UNCHANGED <<plans, tasks, links, loading, saved, overtaken, reply>>

\* gantt_links refer to the tasks of their plan: while one is linked the
\* statement fails, and AbortSave is all that is left.
DeleteTasks ==
    /\ tx.step = "delete_tasks"
    /\ tx.links[tx.id] = <<>>
    /\ tx' = Progress("insert_tasks", [tx.tasks EXCEPT ![tx.id] = <<>>], tx.links)
    /\ UNCHANGED <<plans, tasks, links, loading, saved, overtaken, reply>>

\* One statement per task; the primary key is the plan and the task's id.
InsertTask ==
    LET rows == tx.tasks[tx.id]
        next == tx.plan.tasks[Len(rows) + 1]
    IN /\ tx.step = "insert_tasks"
       /\ \/ /\ Len(rows) < Len(tx.plan.tasks)
             /\ \A i \in DOMAIN rows : rows[i].id # next.id
             /\ tx' = Progress("insert_tasks", [tx.tasks EXCEPT ![tx.id] = Append(rows, next)], tx.links)
          \/ /\ Len(rows) = Len(tx.plan.tasks)
             /\ tx' = Progress("insert_links", tx.tasks, tx.links)
       /\ UNCHANGED <<plans, tasks, links, loading, saved, overtaken, reply>>

\* One statement per link; both its ends must be tasks of the plan.
InsertLink ==
    LET rows == tx.links[tx.id]
        next == tx.plan.links[Len(rows) + 1]
        ids == {tx.tasks[tx.id][i].id : i \in DOMAIN tx.tasks[tx.id]}
    IN /\ tx.step = "insert_links"
       /\ \/ /\ Len(rows) < Len(tx.plan.links)
             /\ {next.predecessor, next.successor} \subseteq ids
             /\ tx' = Progress("insert_links", tx.tasks, [tx.links EXCEPT ![tx.id] = Append(rows, next)])
          \/ /\ Len(rows) = Len(tx.plan.links)
             /\ tx' = Progress("commit", tx.tasks, tx.links)
       /\ UNCHANGED <<plans, tasks, links, loading, saved, overtaken, reply>>

Overtaking == {p \in Process : loading[p] # NoLoad /\ loading[p].id = tx.id}

Commit ==
    /\ tx.step = "commit"
    /\ plans' = plans \cup {tx.id}
    /\ tasks' = tx.tasks
    /\ links' = tx.links
    /\ saved' = [saved EXCEPT ![tx.id] = tx.plan]
    /\ tx' = NoTx
    /\ overtaken' = overtaken \cup Overtaking
    /\ reply' = Answer("save_plan", "ok", None)
    /\ UNCHANGED loading

\* A statement fails (a key, the provider, inject_failure), or the process that
\* saves dies: the driver rolls back.
AbortSave ==
    /\ tx # NoTx
    /\ tx' = NoTx
    /\ reply' = Answer("save_plan", "err", None)
    /\ UNCHANGED <<plans, tasks, links, loading, saved, overtaken>>

(***************************************************************************)
(* load_plan                                                               *)
(***************************************************************************)
Idle(p) == tx # NoTx => tx.process # p

LoadPlanRow(p, id) ==
    /\ Idle(p)
    /\ loading[p] = NoLoad
    /\ \/ /\ id \in plans
          /\ loading' = [loading EXCEPT ![p] = [step |-> "tasks", id |-> id]]
          /\ UNCHANGED reply
       \/ /\ id \notin plans
          /\ reply' = Answer("load_plan", "none", None)
          /\ UNCHANGED loading
    /\ UNCHANGED <<plans, tasks, links, tx, saved, overtaken>>

LoadTasks(p) ==
    /\ loading[p].step = "tasks"
    /\ loading' = [loading EXCEPT ![p] = [step |-> "links", id |-> loading[p].id,
                                          tasks |-> tasks[loading[p].id]]]
    /\ UNCHANGED <<plans, tasks, links, tx, saved, overtaken, reply>>

\* Mutant of LoadLinks: the rows come back in reverse.
LoadLinksReversed(p) ==
    /\ loading[p].step = "links"
    /\ loading' = [loading EXCEPT ![p] = NoLoad]
    /\ reply' = Answer("load_plan", "ok", [tasks |-> loading[p].tasks,
                                           links |-> Reverse(links[loading[p].id])])
    /\ overtaken' = overtaken \ {p}
    /\ UNCHANGED <<plans, tasks, links, tx, saved>>

\* The plan is returned as read: load_plan does not validate it.
LoadLinks(p) ==
    /\ loading[p].step = "links"
    /\ loading' = [loading EXCEPT ![p] = NoLoad]
    /\ reply' = Answer("load_plan", "ok", [tasks |-> loading[p].tasks,
                                           links |-> links[loading[p].id]])
    /\ overtaken' = overtaken \ {p}
    /\ UNCHANGED <<plans, tasks, links, tx, saved>>

AbortLoad(p) ==
    /\ loading[p] # NoLoad
    /\ loading' = [loading EXCEPT ![p] = NoLoad]
    /\ overtaken' = overtaken \ {p}
    /\ UNCHANGED <<plans, tasks, links, tx, saved, reply>>

Next ==
    \/ \E p \in Process, id \in PlanId, plan \in SavedPlan : BeginSave(p, id, plan)
    \/ DeleteLinks \/ DeleteTasks \/ InsertTask \/ InsertLink \/ Commit \/ AbortSave
    \/ \E p \in Process, id \in PlanId : LoadPlanRow(p, id)
    \/ \E p \in Process : LoadTasks(p) \/ LoadLinks(p) \/ AbortLoad(p)

Spec == Init /\ [][Next]_vars

(***************************************************************************)
(* Properties                                                              *)
(***************************************************************************)
\* "Atomically replaces the complete snapshot for a plan id": between
\* transactions the tables hold, for every plan, exactly the plan saved last,
\* in its own order, and saving one plan leaves the others as they were.
SnapshotsComplete ==
    \A id \in PlanId :
        IF saved[id] = None THEN id \notin plans /\ tasks[id] = <<>> /\ links[id] = <<>>
        ELSE id \in plans /\ tasks[id] = saved[id].tasks /\ links[id] = saved[id].links

\* A save that passed validation is never stopped by a key of the schema: the
\* order of its statements respects every foreign key, over whatever was saved
\* before.  (Only AbortSave ends a transaction early.)
ReplacementAdmitted ==
    /\ tx.step = "delete_tasks" => tx.links[tx.id] = <<>>
    /\ tx.step = "insert_tasks" =>
          LET rows == tx.tasks[tx.id]
          IN /\ Len(rows) <= Len(tx.plan.tasks)
             /\ \A i \in 1..Len(rows), k \in Len(rows) + 1..Len(tx.plan.tasks) :
                    rows[i].id # tx.plan.tasks[k].id
    /\ tx.step = "insert_links" =>
          /\ Len(tx.links[tx.id]) <= Len(tx.plan.links)
          /\ \A k \in DOMAIN tx.plan.links :
                {tx.plan.links[k].predecessor, tx.plan.links[k].successor}
                    \subseteq {tx.tasks[tx.id][i].id : i \in DOMAIN tx.tasks[tx.id]}

\* A load during which nobody saves its plan returns exactly the plan saved
\* last, its tasks and links in the saved order, whatever saves of it abort and
\* whatever saves of other plans commit meanwhile.
LoadReturnsSaved ==
    [][\A p \in Process :
          LoadLinks(p) /\ p \notin overtaken => reply'.plan = saved[loading[p].id]]_vars

\* "Loads a checked snapshot" (local.rs:159): what load_plan returns passes the
\* check its store was saved under.
LoadedPlansChecked ==
    reply.op = "load_plan" /\ reply.kind = "ok" => ValidPlan(reply.plan)
==============================================================================
