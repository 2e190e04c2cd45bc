----------------------------- MODULE GanttProofs ------------------------------
(***************************************************************************)
(* The plan store and the critical path analysis, for plans with any       *)
(* number of tasks and links.                                              *)
(*                                                                         *)
(* What save_plan keeps, for any number of processes and plan ids: between *)
(* transactions the tables hold complete plans, and no key of the schema   *)
(* stops a plan that passed validation.  Neither is inductive: both rest   *)
(* on what the open transaction has done so far, a prefix of its plan in   *)
(* its own rows and nothing elsewhere.                                     *)
(*                                                                         *)
(* What critical_tasks returns: exactly the entangled plans are refused,   *)
(* the order is topological, the earliest starts are the least schedule    *)
(* that meets every link, and in a plan of sequences the tasks returned    *)
(* are those without slack.  Four invariants, one per phase, each resting  *)
(* on those before it: ControlOK (what validation established), SortOK     *)
(* (the order so far is closed under predecessors and the in-degrees count *)
(* the links that still hold a task back), ForwardOK (the links out of the *)
(* tasks passed are met, and no schedule starts earlier) and BackwardOK    *)
(* (the tasks passed have their latest start, which bounds every schedule  *)
(* that ends with the project).  What needs an induction over the tasks is *)
(* proved from a least counterexample.                                     *)
(***************************************************************************)
EXTENDS GanttStore, GanttCritical, SequenceTheorems, FiniteSetTheorems, FunctionTheorems,
        WellFoundedInduction, TLAPS

(***************************************************************************)
(* The plan store                                                          *)
(***************************************************************************)
TaskTables == [PlanId -> Seq(Task)]
LinkTables == [PlanId -> Seq(TaskLink)]

\* s is what has been copied of t.
Copied(s, t) == Len(s) <= Len(t) /\ \A i \in 1..Len(s) : s[i] = t[i]

TablesTyped ==
    /\ plans \subseteq PlanId
    /\ tasks \in TaskTables
    /\ links \in LinkTables
    /\ saved \in [PlanId -> SavedPlan \cup {None}]

OpenTx ==
    [step: {"delete_links", "delete_tasks", "insert_tasks", "insert_links", "commit"},
     process: Process, id: PlanId, plan: SavedPlan, tasks: TaskTables, links: LinkTables]

\* The rows of other plans are those of the tables.
OthersKept ==
    \A id \in PlanId : id # tx.id => tx.tasks[id] = tasks[id] /\ tx.links[id] = links[id]

\* What the statements executed so far have left of the saved plan.
PlanCopied ==
    /\ tx.step \in {"delete_tasks", "insert_tasks"} => tx.links[tx.id] = <<>>
    /\ tx.step = "insert_tasks" => Copied(tx.tasks[tx.id], tx.plan.tasks)
    /\ tx.step \in {"insert_links", "commit"} => tx.tasks[tx.id] = tx.plan.tasks
    /\ tx.step = "insert_links" => Copied(tx.links[tx.id], tx.plan.links)
    /\ tx.step = "commit" => tx.links[tx.id] = tx.plan.links

IInv ==
    /\ TablesTyped
    /\ SnapshotsComplete
    /\ tx # NoTx => tx \in OpenTx /\ ValidPlan(tx.plan) /\ OthersKept /\ PlanCopied

\* What a load in progress has read, unless a save of its plan overtook it.
Loading ==
    {NoLoad} \cup [step: {"tasks"}, id: PlanId]
             \cup [step: {"links"}, id: PlanId, tasks: Seq(Task)]

LoadsConsistent ==
    /\ loading \in [Process -> Loading]
    /\ \A p \in Process : loading[p] # NoLoad =>
          /\ loading[p].id \in plans
          /\ loading[p].step = "links" /\ p \notin overtaken =>
                loading[p].tasks = tasks[loading[p].id]

USE DEF Answer

\* A supplied plan is a record of two sequences, and not None.
LEMMA SuppliedTyped ==
    ASSUME NEW supplied \in SavedPlan
    PROVE  supplied.tasks \in Seq(Task) /\ supplied.links \in Seq(TaskLink) /\ supplied # None
BY SavedPlanAssumption, NoneAssumption DEF Plan

\* Copying one more element, and having copied them all.
LEMMA CopyOne ==
    ASSUME NEW S, NEW s \in Seq(S), NEW t \in Seq(S), Copied(s, t), Len(s) < Len(t)
    PROVE  Append(s, t[Len(s) + 1]) \in Seq(S) /\ Copied(Append(s, t[Len(s) + 1]), t)
<1> DEFINE e == t[Len(s) + 1]
<1>1. e \in S
  BY ElementOfSeq, LenProperties
<1>2. /\ Append(s, e) \in Seq(S)
      /\ Len(Append(s, e)) = Len(s) + 1
      /\ \A i \in 1..Len(s) : Append(s, e)[i] = s[i]
      /\ Append(s, e)[Len(s) + 1] = e
  BY <1>1, AppendProperties
<1>3. Len(s) \in Nat /\ Len(t) \in Nat
  BY LenProperties
<1> QED BY <1>2, <1>3 DEF Copied

LEMMA CopyAll ==
    ASSUME NEW S, NEW s \in Seq(S), NEW t \in Seq(S), Copied(s, t), Len(s) = Len(t)
    PROVE  s = t
BY SeqEqual DEF Copied

LEMMA CopyNone ==
    ASSUME NEW S, NEW t \in Seq(S)
    PROVE  <<>> \in Seq(S) /\ Copied(<<>>, t)
<1>1. <<>> \in Seq(S) /\ Len(<<>>) = 0 /\ Len(t) \in Nat
  BY EmptySeq, LenProperties
<1> QED BY <1>1 DEF Copied

LEMMA InitIInv == Init => IInv
<1> SUFFICES ASSUME Init PROVE IInv
  OBVIOUS
<1>1. <<>> \in Seq(Task) /\ <<>> \in Seq(TaskLink)
  BY EmptySeq
<1> QED BY <1>1 DEF Init, IInv, TablesTyped, SnapshotsComplete, TaskTables, LinkTables

\* One statement of the open transaction: it works on the transaction's own
\* copy of the tables, on the rows of its own plan.
LEMMA Statement ==
    ASSUME IInv, tx # NoTx,
           NEW step \in {"delete_tasks", "insert_tasks", "insert_links", "commit"},
           NEW t \in Seq(Task), NEW l \in Seq(TaskLink),
           tx' = Progress(step, [tx.tasks EXCEPT ![tx.id] = t], [tx.links EXCEPT ![tx.id] = l]),
           UNCHANGED <<plans, tasks, links, saved>>,
           step \in {"delete_tasks", "insert_tasks"} => l = <<>>,
           step = "insert_tasks" => Copied(t, tx.plan.tasks),
           step \in {"insert_links", "commit"} => t = tx.plan.tasks,
           step = "insert_links" => Copied(l, tx.plan.links),
           step = "commit" => l = tx.plan.links
    PROVE  IInv'
<1> DEFINE T == [tx.tasks EXCEPT ![tx.id] = t]
           L == [tx.links EXCEPT ![tx.id] = l]
<1>1. tx \in OpenTx /\ ValidPlan(tx.plan) /\ OthersKept
  BY DEF IInv
<1>2. tx.tasks \in TaskTables /\ tx.links \in LinkTables /\ tx.id \in PlanId
  BY <1>1 DEF OpenTx
<1>3. /\ T \in TaskTables /\ L \in LinkTables
      /\ T[tx.id] = t /\ L[tx.id] = l
      /\ \A id \in PlanId : id # tx.id => T[id] = tx.tasks[id] /\ L[id] = tx.links[id]
  BY <1>2 DEF TaskTables, LinkTables
<1>4. /\ tx'.step = step /\ tx'.process = tx.process /\ tx'.id = tx.id
      /\ tx'.plan = tx.plan /\ tx'.tasks = T /\ tx'.links = L
      /\ tx' = [step |-> step, process |-> tx.process, id |-> tx.id,
                plan |-> tx.plan, tasks |-> T, links |-> L]
  BY DEF Progress
<1> HIDE DEF T, L
<1>5. tx' \in OpenTx
  BY <1>1, <1>3, <1>4 DEF OpenTx
<1>6. TablesTyped' /\ SnapshotsComplete'
  BY DEF IInv, TablesTyped, SnapshotsComplete
<1>7. ValidPlan(tx'.plan)
  BY <1>1, <1>4
<1>8. OthersKept'
  BY <1>1, <1>3, <1>4 DEF OthersKept
<1>9. PlanCopied'
  BY <1>3, <1>4 DEF PlanCopied
<1> QED BY <1>5, <1>6, <1>7, <1>8, <1>9 DEF IInv

LEMMA Steps == IInv /\ [Next]_vars => IInv'
<1> SUFFICES ASSUME IInv, [Next]_vars PROVE IInv'
  OBVIOUS
<1>0. ASSUME tx # NoTx
      PROVE  /\ tx \in OpenTx /\ ValidPlan(tx.plan) /\ OthersKept /\ PlanCopied
             /\ tx.id \in PlanId /\ tx.tasks \in TaskTables /\ tx.links \in LinkTables
             /\ tx.tasks[tx.id] \in Seq(Task) /\ tx.links[tx.id] \in Seq(TaskLink)
             /\ tx.plan.tasks \in Seq(Task) /\ tx.plan.links \in Seq(TaskLink)
             /\ [tx.tasks EXCEPT ![tx.id] = tx.tasks[tx.id]] = tx.tasks
             /\ [tx.links EXCEPT ![tx.id] = tx.links[tx.id]] = tx.links
  <2>1. tx \in OpenTx /\ ValidPlan(tx.plan) /\ OthersKept /\ PlanCopied
    BY <1>0 DEF IInv
  <2>2. /\ tx.id \in PlanId /\ tx.tasks \in TaskTables /\ tx.links \in LinkTables
        /\ tx.plan \in SavedPlan
    BY <2>1 DEF OpenTx
  <2>3. tx.plan.tasks \in Seq(Task) /\ tx.plan.links \in Seq(TaskLink)
    BY <2>2, SuppliedTyped
  <2> QED BY <2>1, <2>2, <2>3 DEF TaskTables, LinkTables
<1>1. ASSUME NEW p \in Process, NEW id \in PlanId, NEW supplied \in SavedPlan,
             BeginSave(p, id, supplied)
      PROVE  IInv'
  <2>1. TablesTyped' /\ SnapshotsComplete'
    BY <1>1 DEF BeginSave, IInv, TablesTyped, SnapshotsComplete
  <2>2. CASE ~ValidPlan(supplied)
    BY <1>1, <2>1, <2>2 DEF BeginSave, IInv
  <2>3. CASE ValidPlan(supplied)
    <3>1. /\ tx' = [step |-> "delete_links", process |-> p, id |-> id, plan |-> supplied,
                    tasks |-> tasks, links |-> links]
          /\ tasks' = tasks /\ links' = links
      BY <1>1, <2>3 DEF BeginSave
    <3>2. tx' \in OpenTx
      BY <3>1 DEF OpenTx, IInv, TablesTyped
    <3>3. OthersKept' /\ PlanCopied'
      BY <3>1 DEF OthersKept, PlanCopied
    <3> QED BY <2>1, <2>3, <3>1, <3>2, <3>3 DEF IInv
  <2> QED BY <2>2, <2>3
<1>2. CASE DeleteLinks
  <2>1. tx.step = "delete_links" /\ tx # NoTx /\ <<>> \in Seq(TaskLink)
    BY <1>2, EmptySeq DEF DeleteLinks, NoTx
  <2>2. tx' = Progress("delete_tasks", [tx.tasks EXCEPT ![tx.id] = tx.tasks[tx.id]],
                       [tx.links EXCEPT ![tx.id] = <<>>])
    BY <1>0, <1>2, <2>1 DEF DeleteLinks
  <2> QED BY <1>0, <1>2, <2>1, <2>2, Statement DEF DeleteLinks
<1>3. CASE DeleteTasks
  <2>1. tx.step = "delete_tasks" /\ tx # NoTx
    BY <1>3 DEF DeleteTasks, NoTx
  <2>2. <<>> \in Seq(Task) /\ Copied(<<>>, tx.plan.tasks)
    BY <1>0, <2>1, CopyNone
  <2>3. tx' = Progress("insert_tasks", [tx.tasks EXCEPT ![tx.id] = <<>>],
                       [tx.links EXCEPT ![tx.id] = tx.links[tx.id]])
    BY <1>0, <1>3, <2>1 DEF DeleteTasks
  <2> QED BY <1>0, <1>3, <2>1, <2>2, <2>3, Statement DEF DeleteTasks
<1>4. CASE InsertTask
  <2> DEFINE rows == tx.tasks[tx.id]
             next == tx.plan.tasks[Len(rows) + 1]
  <2>1. tx.step = "insert_tasks" /\ tx # NoTx /\ UNCHANGED <<plans, tasks, links, saved>>
    <3>1. tx.step = "insert_tasks" /\ UNCHANGED <<plans, tasks, links, saved>>
      BY <1>4 DEF InsertTask
    <3>2. tx # NoTx
      BY <3>1 DEF NoTx
    <3> QED
      BY <3>1, <3>2
  <2>2. /\ tx.links[tx.id] = <<>> /\ Copied(rows, tx.plan.tasks)
        /\ tx.links = [tx.links EXCEPT ![tx.id] = <<>>]
    <3>1. tx.links[tx.id] = <<>> /\ Copied(rows, tx.plan.tasks)
      BY <1>0, <2>1 DEF PlanCopied
    <3>2. tx.links = [tx.links EXCEPT ![tx.id] = tx.links[tx.id]]
      BY <1>0, <2>1
    <3> QED
      BY <3>1, <3>2
  <2>3. CASE Len(rows) < Len(tx.plan.tasks)
    <3>1. tx' = Progress("insert_tasks", [tx.tasks EXCEPT ![tx.id] = Append(rows, next)],
                         [tx.links EXCEPT ![tx.id] = <<>>])
      <4>1. Len(rows) # Len(tx.plan.tasks)
        BY <1>0, <2>1, <2>3, LenProperties
      <4> QED BY <1>4, <2>2, <2>3, <4>1 DEF InsertTask
    <3>2. Append(rows, next) \in Seq(Task) /\ Copied(Append(rows, next), tx.plan.tasks)
      BY <1>0, <2>1, <2>2, <2>3, CopyOne
    <3> HIDE DEF next, rows
    <3> QED BY <1>0, <2>1, <2>2, <3>1, <3>2, Statement
  <2>4. CASE Len(rows) = Len(tx.plan.tasks)
    <3>1. rows = tx.plan.tasks
      BY <1>0, <2>1, <2>2, <2>4, CopyAll
    <3>2. tx' = Progress("insert_links", tx.tasks, tx.links)
      <4>1. ~(Len(rows) < Len(tx.plan.tasks))
        BY <1>0, <2>1, <2>4, LenProperties
      <4> QED BY <1>4, <2>4, <4>1 DEF InsertTask
    <3>3. tx' = Progress("insert_links", [tx.tasks EXCEPT ![tx.id] = rows],
                         [tx.links EXCEPT ![tx.id] = <<>>])
      BY <1>0, <2>1, <2>2, <3>2
    <3>4. <<>> \in Seq(TaskLink) /\ Copied(<<>>, tx.plan.links)
      BY <1>0, <2>1, CopyNone
    <3> QED BY <1>0, <2>1, <3>1, <3>3, <3>4, Statement
  <2> QED BY <1>4, <2>3, <2>4 DEF InsertTask
<1>5. CASE InsertLink
  <2> DEFINE rows == tx.links[tx.id]
             next == tx.plan.links[Len(rows) + 1]
  <2>1. tx.step = "insert_links" /\ tx # NoTx /\ UNCHANGED <<plans, tasks, links, saved>>
    <3>1. tx.step = "insert_links" /\ UNCHANGED <<plans, tasks, links, saved>>
      BY <1>5, Zenon DEF InsertLink
    <3> QED BY <3>1 DEF NoTx
  <2>2. /\ tx.tasks[tx.id] = tx.plan.tasks /\ Copied(rows, tx.plan.links)
        /\ tx.tasks = [tx.tasks EXCEPT ![tx.id] = tx.tasks[tx.id]]
    BY <1>0, <2>1 DEF PlanCopied
  <2>3. CASE Len(rows) < Len(tx.plan.links)
    <3>1. tx' = Progress("insert_links", [tx.tasks EXCEPT ![tx.id] = tx.tasks[tx.id]],
                         [tx.links EXCEPT ![tx.id] = Append(rows, next)])
      <4>1. Len(rows) # Len(tx.plan.links)
        BY <1>0, <2>1, <2>3, LenProperties
      <4> QED BY <1>5, <2>2, <2>3, <4>1 DEF InsertLink
    <3>2. Append(rows, next) \in Seq(TaskLink) /\ Copied(Append(rows, next), tx.plan.links)
      BY <1>0, <2>1, <2>2, <2>3, CopyOne
    <3> HIDE DEF next, rows
    <3> QED BY <1>0, <2>1, <2>2, <3>1, <3>2, Statement
  <2>4. CASE Len(rows) = Len(tx.plan.links)
    <3>1. rows = tx.plan.links
      BY <1>0, <2>1, <2>2, <2>4, CopyAll
    <3>2. tx' = Progress("commit", tx.tasks, tx.links)
      <4>1. ~(Len(rows) < Len(tx.plan.links))
        BY <1>0, <2>1, <2>4, LenProperties
      <4> QED BY <1>5, <2>4, <4>1 DEF InsertLink
    <3>3. tx' = Progress("commit", [tx.tasks EXCEPT ![tx.id] = tx.tasks[tx.id]],
                         [tx.links EXCEPT ![tx.id] = rows])
      BY <1>0, <2>1, <3>2
    <3> QED BY <1>0, <2>1, <2>2, <3>1, <3>3, Statement
  <2> QED BY <1>5, <2>3, <2>4 DEF InsertLink
<1>6. CASE Commit
  <2>1. tx.step = "commit" /\ tx # NoTx
    BY <1>6 DEF Commit, NoTx
  <2>2. /\ tx.plan \in SavedPlan /\ tx.plan # None
        /\ tx.tasks[tx.id] = tx.plan.tasks /\ tx.links[tx.id] = tx.plan.links
    BY <1>0, <2>1, SuppliedTyped DEF PlanCopied, OpenTx
  <2>3. /\ plans' = plans \cup {tx.id} /\ tasks' = tx.tasks /\ links' = tx.links
        /\ saved' = [saved EXCEPT ![tx.id] = tx.plan] /\ tx' = NoTx
    BY <1>6 DEF Commit
  <2>4. TablesTyped'
    BY <1>0, <2>1, <2>2, <2>3 DEF IInv, TablesTyped
  <2>5. SnapshotsComplete'
    BY <1>0, <2>1, <2>2, <2>3 DEF IInv, TablesTyped, SnapshotsComplete, OthersKept
  <2> QED BY <2>3, <2>4, <2>5 DEF IInv
<1>7. CASE AbortSave
  BY <1>7 DEF AbortSave, IInv, TablesTyped, SnapshotsComplete
<1>8. CASE UNCHANGED <<plans, tasks, links, tx, saved>>
  BY <1>8 DEF IInv, TablesTyped, SnapshotsComplete, OthersKept, PlanCopied
<1>9. ASSUME NEW p \in Process, NEW id \in PlanId, LoadPlanRow(p, id)
      PROVE  UNCHANGED <<plans, tasks, links, tx, saved>>
  BY <1>9 DEF LoadPlanRow
<1>10. ASSUME NEW p \in Process, LoadTasks(p) \/ LoadLinks(p) \/ AbortLoad(p)
       PROVE  UNCHANGED <<plans, tasks, links, tx, saved>>
  BY <1>10 DEF LoadTasks, LoadLinks, AbortLoad
<1>11. CASE UNCHANGED vars
  BY <1>8, <1>11 DEF vars
<1> QED BY <1>1, <1>2, <1>3, <1>4, <1>5, <1>6, <1>7, <1>8, <1>9, <1>10, <1>11 DEF Next

\* The strengthening holds in every reachable state.
THEOREM PlanStoreInvariant == Spec => []IInv
BY InitIInv, Steps, PTL DEF Spec

\* For any processes, plans and interleaving of their saves and loads, the
\* tables hold, between transactions, exactly the plans saved last (local.rs,
\* save_plan: "Atomically replaces the complete snapshot for a plan id").
THEOREM PlanStoreComplete == Spec => []SnapshotsComplete
<1>1. IInv => SnapshotsComplete
  BY DEF IInv
<1> QED BY <1>1, PlanStoreInvariant, PTL

\* No key of gantt_schema stops a plan that passed validate_plan, whatever the
\* tables held before (local.rs, the order of the statements of save_inner).
THEOREM PlanStoreAdmits == Spec => []ReplacementAdmitted
<1>1. ASSUME IInv PROVE ReplacementAdmitted
  <2>1. ASSUME tx # NoTx
        PROVE  /\ tx.plan.tasks \in Seq(Task) /\ tx.plan.links \in Seq(TaskLink)
               /\ ValidPlan(tx.plan) /\ PlanCopied
               /\ tx.tasks[tx.id] \in Seq(Task) /\ tx.links[tx.id] \in Seq(TaskLink)
    BY <1>1, <2>1, SuppliedTyped DEF IInv, OpenTx, TaskTables, LinkTables
  <2>2. tx.step = "delete_tasks" => tx.links[tx.id] = <<>>
    BY <2>1 DEF PlanCopied, NoTx
  <2>3. ASSUME tx.step = "insert_tasks"
        PROVE  /\ Len(tx.tasks[tx.id]) <= Len(tx.plan.tasks)
               /\ \A i \in 1..Len(tx.tasks[tx.id]),
                     k \in Len(tx.tasks[tx.id]) + 1..Len(tx.plan.tasks) :
                     tx.tasks[tx.id][i].id # tx.plan.tasks[k].id
    <3>1. tx # NoTx /\ Copied(tx.tasks[tx.id], tx.plan.tasks)
      BY <2>1, <2>3 DEF PlanCopied, NoTx
    <3>2. Len(tx.tasks[tx.id]) \in Nat /\ Len(tx.plan.tasks) \in Nat
          /\ DOMAIN tx.plan.tasks = 1..Len(tx.plan.tasks)
      BY <2>1, <3>1, LenProperties
    <3>3. Len(tx.tasks[tx.id]) <= Len(tx.plan.tasks)
      BY <3>1 DEF Copied
    <3>4. ASSUME NEW i \in 1..Len(tx.tasks[tx.id]),
                 NEW k \in Len(tx.tasks[tx.id]) + 1..Len(tx.plan.tasks)
          PROVE  tx.tasks[tx.id][i].id # tx.plan.tasks[k].id
      <4>1. i \in DOMAIN tx.plan.tasks /\ k \in DOMAIN tx.plan.tasks /\ i # k
        BY <3>2, <3>3
      <4>2. tx.plan.tasks[i].id # tx.plan.tasks[k].id
        BY <2>1, <3>1, <4>1 DEF ValidPlan
      <4>3. tx.tasks[tx.id][i] = tx.plan.tasks[i]
        BY <3>1 DEF Copied
      <4> QED BY <4>2, <4>3
    <3> QED BY <3>3, <3>4
  <2>4. ASSUME tx.step = "insert_links"
        PROVE  /\ Len(tx.links[tx.id]) <= Len(tx.plan.links)
               /\ \A k \in DOMAIN tx.plan.links :
                     {tx.plan.links[k].predecessor, tx.plan.links[k].successor}
                         \subseteq {tx.tasks[tx.id][i].id : i \in DOMAIN tx.tasks[tx.id]}
    <3>1. /\ tx # NoTx /\ Copied(tx.links[tx.id], tx.plan.links)
          /\ tx.tasks[tx.id] = tx.plan.tasks
      BY <2>1, <2>4 DEF PlanCopied, NoTx
    <3> QED BY <2>1, <3>1 DEF Copied, ValidPlan, TaskIds
  <2> QED BY <2>2, <2>3, <2>4 DEF ReplacementAdmitted
<1> QED BY <1>1, PlanStoreInvariant, PTL

\* What the loads have read is kept by every step.
LEMMA LoadsKept == IInv /\ LoadsConsistent /\ [Next]_vars => LoadsConsistent'
<1> SUFFICES ASSUME IInv, LoadsConsistent, [Next]_vars PROVE LoadsConsistent'
  OBVIOUS
<1>1. CASE UNCHANGED <<plans, tasks, loading, overtaken>>
  BY <1>1 DEF LoadsConsistent
<1>2. CASE DeleteLinks \/ DeleteTasks \/ AbortSave
  BY <1>1, <1>2 DEF DeleteLinks, DeleteTasks, AbortSave
<1>3. CASE InsertTask \/ InsertLink
  BY <1>1, <1>3, Zenon DEF InsertTask, InsertLink
<1>4. CASE Commit
  <2>1. /\ tx # NoTx /\ loading' = loading
        /\ plans' = plans \cup {tx.id} /\ tasks' = tx.tasks
        /\ overtaken' = overtaken \cup Overtaking
    BY <1>4 DEF Commit, NoTx
  <2>2. OthersKept
    BY <2>1 DEF IInv
  <2>3. ASSUME NEW p \in Process, loading[p] # NoLoad
        PROVE  /\ loading[p].id \in PlanId /\ loading[p].id \in plans'
               /\ loading[p].step = "links" /\ p \notin overtaken' =>
                     loading[p].tasks = tasks'[loading[p].id]
    <3>1. loading[p].id \in PlanId
      BY <2>3 DEF LoadsConsistent, Loading
    <3>2. CASE loading[p].id = tx.id
      BY <2>1, <2>3, <3>1, <3>2 DEF LoadsConsistent, Overtaking
    <3>3. CASE loading[p].id # tx.id
      BY <2>1, <2>2, <2>3, <3>1, <3>3 DEF LoadsConsistent, OthersKept
    <3> QED BY <3>2, <3>3, <3>1
  <2> QED BY <2>1, <2>3 DEF LoadsConsistent
<1>5. ASSUME NEW p \in Process, NEW id \in PlanId, NEW supplied \in SavedPlan,
             BeginSave(p, id, supplied)
      PROVE  LoadsConsistent'
  BY <1>1, <1>5 DEF BeginSave
<1>6. ASSUME NEW p \in Process, NEW id \in PlanId, LoadPlanRow(p, id)
      PROVE  LoadsConsistent'
  <2>1. CASE id \notin plans
    BY <1>1, <1>6, <2>1 DEF LoadPlanRow
  <2>2. CASE id \in plans
    BY <1>6, <2>2 DEF LoadPlanRow, LoadsConsistent, Loading
  <2> QED BY <2>1, <2>2
<1>7. ASSUME NEW p \in Process, LoadTasks(p)
      PROVE  LoadsConsistent'
  <2>1. loading[p].id \in PlanId /\ loading[p].id \in plans /\ loading[p] # NoLoad
    BY <1>7 DEF LoadTasks, LoadsConsistent, Loading, NoLoad
  <2>2. tasks[loading[p].id] \in Seq(Task)
    BY <2>1 DEF IInv, TablesTyped, TaskTables
  <2> QED BY <1>7, <2>1, <2>2 DEF LoadTasks, LoadsConsistent, Loading
<1>8. ASSUME NEW p \in Process, LoadLinks(p) \/ AbortLoad(p)
      PROVE  LoadsConsistent'
  <2>1. /\ loading' = [loading EXCEPT ![p] = NoLoad] /\ overtaken' = overtaken \ {p}
        /\ plans' = plans /\ tasks' = tasks
    BY <1>8 DEF LoadLinks, AbortLoad
  <2> QED BY <2>1 DEF LoadsConsistent, Loading
<1> QED BY <1>1, <1>2, <1>3, <1>4, <1>5, <1>6, <1>7, <1>8 DEF Next, vars

\* A load that no save of its plan overtakes returns the plan saved last, for
\* any processes, plans and interleaving (local.rs, load_plan).
THEOREM PlanStoreLoads == Spec => LoadReturnsSaved
<1>1. Init => LoadsConsistent
  BY DEF Init, LoadsConsistent, Loading
<1>2. ASSUME IInv, LoadsConsistent, NEW p \in Process, LoadLinks(p), p \notin overtaken
      PROVE  reply'.plan = saved[loading[p].id]
  <2>1. /\ loading[p] # NoLoad /\ loading[p].step = "links"
        /\ reply'.plan = [tasks |-> loading[p].tasks, links |-> links[loading[p].id]]
    BY <1>2 DEF LoadLinks, NoLoad
  <2>2. /\ loading[p].id \in PlanId /\ loading[p].id \in plans
        /\ loading[p].tasks = tasks[loading[p].id]
    BY <1>2, <2>1 DEF LoadsConsistent, Loading
  <2>3. /\ saved[loading[p].id] # None
        /\ tasks[loading[p].id] = saved[loading[p].id].tasks
        /\ links[loading[p].id] = saved[loading[p].id].links
    BY <1>2, <2>2 DEF IInv, SnapshotsComplete
  <2>4. saved[loading[p].id] \in Plan
    BY <1>2, <2>2, <2>3, SavedPlanAssumption DEF IInv, TablesTyped
  <2>5. saved[loading[p].id]
           = [tasks |-> saved[loading[p].id].tasks, links |-> saved[loading[p].id].links]
    BY <2>4 DEF Plan
  <2> QED BY <2>1, <2>2, <2>3, <2>5
<1>3. IInv /\ LoadsConsistent =>
         \A p \in Process :
            LoadLinks(p) /\ p \notin overtaken => reply'.plan = saved[loading[p].id]
  BY <1>2
<1> QED BY <1>1, <1>3, LoadsKept, PlanStoreInvariant, PTL DEF Spec, LoadReturnsSaved

(***************************************************************************)
(* Least and greatest members                                              *)
(***************************************************************************)
LEMMA LeastNatural ==
    ASSUME NEW S \in SUBSET Nat, S # {}
    PROVE  \E m \in S : \A y \in S : m <= y
<1>1. PICK m \in S : \A y \in S : ~(<<y, m>> \in OpToRel(<, Nat))
  BY NatLessThanWellFounded, WFMin
<1>2. \A y \in S : ~(y < m)
  BY <1>1 DEF OpToRel
<1> QED
  BY <1>2

\* By least counterexample on the number of members.
LEMMA FiniteHasMax ==
    ASSUME NEW S \in SUBSET Int, IsFiniteSet(S), S # {}
    PROVE  \E m \in S : \A y \in S : m >= y
<1>. DEFINE HasMax(T) == \E m \in T : \A y \in T : m >= y
            Bad(T) == IsFiniteSet(T) /\ T # {} /\ ~HasMax(T)
            bad == {n \in Nat : \E T \in SUBSET Int : Bad(T) /\ Cardinality(T) = n}
<1>1. SUFFICES ASSUME ~HasMax(S) PROVE FALSE
  OBVIOUS
<1>2. Bad(S) /\ Cardinality(S) \in Nat
  BY <1>1, FS_CardinalityType
<1>. HIDE DEF HasMax
<1>3. bad # {}
  BY <1>2
<1>4. PICK n \in bad : \A i \in bad : n <= i
  <2>. HIDE DEF bad
  <2>1. bad \in SUBSET Nat
    BY DEF bad
  <2> QED
    BY <1>3, <2>1, LeastNatural
<1>5. PICK T \in SUBSET Int : Bad(T) /\ Cardinality(T) = n
  OBVIOUS
<1>6. PICK x \in T : TRUE
  BY <1>5
<1>7. IsFiniteSet(T \ {x}) /\ Cardinality(T \ {x}) = n - 1 /\ n - 1 \in Nat
  <2>1. IsFiniteSet(T) /\ T # {} /\ Cardinality(T) = n /\ n \in Nat
    BY <1>5
  <2>2. n # 0
    BY <2>1, FS_EmptySet
  <2>3. IsFiniteSet(T \ {x}) /\ Cardinality(T \ {x}) = n - 1
    BY <1>6, <2>1, FS_RemoveElement
  <2> QED
    BY <2>1, <2>2, <2>3
<1>8. ~Bad(T \ {x})
  BY <1>4, <1>7
<1>9. CASE T \ {x} = {}
  BY <1>5, <1>6, <1>9 DEF HasMax
<1>10. CASE T \ {x} # {}
  <2>1. PICK m \in T \ {x} : \A y \in T \ {x} : m >= y
    BY <1>7, <1>8, <1>10 DEF HasMax
  <2>2. IF m >= x THEN \A y \in T : m >= y ELSE \A y \in T : x >= y
    BY <1>6, <2>1
  <2>3. HasMax(T)
    BY <1>6, <2>1, <2>2 DEF HasMax
  <2> QED
    BY <1>5, <2>3
<1> QED
  BY <1>9, <1>10

LEMMA MaxOf ==
    ASSUME NEW S \in SUBSET Int, IsFiniteSet(S), S # {}
    PROVE  Max(S) \in S /\ \A y \in S : Max(S) >= y
  BY FiniteHasMax DEF Max

LEMMA MinOf ==
    ASSUME NEW S \in SUBSET Int, IsFiniteSet(S), S # {}
    PROVE  Min(S) \in S /\ \A y \in S : Min(S) <= y
<1>. DEFINE f == [x \in S |-> -x]
            T == {-x : x \in S}
<1>1. f \in Surjection(S, T)
  BY DEF Surjection
<1>2. T \in SUBSET Int /\ IsFiniteSet(T) /\ T # {}
  <2>1. \A x \in S : -x \in Int
    OBVIOUS
  <2>2. T \in SUBSET Int /\ T # {}
    BY <2>1
  <2> QED
    BY <1>1, <2>2, FS_Surjection
<1>3. PICK m \in T : \A y \in T : m >= y
  <2>. HIDE DEF T
  <2> QED
    BY <1>2, FiniteHasMax
<1>4. PICK x \in S : m = -x
  OBVIOUS
<1>5. \A y \in S : x <= y
  BY <1>3, <1>4
<1> QED
  BY <1>5 DEF Min

(***************************************************************************)
(* The graph of a valid plan                                               *)
(***************************************************************************)
PlanOK == plan \in Plan /\ ValidPlan(plan)

LEMMA GraphOf ==
    ASSUME PlanOK
    PROVE  /\ IsFiniteSet(Nodes) /\ IsFiniteSet(Links)
           /\ Nodes = 1..Len(plan.tasks) /\ Len(plan.tasks) \in Nat /\ Cardinality(Nodes) = Len(plan.tasks)
           /\ \A n \in Nodes : Duration(n) \in Nat
           /\ \A k \in Links : Source(k) \in Nodes /\ Target(k) \in Nodes
           /\ \A k \in Links : plan.links[k].kind \in LinkKind /\ plan.links[k].lag_days \in Int
<1>1. plan.tasks \in Seq(Task) /\ plan.links \in Seq(TaskLink)
  BY DEF PlanOK, Plan
<1>2. Nodes = 1..Len(plan.tasks) /\ Links = 1..Len(plan.links)
      /\ Len(plan.tasks) \in Nat /\ Len(plan.links) \in Nat
  BY <1>1 DEF Nodes, Links
<1>3. IsFiniteSet(Nodes) /\ IsFiniteSet(Links) /\ Cardinality(Nodes) = Len(plan.tasks)
  <2>1. \A n \in Nat : IsFiniteSet(1..n) /\ Cardinality(1..n) = n
    BY FS_Interval
  <2> QED
    BY <1>2, <2>1
<1>4. \A n \in Nodes : Duration(n) \in Nat
  <2>1. \A n \in Nodes : plan.tasks[n] \in Task
    BY <1>1 DEF Nodes
  <2>2. \A n \in Nodes : Duration(n) \in Int /\ Duration(n) >= 0
    BY <2>1 DEF PlanOK, ValidPlan, Nodes, Duration, Task
  <2> QED
    BY <2>2
<1>5. \A k \in Links : plan.links[k] \in TaskLink
  BY <1>1 DEF Links
<1>6. ASSUME NEW id \in TaskIds(plan) PROVE Node(id) \in Nodes
  <2>1. \E n \in Nodes : plan.tasks[n].id = id
    BY DEF TaskIds, Nodes
  <2> QED
    BY <2>1 DEF Node
<1>7. \A k \in Links : Source(k) \in Nodes /\ Target(k) \in Nodes
  BY <1>6 DEF PlanOK, ValidPlan, Links, Source, Target
<1> QED
  BY <1>2, <1>3, <1>4, <1>5, <1>7 DEF TaskLink

\* The weight of a link says from start to start what its kind says of starts
\* and finishes.
LEMMA WeightOf ==
    ASSUME PlanOK, NEW k \in Links
    PROVE  /\ Weight(k) \in Int
           /\ plan.links[k].kind = "finish-start" => Weight(k) = Duration(Source(k)) + plan.links[k].lag_days
           /\ plan.links[k].kind = "start-start" => Weight(k) = plan.links[k].lag_days
           /\ plan.links[k].kind = "finish-finish" =>
                 Weight(k) = Duration(Source(k)) + plan.links[k].lag_days - Duration(Target(k))
           /\ plan.links[k].kind = "start-finish" => Weight(k) = plan.links[k].lag_days - Duration(Target(k))
<1>1. plan.links[k].kind = "finish-start" => Weight(k) = Duration(Source(k)) + plan.links[k].lag_days
  BY Zenon DEF Weight
<1>2. plan.links[k].kind = "start-start" => Weight(k) = plan.links[k].lag_days
  BY Zenon DEF Weight
<1>3. plan.links[k].kind = "finish-finish" =>
         Weight(k) = Duration(Source(k)) + plan.links[k].lag_days - Duration(Target(k))
  BY Zenon DEF Weight
<1>4. plan.links[k].kind = "start-finish" => Weight(k) = plan.links[k].lag_days - Duration(Target(k))
  BY Zenon DEF Weight
<1>5. plan.links[k].kind \in LinkKind /\ plan.links[k].lag_days \in Int
      /\ Duration(Source(k)) \in Nat /\ Duration(Target(k)) \in Nat
  BY GraphOf
<1> QED
  BY <1>1, <1>2, <1>3, <1>4, <1>5 DEF LinkKind

\* Every link, from start to start.
MeetsStarts(start) == \A k \in Links : start[Target(k)] >= start[Source(k)] + Weight(k)

LEMMA MeetsByStarts ==
    ASSUME PlanOK, NEW start \in [Nodes -> Int]
    PROVE  Meets(start) <=> MeetsStarts(start)
<1>. DEFINE Met(k) ==
               LET pred == Source(k)
                   succ == Target(k)
                   link == plan.links[k]
                   Finish(n) == start[n] + Duration(n)
               IN CASE link.kind = "finish-start"  -> start[succ] >= Finish(pred) + link.lag_days
                    [] link.kind = "start-start"   -> start[succ] >= start[pred] + link.lag_days
                    [] link.kind = "finish-finish" -> Finish(succ) >= Finish(pred) + link.lag_days
                    [] link.kind = "start-finish"  -> Finish(succ) >= start[pred] + link.lag_days
<1>1. Meets(start) <=> \A k \in Links : Met(k)
  BY DEF Meets
<1>2. ASSUME NEW k \in Links
      PROVE  Met(k) <=> start[Target(k)] >= start[Source(k)] + Weight(k)
  <2>. DEFINE p == start[Source(k)]  s == start[Target(k)]
              d == Duration(Source(k))  e == Duration(Target(k))  l == plan.links[k].lag_days
              kind == plan.links[k].kind
  <2>1. kind = "finish-start" => (Met(k) <=> s >= (p + d) + l)
    BY Zenon
  <2>2. kind = "start-start" => (Met(k) <=> s >= p + l)
    BY Zenon
  <2>3. kind = "finish-finish" => (Met(k) <=> s + e >= (p + d) + l)
    BY Zenon
  <2>4. kind = "start-finish" => (Met(k) <=> s + e >= p + l)
    BY Zenon
  <2>. HIDE DEF Met
  <2>5. p \in Int /\ s \in Int /\ d \in Int /\ e \in Int /\ l \in Int /\ kind \in LinkKind
    BY GraphOf
  <2>6. /\ kind = "finish-start" => Weight(k) = d + l
        /\ kind = "start-start" => Weight(k) = l
        /\ kind = "finish-finish" => Weight(k) = d + l - e
        /\ kind = "start-finish" => Weight(k) = l - e
    BY WeightOf
  <2>. HIDE DEF p, s, d, e, l, kind
  <2>7. Met(k) <=> s >= p + Weight(k)
    BY <2>1, <2>2, <2>3, <2>4, <2>5, <2>6 DEF LinkKind
  <2> QED
    BY <2>7 DEF p, s
<1>. HIDE DEF Met
<1> QED
  BY <1>1, <1>2 DEF MeetsStarts

(***************************************************************************)
(* Cycles                                                                  *)
(***************************************************************************)
LEMMA ReachesAlong ==
    ASSUME PlanOK, NEW k \in Links, NEW m \in Nodes
    PROVE  /\ Reaches(m, m)
           /\ Reaches(m, Source(k)) => Reaches(m, Target(k))
           /\ Reaches(Target(k), m) => Reaches(Source(k), m)
  BY GraphOf DEF Reaches

LEMMA ReachesThrough ==
    ASSUME NEW l \in Nodes, NEW m \in Nodes, NEW n \in Nodes, Reaches(l, m), Reaches(m, n)
    PROVE  Reaches(l, n)
  BY DEF Reaches

\* Who is reached from elsewhere is reached over a link from somebody reached.
LEMMA ReachedOverLink ==
    ASSUME PlanOK, NEW m \in Nodes, NEW n \in Nodes, m # n, Reaches(m, n)
    PROVE  \E k \in Links : Target(k) = n /\ Reaches(m, Source(k))
<1>. DEFINE S == {x \in Nodes : x # n /\ Reaches(m, x)}
<1>1. SUFFICES ASSUME \A k \in Links : Reaches(m, Source(k)) => Target(k) # n
               PROVE  FALSE
  OBVIOUS
<1>2. m \in S
  <2>1. \A T \in SUBSET Nodes : m \in T => m \in T
    OBVIOUS
  <2> QED
    BY DEF Reaches
<1>3. ASSUME NEW k \in Links, Source(k) \in S PROVE Target(k) \in S
  BY <1>1, <1>3, ReachesAlong, GraphOf
<1>4. S \in SUBSET Nodes /\ n \notin S
  OBVIOUS
<1>. HIDE DEF S
<1> QED
  BY <1>2, <1>3, <1>4 DEF Reaches

LEMMA CyclicEntangled ==
    ASSUME PlanOK, Cyclic
    PROVE  Entangled
<1>1. CASE \E k \in Links : Source(k) = Target(k)
  <2>1. PICK k \in Links : Source(k) = Target(k)
    BY <1>1
  <2>2. {Source(k)} \in SUBSET Nodes
    BY GraphOf
  <2> QED
    BY <2>1, <2>2 DEF Entangled
<1>2. CASE \E m, n \in Nodes : m # n /\ Reaches(m, n) /\ Reaches(n, m)
  <2>1. PICK m \in Nodes, n \in Nodes : m # n /\ Reaches(m, n) /\ Reaches(n, m)
    BY <1>2
  <2>. DEFINE S == {x \in Nodes : Reaches(m, x) /\ Reaches(x, m)}
  <2>2. ASSUME NEW x \in S PROVE \E k \in Links : Target(k) = x /\ Source(k) \in S
    <3>1. PICK y \in {m, n} : y # x /\ Reaches(m, y) /\ Reaches(y, m)
      <4>1. Reaches(m, m)
        BY DEF Reaches
      <4> QED
        BY <2>1, <4>1
    <3>2. y \in Nodes /\ Reaches(y, x)
      BY <2>1, <2>2, <3>1, ReachesThrough
    <3>3. PICK k \in Links : Target(k) = x /\ Reaches(y, Source(k))
      BY <3>1, <3>2, ReachedOverLink
    <3>4. Source(k) \in Nodes /\ Reaches(m, Source(k)) /\ Reaches(Source(k), m)
      BY <2>2, <3>1, <3>2, <3>3, GraphOf, ReachesThrough, ReachesAlong
    <3> QED
      BY <3>3, <3>4
  <2>3. S \in SUBSET Nodes /\ m \in S
    BY <2>1, ReachesThrough
  <2>. HIDE DEF S
  <2> QED
    BY <2>2, <2>3 DEF Entangled
<1> QED
  BY <1>1, <1>2 DEF Cyclic

\* In an entangled set the node that fewest others of the set reach waits for
\* one that reaches no fewer, and so reaches it back.
LEMMA EntangledCyclic ==
    ASSUME PlanOK, Entangled
    PROVE  Cyclic
<1>1. PICK S \in SUBSET Nodes : S # {} /\ \A n \in S : \E k \in Links : Target(k) = n /\ Source(k) \in S
  BY DEF Entangled
<1>. DEFINE Above(n) == {x \in S : Reaches(x, n)}
            sizes == {Cardinality(Above(n)) : n \in S}
<1>2. ASSUME NEW n \in S
      PROVE  IsFiniteSet(Above(n)) /\ Cardinality(Above(n)) \in Nat
  <2>1. IsFiniteSet(Nodes) /\ Above(n) \in SUBSET Nodes
    BY GraphOf
  <2>. HIDE DEF Above
  <2> QED
    BY <2>1, FS_Subset, FS_CardinalityType
<1>3. sizes \in SUBSET Nat /\ sizes # {}
  <2>1. \A n \in S : Cardinality(Above(n)) \in Nat
    BY <1>2
  <2>. HIDE DEF Above
  <2> QED
    BY <1>1, <2>1
<1>4. PICK least \in sizes : \A s \in sizes : least <= s
  <2>. HIDE DEF sizes
  <2> QED
    BY <1>3, LeastNatural
<1>5. PICK n \in S : least = Cardinality(Above(n))
  OBVIOUS
<1>6. PICK k \in Links : Target(k) = n /\ Source(k) \in S
  BY <1>1
<1>7. SUFFICES ASSUME ~Cyclic PROVE FALSE
  OBVIOUS
<1>8. Source(k) # n /\ ~Reaches(n, Source(k))
  <2>1. Source(k) # n
    BY <1>6, <1>7 DEF Cyclic
  <2>2. Reaches(Source(k), n)
    BY <1>1, <1>6, ReachesAlong
  <2> QED
    BY <1>1, <1>6, <1>7, <2>1, <2>2 DEF Cyclic
<1>9. Above(Source(k)) \subseteq Above(n) /\ n \in Above(n) /\ n \notin Above(Source(k))
  <2>1. \A x \in S : Reaches(x, Source(k)) => Reaches(x, n)
    BY <1>1, <1>6, ReachesAlong
  <2>2. Reaches(n, n)
    BY DEF Reaches
  <2> QED
    BY <1>8, <2>1, <2>2
<1>10. Cardinality(Above(Source(k))) < Cardinality(Above(n))
  <2>. HIDE DEF Above
  <2> QED
    BY <1>2, <1>6, <1>9, FS_Subset
<1>11. least <= Cardinality(Above(Source(k)))
  BY <1>4, <1>6
<1> QED
  BY <1>2, <1>5, <1>6, <1>10, <1>11

(***************************************************************************)
(* The plan never changes, nor does what is derived from it alone          *)
(***************************************************************************)
LEMMA PlanStays ==
    ASSUME UNCHANGED plan
    PROVE  /\ Nodes' = Nodes /\ Links' = Links /\ (PlanOK' <=> PlanOK)
           /\ \A k : Source(k)' = Source(k) /\ Target(k)' = Target(k) /\ Weight(k)' = Weight(k)
           /\ \A n : Duration(n)' = Duration(n) /\ Out(n)' = Out(n)
           /\ (Entangled' <=> Entangled)
<1>1. plan' = plan
  OBVIOUS
<1>2. Nodes' = Nodes /\ Links' = Links
  BY <1>1 DEF Nodes, Links
<1>3. PlanOK' <=> PlanOK
  BY <1>1 DEF PlanOK
<1>5. \A k : Source(k)' = Source(k) /\ Target(k)' = Target(k)
  BY <1>1, Zenon DEF Source, Target, Node, Nodes
<1>6. \A n : Duration(n)' = Duration(n)
  BY <1>1 DEF Duration
<1>7. \A n : Out(n)' = Out(n)
  BY <1>2, <1>5 DEF Out
<1>8. \A k : Weight(k)' = Weight(k)
  BY <1>1, <1>5, <1>6, Zenon DEF Weight
<1>9. Entangled' <=> Entangled
  BY <1>2, <1>5 DEF Entangled
<1> QED
  BY <1>2, <1>3, <1>5, <1>6, <1>7, <1>8, <1>9

\* How far the analysis is, and what validation has established.
ControlOK ==
    /\ plan \in Plan
    /\ phase \in {"validate", "cycles", "sort", "forward", "backward", "done"}
    /\ result \in {"", "Invalid", "Cycle", "UnsortedCycle", "Critical"}
    /\ phase # "done" => result = ""
    /\ phase # "validate" /\ result # "Invalid" => ValidPlan(plan)

LEMMA ControlInvariant == AnalysisSpec => []ControlOK
<1>1. AnalysisInit => ControlOK
  BY AnalysedPlanAssumption DEF AnalysisInit, ControlOK
<1>2. ControlOK /\ [AnalysisNext]_analysisVars => ControlOK'
  BY DEF ControlOK, AnalysisNext, analysisVars, Validate, EnsureAcyclic, PopReady, EndSort, Forward, Backward, Done
<1> QED
  BY <1>1, <1>2, PTL DEF AnalysisSpec

(***************************************************************************)
(* The sort                                                                *)
(***************************************************************************)
Placed == {order[i] : i \in DOMAIN order}

OrderOK ==
    /\ order \in Seq(Nodes)
    /\ \A i, j \in DOMAIN order : order[i] = order[j] => i = j
    /\ \A k \in Links : \A j \in DOMAIN order : order[j] = Target(k) =>
          \E i \in DOMAIN order : i < j /\ order[i] = Source(k)

\* The links that still hold m back.
Waiting(m) == {k \in Links : Target(k) = m /\ Source(k) \notin Placed}

QueueOK ==
    /\ indegree \in [Nodes -> Int]
    /\ \A m \in Nodes : indegree[m] = Cardinality(Waiting(m))
    /\ \A n : n \in ready <=> n \in Nodes /\ n \notin Placed /\ indegree[n] = 0

LEMMA WaitingFinite ==
    ASSUME PlanOK, NEW m
    PROVE  IsFiniteSet(Waiting(m)) /\ Cardinality(Waiting(m)) \in Nat
<1>1. IsFiniteSet(Links) /\ Waiting(m) \in SUBSET Links
  BY GraphOf DEF Waiting
<1> QED
  BY <1>1, FS_Subset, FS_CardinalityType

LEMMA StartsSorted ==
    ASSUME PlanOK, EnsureAcyclic, ~Cyclic, order = <<>>
    PROVE  OrderOK' /\ QueueOK'
<1>1. /\ indegree' = [n \in Nodes |-> InDegree(n)]
      /\ ready' = {n \in Nodes : indegree'[n] = 0}
      /\ order' = <<>> /\ plan' = plan
  BY DEF EnsureAcyclic
<1>2. Placed' = {}
  BY <1>1 DEF Placed
<1>3. OrderOK'
  BY <1>1 DEF OrderOK
<1>4. \A m : Waiting(m)' = {k \in Links : Target(k) = m}
  BY <1>1, <1>2, PlanStays DEF Waiting
<1>5. \A m \in Nodes : InDegree(m) = Cardinality(Waiting(m)') /\ InDegree(m) \in Int
  <2>1. ASSUME NEW m \in Nodes PROVE InDegree(m) \in Nat
    <3>1. IsFiniteSet(Links) /\ {k \in Links : Target(k) = m} \in SUBSET Links
      BY GraphOf
    <3> QED
      BY <3>1, FS_Subset, FS_CardinalityType DEF InDegree
  <2>2. ASSUME NEW m \in Nodes PROVE InDegree(m) = Cardinality(Waiting(m)')
    BY <1>4, Zenon DEF InDegree
  <2> QED
    BY <2>1, <2>2
<1>6. QueueOK'
  BY <1>1, <1>2, <1>5, PlanStays DEF QueueOK
<1> QED
  BY <1>3, <1>6

LEMMA PopKeepsSorted ==
    ASSUME PlanOK, OrderOK, QueueOK, NEW n \in ready, PopReady(n)
    PROVE  OrderOK' /\ QueueOK'
<1>. DEFINE released(m) == {k \in Out(n) : Target(k) = m}
<1>1. /\ order' = Append(order, n) /\ plan' = plan
      /\ indegree' = [m \in Nodes |-> indegree[m] - Cardinality(released(m))]
      /\ ready' = (ready \ {n}) \cup
                     {m \in Nodes : indegree'[m] = 0 /\ \E k \in Out(n) : Target(k) = m}
  BY DEF PopReady
<1>2. n \in Nodes /\ n \notin Placed /\ indegree[n] = 0
  BY DEF QueueOK
<1>3. /\ order \in Seq(Nodes) /\ order' \in Seq(Nodes) /\ Len(order') = Len(order) + 1
      /\ order'[Len(order) + 1] = n /\ \A i \in DOMAIN order : order'[i] = order[i]
      /\ DOMAIN order' = DOMAIN order \cup {Len(order) + 1}
      /\ Len(order) \in Nat /\ DOMAIN order = 1..Len(order)
  BY <1>1, <1>2 DEF OrderOK
<1>4. Placed' = Placed \cup {n}
  BY <1>3 DEF Placed
<1>5. \A k \in Links : Target(k) = n => Source(k) \in Placed
  <2>1. Cardinality(Waiting(n)) = 0 /\ IsFiniteSet(Waiting(n))
    BY <1>2, WaitingFinite DEF QueueOK
  <2>2. Waiting(n) = {}
    BY <2>1, FS_EmptySet
  <2> QED
    BY <2>2 DEF Waiting
<1>6. \A k \in Links : Target(k) \in Placed => Source(k) \in Placed
  BY DEF OrderOK, Placed
<1>7. OrderOK'
  <2>1. order' \in Seq(Nodes')
    BY <1>1, <1>3, PlanStays
  <2>2. \A i, j \in DOMAIN order' : order'[i] = order'[j] => i = j
    BY <1>2, <1>3 DEF OrderOK, Placed
  <2>3. ASSUME NEW k \in Links, NEW j \in DOMAIN order', order'[j] = Target(k)
        PROVE  \E i \in DOMAIN order' : i < j /\ order'[i] = Source(k)
    <3>1. CASE j \in DOMAIN order
      BY <1>3, <2>3, <3>1 DEF OrderOK
    <3>2. CASE j = Len(order) + 1
      <4>1. Source(k) \in Placed
        BY <1>3, <1>5, <2>3, <3>2
      <4>2. PICK i \in DOMAIN order : order[i] = Source(k)
        BY <4>1 DEF Placed
      <4> QED
        BY <1>3, <3>2, <4>2
    <3> QED
      BY <1>3, <3>1, <3>2
  <2> QED
    BY <1>1, <2>1, <2>2, <2>3, PlanStays DEF OrderOK
<1>8. ASSUME NEW m \in Nodes
      PROVE  /\ Waiting(m)' = Waiting(m) \ released(m)
             /\ released(m) \subseteq Waiting(m)
  <2>1. Waiting(m)' = {k \in Links : Target(k) = m /\ Source(k) \notin Placed \cup {n}}
    BY <1>1, <1>4, PlanStays DEF Waiting
  <2>2. released(m) = {k \in Links : Source(k) = n /\ Target(k) = m}
    BY DEF Out
  <2> QED
    BY <1>2, <2>1, <2>2 DEF Waiting
<1>9. ASSUME NEW m \in Nodes
      PROVE  /\ Cardinality(released(m)) \in Nat
             /\ Cardinality(Waiting(m)') = indegree[m] - Cardinality(released(m))
  <2>1. IsFiniteSet(Waiting(m)) /\ Waiting(m) \cap released(m) = released(m)
    BY <1>8, WaitingFinite
  <2>2. IsFiniteSet(released(m)) /\ Cardinality(released(m)) \in Nat
    BY <1>8, <2>1, FS_Subset, FS_CardinalityType
  <2>3. Cardinality(Waiting(m) \ released(m)) = Cardinality(Waiting(m)) - Cardinality(released(m))
    BY <2>1, FS_Difference, ZenonT(30)
  <2>4. indegree[m] = Cardinality(Waiting(m)) /\ Waiting(m)' = Waiting(m) \ released(m)
    BY <1>8 DEF QueueOK
  <2> QED
    BY <2>2, <2>3, <2>4
<1>10. \A m \in Nodes : indegree'[m] = Cardinality(Waiting(m)') /\ indegree'[m] \in Int
  BY <1>1, <1>9 DEF QueueOK
<1>11. ASSUME NEW m \in Nodes
       PROVE  m \in ready' <=> m \notin Placed' /\ indegree'[m] = 0
  <2>1. CASE \E k \in Out(n) : Target(k) = m
    <3>1. m \notin Placed /\ m # n
      BY <1>2, <1>5, <1>6, <2>1 DEF Out
    <3>2. CASE indegree'[m] = 0
      BY <1>1, <1>4, <2>1, <3>1, <3>2
    <3>3. CASE indegree'[m] # 0
      <4>1. PICK k \in Out(n) : Target(k) = m
        BY <2>1
      <4>2. k \in Waiting(m)
        BY <1>2, <4>1 DEF Out, Waiting
      <4>3. Cardinality(Waiting(m)) # 0
        BY <4>2, WaitingFinite, FS_EmptySet
      <4>4. m \notin ready
        BY <4>3 DEF QueueOK
      <4> QED
        BY <1>1, <3>3, <4>4
    <3> QED
      BY <3>2, <3>3
  <2>2. CASE ~\E k \in Out(n) : Target(k) = m
    <3>1. released(m) = {} /\ Cardinality(released(m)) = 0
      BY <2>2, FS_EmptySet
    <3>2. indegree'[m] = indegree[m]
      BY <1>1, <3>1 DEF QueueOK
    <3> QED
      BY <1>1, <1>2, <1>4, <2>2, <3>2 DEF QueueOK
  <2> QED
    BY <2>1, <2>2
<1>12. QueueOK'
  <2>1. indegree' \in [Nodes -> Int]
    BY <1>1, <1>10
  <2>2. ready' \subseteq Nodes
    BY <1>1 DEF QueueOK
  <2>. HIDE DEF released
  <2> QED
    BY <1>1, <1>10, <1>11, <2>1, <2>2, PlanStays DEF QueueOK
<1> QED
  BY <1>7, <1>12

\* Every task is placed exactly when the order is as long as the plan.
LEMMA OrderFull ==
    ASSUME PlanOK, OrderOK
    PROVE  Placed = Nodes <=> Len(order) = Len(plan.tasks)
<1>1. /\ IsFiniteSet(Nodes) /\ Cardinality(Nodes) = Len(plan.tasks)
      /\ order \in [1..Len(order) -> Nodes] /\ Len(order) \in Nat /\ DOMAIN order = 1..Len(order)
  BY GraphOf DEF OrderOK
<1>2. order \in Injection(1..Len(order), Nodes)
  BY <1>1 DEF OrderOK, Injection, IsInjective
<1>3. IsFiniteSet(1..Len(order)) /\ Cardinality(1..Len(order)) = Len(order)
  <2>1. \A n \in Nat : IsFiniteSet(1..n) /\ Cardinality(1..n) = n
    BY FS_Interval
  <2> QED
    BY <1>1, <2>1
<1>4. Cardinality(1..Len(order)) = Cardinality(Nodes) <=> order \in Surjection(1..Len(order), Nodes)
  BY <1>1, <1>2, FS_Injection
<1>5. order \in Surjection(1..Len(order), Nodes) <=> Placed = Nodes
  BY <1>1 DEF Surjection, Placed
<1> QED
  BY <1>1, <1>3, <1>4, <1>5

\* When nothing is ready, what is left waits for what is left.
LEMMA StuckEntangled ==
    ASSUME PlanOK, QueueOK, ready = {}, Placed \subseteq Nodes, Placed # Nodes
    PROVE  Entangled
<1>. DEFINE left == Nodes \ Placed
<1>1. ASSUME NEW m \in left
      PROVE  \E k \in Links : Target(k) = m /\ Source(k) \in left
  <2>1. Cardinality(Waiting(m)) # 0
    BY DEF QueueOK
  <2>2. PICK k \in Waiting(m) : TRUE
    BY <2>1, FS_EmptySet
  <2>3. k \in Links /\ Target(k) = m /\ Source(k) \notin Placed /\ Source(k) \in Nodes
    BY GraphOf DEF Waiting
  <2> QED
    BY <2>3
<1>2. left \in SUBSET Nodes /\ left # {}
  OBVIOUS
<1>. HIDE DEF left
<1> QED
  BY <1>1, <1>2 DEF Entangled

\* The passes run, or have run, over the finished order.
Scheduling == phase \in {"forward", "backward"} \/ result = "Critical"

SortOK ==
    /\ phase \in {"validate", "cycles"} => order = <<>>
    /\ phase = "sort" => ~Entangled /\ OrderOK /\ QueueOK
    /\ Scheduling => ~Entangled /\ OrderOK /\ Placed = Nodes
    /\ result = "Cycle" => Entangled
    /\ result # "UnsortedCycle"

LEMMA PlacedAreNodes == OrderOK => Placed \subseteq Nodes
  BY DEF OrderOK, Placed

\* Nothing SortOK speaks of changes once the order is complete.
LEMMA OrderStays ==
    ASSUME UNCHANGED <<plan, order>>
    PROVE  (OrderOK' <=> OrderOK) /\ Placed' = Placed /\ Nodes' = Nodes
<1>1. Nodes' = Nodes /\ Links' = Links /\ \A k : Source(k)' = Source(k) /\ Target(k)' = Target(k)
  BY PlanStays
<1>2. Placed' = Placed
  BY DEF Placed
<1>3. OrderOK' <=> OrderOK
  BY <1>1 DEF OrderOK
<1> QED
  BY <1>1, <1>2, <1>3

LEMMA NextSortOK == ControlOK /\ SortOK /\ [AnalysisNext]_analysisVars => SortOK'
<1> SUFFICES ASSUME ControlOK, SortOK, [AnalysisNext]_analysisVars
             PROVE  SortOK'
  OBVIOUS
<1>1. CASE Validate
  BY <1>1, PlanStays DEF Validate, ControlOK, SortOK, Scheduling
<1>2. CASE EnsureAcyclic
  <2>1. PlanOK /\ order = <<>> /\ result = "" /\ order' = order /\ plan' = plan
    BY <1>2 DEF EnsureAcyclic, ControlOK, PlanOK, SortOK
  <2>2. CASE Cyclic
    <3>1. phase' = "done" /\ result' = "Cycle"
      BY <1>2, <2>2 DEF EnsureAcyclic
    <3>2. Entangled'
      BY <2>1, <2>2, CyclicEntangled, PlanStays
    <3> QED
      BY <3>1, <3>2 DEF SortOK, Scheduling
  <2>3. CASE ~Cyclic
    <3>1. phase' = "sort" /\ result' = ""
      BY <1>2, <2>1, <2>3 DEF EnsureAcyclic
    <3>2. ~Entangled'
      BY <2>1, <2>3, EntangledCyclic, PlanStays
    <3>3. OrderOK' /\ QueueOK'
      BY <1>2, <2>1, <2>3, StartsSorted
    <3> QED
      BY <3>1, <3>2, <3>3 DEF SortOK, Scheduling
  <2> QED
    BY <2>2, <2>3
<1>3. ASSUME NEW n \in ready, PopReady(n) PROVE SortOK'
  <2>1. PlanOK /\ phase = "sort" /\ result = "" /\ phase' = phase /\ result' = result /\ plan' = plan
    BY <1>3 DEF PopReady, ControlOK, PlanOK
  <2>2. ~Entangled /\ OrderOK /\ QueueOK
    BY <2>1 DEF SortOK
  <2>3. OrderOK' /\ QueueOK'
    BY <1>3, <2>1, <2>2, PopKeepsSorted
  <2> QED
    BY <2>1, <2>2, <2>3, PlanStays DEF SortOK, Scheduling
<1>4. CASE EndSort
  <2>1. /\ PlanOK /\ ready = {} /\ result = "" /\ UNCHANGED <<plan, order>>
        /\ \/ Len(order) = Len(plan.tasks) /\ phase' = "forward" /\ result' = result
           \/ Len(order) # Len(plan.tasks) /\ phase' = "done" /\ result' = "UnsortedCycle"
    BY <1>4 DEF EndSort, ControlOK, PlanOK
  <2>2. ~Entangled /\ OrderOK /\ QueueOK
    BY <1>4 DEF EndSort, SortOK
  <2>3. Placed = Nodes
    BY <2>1, <2>2, PlacedAreNodes, StuckEntangled
  <2>4. phase' = "forward" /\ result' = ""
    BY <2>1, <2>2, <2>3, OrderFull
  <2> QED
    BY <2>1, <2>2, <2>3, <2>4, OrderStays, PlanStays DEF SortOK, Scheduling
<1>5. ASSUME Forward \/ Backward \/ UNCHANGED analysisVars PROVE SortOK'
  <2>1. /\ UNCHANGED <<plan, order>> /\ (result' = "Cycle" => result = "Cycle") /\ result' # "UnsortedCycle"
        /\ (phase' \in {"validate", "cycles"} => phase' = phase) /\ (Scheduling' => Scheduling)
    BY <1>5 DEF Forward, Backward, analysisVars, SortOK, Scheduling, ControlOK
  <2>2. CASE Forward \/ Backward
    <3>1. phase' # "sort"
      BY <2>2 DEF Forward, Backward
    <3> QED
      BY <2>1, <3>1, OrderStays, PlanStays DEF SortOK
  <2>3. CASE UNCHANGED analysisVars
    <3>1. (QueueOK' <=> QueueOK) /\ (Entangled' <=> Entangled)
      <4>1. UNCHANGED <<plan, order, indegree, ready>>
        BY <2>3 DEF analysisVars
      <4>2. Nodes' = Nodes /\ \A m : Waiting(m)' = Waiting(m)
        BY <4>1, PlanStays, OrderStays DEF Waiting
      <4> QED
        BY <4>1, <4>2, OrderStays, PlanStays DEF QueueOK
    <3> QED
      BY <2>3, <3>1, OrderStays DEF analysisVars, SortOK, Scheduling
  <2> QED
    BY <1>5, <2>2, <2>3
<1> QED
  BY <1>1, <1>2, <1>3, <1>4, <1>5 DEF AnalysisNext, Done

LEMMA SortInvariant == AnalysisSpec => []SortOK
<1>1. AnalysisInit => SortOK
  BY DEF AnalysisInit, SortOK, Scheduling
<1> QED
  BY <1>1, NextSortOK, ControlInvariant, PTL DEF AnalysisSpec

\* A plan is refused as cyclic exactly when tasks of it wait for one another,
\* and the sort always gets to its end (critical_tasks, ensure_acyclic and
\* topo_order).
THEOREM CriticalCyclesRefused == AnalysisSpec => []CyclesRefused
<1>1. SortOK => CyclesRefused
  BY DEF SortOK, Scheduling, CyclesRefused
<1> QED
  BY <1>1, SortInvariant, PTL

\* The order the passes follow holds every task once, behind all it waits for
\* (topo_order).
THEOREM CriticalOrderTopological == AnalysisSpec => []OrderTopological
<1>1. ControlOK /\ SortOK => OrderTopological
  <2> SUFFICES ASSUME ControlOK, SortOK, Scheduling
               PROVE  /\ Len(order) = Len(plan.tasks)
                      /\ \A k \in Links : \E i, j \in DOMAIN order :
                            i < j /\ order[i] = Source(k) /\ order[j] = Target(k)
    BY DEF OrderTopological, Scheduling
  <2>1. PlanOK /\ OrderOK /\ Placed = Nodes
    BY DEF ControlOK, SortOK, PlanOK, Scheduling
  <2>2. Len(order) = Len(plan.tasks)
    BY <2>1, OrderFull
  <2>3. ASSUME NEW k \in Links
        PROVE  \E i, j \in DOMAIN order : i < j /\ order[i] = Source(k) /\ order[j] = Target(k)
    <3>1. PICK j \in DOMAIN order : order[j] = Target(k)
      BY <2>1, GraphOf DEF Placed
    <3> QED
      BY <2>1, <3>1 DEF OrderOK
  <2> QED
    BY <2>2, <2>3
<1> QED
  BY <1>1, ControlInvariant, SortInvariant, PTL

(***************************************************************************)
(* The forward pass                                                        *)
(***************************************************************************)
\* A set of whole numbers made from finitely many links is finite.
LEMMA ImageOfLinks ==
    ASSUME NEW K, IsFiniteSet(K), NEW f \in [K -> Int]
    PROVE  IsFiniteSet({f[k] : k \in K})
<1>1. f \in Surjection(K, {f[k] : k \in K})
  BY DEF Surjection
<1> QED
  BY <1>1, FS_Surjection

LEMMA PushedOf ==
    ASSUME PlanOK, earliest \in [Nodes -> Nat], NEW n \in Nodes, NEW m \in Nodes
    PROVE  /\ Pushed(n, m) \in Nat
           /\ Pushed(n, m) >= earliest[m]
           /\ \A k \in Out(n) : Target(k) = m => Pushed(n, m) >= earliest[n] + Weight(k)
           /\ \/ Pushed(n, m) = earliest[m]
              \/ \E k \in Out(n) : Target(k) = m /\ Pushed(n, m) = earliest[n] + Weight(k)
<1>. DEFINE K == {l \in Out(n) : Target(l) = m}
            f == [k \in K |-> earliest[n] + Weight(k)]
            pushes == {earliest[n] + Weight(k) : k \in K}
            S == {earliest[m]} \cup pushes
<1>1. IsFiniteSet(K) /\ K \subseteq Links
  <2>1. IsFiniteSet(Links) /\ K \in SUBSET Links
    BY GraphOf DEF Out
  <2> QED
    BY <2>1, FS_Subset
<1>2. \A k \in K : earliest[n] + Weight(k) \in Int
  BY <1>1, WeightOf
<1>3. IsFiniteSet(pushes)
  <2>1. f \in [K -> Int]
    BY <1>2
  <2>2. IsFiniteSet({f[k] : k \in K})
    <3>. HIDE DEF f, K
    <3> QED
      BY <1>1, <2>1, ImageOfLinks
  <2>3. {f[k] : k \in K} = pushes
    OBVIOUS
  <2> QED
    BY <2>2, <2>3
<1>4. pushes \subseteq Int
  BY <1>2
<1>5. IsFiniteSet(S) /\ S \in SUBSET Int /\ S # {}
  <2>. HIDE DEF pushes
  <2>1. IsFiniteSet(pushes \cup {earliest[m]})
    BY <1>3, FS_AddElement
  <2>2. S = pushes \cup {earliest[m]}
    OBVIOUS
  <2>3. earliest[m] \in Int
    OBVIOUS
  <2>4. \A x \in S : x \in Int
    BY <1>4, <2>3
  <2>. HIDE DEF S
  <2>5. S # {}
    BY <2>2
  <2> QED
    BY <2>1, <2>2, <2>4, <2>5
<1>6. Max(S) \in S /\ \A y \in S : Max(S) >= y
  <2>. HIDE DEF S
  <2> QED
    BY <1>5, MaxOf
<1>7. Pushed(n, m) = Max(S)
  BY DEF Pushed
<1>. HIDE DEF f
<1>8. Pushed(n, m) \in Int /\ Pushed(n, m) >= earliest[m] /\ earliest[m] \in Nat
  BY <1>5, <1>6, <1>7
<1>9. \A k \in K : Pushed(n, m) >= earliest[n] + Weight(k)
  BY <1>6, <1>7
<1>10. Pushed(n, m) = earliest[m] \/ \E k \in K : Pushed(n, m) = earliest[n] + Weight(k)
  BY <1>6, <1>7
<1> QED
  BY <1>8, <1>9, <1>10

\* No schedule that meets every link starts a task sooner.
Least(schedule) ==
    \A start \in [Nodes -> Nat] : MeetsStarts(start) => \A n \in Nodes : start[n] >= schedule[n]

\* The links out of the tasks already passed are met.
PassedMet ==
    \A i \in 1..(at - 1) : \A k \in Links :
        Source(k) = order[i] => earliest[Target(k)] >= earliest[Source(k)] + Weight(k)

ForwardOK ==
    /\ phase = "forward" =>
          /\ earliest \in [Nodes -> Nat] /\ at \in 1..(Len(order) + 1)
          /\ PassedMet /\ Least(earliest)
    /\ phase = "backward" \/ result = "Critical" =>
          earliest \in [Nodes -> Nat] /\ MeetsStarts(earliest) /\ Least(earliest)

\* Tasks before the one being passed are not pushed by it.
LEMMA EarlierNotPushed ==
    ASSUME PlanOK, OrderOK, earliest \in [Nodes -> Nat], NEW i \in 1..Len(order), NEW j \in 1..Len(order), i <= j
    PROVE  Pushed(order[j], order[i]) = earliest[order[i]]
<1>1. order \in Seq(Nodes) /\ order[i] \in Nodes /\ order[j] \in Nodes
      /\ i \in DOMAIN order /\ j \in DOMAIN order /\ DOMAIN order \subseteq Nat
  BY DEF OrderOK
<1>2. ASSUME NEW k \in Out(order[j]), Target(k) = order[i] PROVE FALSE
  <2>1. PICK h \in DOMAIN order : h < i /\ order[h] = Source(k)
    BY <1>1, <1>2 DEF OrderOK, Out
  <2>2. h = j
    BY <1>1, <1>2, <2>1 DEF OrderOK, Out
  <2> QED
    BY <1>1, <2>1, <2>2
<1> QED
  BY <1>1, <1>2, PushedOf

LEMMA PassKeepsForward ==
    ASSUME PlanOK, OrderOK, phase = "forward", ForwardOK, at <= Len(order),
           earliest' = [m \in Nodes |-> Pushed(order[at], m)], at' = at + 1,
           UNCHANGED <<plan, order>>
    PROVE  /\ earliest' \in [Nodes -> Nat] /\ at' \in 1..(Len(order) + 1)
           /\ PassedMet' /\ Least(earliest)'
<1>1. earliest \in [Nodes -> Nat] /\ at \in 1..Len(order) /\ PassedMet /\ Least(earliest)
      /\ Len(order) \in Nat /\ order \in [1..Len(order) -> Nodes]
  BY DEF ForwardOK, OrderOK
<1>2. order[at] \in Nodes
  BY <1>1
<1>3. earliest' \in [Nodes -> Nat] /\ \A m \in Nodes : earliest'[m] = Pushed(order[at], m)
  BY <1>1, <1>2, PushedOf
<1>4. \A i \in 1..at : earliest'[order[i]] = earliest[order[i]]
  BY <1>1, <1>3, EarlierNotPushed
<1>5. ASSUME NEW i \in 1..at, NEW k \in Links, Source(k) = order[i]
      PROVE  earliest'[Target(k)] >= earliest'[Source(k)] + Weight(k)
  <2>1. Target(k) \in Nodes /\ Source(k) \in Nodes /\ Weight(k) \in Int
    BY GraphOf, WeightOf
  <2>2. /\ earliest'[Target(k)] \in Nat /\ earliest[Target(k)] \in Nat /\ earliest[Source(k)] \in Nat
        /\ earliest'[Target(k)] >= earliest[Target(k)] /\ earliest'[Source(k)] = earliest[Source(k)]
    BY <1>1, <1>2, <1>3, <1>4, <1>5, <2>1, PushedOf
  <2>3. CASE i = at
    BY <1>2, <1>1, <1>3, <1>5, <2>1, <2>2, <2>3, PushedOf DEF Out
  <2>4. CASE i # at
    <3>1. earliest[Target(k)] >= earliest[Source(k)] + Weight(k)
      BY <1>1, <1>5, <2>4 DEF PassedMet
    <3> QED
      BY <2>1, <2>2, <3>1
  <2> QED
    BY <2>3, <2>4
<1>6. PassedMet'
  <2>1. at' - 1 = at
    BY <1>1
  <2> QED
    BY <1>5, <2>1, PlanStays DEF PassedMet
<1>7. ASSUME NEW start \in [Nodes -> Nat], MeetsStarts(start), NEW m \in Nodes
      PROVE  start[m] >= earliest'[m]
  <2>1. \A n \in Nodes : start[n] >= earliest[n]
    BY <1>1, <1>7 DEF Least
  <2>2. CASE earliest'[m] = earliest[m]
    BY <2>1, <2>2
  <2>3. ASSUME NEW k \in Out(order[at]), Target(k) = m, earliest'[m] = earliest[order[at]] + Weight(k)
        PROVE  start[m] >= earliest'[m]
    <3>1. k \in Links /\ Source(k) = order[at] /\ Weight(k) \in Int
      BY <2>3, WeightOf DEF Out
    <3>2. start[m] >= start[order[at]] + Weight(k)
      BY <1>7, <2>3, <3>1 DEF MeetsStarts
    <3>3. start[order[at]] >= earliest[order[at]] /\ start[order[at]] \in Nat /\ earliest[order[at]] \in Nat
          /\ start[m] \in Nat
      BY <1>1, <1>2, <2>1
    <3> QED
      BY <2>3, <3>1, <3>2, <3>3
  <2> QED
    BY <1>1, <1>2, <1>3, <2>2, <2>3, PushedOf
<1>8. Least(earliest)'
  BY <1>7, PlanStays DEF Least, MeetsStarts
<1> QED
  BY <1>1, <1>3, <1>6, <1>8

LEMMA NextForwardOK == ControlOK /\ SortOK /\ ForwardOK /\ [AnalysisNext]_analysisVars => ForwardOK'
<1> SUFFICES ASSUME ControlOK, SortOK, ForwardOK, [AnalysisNext]_analysisVars
             PROVE  ForwardOK'
  OBVIOUS
<1>1. CASE EndSort
  <2>1. PlanOK /\ result # "Critical" /\ UNCHANGED <<plan, order>>
    BY <1>1 DEF EndSort, ControlOK, PlanOK
  <2>2. CASE phase' = "forward"
    <3>1. earliest' = [n \in Nodes |-> 0] /\ at' = 1 /\ result' # "Critical"
      BY <1>1, <2>1, <2>2 DEF EndSort
    <3>2. Len(order) \in Nat
      BY <1>1 DEF EndSort, SortOK, OrderOK
    <3>3. PassedMet'
      <4>1. 1..(at' - 1) = {}
        BY <3>1
      <4> QED
        BY <4>1 DEF PassedMet
    <3>4. Least(earliest)'
      <4>1. ASSUME NEW start \in [Nodes -> Nat], NEW n \in Nodes PROVE start[n] >= earliest'[n]
        BY <3>1
      <4> QED
        BY <2>1, <4>1, PlanStays DEF Least
    <3>5. earliest' \in [Nodes' -> Nat] /\ at' \in 1..(Len(order') + 1)
      <4>1. earliest' \in [Nodes -> Nat]
        BY <3>1
      <4>2. at' \in 1..(Len(order) + 1)
        BY <3>1, <3>2
      <4> QED
        BY <2>1, <4>1, <4>2, PlanStays
    <3> QED
      BY <2>2, <3>1, <3>3, <3>4, <3>5 DEF ForwardOK
  <2>3. CASE phase' # "forward"
    BY <1>1, <2>3 DEF EndSort, ForwardOK
  <2> QED
    BY <2>2, <2>3
<1>2. CASE Forward
  <2>1. PlanOK /\ OrderOK /\ Placed = Nodes /\ phase = "forward"
        /\ UNCHANGED <<plan, order, result>> /\ result # "Critical"
    BY <1>2 DEF Forward, ControlOK, PlanOK, SortOK, Scheduling
  <2>2. CASE at <= Len(order) /\ phase' = phase
    <3>1. earliest' = [m \in Nodes |-> Pushed(order[at], m)] /\ at' = at + 1
      BY <1>2, <2>1, <2>2 DEF Forward
    <3>2. /\ earliest' \in [Nodes -> Nat] /\ at' \in 1..(Len(order) + 1)
          /\ PassedMet' /\ Least(earliest)'
      BY <2>1, <2>2, <3>1, PassKeepsForward
    <3> QED
      BY <2>1, <2>2, <3>2, PlanStays DEF ForwardOK
  <2>3. CASE at > Len(order) /\ phase' = "backward" /\ earliest' = earliest
    <3>1. /\ at = Len(order) + 1 /\ Len(order) \in Nat /\ earliest \in [Nodes -> Nat]
          /\ PassedMet /\ Least(earliest)
      <4>1. Len(order) \in Nat
        BY <2>1 DEF OrderOK
      <4>2. at \in 1..(Len(order) + 1) /\ earliest \in [Nodes -> Nat] /\ PassedMet /\ Least(earliest)
        BY <2>1 DEF ForwardOK
      <4> QED
        BY <2>3, <4>1, <4>2
    <3>2. MeetsStarts(earliest)
      <4>1. ASSUME NEW k \in Links PROVE \E i \in 1..(at - 1) : order[i] = Source(k)
        <5>1. Source(k) \in Placed
          BY <2>1, GraphOf
        <5>2. DOMAIN order = 1..Len(order)
          BY <2>1 DEF OrderOK
        <5>3. at - 1 = Len(order)
          BY <3>1
        <5> QED
          BY <5>1, <5>2, <5>3 DEF Placed
      <4> QED
        BY <3>1, <4>1 DEF PassedMet, MeetsStarts
    <3>3. MeetsStarts(earliest)' /\ Least(earliest)' /\ earliest' \in [Nodes' -> Nat]
      BY <2>1, <2>3, <3>1, <3>2, PlanStays DEF MeetsStarts, Least
    <3> QED
      BY <2>3, <3>3 DEF ForwardOK
  <2> QED
    BY <1>2, <2>2, <2>3 DEF Forward
<1>3. CASE Backward
  <2>1. UNCHANGED <<plan, earliest>> /\ phase = "backward" /\ phase' # "forward"
    BY <1>3 DEF Backward
  <2>2. MeetsStarts(earliest)' /\ Least(earliest)' /\ earliest' \in [Nodes' -> Nat]
    BY <2>1, PlanStays DEF ForwardOK, MeetsStarts, Least
  <2> QED
    BY <2>1, <2>2 DEF ForwardOK
<1>4. CASE UNCHANGED analysisVars
  <2>1. UNCHANGED <<plan, order, earliest, at, phase, result>>
    BY <1>4 DEF analysisVars
  <2>2. (MeetsStarts(earliest)' <=> MeetsStarts(earliest)) /\ (Least(earliest)' <=> Least(earliest))
        /\ (PassedMet' <=> PassedMet) /\ Nodes' = Nodes
    BY <2>1, PlanStays DEF MeetsStarts, Least, PassedMet
  <2> QED
    BY <2>1, <2>2 DEF ForwardOK
<1>5. CASE Validate \/ EnsureAcyclic \/ \E n \in ready : PopReady(n)
  BY <1>5 DEF Validate, EnsureAcyclic, PopReady, ForwardOK, ControlOK
<1> QED
  BY <1>1, <1>2, <1>3, <1>4, <1>5 DEF AnalysisNext, Done

LEMMA ForwardInvariant == AnalysisSpec => []ForwardOK
<1>1. AnalysisInit => ForwardOK
  BY DEF AnalysisInit, ForwardOK
<1> QED
  BY <1>1, NextForwardOK, ControlInvariant, SortInvariant, PTL DEF AnalysisSpec

\* The forward pass ends with a schedule that meets every link (forward_pass).
THEOREM CriticalEarliestMeetsLinks == AnalysisSpec => []EarliestMeetsLinks
<1>1. ControlOK /\ ForwardOK => EarliestMeetsLinks
  <2> SUFFICES ASSUME ControlOK, ForwardOK, phase = "backward" \/ result = "Critical"
               PROVE  Meets(earliest)
    BY DEF EarliestMeetsLinks
  <2>1. PlanOK /\ earliest \in [Nodes -> Nat] /\ MeetsStarts(earliest)
    BY DEF ControlOK, ForwardOK, PlanOK
  <2>2. earliest \in [Nodes -> Int]
    BY <2>1
  <2> QED
    BY <2>1, <2>2, MeetsByStarts
<1> QED
  BY <1>1, ControlInvariant, ForwardInvariant, PTL

\* Nothing can start before its earliest start, whatever the kinds and lags of
\* its links (forward_pass keeps the largest push).
THEOREM CriticalEarliestLeast == AnalysisSpec => []EarliestLeast
<1>1. ControlOK /\ ForwardOK => EarliestLeast
  <2> SUFFICES ASSUME ControlOK, ForwardOK, result = "Critical",
                      NEW start \in [Nodes -> Horizon], Meets(start), NEW n \in Nodes
               PROVE  start[n] >= earliest[n]
    BY DEF EarliestLeast
  <2>1. PlanOK /\ Least(earliest)
    BY DEF ControlOK, ForwardOK, PlanOK
  <2>2. Horizon \subseteq Nat
    BY DEF Horizon
  <2>3. start \in [Nodes -> Nat] /\ start \in [Nodes -> Int]
    <3>1. \A m \in Nodes : start[m] \in Nat
      BY <2>2
    <3>2. start = [m \in Nodes |-> start[m]]
      OBVIOUS
    <3> QED
      BY <3>1, <3>2
  <2> QED
    BY <2>1, <2>3, MeetsByStarts DEF Least
<1> QED
  BY <1>1, ControlInvariant, ForwardInvariant, PTL

(***************************************************************************)
(* The backward pass                                                       *)
(***************************************************************************)
LEMMA FinishOf ==
    ASSUME PlanOK, earliest \in [Nodes -> Nat]
    PROVE  ProjectFinish \in Nat /\ \A n \in Nodes : earliest[n] + Duration(n) <= ProjectFinish
<1>. DEFINE f == [n \in Nodes |-> earliest[n] + Duration(n)]
            finishes == {earliest[n] + Duration(n) : n \in Nodes}
            S == {0} \cup finishes
<1>1. \A n \in Nodes : earliest[n] + Duration(n) \in Nat
  BY GraphOf
<1>2. IsFiniteSet(finishes)
  <2>1. f \in [Nodes -> Int]
    BY <1>1
  <2>2. IsFiniteSet({f[n] : n \in Nodes})
    <3>. HIDE DEF f
    <3> QED
      BY <2>1, GraphOf, ImageOfLinks
  <2>3. {f[n] : n \in Nodes} = finishes
    OBVIOUS
  <2> QED
    BY <2>2, <2>3
<1>3. \A x \in finishes : x \in Nat
  BY <1>1
<1>4. IsFiniteSet(S) /\ S \in SUBSET Int /\ S # {} /\ S \subseteq Nat
  <2>. HIDE DEF finishes
  <2>1. IsFiniteSet(finishes \cup {0})
    BY <1>2, FS_AddElement
  <2>2. S = finishes \cup {0}
    OBVIOUS
  <2>3. \A x \in S : x \in Nat
    BY <1>3
  <2>. HIDE DEF S
  <2>4. S # {}
    BY <2>2
  <2> QED
    BY <2>1, <2>2, <2>3, <2>4
<1>5. Max(S) \in S /\ \A y \in S : Max(S) >= y
  <2>. HIDE DEF S
  <2> QED
    BY <1>4, MaxOf
<1>6. ProjectFinish = Max(S)
  BY DEF ProjectFinish
<1>. HIDE DEF f
<1>7. ProjectFinish \in Nat
  BY <1>4, <1>5, <1>6
<1>8. \A x \in finishes : ProjectFinish >= x
  BY <1>5, <1>6
<1>9. \A n \in Nodes : ProjectFinish >= earliest[n] + Duration(n)
  BY <1>8
<1> QED
  BY <1>1, <1>7, <1>9

LEMMA LatestStartOf ==
    ASSUME PlanOK, earliest \in [Nodes -> Nat], latest \in [Nodes -> Int], NEW n \in Nodes
    PROVE  /\ LatestStart(n) \in Int
           /\ Out(n) = {} => LatestStart(n) = ProjectFinish - Duration(n)
           /\ \A k \in Out(n) : LatestStart(n) <= latest[Target(k)] - Weight(k)
           /\ Out(n) # {} => \E k \in Out(n) : LatestStart(n) = latest[Target(k)] - Weight(k)
<1>1. CASE Out(n) = {}
  <2>1. LatestStart(n) = ProjectFinish - Duration(n)
    BY <1>1 DEF LatestStart
  <2>2. ProjectFinish \in Nat /\ Duration(n) \in Nat
    BY FinishOf, GraphOf
  <2> QED
    BY <1>1, <2>1, <2>2
<1>2. CASE Out(n) # {}
  <2>. DEFINE f == [k \in Out(n) |-> latest[Target(k)] - Weight(k)]
              S == {latest[Target(k)] - Weight(k) : k \in Out(n)}
  <2>1. IsFiniteSet(Out(n)) /\ Out(n) \subseteq Links
    <3>1. IsFiniteSet(Links) /\ Out(n) \in SUBSET Links
      BY GraphOf DEF Out
    <3> QED
      BY <3>1, FS_Subset
  <2>2. \A k \in Out(n) : latest[Target(k)] - Weight(k) \in Int
    <3> SUFFICES ASSUME NEW k \in Out(n) PROVE latest[Target(k)] - Weight(k) \in Int
      OBVIOUS
    <3>1. k \in Links /\ Target(k) \in Nodes
      BY <2>1, GraphOf
    <3>2. Weight(k) \in Int
      BY <3>1, WeightOf
    <3>3. latest[Target(k)] \in Int
      BY <3>1
    <3> QED
      BY <3>2, <3>3
  <2>3. f \in [Out(n) -> Int] /\ {f[k] : k \in Out(n)} = S
    BY <2>2
  <2>4. IsFiniteSet(S)
    <3>. HIDE DEF f, S
    <3> QED
      BY <2>1, <2>3, ImageOfLinks
  <2>5. S \in SUBSET Int /\ S # {}
    BY <1>2, <2>2
  <2>6. LatestStart(n) = Min(S)
    BY <1>2 DEF LatestStart
  <2>. HIDE DEF f
  <2>7. Min(S) \in S /\ \A y \in S : Min(S) <= y
    <3>. HIDE DEF S
    <3> QED
      BY <2>4, <2>5, MinOf
  <2>8. LatestStart(n) \in Int
    BY <2>5, <2>6, <2>7
  <2>9. \A k \in Out(n) : LatestStart(n) <= latest[Target(k)] - Weight(k)
    BY <2>6, <2>7
  <2>10. \E k \in Out(n) : LatestStart(n) = latest[Target(k)] - Weight(k)
    BY <2>6, <2>7
  <2> QED
    BY <1>2, <2>8, <2>9, <2>10
<1> QED
  BY <1>1, <1>2

\* A schedule, early or late, within the project's finish.
Feasible(start) ==
    MeetsStarts(start) /\ \A n \in Nodes : start[n] + Duration(n) <= ProjectFinish

Sequential == \A k \in Links : plan.links[k].kind = "finish-start" /\ plan.links[k].lag_days >= 0

\* What the pass has settled for a task: its latest start is bounded by its
\* successors alone, bounds every feasible schedule, and in a plan of sequences
\* lets it finish with the project.
Settled(n) ==
    /\ latest[n] = LatestStart(n)
    /\ \A start \in [Nodes -> Int] : Feasible(start) => start[n] <= latest[n]
    /\ Sequential => latest[n] + Duration(n) <= ProjectFinish

BackwardOK ==
    /\ phase = "backward" =>
          /\ latest \in [Nodes -> Int] /\ at \in 0..Len(order)
          /\ \A i \in (at + 1)..Len(order) : Settled(order[i])
    /\ result = "Critical" => latest \in [Nodes -> Int] /\ \A n \in Nodes : Settled(n)

\* Whoever waits for a task stands behind it.
LEMMA SuccessorsBehind ==
    ASSUME PlanOK, OrderOK, Placed = Nodes, NEW i \in 1..Len(order), NEW k \in Out(order[i])
    PROVE  \E j \in (i + 1)..Len(order) : order[j] = Target(k)
<1>1. order \in Seq(Nodes) /\ Len(order) \in Nat /\ DOMAIN order = 1..Len(order)
  BY DEF OrderOK
<1>2. k \in Links /\ Source(k) = order[i] /\ Target(k) \in Placed
  BY GraphOf DEF Out
<1>3. PICK j \in 1..Len(order) : order[j] = Target(k)
  BY <1>1, <1>2 DEF Placed
<1>4. PICK h \in 1..Len(order) : h < j /\ order[h] = Source(k)
  BY <1>1, <1>2, <1>3 DEF OrderOK
<1>5. h = i
  BY <1>1, <1>2, <1>4 DEF OrderOK
<1> QED
  BY <1>1, <1>3, <1>4, <1>5

LEMMA FinishStays ==
    ASSUME UNCHANGED <<plan, earliest>>
    PROVE  ProjectFinish' = ProjectFinish
<1>1. Nodes' = Nodes /\ (\A n : Duration(n)' = Duration(n)) /\ earliest' = earliest
  BY PlanStays
<1> QED
  BY <1>1, Zenon DEF ProjectFinish

\* The latest start of a task depends on those of its successors alone.
LEMMA LatestStays ==
    ASSUME UNCHANGED <<plan, earliest>>, NEW n, \A k \in Out(n) : latest'[Target(k)] = latest[Target(k)]
    PROVE  LatestStart(n)' = LatestStart(n)
<1>1. ProjectFinish' = ProjectFinish
  BY FinishStays
<1>2. /\ Out(n)' = Out(n) /\ Duration(n)' = Duration(n)
      /\ \A k : Target(k)' = Target(k) /\ Weight(k)' = Weight(k)
  BY PlanStays
<1>3. {latest'[Target(k)] - Weight(k) : k \in Out(n)} = {latest[Target(k)] - Weight(k) : k \in Out(n)}
  OBVIOUS
<1>4. LatestStart(n)' = IF Out(n) = {} THEN ProjectFinish - Duration(n)
                        ELSE Min({latest'[Target(k)] - Weight(k) : k \in Out(n)})
  BY <1>1, <1>2 DEF LatestStart
<1> QED
  BY <1>3, <1>4, Zenon DEF LatestStart

\* Settling a task leaves the settled ones, all behind it, as they were.
LEMMA SettledStays ==
    ASSUME PlanOK, UNCHANGED <<plan, earliest>>, NEW n \in Nodes, Settled(n), latest'[n] = latest[n],
           \A k \in Out(n) : latest'[Target(k)] = latest[Target(k)]
    PROVE  Settled(n)'
<1>1. ProjectFinish' = ProjectFinish
  BY FinishStays
<1>2. LatestStart(n)' = LatestStart(n)
  BY LatestStays
<1>3. \A start : Feasible(start)' <=> Feasible(start)
  BY <1>1, PlanStays DEF Feasible, MeetsStarts
<1>4. (Sequential' <=> Sequential) /\ Duration(n)' = Duration(n) /\ Nodes' = Nodes
  BY PlanStays DEF Sequential
<1> QED
  BY <1>1, <1>2, <1>3, <1>4 DEF Settled

\* The turn of the loop settles its task, from the settled successors.
LEMMA TurnSettles ==
    ASSUME PlanOK, OrderOK, Placed = Nodes, earliest \in [Nodes -> Nat], latest \in [Nodes -> Int],
           at \in 1..Len(order), \A i \in (at + 1)..Len(order) : Settled(order[i]),
           latest' = [latest EXCEPT ![order[at]] = LatestStart(order[at])],
           UNCHANGED <<plan, earliest, order>>
    PROVE  latest' \in [Nodes -> Int] /\ \A i \in at..Len(order) : Settled(order[i])'
<1>0. PICK n : n = order[at]
  OBVIOUS
<1>1. /\ order \in [1..Len(order) -> Nodes] /\ Len(order) \in Nat /\ n \in Nodes
      /\ \A i, j \in 1..Len(order) : order[i] = order[j] => i = j
  BY <1>0 DEF OrderOK
<1>2. LatestStart(n) \in Int
  BY <1>1, LatestStartOf
<1>3. latest' \in [Nodes -> Int] /\ latest'[n] = LatestStart(n)
      /\ \A m \in Nodes : m # n => latest'[m] = latest[m]
  BY <1>0, <1>1, <1>2
<1>4. \A i \in (at + 1)..Len(order) : order[i] \in Nodes /\ order[i] # n
  BY <1>0, <1>1
<1>5. ASSUME NEW i \in at..Len(order), NEW k \in Out(order[i])
      PROVE  latest'[Target(k)] = latest[Target(k)] /\ Settled(Target(k)) /\ k \in Links
  <2>1. i \in 1..Len(order)
    BY <1>1
  <2>2. PICK j \in (i + 1)..Len(order) : order[j] = Target(k)
    BY <2>1, SuccessorsBehind
  <2>3. j \in (at + 1)..Len(order)
    BY <1>1, <2>1, <2>2
  <2> QED
    BY <1>3, <1>4, <2>2, <2>3 DEF Out
<1>6. ASSUME NEW i \in (at + 1)..Len(order) PROVE Settled(order[i])'
  <2>1. i \in at..Len(order)
    BY <1>1
  <2>2. \A k \in Out(order[i]) : latest'[Target(k)] = latest[Target(k)]
    BY <1>5, <2>1
  <2>3. order[i] \in Nodes /\ latest'[order[i]] = latest[order[i]] /\ Settled(order[i])
    BY <1>3, <1>4
  <2>4. \A m \in Nodes : Settled(m) /\ latest'[m] = latest[m]
           /\ (\A k \in Out(m) : latest'[Target(k)] = latest[Target(k)]) => Settled(m)'
    BY SettledStays
  <2>5. order' = order
    OBVIOUS
  <2> QED
    BY <2>2, <2>3, <2>4, <2>5
<1>7. \A k \in Out(n) : latest'[Target(k)] = latest[Target(k)] /\ Settled(Target(k)) /\ k \in Links
  BY <1>0, <1>1, <1>5
<1>8. ProjectFinish \in Nat /\ Duration(n) \in Nat
  BY <1>1, FinishOf, GraphOf
<1>9. \A k \in Out(n) : /\ Source(k) = n /\ Target(k) \in Nodes /\ Weight(k) \in Int
                        /\ latest[Target(k)] \in Int
  BY <1>7, GraphOf, WeightOf DEF Out
<1>10. ASSUME NEW start \in [Nodes -> Int], Feasible(start) PROVE start[n] <= LatestStart(n)
  <2>1. CASE Out(n) = {}
    <3>1. start[n] + Duration(n) <= ProjectFinish /\ start[n] \in Int
      BY <1>1, <1>10 DEF Feasible
    <3>2. LatestStart(n) = ProjectFinish - Duration(n)
      BY <1>1, <2>1, LatestStartOf
    <3> QED
      BY <1>8, <3>1, <3>2
  <2>2. CASE Out(n) # {}
    <3>1. PICK k \in Out(n) : LatestStart(n) = latest[Target(k)] - Weight(k)
      BY <1>1, <2>2, LatestStartOf
    <3>2. start[Target(k)] <= latest[Target(k)] /\ start[Target(k)] >= start[n] + Weight(k)
      BY <1>7, <1>9, <1>10 DEF Settled, Feasible, MeetsStarts
    <3>3. start[Target(k)] \in Int /\ start[n] \in Int
      BY <1>1, <1>9
    <3> QED
      BY <1>9, <3>1, <3>2, <3>3
  <2> QED
    BY <2>1, <2>2
<1>11. ASSUME Sequential PROVE LatestStart(n) + Duration(n) <= ProjectFinish
  <2>1. CASE Out(n) = {}
    <3>1. LatestStart(n) = ProjectFinish - Duration(n)
      BY <1>1, <2>1, LatestStartOf
    <3> QED
      BY <1>8, <3>1
  <2>2. CASE Out(n) # {}
    <3>1. PICK k \in Out(n) : LatestStart(n) = latest[Target(k)] - Weight(k)
      BY <1>1, <2>2, LatestStartOf
    <3>2. latest[Target(k)] + Duration(Target(k)) <= ProjectFinish
      BY <1>7, <1>11 DEF Settled
    <3>3. /\ Weight(k) = Duration(n) + plan.links[k].lag_days
          /\ plan.links[k].lag_days >= 0 /\ plan.links[k].lag_days \in Int /\ Duration(Target(k)) \in Nat
      BY <1>7, <1>9, <1>11, WeightOf, GraphOf DEF Sequential
    <3>4. latest[Target(k)] \in Int
      BY <1>9
    <3>5. LatestStart(n) = latest[Target(k)] - (Duration(n) + plan.links[k].lag_days)
      BY <3>1, <3>3
    <3>6. LatestStart(n) + Duration(n) = latest[Target(k)] - plan.links[k].lag_days
      BY <1>8, <3>3, <3>4, <3>5
    <3>7. latest[Target(k)] - plan.links[k].lag_days <= latest[Target(k)]
      BY <3>3, <3>4
    <3>8. latest[Target(k)] <= ProjectFinish
      BY <1>8, <3>2, <3>3, <3>4
    <3>9. latest[Target(k)] - plan.links[k].lag_days \in Int
      BY <3>3, <3>4
    <3> QED
      BY <1>8, <3>4, <3>6, <3>7, <3>8, <3>9
  <2> QED
    BY <2>1, <2>2
<1>12. LatestStart(n)' = LatestStart(n)
  BY <1>7, LatestStays
<1>13. Settled(n)'
  <2>1. ProjectFinish' = ProjectFinish
    BY FinishStays
  <2>2. \A start : Feasible(start)' <=> Feasible(start)
    BY <2>1, PlanStays DEF Feasible, MeetsStarts
  <2>3. (Sequential' <=> Sequential) /\ Duration(n)' = Duration(n) /\ Nodes' = Nodes
    BY PlanStays DEF Sequential
  <2> QED
    BY <1>3, <1>10, <1>11, <1>12, <2>1, <2>2, <2>3 DEF Settled
<1>14. \A i \in at..Len(order) : i = at \/ i \in (at + 1)..Len(order)
  BY <1>1
<1> QED
  BY <1>0, <1>3, <1>6, <1>13, <1>14

LEMMA NextBackwardOK ==
    ControlOK /\ SortOK /\ ForwardOK /\ BackwardOK /\ [AnalysisNext]_analysisVars => BackwardOK'
<1> SUFFICES ASSUME ControlOK, SortOK, ForwardOK, BackwardOK, [AnalysisNext]_analysisVars
             PROVE  BackwardOK'
  OBVIOUS
<1>1. CASE Forward
  <2>1. PlanOK /\ OrderOK /\ phase = "forward" /\ result' # "Critical"
    BY <1>1 DEF Forward, ControlOK, PlanOK, SortOK, Scheduling
  <2>2. CASE phase' = "backward"
    <3>1. /\ latest' = [n \in Nodes |-> ProjectFinish] /\ at' = Len(order)
          /\ order' = order /\ Nodes' = Nodes /\ earliest \in [Nodes -> Nat]
      BY <1>1, <2>1, <2>2, PlanStays DEF Forward, ForwardOK
    <3>2. Len(order) \in Nat /\ ProjectFinish \in Int
      BY <2>1, <3>1, FinishOf DEF OrderOK
    <3>3. latest' \in [Nodes' -> Int]
      BY <3>1, <3>2
    <3>4. at' \in 0..Len(order') /\ (at' + 1)..Len(order') = {}
      BY <3>1, <3>2
    <3> QED
      BY <2>1, <3>3, <3>4 DEF BackwardOK
  <2> QED
    BY <2>1, <2>2 DEF BackwardOK
<1>2. CASE Backward
  <2>1. /\ PlanOK /\ OrderOK /\ Placed = Nodes /\ phase = "backward" /\ result # "Critical"
        /\ UNCHANGED <<plan, earliest, order>> /\ Nodes' = Nodes
    BY <1>2, PlanStays DEF Backward, ControlOK, PlanOK, SortOK, Scheduling
  <2>2. /\ earliest \in [Nodes -> Nat] /\ latest \in [Nodes -> Int] /\ at \in 0..Len(order)
        /\ \A i \in (at + 1)..Len(order) : Settled(order[i])
    BY <2>1 DEF ForwardOK, BackwardOK
  <2>3. Len(order) \in Nat /\ DOMAIN order = 1..Len(order)
    BY <2>1 DEF OrderOK
  <2>4. CASE at >= 1 /\ UNCHANGED <<phase, result>>
    <3>1. latest' = [latest EXCEPT ![order[at]] = LatestStart(order[at])] /\ at' = at - 1
      BY <1>2, <2>2, <2>3, <2>4 DEF Backward
    <3>2. at \in 1..Len(order)
      BY <2>2, <2>3, <2>4
    <3>3. latest' \in [Nodes -> Int] /\ \A i \in at..Len(order) : Settled(order[i])'
      BY <2>1, <2>2, <3>1, <3>2, TurnSettles
    <3>4. at' \in 0..Len(order) /\ at' + 1 = at
      BY <2>3, <3>1, <3>2
    <3>5. \A i \in (at' + 1)..Len(order') : Settled(order[i])'
      BY <2>1, <3>3, <3>4
    <3> QED
      BY <2>1, <2>4, <3>3, <3>4, <3>5 DEF BackwardOK
  <2>5. CASE at < 1 /\ phase' = "done" /\ latest' = latest
    <3>1. at + 1 = 1
      BY <2>2, <2>3, <2>5
    <3>2. \A n \in Nodes : Settled(n)
      BY <2>1, <2>2, <2>3, <3>1 DEF Placed
    <3>3. \A n \in Nodes : Settled(n)'
      <4>1. \A n \in Nodes : LatestStart(n)' = LatestStart(n)
        BY <2>1, <2>5, LatestStays
      <4>2. \A n \in Nodes : Settled(n)'
        BY <2>1, <2>5, <3>2, SettledStays
      <4> QED
        BY <4>2
    <3>4. latest' \in [Nodes' -> Int] /\ \A n \in Nodes' : Settled(n)'
      BY <2>1, <2>2, <2>5, <3>3
    <3> QED
      BY <2>5, <3>4 DEF BackwardOK
  <2> QED
    BY <1>2, <2>2, <2>3, <2>4, <2>5 DEF Backward
<1>3. CASE UNCHANGED analysisVars
  <2>1. UNCHANGED <<plan, order, earliest, latest, at, phase, result>> /\ Nodes' = Nodes
    BY <1>3, PlanStays DEF analysisVars
  <2>2. \A n : Settled(n)' <=> Settled(n)
    <3>1. ProjectFinish' = ProjectFinish /\ \A n : LatestStart(n)' = LatestStart(n)
      BY <2>1, FinishStays, LatestStays
    <3>2. \A start : Feasible(start)' <=> Feasible(start)
      BY <2>1, <3>1, PlanStays DEF Feasible, MeetsStarts
    <3>3. (Sequential' <=> Sequential) /\ \A n : Duration(n)' = Duration(n)
      BY <2>1, PlanStays DEF Sequential
    <3> QED
      BY <2>1, <3>1, <3>2, <3>3 DEF Settled
  <2> QED
    BY <2>1, <2>2 DEF BackwardOK
<1>4. CASE Validate \/ EnsureAcyclic \/ EndSort \/ \E n \in ready : PopReady(n)
  BY <1>4 DEF Validate, EnsureAcyclic, PopReady, EndSort, BackwardOK, ControlOK
<1> QED
  BY <1>1, <1>2, <1>3, <1>4 DEF AnalysisNext, Done

LEMMA BackwardInvariant == AnalysisSpec => []BackwardOK
<1>1. AnalysisInit => BackwardOK
  BY DEF AnalysisInit, BackwardOK
<1> QED
  BY <1>1, NextBackwardOK, ControlInvariant, SortInvariant, ForwardInvariant, PTL DEF AnalysisSpec

\* In a plan of sequences the latest starts are themselves a schedule.
LEMMA LatestFeasible ==
    ASSUME PlanOK, Sequential, earliest \in [Nodes -> Nat], MeetsStarts(earliest),
           latest \in [Nodes -> Int], \A n \in Nodes : Settled(n)
    PROVE  /\ \A n \in Nodes : earliest[n] <= latest[n]
           /\ latest \in [Nodes -> Horizon] /\ Feasible(latest)
<1>1. ProjectFinish \in Nat /\ \A n \in Nodes : earliest[n] + Duration(n) <= ProjectFinish
  BY FinishOf
<1>2. earliest \in [Nodes -> Int] /\ Feasible(earliest)
  BY <1>1 DEF Feasible
<1>3. \A n \in Nodes : earliest[n] <= latest[n]
  BY <1>2 DEF Settled
<1>4. \A n \in Nodes : latest[n] + Duration(n) <= ProjectFinish /\ Duration(n) \in Nat
  BY GraphOf DEF Settled
<1>5. \A n \in Nodes : latest[n] \in Horizon
  <2> SUFFICES ASSUME NEW n \in Nodes PROVE latest[n] \in 0..ProjectFinish
    BY DEF Horizon
  <2>1. latest[n] \in Int /\ earliest[n] \in Nat
    OBVIOUS
  <2> QED
    BY <1>1, <1>3, <1>4, <2>1
<1>6. latest \in [Nodes -> Horizon]
  BY <1>5
<1>7. MeetsStarts(latest)
  <2> SUFFICES ASSUME NEW k \in Links PROVE latest[Target(k)] >= latest[Source(k)] + Weight(k)
    BY DEF MeetsStarts
  <2>1. Source(k) \in Nodes /\ Target(k) \in Nodes /\ k \in Out(Source(k)) /\ Weight(k) \in Int
    BY GraphOf, WeightOf DEF Out
  <2>2. latest[Source(k)] <= latest[Target(k)] - Weight(k)
    BY <2>1, LatestStartOf DEF Settled
  <2>3. latest[Source(k)] \in Int /\ latest[Target(k)] \in Int
    BY <2>1
  <2> QED
    BY <2>1, <2>2, <2>3
<1> QED
  BY <1>3, <1>4, <1>6, <1>7 DEF Feasible

\* critical_tasks returns the tasks without slack and no others, in every plan
\* whose tasks wait for their predecessors to finish.
THEOREM CriticalZeroSlackInSequence == AnalysisSpec => []CriticalIsZeroSlackInSequence
<1>1. ControlOK /\ ForwardOK /\ BackwardOK => CriticalIsZeroSlackInSequence
  <2> SUFFICES ASSUME ControlOK, ForwardOK, BackwardOK, Sequential, result = "Critical", NEW n \in Nodes
               PROVE  n \in Critical <=> n \in ZeroSlack
    BY DEF CriticalIsZeroSlackInSequence, CriticalIsZeroSlack, Sequential, Critical, ZeroSlack
  <2>1. /\ PlanOK /\ earliest \in [Nodes -> Nat] /\ MeetsStarts(earliest)
        /\ latest \in [Nodes -> Int] /\ \A m \in Nodes : Settled(m)
    BY DEF ControlOK, PlanOK, ForwardOK, BackwardOK
  <2>2. /\ \A m \in Nodes : earliest[m] <= latest[m]
        /\ latest \in [Nodes -> Horizon] /\ Feasible(latest)
    BY <2>1, LatestFeasible
  <2>3. ASSUME NEW start \in [Nodes -> Horizon]
        PROVE  start \in [Nodes -> Int]
    <3>1. \A m \in Nodes : start[m] \in Int
      BY DEF Horizon
    <3>2. start = [m \in Nodes |-> start[m]]
      OBVIOUS
    <3> QED
      BY <3>1, <3>2
  <2>4. HasSlack(n) <=> \E start \in [Nodes -> Horizon] : Feasible(start) /\ start[n] > earliest[n]
    <3>1. \A start \in [Nodes -> Horizon] : Meets(start) <=> MeetsStarts(start)
      BY <2>1, <2>3, MeetsByStarts
    <3> QED
      BY <3>1 DEF HasSlack, Feasible
  <2>5. earliest[n] \in Int /\ latest[n] \in Int
    BY <2>1
  <2>6. CASE earliest[n] = latest[n]
    <3>1. \A start \in [Nodes -> Horizon] : Feasible(start) => start[n] <= latest[n] /\ start[n] \in Int
      BY <2>1, <2>3 DEF Settled
    <3>2. ~HasSlack(n)
      BY <2>4, <2>5, <2>6, <3>1
    <3> QED
      BY <2>6, <3>2 DEF Critical, ZeroSlack
  <2>7. CASE earliest[n] # latest[n]
    <3>1. latest[n] > earliest[n]
      BY <2>2, <2>5, <2>7
    <3>2. HasSlack(n)
      BY <2>2, <2>4, <3>1
    <3> QED
      BY <2>7, <3>2 DEF Critical, ZeroSlack
  <2> QED
    BY <2>6, <2>7
<1> QED
  BY <1>1, ControlInvariant, ForwardInvariant, BackwardInvariant, PTL
===============================================================================
