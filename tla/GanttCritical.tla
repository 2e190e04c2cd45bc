---------------------------- MODULE GanttCritical ----------------------------
(***************************************************************************)
(* critical_tasks of sim-lib-gantt (critical.rs): validation, the schedule *)
(* graph, the cycle test, Kahn's topological sort, the forward pass of     *)
(* earliest starts and the backward pass of latest starts.  One step per   *)
(* phase or per turn of a loop, from any plan a caller may hand in.        *)
(*                                                                         *)
(* Tasks are numbered as in plan.tasks and the nodes of the graph are the  *)
(* numbers.  The sort's queue is the set of its members, popped in any     *)
(* order: the results do not depend on it.                                 *)
(***************************************************************************)
EXTENDS GanttPlan, FiniteSetsExt

CONSTANT AnalysedPlan    \* the plans callers hand to critical_tasks

ASSUME AnalysedPlanAssumption == AnalysedPlan \subseteq Plan

VARIABLES
    plan,
    phase,       \* "validate", "cycles", "sort", "forward", "backward", "done"
    indegree, ready, order,
    earliest, latest,
    at,          \* position of the running pass in the order
    result       \* "", "Invalid", "Cycle", or the set of critical tasks

analysisVars == <<plan, phase, indegree, ready, order, earliest, latest, at, result>>

Nodes == DOMAIN plan.tasks
Links == DOMAIN plan.links
Duration(n) == plan.tasks[n].duration
Node(id) == CHOOSE n \in Nodes : plan.tasks[n].id = id
Source(k) == Node(plan.links[k].predecessor)
Target(k) == Node(plan.links[k].successor)

\* Mutant of Weight: the successor's duration is not taken off.
WeightToStart(k) ==
    LET link == plan.links[k]
    IN CASE link.kind \in {"finish-start", "finish-finish"} ->
                Duration(Source(k)) + link.lag_days
         [] OTHER -> link.lag_days

\* constraint_weight: the least distance from start to start a link imposes.
Weight(k) ==
    LET link == plan.links[k]
    IN CASE link.kind = "finish-start" -> Duration(Source(k)) + link.lag_days
         [] link.kind = "start-start" -> link.lag_days
         [] link.kind = "finish-finish" ->
                Duration(Source(k)) + link.lag_days - Duration(Target(k))
         [] link.kind = "start-finish" -> link.lag_days - Duration(Target(k))

Out(n) == {k \in Links : Source(k) = n}

AnalysisInit ==
    /\ plan \in AnalysedPlan
    /\ phase = "validate"
    /\ indegree = <<>> /\ ready = {} /\ order = <<>>
    /\ earliest = <<>> /\ latest = <<>>
    /\ at = 0
    /\ result = ""

Validate ==
    /\ phase = "validate"
    /\ \/ ValidPlan(plan) /\ phase' = "cycles" /\ UNCHANGED result
       \/ ~ValidPlan(plan) /\ phase' = "done" /\ result' = "Invalid"
    /\ UNCHANGED <<plan, indegree, ready, order, earliest, latest, at>>

\* Two nodes in one component of the graph crate's strongly connected
\* components (external): each is in every link-closed set holding the other.
Reaches(m, n) ==
    \A S \in SUBSET Nodes :
        (m \in S /\ \A k \in Links : Source(k) \in S => Target(k) \in S) => n \in S

\* Mutant of Cyclic: only loops of one task are looked for.
SelfLinked == \E k \in Links : Source(k) = Target(k)

Cyclic ==
    \/ \E k \in Links : Source(k) = Target(k)
    \/ \E m, n \in Nodes : m # n /\ Reaches(m, n) /\ Reaches(n, m)

\* Mutant of InDegree: parallel links are counted in once.
InDegreeOnce(n) == Cardinality({Source(k) : k \in {l \in Links : Target(l) = n}})

InDegree(n) == Cardinality({k \in Links : Target(k) = n})

EnsureAcyclic ==
    /\ phase = "cycles"
    /\ \/ /\ Cyclic
          /\ phase' = "done" /\ result' = "Cycle"
          /\ UNCHANGED <<indegree, ready>>
       \/ /\ ~Cyclic
          /\ phase' = "sort"
          /\ indegree' = [n \in Nodes |-> InDegree(n)]
          /\ ready' = {n \in Nodes : indegree'[n] = 0}
          /\ UNCHANGED result
    /\ UNCHANGED <<plan, order, earliest, latest, at>>

\* One turn of the sort's loop: pop a node, release its successors.  A task
\* linked twice to the same successor counts twice in both places.
PopReady(n) ==
    /\ phase = "sort"
    /\ n \in ready
    /\ order' = Append(order, n)
    /\ indegree' = [m \in Nodes |->
                       indegree[m] - Cardinality({k \in Out(n) : Target(k) = m})]
    /\ ready' = (ready \ {n}) \cup
                   {m \in Nodes : indegree'[m] = 0 /\ \E k \in Out(n) : Target(k) = m}
    /\ UNCHANGED <<plan, phase, earliest, latest, at, result>>

\* The queue is empty: every node sorted, or the second cycle error.
EndSort ==
    /\ phase = "sort"
    /\ ready = {}
    /\ \/ /\ Len(order) = Len(plan.tasks)
          /\ phase' = "forward"
          /\ earliest' = [n \in Nodes |-> 0]
          /\ at' = 1
          /\ UNCHANGED result
       \/ /\ Len(order) # Len(plan.tasks)
          /\ phase' = "done" /\ result' = "UnsortedCycle"
          /\ UNCHANGED <<earliest, at>>
    /\ UNCHANGED <<plan, indegree, ready, order, latest>>

\* Mutant of Pushed: the last predecessor decides, instead of the largest.
PushedLast(n, m) ==
    IF \E k \in Out(n) : Target(k) = m
    THEN Max({earliest[n] + Weight(k) : k \in {l \in Out(n) : Target(l) = m}})
    ELSE earliest[m]

\* The start of m once the links from n have been looked at.
Pushed(n, m) ==
    Max({earliest[m]} \cup {earliest[n] + Weight(k) : k \in {l \in Out(n) : Target(l) = m}})

ProjectFinish == Max({0} \cup {earliest[n] + Duration(n) : n \in Nodes})

Forward ==
    /\ phase = "forward"
    /\ \/ /\ at <= Len(order)
          /\ earliest' = [m \in Nodes |-> Pushed(order[at], m)]
          /\ at' = at + 1
          /\ UNCHANGED <<phase, latest>>
       \/ /\ at > Len(order)
          /\ phase' = "backward"
          /\ latest' = [n \in Nodes |-> ProjectFinish]
          /\ at' = Len(order)
          /\ UNCHANGED earliest
    /\ UNCHANGED <<plan, indegree, ready, order, result>>

\* Mutant of LatestStart: the loosest link decides, instead of the tightest.
LatestStartLoose(n) ==
    IF Out(n) = {} THEN ProjectFinish - Duration(n)
    ELSE Max({latest[Target(k)] - Weight(k) : k \in Out(n)})

\* Without successors a task may run up to the project's finish; with
\* successors only they bound it.
LatestStart(n) ==
    IF Out(n) = {} THEN ProjectFinish - Duration(n)
    ELSE Min({latest[Target(k)] - Weight(k) : k \in Out(n)})

\* The final filter of critical_tasks.
Critical == {n \in Nodes : earliest[n] = latest[n]}

Backward ==
    /\ phase = "backward"
    /\ \/ /\ at >= 1
          /\ latest' = [latest EXCEPT ![order[at]] = LatestStart(order[at])]
          /\ at' = at - 1
          /\ UNCHANGED <<phase, result>>
       \/ /\ at < 1
          /\ phase' = "done"
          /\ result' = "Critical"
          /\ UNCHANGED <<latest, at>>
    /\ UNCHANGED <<plan, indegree, ready, order, earliest>>

Done == phase = "done" /\ UNCHANGED analysisVars

AnalysisNext ==
    \/ Validate \/ EnsureAcyclic \/ EndSort \/ Forward \/ Backward \/ Done
    \/ \E n \in ready : PopReady(n)

AnalysisSpec == AnalysisInit /\ [][AnalysisNext]_analysisVars

(***************************************************************************)
(* Properties                                                              *)
(***************************************************************************)
\* A plan is refused as cyclic exactly when some of its tasks all wait for one
\* another; in particular the sort never gets stuck, and the second, empty
\* cycle error is unreachable.
Entangled ==
    \E S \in SUBSET Nodes : S # {} /\ \A n \in S : \E k \in Links : Target(k) = n /\ Source(k) \in S

CyclesRefused ==
    /\ result # "UnsortedCycle"
    /\ result = "Cycle" => Entangled
    /\ phase \in {"sort", "forward", "backward"} \/ result = "Critical" => ~Entangled

\* Once sorted, every task comes after all the tasks it is linked behind.
OrderTopological ==
    phase \in {"forward", "backward"} \/ result = "Critical" =>
        /\ Len(order) = Len(plan.tasks)
        /\ \A k \in Links : \E i, j \in DOMAIN order :
               i < j /\ order[i] = Source(k) /\ order[j] = Target(k)

\* A schedule meets every link, as model.rs states the four kinds.
Meets(start) ==
    \A k \in Links :
        LET pred == Source(k)
            succ == Target(k)
            link == plan.links[k]
            Finish(n) == start[n] + Duration(n)
        IN CASE link.kind = "finish-start"  -> start[succ] >= Finish(pred) + link.lag_days
             [] link.kind = "start-start"   -> start[succ] >= start[pred] + link.lag_days
             [] link.kind = "finish-finish" -> Finish(succ) >= Finish(pred) + link.lag_days
             [] link.kind = "start-finish"  -> Finish(succ) >= start[pred] + link.lag_days

\* The forward pass ends with a schedule that meets every link of every kind,
\* lead and lag.
EarliestMeetsLinks ==
    phase = "backward" \/ result = "Critical" => Meets(earliest)

\* No schedule that meets every link starts any task before its earliest start.
Horizon == 0..ProjectFinish

EarliestLeast ==
    result = "Critical" =>
        \A start \in [Nodes -> Horizon] : Meets(start) => \A n \in Nodes : start[n] >= earliest[n]

\* A task has slack when some schedule that meets every link and finishes no
\* later than the project starts it after its earliest start.
HasSlack(n) ==
    \E start \in [Nodes -> Horizon] :
        /\ Meets(start)
        /\ \A m \in Nodes : start[m] + Duration(m) <= ProjectFinish
        /\ start[n] > earliest[n]

ZeroSlack == {n \in Nodes : ~HasSlack(n)}

\* "Returns task ids that have zero slack on the local critical path"
\* (critical.rs:39): critical_tasks returns all of them and no others.
CriticalIsZeroSlack == result = "Critical" => Critical = ZeroSlack

\* The same for plans in which every task waits for its predecessors to finish.
CriticalIsZeroSlackInSequence ==
    (\A k \in Links : plan.links[k].kind = "finish-start" /\ plan.links[k].lag_days >= 0)
        => CriticalIsZeroSlack
==============================================================================
