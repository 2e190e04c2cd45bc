------------------------------- MODULE MCGantt -------------------------------
(* Small instances of the plan store and of the critical path analysis.  They *)
(* share the plan and its validation and no state, so a run moves one of the  *)
(* two, chosen at the start.                                                  *)
EXTENDS GanttStore, GanttCritical

CONSTANT Moves       \* the components that move, a set of names
VARIABLE moving

ASSUME MovesAssumption == Moves \subseteq {"store", "analysis"}

CONSTANTS a, b, c, z

Work(id) == [id |-> id, duration |-> 1]
Follows(p, s) == [predecessor |-> p, successor |-> s, kind |-> "finish-start", lag_days |-> 0]

\* Two versions of a plan that share one task, a plan without links, and a
\* plan that validation refuses.
MCSavedPlan ==
    {[tasks |-> <<Work(a), Work(b)>>, links |-> <<Follows(a, b), Follows(a, a)>>],
     [tasks |-> <<Work(b), Work(c)>>, links |-> <<Follows(b, c)>>],
     [tasks |-> <<Work(c)>>, links |-> <<>>],
     [tasks |-> <<Work(a)>>, links |-> <<Follows(a, b)>>]}

Tasks(durations) ==
    {<<[id |-> a, duration |-> x], [id |-> b, duration |-> y], [id |-> c, duration |-> w]>> :
        x \in durations, y \in durations, w \in durations}

Sequences(S, n) == UNION {[1..i -> S] : i \in 0..n}

LinksOf(ids, kinds, lags) ==
    {[predecessor |-> p, successor |-> s, kind |-> k, lag_days |-> l] :
        p \in ids, s \in ids, k \in kinds, l \in lags}

\* Three tasks of up to two days under up to three finish-to-start links.
MCSequentialPlan ==
    [tasks: Tasks({0, 2}), links: Sequences(LinksOf({a, b, c}, {"finish-start"}, {0, 1}), 3)]

\* Three tasks under up to two links of any kind, with lead and lag, and
\* plans that validation refuses: a task that ends before it starts, a
\* duplicate, a link to no task.
MCAnyPlan ==
    [tasks: Tasks({0, 2}), links: Sequences(LinksOf({a, b, c}, LinkKind, {-1, 1}), 2)]
    \cup [tasks: {<<[id |-> a, duration |-> -1]>>,
                  <<[id |-> a, duration |-> 1], [id |-> a, duration |-> 1]>>},
          links: {<<>>}]
    \cup [tasks: Tasks({1}), links: Sequences(LinksOf({a, z}, {"finish-start"}, {0}), 1)]

MCAnalysedPlan == MCSequentialPlan \cup MCAnyPlan

\* Two tasks joined by one start-to-start link.
MCStartPlan ==
    [tasks: {<<[id |-> a, duration |-> 2], [id |-> b, duration |-> 1]>>},
     links: Sequences(LinksOf({a, b}, {"start-start"}, {0}), 1)]

\* Where the analysis rests, one plan stands for all.
RestPlan == CHOOSE p \in AnalysedPlan : TRUE

MCInit ==
    /\ moving \in Moves
    /\ Init /\ AnalysisInit
    /\ moving # "analysis" => plan = RestPlan

MCNext ==
    /\ UNCHANGED moving
    /\ \/ moving = "store" /\ Next /\ UNCHANGED analysisVars
       \/ moving = "analysis" /\ AnalysisNext /\ UNCHANGED vars

MCSpec == MCInit /\ [][MCNext]_<<moving, vars, analysisVars>>
==============================================================================
