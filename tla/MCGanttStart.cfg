SPECIFICATION MCSpec
CONSTANTS
    Moves = {"analysis"}
    a = a
    b = b
    c = c
    z = z
    None = None
    TaskId = {a, b, c, z}
    Process = {p1, p2}
    PlanId = {i1}
    SavedPlan <- MCSavedPlan
    AnalysedPlan <- MCStartPlan
INVARIANT
    CriticalIsZeroSlack
