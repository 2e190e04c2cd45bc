SPECIFICATION MCSpec
CONSTANTS
    Moves = {"store", "analysis"}
    a = a
    b = b
    c = c
    z = z
    None = None
    TaskId = {a, b, c, z}
    Process = {p1, p2}
    PlanId = {i1, i2}
    SavedPlan <- MCSavedPlan
    AnalysedPlan <- MCAnalysedPlan
INVARIANTS
    SnapshotsComplete
    ReplacementAdmitted
    CyclesRefused
    EarliestMeetsLinks
    EarliestLeast
    OrderTopological
    CriticalIsZeroSlackInSequence
PROPERTY
    LoadReturnsSaved
