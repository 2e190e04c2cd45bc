SPECIFICATION Spec
CONSTANTS
    p1 = p1
    p2 = p2
    d1 = d1
    d2 = d2
    o1 = o1
    o2 = o2
    h1 = h1
    h2 = h2
    None = None
    Op = {o1, o2}
    Process = {p1, p2}
    Creator = {p1, p2}
    DocId = {d1, d2}
    Body = {b1}
    Link = {1, 2}
    Hint = {h1, h2}
    LedgerEdit <- MCLedgerEdit
    SuppliedEvidence <- MCEvidence
    SignedMax = 1
    SeqMax = 2
    InitialFile = {"absent"}
SYMMETRY
    MCSymmetry
INVARIANTS
    ProjectionFollowsLedger
PROPERTIES
    CommittedSurvives
    UndoReversesLatest
    EvidenceComplete
    ImplementsProjection
