SPECIFICATION Spec
CONSTANTS
    p1 = p1
    p2 = p2
    d1 = d1
    d2 = d2
    o1 = o1
    o2 = o2
    h1 = h1
    h2 = h2
    None = None
    Op = {o1, o2}
    Process = {p1}
    Creator = {p1}
    DocId = {d1}
    Body = {b1}
    Link = {}
    Hint = {}
    LedgerEdit <- MCOneEdit
    SuppliedEvidence <- MCNoEvidence
    SignedMax = 1
    SeqMax = 2
    InitialFile = {"absent"}
INVARIANT
    CreateOpens
