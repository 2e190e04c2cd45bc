SPECIFICATION MCSpec
CONSTANTS
    Moves = {"library"}
    c1 = c1
    c2 = c2
    pa = pa
    pb = pb
    p1 = p1
    p2 = p2
    u1 = u1
    u2 = u2
    b1 = b1
    b2 = b2
    t1 = t1
    x1 = x1
    x2 = x2
    fee = fee
    rent = rent
    v1 = v1
    v2 = v2
    d1 = d1
    d2 = d2
    mia = mia
    bo = bo
    None = None
    EditionId = {e1, e2}
    SpanId = {s1, s2}
    AnnotationId = {a1}
    ContentId = {c1, c2}
    Exact = {pa, pb}
    SuppliedRepresentation <- MCSuppliedRepresentation
    LicencePolicy <- MCLicencePolicy
    Stamp <- MCOffsetStamp
    Chars <- MCChars
    MaxRequest = 2
    Process = {p1, p2}
    AnchorId = {n1}
    Subject = {j1}
    Uri = {u1, u2}
    Body = {b1, b2}
    Codec = {"html5/1"}
    Passage = {t1}
    Context = {x1, x2}
    Text <- MCText
    Representation <- MCRepresentation
    Scenario <- MCScenario
    Row = {fee, rent}
    Voucher = {v1, v2}
    Amount <- MCAmount
    Inputs <- MCInputs
    CandidateList <- MCCandidateList
    Edit <- MCEdit
    MaxJournal = 2
    MaxEdits = 2
INVARIANT
    NoStaleQuotation
