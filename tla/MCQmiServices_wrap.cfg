SPECIFICATION FairSpec
CONSTANTS
    dms = dms
    nas = nas
    x1 = x1
    x2 = x2
    x3 = x3
    y1 = y1
    z1 = z1
    CTL = CTL
    NoCid = NoCid
    Services <- OneService
    Calls <- ManyCalls
    Target <- ManyTargets
    Cids = {c1}
    TidMax <- NarrowTids
    Lossy = TRUE
INVARIANTS
    TidsSharedOnlyAfterWrap
    AnswersReachTheirRequest
    ListsAreExact
PROPERTIES
    ClosingEnds
CHECK_DEADLOCK FALSE
