SPECIFICATION Spec
CONSTANTS
    dms = dms
    nas = nas
    x1 = x1
    x2 = x2
    x3 = x3
    y1 = y1
    z1 = z1
    CTL = CTL
    NoCid = NoCid
    Services <- OneService
    Calls <- TwoCalls
    Target <- TwoTargets
    Cids = {c1, c2}
    TidMax <- WideTids
    Lossy = FALSE
INVARIANTS
    ForgottenModemIsClosed
CHECK_DEADLOCK FALSE
