SPECIFICATION Spec
CONSTANTS
    InOrder = TRUE
    Given <- AnyChoice
    Cards <- LockedCards
    Faulty = {}
    Offered <- OfferAll
    Radios = {"low"}
    Links <- FreshLink
    MaxAsked = 2
INVARIANT LeavesChvPin
CHECK_DEADLOCK FALSE
