SPECIFICATION Spec
CONSTANTS
    InOrder = TRUE
    Given <- AnyChoice
    Cards <- MixedCard
    Faulty = {}
    Offered <- OfferAll
    Radios = {"low"}
    Links <- FreshLink
    MaxAsked = 2
INVARIANT TriesOnlyWithSpareTries
CHECK_DEADLOCK FALSE
