SPECIFICATION FairSpec
CONSTANTS
    InOrder = TRUE
    Given <- NoPin
    Cards <- OpenCard
    Faulty = {}
    Offered <- OfferAll
    Radios = {"low"}
    Links <- FreshLink
    MaxAsked = 3
INVARIANT SearchesWithRadioOn
PROPERTY ReachesLive
CHECK_DEADLOCK FALSE
