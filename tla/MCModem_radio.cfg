SPECIFICATION Spec
CONSTANTS
    InOrder = TRUE
    Given <- NoPin
    Cards <- OpenCard
    Faulty = {}
    Offered <- OfferAll
    Radios = {"online"}
    Links <- FreshLink
    MaxAsked = 2
INVARIANT SearchesWithRadioOn
CHECK_DEADLOCK FALSE
