SPECIFICATION Spec
CONSTANTS
    InOrder = TRUE
    Given <- NoPin
    Cards <- OpenCard
    Faulty <- KernelRefuses
    Offered <- OfferAll
    Radios = {"online"}
    Links <- FreshLink
    MaxAsked = 2
INVARIANT UsesOnlyRawIp
CHECK_DEADLOCK FALSE
