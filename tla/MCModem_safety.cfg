SPECIFICATION Spec
CONSTANTS
    InOrder = FALSE
    Given <- AnyChoice
    Cards <- AnyCard
    Faulty <- AnyFault
    Offered <- OfferSome
    Radios = {"online"}
    Links <- UsedLink
    MaxAsked = 2
VIEW AnyOrder
INVARIANTS
    ModemTypeOK
    NoMissedSimReady
    TriesOnlyWithSpareTries
    CarriesOnlyRawIp
    SearchIsPolled
    CrashesOnlyForWantOfService
    ConnectsOnlyWithSim
PROPERTIES
    NeverBlocksCard
    LivesAsPromised
CHECK_DEADLOCK FALSE
