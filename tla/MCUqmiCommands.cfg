CONSTANTS
    Families <- FamiliesValue
    Delivered <- DeliveredValue
SPECIFICATION Spec
INVARIANTS
    CommandsTypeOK
    SendsWhatTheLineSays
    CarriesTheOptionsGiven
    SelectsTheNetworkGiven
    CommandsDoNotInterfere
    ShowsTheAnswerOnce
    ReadsTheTextSent
