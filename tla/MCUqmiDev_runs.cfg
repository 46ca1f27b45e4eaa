SPECIFICATION FairSpec
CONSTANTS
    Services = {2, 3}
    Invocations <- ScriptLines
    Cids = {1, 2}
    CtlTids = 256
    ServiceTids = 65536
    MaxRuns = 2
    MaxFaults = 2
INVARIANTS
    TypeOK
    AnswersReachTheirRequest
    RunLeavesNoTrace
    SendsUnderItsOwnCid
    StopsWhenItGivesUp
PROPERTIES
    RunsEnd
    TimeoutStopsCommands
CHECK_DEADLOCK FALSE
