SPECIFICATION FairSpec
CONSTANTS
    Machine = {1, 2, 3, 4}
    Ticket = {1, 2, 3, 4, 5, 6}
    MAX_EXCHANGES = 2
    Scenarios <- MCScenarios
INVARIANTS
    TypeOK
    TicketsAreOneTime
    HostSavesFirst
    NoSidePersistsARefusal
PROPERTIES
    DeadTicketsRegisterNobody
    EventuallyPaired
CHECK_DEADLOCK FALSE
