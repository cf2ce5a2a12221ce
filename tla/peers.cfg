SPECIFICATION FairSpec
CONSTANTS
    Machine = {1, 2}
    Conn = {1, 2, 3, 4, 5, 6}
    Slot = {1, 2}
    INBOUND_QUEUE = 2
    Scenarios <- MCScenarios
INVARIANTS
    TypeOK
    RevokedPeersAreCleanedUp
PROPERTY EventuallyOneConnection
CHECK_DEADLOCK FALSE
