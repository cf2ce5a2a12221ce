SPECIFICATION FairSpec
CONSTANTS
    Machine = {1, 2, 3}
    Op = {1, 2, 3, 4, 5}
    First <- OwnFirst
    Slot = {1, 2}
    MAX_SERVES = 1
    Scenarios <- AllScenarios
CHECK_DEADLOCK FALSE
INVARIANTS
    TypeOK
    HeadsAreReadable
    StoresAreClosed
    HonestFetchIsValid
PROPERTIES
    ImplementsOpLog
    EventuallyReplicated
