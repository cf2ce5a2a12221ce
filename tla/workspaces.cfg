SPECIFICATION FairSpec
CONSTANTS
    Machine = {1, 2}
    Workspace = {1, 2, 3}
    MainOf <- MainOne
    MAX_CLAIMS = 2
    SIGNAL_QUEUE = 1
    HomeMachine = 1
    HomeWorkspace = 1
    Scenarios <- MCScenarios
INVARIANT TypeOK
PROPERTIES
    EventuallyExclusive
    EventuallyAutomated
    SeenEditsAreSnapshotted
CHECK_DEADLOCK FALSE
