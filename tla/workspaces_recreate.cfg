SPECIFICATION FairSpec
CONSTANTS
    Machine = {1, 2}
    Workspace = {1, 2, 3}
    MainOf <- MainOne
    MAX_CLAIMS = 2
    SIGNAL_QUEUE = 1
    HomeMachine = 1
    HomeWorkspace = 1
    Scenarios <- RecreateScenario
PROPERTY RecreatedDirsAreWatched
CHECK_DEADLOCK FALSE
