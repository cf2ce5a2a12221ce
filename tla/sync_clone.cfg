SPECIFICATION FairSpec
CONSTANTS
    Machine = {1, 2}
    RepoName = {1}
    RepoId = {1}
    MAX_ORPHAN_REPOS_PER_PEER = 1
    Scenarios <- CloneScenario
CHECK_DEADLOCK FALSE
PROPERTY EventuallySynced
