SPECIFICATION Spec
CONSTANTS
    Machine = {1, 2}
    RepoName = {1, 2}
    RepoId = {1, 2, 3}
    MAX_ORPHAN_REPOS_PER_PEER = 1
    Scenarios <- SafetyScenarios
CHECK_DEADLOCK FALSE
INVARIANTS
    TypeOK
    LatestWins
    OffersAreOfTheirRepo
    OrphansAreBounded
PROPERTY InboxMovesForward
