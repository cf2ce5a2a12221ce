SPECIFICATION FairSpec
CONSTANTS
    Machine = {1, 2, 3}
    Name = {1, 2}
    RepoName = {1}
    RepoId = {1}
    Workspace = {1}
    p1 = p1
    Path <- OnePath
    HostName <- LowHostName
    MAX_RECORD_VERSION = 9
    MAX_MESH_PEERS = 3
    MAX_MESH_REPOS = 3
    MAX_MACHINE_WORKSPACES = 3
    MAX_MESH_WORKSPACES = 9
    Founders = {1, 2, 3}
    MaxChanges = 2
    MaxFaults = 1
    MaxInFlight = 0
INVARIANT
    MergeIsIdempotent
PROPERTY
    EventuallyConverged
