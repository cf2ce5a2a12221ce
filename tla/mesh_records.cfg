SPECIFICATION Spec
CONSTANTS
    Machine = {1, 2, 3}
    Name = {1, 2}
    RepoName = {1, 2}
    RepoId = {1, 2}
    Workspace = {1, 2}
    p1 = p1
    Path <- OnePath
    HostName <- SameHostName
    MAX_RECORD_VERSION = 3
    MAX_MESH_PEERS = 2
    MAX_MESH_REPOS = 1
    MAX_MACHINE_WORKSPACES = 1
    MAX_MESH_WORKSPACES = 2
    Founders = {1, 2}
    MaxChanges = 3
    MaxFaults = 1
    MaxInFlight = 1
INVARIANTS
    TypeOK
    MembershipIsDecodable
    RegisteredReposAreListed
    ClaimsAreOnRegisteredRepos
    PeerClaimsAreOfAlivePeers
    DiskIsNotBehind
PROPERTY
    RecordsNeverRegress
