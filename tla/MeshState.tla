------------------------------ MODULE MeshState ------------------------------
(***************************************************************************)
(* One machine's copy of the mesh state (config/state/mod.rs, MeshState)   *)
(* and what each of its operations makes of it.                            *)
(*                                                                         *)
(* Every operation is a pair: the condition under which it succeeds, and   *)
(* the state it returns.  An operation that fails leaves the state alone   *)
(* (MeshStore::update works on a clone), so a failure is no step.          *)
(*                                                                         *)
(* Abstracted: names, ids and workspaces are numbers (only their order is  *)
(* used), and only names that pass validate_name are ever offered; a path  *)
(* is an opaque value.                                                     *)
(***************************************************************************)
EXTENDS Registers

CONSTANTS
    Machine,                  \* endpoint ids
    Name,                     \* machine names
    RepoName,                 \* mesh-wide repo names
    RepoId,
    Workspace,
    Path,                     \* local repo directories
    HostName,                 \* the name each machine starts under
    MAX_MESH_PEERS,
    MAX_MESH_REPOS,
    MAX_MACHINE_WORKSPACES,
    MAX_MESH_WORKSPACES

ASSUME DomainAssumption ==
    /\ Machine \subseteq Nat /\ IsFiniteSet(Machine)
    /\ RepoName \subseteq Nat /\ IsFiniteSet(RepoName)
    /\ RepoId \subseteq Nat \ {0} /\ IsFiniteSet(RepoId)
    /\ Workspace \subseteq Nat /\ IsFiniteSet(Workspace)
    /\ Name \subseteq Nat \ {0}
    /\ HostName \in [Machine -> Name]

ASSUME CapAssumption ==
    /\ MAX_MESH_PEERS \in Nat \ {0}
    /\ MAX_MESH_REPOS \in Nat
    /\ MAX_MACHINE_WORKSPACES \in Nat
    /\ MAX_MESH_WORKSPACES \in Nat
    /\ MAX_MACHINE_WORKSPACES <= MAX_MESH_WORKSPACES

\* Room is left for this machine's own record and claims.
MAX_OTHER_PEERS == MAX_MESH_PEERS - 1
MAX_OTHER_WORKSPACES == MAX_MESH_WORKSPACES - MAX_MACHINE_WORKSPACES

Repo == [name : RepoName, id : RepoId, path : Path]

Claims == [version : Versions, held : SUBSET (RepoId \X Workspace)]

MeshStates ==
    [name : Name, version : Versions,                   \* `machine`
     peers : [Machine -> Slot(Name)],
     repos : SUBSET Repo,                               \* registered here
     meshRepos : [RepoName -> Slot(RepoId)],            \* known to the mesh
     claims : Claims,
     peerClaims : [Machine -> Claims \cup {NoClaims}]]

\* What one machine gossips: its whole view, its own records included.
Memberships ==
    [peers : [Machine -> Slot(Name)],
     repos : [RepoName -> Slot(RepoId)],
     claims : [Machine -> Claims \cup {NoClaims}]]

\* MeshState::load without a mesh.json.
DefaultState(m) ==
    [name |-> HostName[m], version |-> 0,
     peers |-> [e \in Machine |-> Absent],
     repos |-> {},
     meshRepos |-> [n \in RepoName |-> Absent],
     claims |-> [version |-> 0, held |-> {}],
     peerClaims |-> [e \in Machine |-> NoClaims]]

-----------------------------------------------------------------------------
(***************************************************************************)
(* Queries                                                                 *)
(***************************************************************************)

AlivePeers(s) == {e \in Machine : Live(s.peers[e])}

Registered(s, n) == \E r \in s.repos : r.name = n

RegisteredId(s, id) == \E r \in s.repos : r.id = id

Membership(s, local) ==
    [peers |-> [s.peers EXCEPT ![local] = [version |-> s.version, value |-> s.name]],
     repos |-> s.meshRepos,
     claims |-> [s.peerClaims EXCEPT ![local] = s.claims]]

\* How many workspaces a family of claims names, all machines together.
ClaimCount(claims) == Cardinality(UNION {{e} \X claims[e].held : e \in DOMAIN claims})

\* The limits recv_uni puts on a gossiped membership.  (The claimed repos it
\* also counts are never more than the claimed names: a claim on a repo
\* names at least one workspace.)
WithinWireLimits(msg) ==
    /\ Cardinality(Keys(msg.peers)) <= MAX_MESH_PEERS
    /\ Cardinality(Keys(msg.repos)) <= MAX_MESH_REPOS
    /\ Cardinality({e \in Machine : msg.claims[e] # NoClaims}) <= MAX_MESH_PEERS
    /\ ClaimCount(msg.claims) <= MAX_MESH_WORKSPACES

\* WorkspaceClaims::is_valid
ValidClaims(held) == Cardinality(held) <= MAX_MACHINE_WORKSPACES

-----------------------------------------------------------------------------
(***************************************************************************)
(* Local changes                                                           *)
(***************************************************************************)

CanRenameMachine(s, n) == n # s.name /\ CanBump(s.version)

RenameMachine(s, n) == [s EXCEPT !.name = n, !.version = s.version + 1]

\* Mutant of CanAddPeer: the cap is left to the merge.
CanAddPeerUncapped(s, e) == ~Live(s.peers[e]) /\ CanBump(HeldVersion(s.peers[e]))

CanAddPeer(s, e) ==
    /\ ~Live(s.peers[e])
    /\ s.peers[e] # Absent \/ Cardinality(Keys(s.peers)) < MAX_OTHER_PEERS
    /\ CanBump(HeldVersion(s.peers[e]))

AddPeer(s, e, n) ==
    [s EXCEPT !.peers[e] = [version |-> HeldVersion(s.peers[e]) + 1, value |-> n]]

\* The claims of machines no longer alive are dropped.
PruneClaims(peers, peerClaims) ==
    [e \in Machine |-> IF Live(peers[e]) THEN peerClaims[e] ELSE NoClaims]

CanRemovePeer(s, e) == Live(s.peers[e]) /\ CanBump(s.peers[e].version)

\* Mutant of RemovePeer: the claims are not pruned.
RemovePeerOnly(s, e) ==
    [s EXCEPT !.peers[e] = [version |-> s.peers[e].version + 1, value |-> Removed]]

RemovePeer(s, e) ==
    LET peers == [s.peers EXCEPT ![e] = [version |-> @.version + 1, value |-> Removed]]
    IN  [s EXCEPT !.peers = peers, !.peerClaims = PruneClaims(peers, s.peerClaims)]

CanAddRepo(s, r) ==
    /\ ~Registered(s, r.name)
    /\ ~ \E q \in s.repos : q.path = r.path
    /\ Live(s.meshRepos[r.name]) => s.meshRepos[r.name].value = r.id   \* ensure_mesh_id
    /\ ~RegisteredId(s, r.id)
    /\ s.meshRepos[r.name] # Absent \/ Cardinality(Keys(s.meshRepos)) < MAX_MESH_REPOS
    /\ CanBump(HeldVersion(s.meshRepos[r.name]))

AddRepo(s, r) ==
    [s EXCEPT
        !.meshRepos[r.name] =
            [version |-> HeldVersion(s.meshRepos[r.name]) + 1, value |-> r.id],
        !.repos = s.repos \cup {r}]

\* WorkspaceClaims::set
CanSetClaims(c, id, names) ==
    /\ Names(c.held, id) # {id} \X names
    /\ ValidClaims((c.held \ Names(c.held, id)) \cup ({id} \X names))
    /\ CanBump(c.version)

SetClaims(c, id, names) ==
    [version |-> c.version + 1,
     held |-> (c.held \ Names(c.held, id)) \cup ({id} \X names)]

\* unregister_repo for each of `names`, in order.  Releasing a repo's claims
\* bumps the version; a release the ceiling refuses is only logged, and its
\* claims stay.
Unregister(s, names) ==
    LET claimed == {n \in names : \E r \in s.repos :
                                     r.name = n /\ Names(s.claims.held, r.id) # {}}
        room == MAX_RECORD_VERSION - 1 - s.claims.version
        released == {n \in claimed : Cardinality({k \in claimed : k <= n}) <= room}
        bumps == IF Cardinality(claimed) < room THEN Cardinality(claimed) ELSE room
    IN  [s EXCEPT
            !.repos = {r \in s.repos : r.name \notin names},
            !.claims =
                [version |-> s.claims.version + bumps,
                 held |-> {p \in s.claims.held :
                               ~ \E r \in s.repos : r.name \in released /\ r.id = p[1]}]]

CanRemoveRepo(s, n) ==
    /\ Live(s.meshRepos[n]) \/ Registered(s, n)
    /\ CanBump(HeldVersion(s.meshRepos[n]))

RemoveRepo(s, n) ==
    [Unregister(s, {n}) EXCEPT
        !.meshRepos[n] = [version |-> HeldVersion(s.meshRepos[n]) + 1, value |-> Removed]]

CanForgetRepo(s, n) == Registered(s, n)

\* Mutant of ForgetRepo: the claims are not released.
ForgetRepoOnly(s, n) == [s EXCEPT !.repos = {r \in s.repos : r.name # n}]

ForgetRepo(s, n) == Unregister(s, {n})

-----------------------------------------------------------------------------
(***************************************************************************)
(* merge_membership, in the order of the code.  Its loops run in key order *)
(* and a cap may refuse some of the keys: P and R are the machine and repo *)
(* records adopted, C the claims adopted.                                  *)
(***************************************************************************)

\* The records of other machines.
OfferedPeers(msg, local) == [msg.peers EXCEPT ![local] = Absent]

\* Machine::observe: a copy alive under another name is outranked, a
\* tombstone is only matched.
MergePeers(s, msg, local, P) ==
    LET copy == msg.peers[local]
    IN  [s EXCEPT
            !.peers = Adopt(P, s.peers, OfferedPeers(msg, local)),
            !.version = IF local \in Mergeable(msg.peers)
                        THEN Observe(s.version, copy.version, Live(copy) /\ copy.value # s.name)
                        ELSE s.version]

\* Mutant of MergeRepos: the repo stays registered.
MergeReposOnly(s, msg, R) == [s EXCEPT !.meshRepos = Adopt(R, s.meshRepos, msg.repos)]

\* Adopting a tombstone also unregisters the repo here.
MergeRepos(s, msg, R) ==
    [Unregister(s, {n \in R : msg.repos[n].value = Removed}) EXCEPT
        !.meshRepos = Adopt(R, s.meshRepos, msg.repos)]

\* Other machines' claims that may replace the ones we hold.
OfferedClaims(s, msg, local) ==
    {e \in Machine \ {local} :
        /\ msg.claims[e] # NoClaims
        /\ msg.claims[e].version < MAX_RECORD_VERSION
        /\ Live(s.peers[e])
        /\ s.peerClaims[e] # NoClaims => ClaimsOutrank(msg.claims[e], s.peerClaims[e])
        /\ ValidClaims(msg.claims[e].held)}

AdoptClaims(s, msg, C) ==
    [e \in Machine |-> IF e \in C THEN msg.claims[e] ELSE s.peerClaims[e]]

\* In key order, each is adopted if the claims held by then leave room.
ClaimAdoptions(s, msg, local) ==
    {C \in SUBSET OfferedClaims(s, msg, local) :
        \A e \in OfferedClaims(s, msg, local) :
            LET upTo == {f \in C : f < e} \cup {e}
            IN  e \in C <=> ClaimCount(AdoptClaims(s, msg, upTo)) <= MAX_OTHER_WORKSPACES}

\* WorkspaceClaims::observe for our own claims, then prune_claims.
MergeClaims(s, msg, local, C) ==
    LET copy == msg.claims[local]
    IN  [s EXCEPT
            !.peerClaims = PruneClaims(s.peers, AdoptClaims(s, msg, C)),
            !.claims.version =
                IF copy # NoClaims /\ copy.version < MAX_RECORD_VERSION
                THEN Observe(s.claims.version, copy.version, copy.held # s.claims.held)
                ELSE s.claims.version]

\* What merging msg into s may leave on machine `local` (one state).
MergeMembership(s, msg, local) ==
    LET records ==
            {MergeRepos(MergePeers(s, msg, local, P), msg, R) :
                P \in Adoptions(s.peers, OfferedPeers(msg, local), MAX_OTHER_PEERS),
                R \in Adoptions(s.meshRepos, msg.repos, MAX_MESH_REPOS)}
    IN  UNION {{MergeClaims(u, msg, local, C) : C \in ClaimAdoptions(u, msg, local)} :
                  u \in records}
=============================================================================
