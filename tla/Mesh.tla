-------------------------------- MODULE Mesh --------------------------------
(***************************************************************************)
(* The replicated mesh state: every machine's MeshStore (daemon/store.rs), *)
(* its mesh.json, and the membership gossip between them.                  *)
(*                                                                         *)
(* Local changes come from the control socket, from pairing and from repo  *)
(* tasks (claims); all go through MeshStore::update, which saves before it *)
(* commits and gossips.  Gossip has no acknowledgement: a snapshot may be  *)
(* lost, delayed past others, or merged after its sender was removed.      *)
(***************************************************************************)
EXTENDS MeshState

CONSTANTS
    Founders,      \* machines already paired with each other at the start
    MaxChanges,    \* bound: local changes in a behaviour
    MaxFaults,     \* bound: failed saves and lost state files in a behaviour
    MaxInFlight    \* bound: snapshots under way at a time

ASSUME FoundersAssumption ==
    /\ Founders \subseteq Machine
    /\ Cardinality(Founders) <= MAX_MESH_PEERS

ASSUME BoundsAssumption ==
    MaxChanges \in Nat /\ MaxFaults \in Nat /\ MaxInFlight \in Nat

VARIABLES
    mem,           \* mem[m]: the state MeshStore holds on machine m
    disk,          \* disk[m]: the contents of its mesh.json
    net,           \* gossiped snapshots under way
    issued,        \* repo ids generated so far
    changes,       \* local changes made so far
    faults         \* faults so far

vars == <<mem, disk, net, issued, changes, faults>>

Messages == [from : Machine, to : Machine, body : Memberships]

\* Every machine's state is one mesh.json can hold and load accepts: in
\* particular, versions stay below the ceiling that merging refuses.
TypeOK ==
    /\ mem \in [Machine -> MeshStates]
    /\ disk \in [Machine -> MeshStates]
    /\ net \subseteq Messages
    /\ issued \subseteq RepoId
    /\ changes \in Nat
    /\ faults \in Nat

-----------------------------------------------------------------------------
(***************************************************************************)
(* Initial states: no machine has a mesh.json but the founders, whose      *)
(* pairings the gossip has already spread.                                 *)
(***************************************************************************)
FoundingState(m) ==
    IF m \in Founders
    THEN [DefaultState(m) EXCEPT
             !.version = 1,
             !.peers = [e \in Machine |-> IF e \in Founders \ {m}
                                          THEN [version |-> 1, value |-> HostName[e]]
                                          ELSE Absent]]
    ELSE DefaultState(m)

Init ==
    /\ mem = [m \in Machine |-> FoundingState(m)]
    /\ disk = mem
    /\ net = {}
    /\ issued = {}
    /\ changes = 0
    /\ faults = 0

-----------------------------------------------------------------------------
(***************************************************************************)
(* MeshStore::update                                                       *)
(***************************************************************************)

\* Mutant of Update: committed and gossiped, but not saved.
UpdateUnsaved(m, next) ==
    /\ mem' = [mem EXCEPT ![m] = next]
    /\ UNCHANGED disk

\* The mutation is saved, then committed; one that changes nothing writes
\* nothing.
Update(m, next) ==
    /\ mem' = [mem EXCEPT ![m] = next]
    /\ disk' = IF next = mem[m] THEN disk ELSE [disk EXCEPT ![m] = next]

\* MeshState::save fails after the rename, syncing the directory: update
\* reports the error and commits nothing in memory.  (A save that fails
\* earlier leaves everything as it was, and so is no step.)
SaveFailsUnsynced(m, next) ==
    /\ next # mem[m]
    /\ faults < MaxFaults
    /\ faults' = faults + 1
    /\ disk' = [disk EXCEPT ![m] = next]
    /\ UNCHANGED mem

\* A local change asked of machine m.
Change(m, next) ==
    /\ changes < MaxChanges
    /\ changes' = changes + 1
    /\ \/ Update(m, next) /\ UNCHANGED faults
       \/ SaveFailsUnsynced(m, next)
    /\ UNCHANGED net

-----------------------------------------------------------------------------
(***************************************************************************)
(* Local changes                                                           *)
(***************************************************************************)

\* `jj-mesh rename`
Rename(m, n) ==
    /\ CanRenameMachine(mem[m], n)
    /\ Change(m, RenameMachine(mem[m], n))
    /\ UNCHANGED issued

\* One side of a pairing is saved: e announced its name in the exchange.  An
\* endpoint already alive is left alone.
AddPairedPeer(m, e) ==
    /\ m # e
    /\ CanAddPeer(mem[m], e)
    /\ Change(m, AddPeer(mem[m], e, mem[e].name))
    /\ UNCHANGED issued

\* `jj-mesh peer remove`
RemovePairedPeer(m, e) ==
    /\ CanRemovePeer(mem[m], e)
    /\ Change(m, RemovePeer(mem[m], e))
    /\ UNCHANGED issued

\* `jj-mesh repo add` generates the id; a clone takes the id of a machine
\* that holds the repo.
RegisterRepo(m, r) ==
    /\ \/ r.id \notin issued
       \/ \E p \in Machine \ {m} : \E q \in mem[p].repos : q.name = r.name /\ q.id = r.id
    /\ CanAddRepo(mem[m], r)
    /\ Change(m, AddRepo(mem[m], r))
    /\ issued' = issued \cup {r.id}

\* `jj-mesh repo remove`
RetireRepo(m, n) ==
    /\ CanRemoveRepo(mem[m], n)
    /\ Change(m, RemoveRepo(mem[m], n))
    /\ UNCHANGED issued

\* `jj-mesh repo forget`
UnregisterRepo(m, n) ==
    /\ CanForgetRepo(mem[m], n)
    /\ Change(m, ForgetRepo(mem[m], n))
    /\ UNCHANGED issued

\* A repo task's ClaimUpdate reaches the claim loop; for a repo unregistered
\* meanwhile nothing is claimed.
ClaimWorkspaces(m, id, names) ==
    /\ RegisteredId(mem[m], id)
    /\ CanSetClaims(mem[m].claims, id, names)
    /\ Change(m, [mem[m] EXCEPT !.claims = SetClaims(mem[m].claims, id, names)])
    /\ UNCHANGED issued

-----------------------------------------------------------------------------
(***************************************************************************)
(* Gossip                                                                  *)
(***************************************************************************)

\* Peer tasks dial, and accept, the endpoints that are alive here.
Connected(a, b) == b \in AlivePeers(mem[a]) /\ a \in AlivePeers(mem[b])

\* The outbox holds the latest membership only: published on every change,
\* on connect, and every GOSSIP_INTERVAL even when nothing changed.
Gossip(a, b) ==
    /\ Connected(a, b)
    /\ Cardinality(net) < MaxInFlight
    /\ net' = net \cup {[from |-> a, to |-> b, body |-> Membership(mem[a], a)]}
    /\ UNCHANGED <<mem, disk, issued, changes, faults>>

\* recv_uni refuses a membership over the limits; merge_membership takes the
\* others.  Nothing checks that the sender is still a peer by then.
Receive(m, body) ==
    IF WithinWireLimits(body)
    THEN \E next \in MergeMembership(mem[m], body, m) :
            \/ Update(m, next) /\ UNCHANGED faults
            \/ SaveFailsUnsynced(m, next)
    ELSE UNCHANGED <<mem, disk, faults>>

Deliver(msg) ==
    /\ net' = net \ {msg}
    /\ Receive(msg.to, msg.body)
    /\ UNCHANGED <<issued, changes>>

\* A snapshot sent and merged with nothing in between: what the periodic
\* re-gossip comes to between machines that stay connected.
Exchange(a, b) ==
    /\ Connected(a, b)
    /\ WithinWireLimits(Membership(mem[a], a))
    /\ \E next \in MergeMembership(mem[b], Membership(mem[a], a), b) : Update(b, next)
    /\ UNCHANGED <<net, issued, changes, faults>>

\* A reset stream, a full gossip queue, or a save that failed outright.
Lose(msg) ==
    /\ net' = net \ {msg}
    /\ UNCHANGED <<mem, disk, issued, changes, faults>>

-----------------------------------------------------------------------------
(***************************************************************************)
(* Crashes                                                                 *)
(***************************************************************************)

\* The daemon stops at any point and loads mesh.json again.
Restart(m) ==
    /\ mem' = [mem EXCEPT ![m] = disk[m]]
    /\ UNCHANGED <<disk, net, issued, changes, faults>>

\* mesh.json is lost (the key is not): the daemon starts from nothing.
LoseState(m) ==
    /\ faults < MaxFaults
    /\ faults' = faults + 1
    /\ mem' = [mem EXCEPT ![m] = DefaultState(m)]
    /\ disk' = [disk EXCEPT ![m] = DefaultState(m)]
    /\ UNCHANGED <<net, issued, changes>>

-----------------------------------------------------------------------------
LocalChange(m) ==
    \/ \E n \in Name : Rename(m, n)
    \/ \E e \in Machine : AddPairedPeer(m, e)
    \/ \E e \in Machine : RemovePairedPeer(m, e)
    \/ \E r \in Repo : RegisterRepo(m, r)
    \/ \E n \in RepoName : RetireRepo(m, n)
    \/ \E n \in RepoName : UnregisterRepo(m, n)
    \/ \E id \in RepoId, names \in SUBSET Workspace : ClaimWorkspaces(m, id, names)

Next ==
    \/ \E m \in Machine : LocalChange(m)
    \/ \E a, b \in Machine : Gossip(a, b)
    \/ \E msg \in net : Deliver(msg)
    \/ \E a, b \in Machine : Exchange(a, b)
    \/ \E msg \in net : Lose(msg)
    \/ \E m \in Machine : Restart(m)
    \/ \E m \in Machine : LoseState(m)

Spec == Init /\ [][Next]_vars

\* gossip_loop re-sends every GOSSIP_INTERVAL to every connected peer, and
\* between machines that stay connected not every snapshot is lost: as long
\* as some exchange would change a machine, one takes place.
Fairness == WF_vars(\E a, b \in Machine : Exchange(a, b))

FairSpec == Spec /\ Fairness

-----------------------------------------------------------------------------
(***************************************************************************)
(* Safety                                                                  *)
(***************************************************************************)

ReposListed(s) == \A r \in s.repos : Live(s.meshRepos[r.name])

ClaimsRegistered(s) ==
    \A p \in s.claims.held : RegisteredId(s, p[1]) \/ ~CanBump(s.claims.version)

PeerClaimsAlive(s) == \A e \in Machine : s.peerClaims[e] # NoClaims => Live(s.peers[e])

\* The order records are meant to move in.  (A tombstone's value is below
\* every other, so it wins the tie.)
NotOlder(r, s) ==
    r = s \/ r.version > s.version \/ (r.version = s.version /\ r.value < s.value)

\* s holds everything t does, or records that supersede it.
NotBehind(s, t) ==
    /\ s.version >= t.version
    /\ s.claims.version >= t.claims.version
    /\ \A e \in Machine : NotOlder(s.peers[e], t.peers[e])
    /\ \A n \in RepoName : NotOlder(s.meshRepos[n], t.meshRepos[n])

\* A repo registered here is in use in this machine's mesh list: a removal
\* that reaches the machine, by gossip or by its own user, always
\* unregisters the repo, so nothing keeps syncing a retired name.
RegisteredReposAreListed == \A m \in Machine : ReposListed(mem[m])

\* A machine claims workspaces of registered repos only: unregistering
\* releases them and a late ClaimUpdate does not bring them back.  The one
\* exception is a claims register at the version ceiling, where
\* unregister_repo can only log that it cannot release.
ClaimsAreOnRegisteredRepos == \A m \in Machine : ClaimsRegistered(mem[m])

\* Claims are kept only for machines alive in the mesh, so a workspace of a
\* removed machine is free to be claimed again.
PeerClaimsAreOfAlivePeers == \A m \in Machine : PeerClaimsAlive(mem[m])

\* However its state grew, a machine's membership is within what recv_uni
\* accepts, so it never silently stops being heard.
MembershipIsDecodable ==
    \A m \in Machine : WithinWireLimits(Membership(mem[m], m))

\* mesh.json is never behind memory: whatever a machine has gossiped
\* survives its restart.
DiskIsNotBehind == \A m \in Machine : NotBehind(disk[m], mem[m])

\* No step but losing the state file takes a machine back: each record it
\* holds, tombstones included, is only ever replaced by one that supersedes it
\* and is never dropped, whatever stale snapshot is merged; and its own
\* versions do not decrease.
RecordsNeverRegress ==
    [][\A m \in Machine : NotBehind(mem'[m], mem[m]) \/ mem'[m] = DefaultState(m)]_vars

\* Merging a machine's snapshot again changes nothing, whether or not it is
\* still a peer: this is what stops the gossip from echoing (so long as the
\* claims of all machines fit the mesh's cap).
MergeIsIdempotent ==
    \A a, b \in Machine : a # b =>
        LET body == Membership(mem[a], a)
        IN  \A s \in MergeMembership(mem[b], body, b) : MergeMembership(s, body, b) = {s}

-----------------------------------------------------------------------------
(***************************************************************************)
(* Liveness                                                                *)
(***************************************************************************)

\* Once the changes stop, machines connected to each other agree on the
\* whole membership: every record and every claim, each machine's own record
\* the same as its peers' copy of it.
Converged ==
    \A a, b \in Machine :
        Connected(a, b) => Membership(mem[a], a) = Membership(mem[b], b)

EventuallyConverged == <>[]Converged
=============================================================================
