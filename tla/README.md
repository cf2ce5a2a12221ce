# A TLA+ verification project for jj-mesh

jj-mesh keeps copies of a Jujutsu repository on several machines in sync: a
daemon on each machine announces the operation heads of its repos to its peers
and fetches the operations it misses. This project models the daemon's own
protocols and the parts of it that write the user's repo, checks them with TLC
on small instances, and proves with TLAPS the invariants of the replicated
mesh state, of pairing, of the peer tasks, of the hubs and repo tasks, of the
git ref mirror and of the transfer engine, that the latter implements an
abstract specification of synchronization, and the types of the workspace tasks.

Paths below are relative to the crate's `src/`.

## The system

| Component | State | Operations | Interacts with |
|---|---|---|---|
| Mesh state (`config/state`) | machine record, peers, registered repos, mesh-wide repo list, workspace claims; tombstones for what was removed | rename, add/remove peer, add/remove/forget repo, set claims, merge | store |
| Mesh store (`daemon/store.rs`), gossip (`daemon/mod.rs`) | one `MeshState` in memory, its copy in `mesh.json` | `update`: mutate a clone, save, commit, align peers and repos, gossip; merge a received membership; periodic re-gossip | control socket, pairing, repo tasks (claims), hub (outbox), peers |
| Sync hub (`daemon/hub`) | per repo: id, sequence, published heads, inbox per peer, conflicts, serve handle; orphans (announcements of repos not registered here); outbox and connection per peer | register, unregister, publish, route, connect, disconnect, drain, requeue, serve | peer tasks, repo tasks, clones |
| Repo tasks (`daemon/repos`) | baseline of heads, retry timer, workspaces | open, publish, drain, fetch, settle, reopen with backoff | hub, transfer engine, watchers, store (claims) |
| Clones (`daemon/control/clone.rs`) | sources and the staged repo | look up sources, pull from one after another, register, cancel | hub, transfer, store |
| Peer tasks (`daemon/peers.rs`) | one connection per peer | dial, accept, tie-break, read streams, disconnect | endpoint, hub |
| Pairing (`daemon/pairing.rs`, `net/pair.rs`) | one issued ticket | issue, redeem, revoke, expire, join | store |
| Transfer (`repo/transfer`, `repo/write.rs`, `repo/open.rs`) | the op store, op heads and index on disk | serve, fetch, stage, persist, publish heads, index | repo tasks, clones, the user's `jj` |
| Git ref mirror (`repo/transfer/mirror.rs`) | git refs and HEAD | merge the views, compare-and-swap towards the result, heal on watch start | transfer, repo tasks, the user's `jj` and `git` |
| Workspace tasks (`daemon/repos/workspace.rs`), claims (`task.rs`) | what is claimed, sent and automated; deadlines and jj runs of a working copy | scan, claim, spawn and abort, snapshot, update stale | repo tasks, store, tree watcher |
| Watchers (`watch`) | watched directories, ignore rules, a bounded signal queue | notify, drain, re-derive the watched set | repo and workspace tasks |
| Control socket, CLI, service files, logs, codecs | - | requests, rendering, encoding | all |

What is hard here: gossip has no acknowledgements and no clocks; announcements
travel on streams of their own and overtake each other; the hub is called from
tasks that were started under a connection or a registration that may be gone;
fetches fail and are retried against state that has moved on; the daemon may
stop between any two writes. The hazards are listed one by one, at their
lines, in `PROJECT.json`.

What makes each part correct:

- mesh state: no stale snapshot undoes a newer record; machines converge;
  registrations, the mesh list and claims agree; the caps keep a membership
  receivable; a restart does not contradict what was gossiped;
- hub and repo tasks: heads are never offered under another repo's id; a
  peer's slot only moves forward and ends at what the peer last published;
  connected copies end up with the same operations; the orphan map is bounded;
- pairing: a ticket registers one machine at most, and none once it is dead;
  no side saves what the other refused; a pairing one side saved is healed by
  pairing again;
- transfer: a published head has all its ancestors; the user's heads are never
  lost; a crash leaves nothing a later fetch does not repair;
- ref mirror: jj's next import finds nothing to undo but the refs whose swap
  failed; the user's own ref moves are left alone; HEAD keeps its commit;
- peer tasks: both sides keep the same one of two connections; a removed peer
  is not left connected;
- workspaces: one machine automates a workspace; every edit the watcher saw
  while the task waited for one is snapshotted, at the next event at the latest.

## The modules

| Module | What it is |
|---|---|
| `Registers`, `MeshState` | pure operators: versioned records, one machine's mesh state |
| `Mesh` | state machine over them: stores, disks, gossip |
| `SyncHub` | the hub's operations |
| `Sync` | composes hubs, repo tasks, clones, connections and streams |
| `OpLog` | abstract specification: what synchronizing a repo promises |
| `Transfer` | fetches step by step; implements `OpLog` |
| `Mirror` | the git ref mirror between a fetch's staging and its publication |
| `Pairing` | tickets and exchanges |
| `PeerConnections` | peer tasks, dials, the tie-break, removal |
| `Claims`, `WorkingCopy` | the workspace scan; a working copy with its task and watcher |
| `Workspaces` | composes the two: the scan starts and stops the task |
| `MeshProofs`, `PairingProofs`, `PeersProofs`, `TransferProofs`, `SyncProofs`, `MirrorProofs`, `WorkspacesProofs` | the theorems about the specification of that name (`PeersProofs`: `PeerConnections`) |
| `SyncHubProofs` | lemmas about the hub's operations, for `SyncProofs` |
| `MCMesh` ... `MCWorkspaces` | the constants TLC runs with |

Most specifications take a set of *scenarios*: records that say where an
execution starts and how often each kind of event may still happen. One run
thus covers several small worlds without their product, and the theorems hold
for every set of scenarios.

### Registers (`config/state/membership.rs`, `claims.rs`, `machine.rs`)

A machine record and a mesh repo record are the same register: a version and a
value, or `Removed`. `Outranks` is their ranking (version, then tombstone, then
the smaller value), `CanBump` the version ceiling, `Adoptions` what a merge
loop takes over in key order below a cap (`should_adopt`), `Observe` how a
machine absorbs a gossiped copy of its own record. Claims are versioned sets
of (repo id, workspace) pairs; `SmallerClaims` is the derived order of
`BTreeMap<RepoId, BTreeSet<String>>` that breaks ties between them.

### MeshState (`config/state/mod.rs`)

One machine's state as a record, and for each mutation a condition (`CanX`)
and a result (`X`). A failed mutation changes nothing, because
`MeshStore::update` works on a clone, so a failure is no step.
`MergeMembership` follows `merge_membership`: machine records, repo records
(adopting a tombstone unregisters the repo and releases its claims), then
claims against the peers that are alive by then, then pruning. Names and ids
are numbers: the code compares them and never looks inside. Names that fail
`validate_name` are never offered.

### Mesh (`daemon/store.rs`, the loops of `daemon/mod.rs`)

| Variable | Code |
|---|---|
| `mem[m]` | the `MeshState` in machine m's `MeshStore` |
| `disk[m]` | its `mesh.json` |
| `net` | membership snapshots under way |
| `issued` | repo ids generated (random in the code, so never repeated) |
| `changes`, `faults` | counts, for the bounds |

Each request that changes the state is an action (`Rename`, `AddPairedPeer`,
`RemovePairedPeer`, `RegisterRepo`, `RetireRepo`, `UnregisterRepo`,
`ClaimWorkspaces`) and goes through `Change`, that is `MeshStore::update`:
either it is saved and committed (`Update`) or the save fails after the rename
(`SaveFailsUnsynced`: the new file is in place, memory keeps the old state).
`Gossip` puts a snapshot under way, `Deliver` merges it later, `Lose` drops
it; `Exchange` is both at once, which is what the periodic re-gossip comes to.
A snapshot may therefore be overtaken by any number of later ones even with
one under way at a time. `Restart` loads `mesh.json`; `LoseState` starts
without one.

### SyncHub (`daemon/hub`)

The hub's state behind its mutex and each operation on it. Op heads are
represented by the set of operations they reach, and an operation carries the
id of its repo, so that heads filed under the wrong repo are visible. The empty
set is "not published" and, in an announcement, a retraction, as in the code.

### Sync (`daemon/repos/task.rs`, `control/clone.rs`, `peers.rs`, `hub/outbox.rs`)

| Variable | Code |
|---|---|
| `hub[m]` | `SyncHub` of machine m |
| `ops[m][n]` | the operations in the repo registered as n |
| `task[m][n]` | the repo task: closed, idle, or busy with drained announcements |
| `stale` | aborted tasks that have not reached an await point yet |
| `clone[m]` | the clone under way |
| `link` | the open connection of a pair; each side adopts or loses it on its own (`hub[m].conn`) |
| `net` | announcement streams, unread or read and not routed yet |
| `ids`, `scenario` | generated ids; what is yet to happen |

A repo task's loop is cut at its await points: `Open`, `Wake` (drain),
`Handle` once per announcement (nothing missing, fetched, or failed and
requeued), `Settle` (publish if the heads moved). `WatchEnds` and
`CheckPanics` are its failures. `ForgetRepo` aborts the task, which may still
publish once (`PublishStale`; its `repo_opened` is not modelled: that call too
is refused under another id, and under the same one it makes servable what the
new task is about to open). A stream is read by one task per stream and
routed afterwards, whatever became of the connection meanwhile (`Read`,
`Route`). A fetch takes effect when it is served; the protocol inside is the
transfer engine's. The bounds count users' operations, registrations,
connections, restarts, `Faults` (failures the code retries) and `Losses`
(messages lost on a connection that stays open, which the code recovers only
at the next announcement or connection).

### Transfer (`repo/transfer`, `repo/write.rs`, `repo/open.rs`, `hub/serve.rs`)

| Variable | Code |
|---|---|
| `anc` | the operations written and their ancestry |
| `store[m]` | trees, commits, views and operations on m's disk |
| `heads[m]` | the op heads directory |
| `user[m]` | a jj command: reads the heads, writes, lists, unlists (external) |
| `offer[m][p]` | p's last announcement: drained or not (see `Sync`), or `dropped` with the registration it was made to |
| `fetch[m][s]` | a fetch; several slots, since one whose task was aborted may still be applying |
| `lingering[p]` | permits held for fetchers that went away |

A fetch goes through `StartFetch` (the missing heads; the announcement is
drained), `OpenFetch` (a stream and the server's permit; only now are the local
heads read), `ReceiveOps` (the server's delta for a sample of haves, validated), `RequestGit`, `WriteObject`
or `IngestPack`, `StartApply`, `PersistView` and `PersistOp` one file at a
time, `PublishHead` and `UnlistCovered` per want. `FetchFails`,
`AbandonFetch` and `Crash` can come between any two. `AbandonFetch` is
`RepoSet::sync` on a repo that was removed and added again, the one place where
a task is aborted: what its inbox offered became orphans, which the new
registration drops, and the peer announces again only with new heads or over a
new connection (a `Crash` of either end makes one). A file that was renamed
into place survives a crash; a power loss is not modelled, nor are frames,
walk budgets (any subset of what a budgeted walk finds is allowed), keep refs
and the commit index.

`OpLog` says what all this amounts to: a user's command shows its own
operation, synchronization shows the whole history of an operation that
another machine shows, at once, and nothing shown is taken away. The
refinement mapping takes `visible[m]` to be what the op heads reach. It also
is what allows `Sync` to treat a fetch as one step.

### Mirror (`repo/transfer/mirror.rs`)

`MergedRefs` is jj's merge of the refs of several op heads as `Merger` folds
it, over a three-way merge of targets (jj_lib's, external: the side that moved,
the descendant on one line, a conflict otherwise). `MergeViews`, `StoredRefs`,
`Swap` per ref, `PublishHead` per want are the steps of `publish`. A swap moves
its ref, finds that the user did, or fails otherwise (a lock that is held, a
name that is a directory of another ref, I/O) and is skipped, and the heads are
published all the same. Whether only jj writes the refs (`Owned`, which is
`owns_git_refs`) is asked when the refs are read, since worktrees come and go
(`WorktreeChanges`). `PublishFails` ends a fetch or a heal at any point; `Crash`
goes through `OnWatchStart`, which is `heal` where only jj writes the refs,
unless a worktree comes first (`HealSkips`). Users move refs with git
(`GitCommand`) and with jj, which first imports what git holds (`JjCommand`).
Three history variables tell what the mirror may leave out of line: `touched`
(refs the user moved, or in conflict), `skipped` (refs whose swap failed) and
`raced` (something happened between the merge and the publication, or a heal
did not get through).

### Pairing (`daemon/pairing.rs`, `net/pair.rs`)

`issued[h]` is the host's one outstanding ticket, `exchange[j]` both ends of
j's exchange: a phase each, the last message, how the connection was closed.
The host's end is `ServeInbound` (permit), `ReadHello`, `ReadDone`, `Redeem`
or `Discard` under the lock; the joiner's is `Connect`, `ReadAnswer`,
`Confirmed`, `JoinerSaves`. Tickets expire, are revoked by a new `host`, and
connections, saves and daemons fail in between.

### PeerConnections (`daemon/peers.rs`)

`task[m][p]` holds m's running task for p and aborted ones that have not
reached an await; `hub[m][p]` is the connection registered with the hub;
`conn[c]` a connection. A task dials and accepts at once (`DialCompletes`,
`Adopt`), registers, and resolves a second connection by `KeepsOwn`.
`RemovePeer` aborts, `AbortLands` and `CleanUp` follow later, and `AddPeer`
may come in between.

### Claims, WorkingCopy, Workspaces (`daemon/repos/task.rs`, `workspace.rs`, `watch/tree`)

`Claims`: the scan (`Scan`) finds workspaces on disk that the view names,
decides what to claim below the cap, sends a changed claim once, and wants a
task for what the store has recorded and nobody else is known to claim; the
store drops an update beyond the limit (`Recorded`) or fails to save it; claims
travel by `Gossip`, workspaces by `ViewSync`. `WorkingCopy`: a root and
one directory, which can be removed, created and ignored; the kernel's watches
and the watcher's belief about them are separate, events wait in a bounded
queue, a full queue and the flag that says so are two steps of notify's thread
(`Notify`, `StoreFlag`), the walk that derives the watched set runs beside the
task, and the task's own jj runs cause events it discards. A task that cannot
build its watcher goes on without one (`Built`); one whose watch dies ends and
is spawned again (`WatchDies`). `Workspaces` lets the scan of one machine start
and stop that task.

## The runs

All runs use the actual specifications; a `.cfg` only gives constants values.
The counts are distinct states.

| Run | States | Checks |
|---|---|---|
| `mesh_records` | 516 000 | three machines with room for two, one mesh repo, one claim each and versions below 3, three changes, one fault: the seven safety properties of `Mesh` |
| `mesh_converge` | 51 000 | three machines, two changes, one fault: `EventuallyConverged`, `MergeIsIdempotent` |
| `sync_safety` | 648 000 | a drop and a re-clone with a user's operation or a retry meanwhile, a retry on an operation of the user's; two names for three ids with a restart, a loss and an orphan cap of one: `TypeOK`, `LatestWins`, `InboxMovesForward`, `OffersAreOfTheirRepo`, `OrphansAreBounded` |
| `sync_live` | 220 000 | `EventuallySynced` with a failing fetch or watch, and with a connection lost and made again at any point |
| `transfer` | 135 000 | fetches interrupted once and twice, abandoned with their registration, mutual, relayed, and two for one permit: `HeadsAreReadable`, `StoresAreClosed`, `HonestFetchIsValid`, `ImplementsOpLog`, `EventuallyReplicated` |
| `mirror` | 1 379 000 | peers' concurrent moves, users' jj and git commands, a fresh pull target, worktrees that come and go, swaps and heals that fail, crashes in a repo only jj writes: `GitIsInLine`, `UserMovesSurvive`, `HeadStaysPut` |
| `pairing` | 111 000 | one pairing with three faults, two and three joiners for two permits, mutual hosting, refusals of either side: `TicketsAreOneTime`, `DeadTicketsRegisterNobody`, `HostSavesFirst`, `NoSidePersistsARefusal`, `EventuallyPaired` |
| `peers` | 171 000 | simultaneous dials with two faults, removal and re-adding, a pairing just made: `RevokedPeersAreCleanedUp`, `EventuallyOneConnection` |
| `workspaces` | 152 000 | claims with shared names, at the limit, refused and stale; edits against the task's own runs, directories, rules and failures: `EventuallyExclusive`, `EventuallyAutomated`, `SeenEditsAreSnapshotted` |
| `sync_clone`, `sync_restart` | - | find `EventuallySynced` violated |
| `workspaces_recreate` | - | finds `RecreatedDirsAreWatched` violated |

Bounds. Two machines suffice for what one merge, route or exchange can do;
three are used where the third hears of a change from someone other than its
author, or contends for a permit. Two or three changes are what a race needs
(two concurrent changes of one record and a third that depends on one of
them). In `mesh_records` the caps on peers, repos and a machine's own claims
are met and one more is asked for (the cap on what others claim is only
met: a machine keeps the claims of one peer, and a peer has one) and the version ceiling
is met by the second change; in `mesh_converge` they are out of reach (what
`MergeIsIdempotent` needs of them is under the proofs). In
`Sync`, two registrations are a drop and a re-clone, two connections a
reconnect. In `Transfer` each repo starts with an operation of its own, so one
or two more make a chain and a divergence; one permit makes a serve contended.
In `Mirror` the commits are two on a line and one beside it, which tell every
outcome of a merge apart, and two refs tell whether one that fails holds up
the other. Queues of one or two overflow at once. The theorems below remove
the bounds for the safety properties they state.

`LatestWins` is stated for receivers that do not register or forget repos
themselves: a registration starts its own watermark. It is checked, and proved,
over one connection that loses nothing: nothing repeats a lost announcement,
and what a peer's daemon announced before it restarted may stand after it, as
`sync_restart` shows. `InboxMovesForward` excepts a slot that a
retraction has cleared (see the requeue below). `EventuallySynced` is checked without losses, because nothing in the code repeats an announcement
until the next change or connection. `EventuallyReplicated` excepts an announcement dropped with the registration it
was made to, which nothing repeats until the peer's heads change or it
reconnects; `sync_clone` shows the same of a clone. `GitIsInLine` excepts refs
the user moved, that conflict or whose swap failed, and what happens between
the mirror's reads and the publication or keeps a heal from running; the code
leaves all that to jj's import. `EventuallyAutomated` is not claimed of a
machine one of whose claims could not be saved, since a claim is sent once.
`SeenEditsAreSnapshotted` allows an edit to wait for the next event if the
overflow flag went up after the task had drained the queue, and owes nothing for
edits made before the task waits for changes or during its own jj runs. Deadlock checking is off except in `Mesh`: once users stop and
everything is done, the daemons idle.

Fairness.

- `Mesh`: weak fairness of some useful `Exchange`, since `gossip_loop`
  re-sends the membership every `GOSSIP_INTERVAL` to every connected peer.
- `Sync`: weak fairness of the steps of repo tasks, peer tasks, streams and
  clones, since tokio schedules every task, a repo task's retry and liveness
  timers fire, and QUIC delivers on a connection that stays open.
- `Transfer`: weak fairness of announcements, of starting a fetch, of its
  steps (opening it among them; a refused one is retried) and of a serve noticing that its fetcher is gone (`SERVE_TIMEOUT`).
- `Pairing`: weak fairness of both ends' steps; the users who want a pairing
  keep hosting and joining (the join is strongly fair: it needs the previous
  one to be over). That is an assumption about users, and `EventuallyPaired`
  is about users who do.
- `PeerConnections`: weak fairness of every task step and of dials that
  nothing disturbs; the backoff between dials is finite.
- `Workspaces`: weak fairness of scans (the idle check repeats them), of the
  store's loop, of gossip, of the task, of notify's thread and of jj ending;
  strong fairness of
  the snapshot deadline, which syncs may keep pre-empting but which stays
  armed through them.

Users, faults, losses, disconnects and new connections are never fair.

### Where the code and its documentation disagree

- `sync_clone`: a clone looks up the announced heads, pulls them, and then
  registers. An announcement that arrives during the pull is an orphan with
  the matching id, which `register_repo` drops (`hub/mod.rs:152`); the peer
  does not send it again until it has something new. The README promises that
  "the daemon will keep both copies in sync".
- `sync_restart`: `route` does not know which connection an announcement was
  read from (`hub/mod.rs:420`). One read before the peer's daemon restarted
  and routed after its reconnection sets the watermark to the old daemon's
  sequence, and the new one, starting over from 1, is ignored.
- `workspaces_recreate`: a watched directory that is removed and created again
  before its events are handled is found to exist and to be watched
  (`watch/tree/mod.rs:265`), so nothing is re-derived, although the kernel
  watch went with the old directory; `watch/tree/mod.rs:16` promises that a
  directory "however it appeared" starts being watched.

Modelling showed others that no run is kept for:

- A tombstone outranks the record it removed, but a machine that missed the
  removal can forget and add the repo again, each add bumping the version
  (`config/state/mod.rs:312`), until its record outranks the tombstone; the
  comment on `mesh_repos` (line 60) says it "cannot resurrect the name".
- `run_sender` returns on a timeout (`hub/outbox.rs:87`) and nothing closes
  the connection, so the reconnect that is to "recover the state"
  (`hub/outbox.rs:18`) need not happen.
- A colocated repo is not healed: a crash between the mirror and the
  publication leaves its refs ahead of the view. If the peer moves a ref again
  before the retry, the retry's swap expects the old value and fails, the
  newer head is published, and jj's next import takes the interrupted value
  for a move of the user's, undoing the peer's.
- A fetch is abandoned when its repo is forgotten and added again: the inbox
  is demoted to orphans (`hub/mod.rs:228`) that `register_repo` drops as their
  id matches, and the peer's heads are missed until its next announcement. The
  comment at `repos/mod.rs:162` says that aborting a fetch mid-import "delays
  those heads to their next announcement and never strands it"; a peer that has
  nothing new and stays connected makes none.
- `try_send` and the overflow flag are two steps (`watch/tree/mod.rs:107`). The
  task can drain the queue in between; the flag then goes up over an empty queue
  that wakes nobody, and the dropped event waits for the next one. The comment
  on `SIGNAL_QUEUE` says overflow "degrades exactly like the kernel's own queue
  overflow: one re-derivation and one change signal".
- A ticket is consumed before the save of the peer (`pairing.rs:135`), and the
  save may fail; the comment at `pairing.rs:89` says only a successful
  exchange redeems it.
- A task aborted between obtaining a connection and registering it registers
  late, and its cleanup can empty the hub of the connection a re-added peer's
  new task has registered meanwhile (`peers.rs:134-139`); the connection stays
  open and its announcements stop until it is made again.
- A save that fails syncing the directory leaves the new `mesh.json` in place,
  against "Nothing is committed (in memory or on disk)" (`store.rs:99`).
- A name conflict carries no sequence, so an announcement overtaken by its own
  retraction leaves a conflict behind (`hub/mod.rs:416`).
- `route` remembers an orphan of a peer that has disconnected, which
  `route_status` takes care not to do (`hub/mod.rs:388`).
- A failed fetch queues its heads again if the slot still has their sequence
  (`hub/inbox.rs:131`). A peer that restarted counts from 1 again, so what has
  that sequence may be the retraction it sent over its new connection, and the
  retracted heads are back; the comment at `hub/inbox.rs:124` says "the retry
  never resurrects stale or revoked state". Without the exception
  `InboxMovesForward` is violated by a restart and a forgotten repo.

## The proofs

The theorems hold for every value of the constants that satisfies the named
assumptions: any number of machines, names, tickets, connections, every cap and
every set of scenarios.

| Theorem | States |
|---|---|
| `MeshProofs!Invariant` | the inductive invariant `IInv` of `Mesh` |
| `MeshProofs!TypeCorrect` | `TypeOK`: in particular every version is below the ceiling |
| `RegisteredListed`, `ClaimsOnRegistered`, `PeerClaimsOfAlive` | the consistency of registrations, mesh list and claims |
| `DiskNotBehind`, `NeverRegress` | a restart loses nothing that was gossiped; no step but the loss of the file goes back |
| `Decodable` | every membership a machine can gossip is within `recv_uni`'s limits |
| `OthersClaims` | the claims a machine keeps for others are within each one's limit, and none is kept under its own id |
| `Idempotent` | merging a membership twice is merging it once, if the claims of all machines fit the mesh's cap |
| `PairingProofs!Invariant`, `TypeCorrect` | the inductive invariant of `Pairing`; the exchanges a host serves stay within its permits |
| `OneTime`, `DeadTickets` | a ticket registers one machine at most; a dead one registers nobody |
| `HostFirst`, `RefusalsHold` | a joiner saves after its host; a refusal is saved by neither side |
| `PeersProofs!Invariant`, `TypeCorrect` | the inductive invariant of `PeerConnections`; the inbound queues stay bounded |
| `Revoked` | a removed peer that is still in the hub has a cleanup coming |
| `TransferProofs!Invariant`, `TypeCorrect` | the inductive invariant of `Transfer` |
| `Readable`, `Closed` | a published head has all it exposes on disk; stores are closed under ancestry after every write |
| `HonestFetch` | no fetch between honest machines is refused or found invalid |
| `Refinement` | `Transfer` implements `OpLog` |
| `SyncProofs!Invariant`, `TypeCorrect` | the inductive invariant of `Sync` |
| `OffersFiled` | what an inbox or an orphan offers belongs to the repo it is filed under |
| `OrphansCapped` | a peer's orphans stay within the cap |
| `InboxForward` | no step brings superseded heads back into a slot |
| `LatestStands` | over one connection that loses nothing, once nothing is on its way an inbox holds what the peer last published |
| `MirrorProofs!Invariant`, `TypeCorrect` | the inductive invariant of `Mirror`; in particular the merged view of any op heads is a value of its type |
| `GitInLine` | unless something interfered between merge and publication, every ref that the user has not moved, jj has not in conflict and whose swap did not fail is where jj's next import expects it |
| `UserMovesStay` | the mirror never moves a ref that is not where the last view had it |
| `HeadStays` | the mirror never changes the commit HEAD is at |
| `WorkspacesProofs!TypeCorrect` | `TypeOK`: recorded claims are within the limit, the event queue is bounded, the task runs exactly while the scan wants it |

### Mesh

The theorems rest on the assumptions in the modules: the domains are finite sets of
numbers, the founders fit the peer cap, the caps are naturals with at least one
peer, and a machine's claims fit the mesh's (64 and 1024 in
`claims.rs`).

None of the properties is inductive alone. A machine's memory comes back from
disk, so whatever holds of `mem` must hold of `disk`; and what merging
preserves depends on the caps and on the types of what is merged. `IInv` is
`TypeOK`, `DiskIsNotBehind`, and `Sound` of every memory and disk: typed,
repos listed, claims registered, peer claims alive, and within the caps, the
caps here counted the way the code checks them, without the machine's own
record. Per operation, one lemma shows that it preserves `Sound` and is
`NotBehind` its argument (`RenameFacts` ... `MergeFacts`); `CommitsFacts` turns
that into a step of `Update` or `SaveFailsUnsynced`, `NextIInv` is the case
split over the actions, and the same case split yields `RecordsNeverRegress`.
`Decodable` then needs only counting: the union of the peers' claims and the
machine's own is within the mesh limit because the room for the machine's own
is reserved (`SoundIsDecodable`).

`Idempotent` has a hypothesis, `ClaimsFit`: the number of machines times the
limit of one machine's claims is within the mesh's cap (16 machines in the
code, since 16 times 64 is 1024). It is needed, although `net/sync.rs:9` and
`config/state/membership.rs:37` call the snapshots idempotent without one. With one claim
per machine, a cap of two and three machines, TLC finds a merge that turns a
claim down and then adopts, in the same pass, another machine's release, which
makes room: merged again, the same snapshot adopts what it had turned down. The
periodic gossip sends it again, so this delays a claim and loses nothing. The
caps on peers and repos need no hypothesis, since those maps never shrink
(`AdoptTwice`), nor does the version ceiling (`ObserveTwice`). `FittingClaims`
counts: the others' claims are numbered machine by machine, an injection into
one less than the machines times the limit. That takes a second inductive
invariant, `OthersInv`: what is kept for others is within each one's limit and
none of it is the machine's own, in memory and on disk (`OthersClaims`).

### Pairing

A step concerns one exchange, so `IInv` says of every exchange what each phase
implies about the other side (`ExchangeSound`): a host that is redeeming has
welcomed and been answered "done", a joiner that is saving has presented a
ticket by which it is registered, whoever welcomed or answered did not refuse.
`TicketsSound` says that an outstanding ticket is its host's alone and has
registered nobody, which makes `TicketsAreOneTime` inductive. `ExchangeStep`
handles the steps that change one exchange only; `Redeem` is the one that
changes tickets, peers and the exchange at once. The bound on the permits is a
cardinality argument over the set of exchanges being served.

### Peers

A late registration is harmless only because the task that makes it is either
the peer's one running task or an aborted one. `IInv` therefore adds
`OneRunningTask` (a machine has exactly one running task per paired peer, and
none for anybody else) and `GoneTasksWereAborted` to `TypeOK` and the property.
`AddPeer` and `RemovePeer` are the steps where the count of running tasks
changes.

### Transfer

The assumptions: machines and slots are finite sets of numbers, which the
permits count, and the operations the machines start with precede those that
are written. A write takes the first number left, so an operation has a
greater number than its ancestors, and the file written next (the first one
that is missing) never comes before one it depends on.

`IInv` is `TypeOK`; `AncestrySound` (ancestry is reflexive, transitive and
ordered, and operations are written in order); `StoreSound` of every store,
which is stronger than `StoresAreClosed` and `HeadsAreReadable`; what a user's
command knows (`UserSound`); that an offer is of heads its peer still reaches;
and, of every fetch, what its phase says about its batch (`FetchSound`): the
batch closes the ancestry of the wants over what the store has, the commits
still to come close that of the batch, and what the finished phases wrote is
on disk. It is inductive because ancestry,
stores and what the heads reach only grow (`Grown`), so a step of one fetch,
command or crash keeps what the others know (`FetchKept`, `UserKept`). There
is one lemma per action; `HonestDelta` and `HonestRange` are the heart of
`HonestFetch`: a server's delta for any sample of haves passes the receiver's
checks.

The refinement has one lemma per action that moves the heads (`UserListsLog`,
`UserUnlists` in `UnlistLog`, `PublishHeadLog`, ...); all others leave what is
visible alone (`QuietLog`). A listing shows exactly the new operation; a
publication shows the want's whole history, which its peer shows.

### Sync

`SyncHubProofs` shows of every operation of the hub that from a typed and
sound hub it makes a typed and sound one and moves each slot forward
(`PublishStep` ... `RouteStep`); registering and unregistering, which change
the id a name stands for, have lemmas of their own. `HubSound` is that what is
published, offered or an orphan is filed under the id of its repo, that a slot
without heads is drained, that the orphans are within their cap and that what
is in the outbox names the repo its heads belong to.

`SyncProofs` adds what surrounds the hubs: a task runs for a registered repo
only and what it drained are heads of that repo (`TaskSound`), a machine's
operations are of the repos it has them for, and so are those of clones,
aborted tasks and announcements on their way (`TransitSound`). Each action has
a lemma that both the invariant and the forward movement of every slot hold.
Forward movement is about steps, but one of them needs the invariant: a retry
must put back what the slot held. `RetryFits` says that it does while the slot
has the sequence the task drained and is not empty. The exception for
retractions is therefore in the property: the first attempt at this proof, for
the property without it, failed on the requeue, and TLC found the behaviour.

`LatestStands` has an invariant of its own on top of that one, `LatestInv`. It
looks at one sender, one receiver and one name at a time (a `View`): what the
sender publishes and the highest sequence it has given out, what is in its
outbox or on a stream, and what the receiver's slot and task hold. `CaughtUp`
says of a view that an end that has not adopted the connection has nothing from
it, that no sequence exceeds the sender's counter, that what the task drained is
no later than the slot, and that it is `Settled`: the slot, and each
announcement on its way, has the published heads, or something later of the same
repo has arrived or is on its way. The last part is what makes streams read out
of order, a retry and a re-clone come out right, and it is weaker than what is
wanted; with nothing on its way it comes down to `LatestWins`. `Settled` is not
claimed while the sender holds another repo under the name, since what it
announces then does not count; dropping a repo retracts what it announced of
it, which restores the claim. The property is of the whole system but an action
changes one end of a few views, so each action is taken back to what the hub's
operation tells a peer (`Tells`, `NothingTold`) and what it makes of what was
heard from one (`Hears`, `HearsNothing`), lemmas about which are at the end of
`SyncHubProofs`. The hypothesis `OneConnection` is about the scenario: no loss
and at most one connection, with any number of machines, repos, operations,
registrations, faults and restarts.

The assumptions are those of `SyncHub` and `Sync`: machines and names are
finite sets of numbers and ids are numbers, at least one repo is named, and a
repo's first id is its name's number.

### Mirror

The assumptions: there is a commit, the operations are a finite set of numbers,
and the ancestry of commits is any function.

`MergedRefs` is recursive in the op heads: merging two needs the merged view of
their closest common ancestors. So it has to be shown first that the recursion
defines anything. The induction theorems are out of the prover's reach, and
each of these lemmas argues by a least counterexample instead, on the greatest
operation of a set of heads: a solution of the recursion exists (`SolutionExists`),
its values are views (`SolutionTyped`), and a write, which takes a greater
number than all operations before it, leaves the merge of older heads as it
was (`SolutionKept`).

`IInv` is `TypeOK`; `OpsSound` (ancestry is ordered; heads, the peers' heads
and wants are written, and the wants are not heads yet); `ApplySound` (what each
phase has in hand); `ViewsSound` (between merge and publication `apply.after` is
the view the heads will have, whatever became of the refs, unless a jj command
changed the heads); and, unless
something raced with the publication, `LineSound`, which is where each ref is in
each phase, for the refs that are `Mirrored`: not `touched` and not `skipped`.
They are in line with the heads' view while a fetch is idle or staged; between
merge and publication, the refs done are where `apply.after` has them and the
refs still to do are where the swap expects them. A ref whose swap fails is no
longer `Mirrored`, so `LineSound` has nothing to say of it and the publication
goes on, as in the code; it is mirrored again once jj imports, or once the refs
are read as stored, from which point on they are expected where they are.
`GitIsInLine` is what is left of this outside that window. The two action
properties are about `Swap` alone: its expected value is the last view's, which
`LineSound` supplies for `UserMovesSurvive`, and a ref that moves under HEAD
detaches it where it was.

### Workspaces

`TypeOK` is inductive, but not with the limit where one would look for it. The
scan counts what is recorded and what it sent last as held, so a workspace that
is forgotten and restored before the claims without it are recorded is held
besides the one claimed in its place, and the scan asks for more than the limit
(`task.rs:380`). The limit rests on the store's own check
(`WorkspaceClaims::set`), which drops such an update; the scan asks for less
once a claim goes, so `EventuallyAutomated` holds all the same. That the task
runs exactly while the scan wants it holds because no step of the working copy
starts or ends it: a failed one stays listed until the next scan.

### Only model-checked

Convergence, synchronization, replication, pairing, connection and automation
in the end: liveness under fairness is out of the prover's reach. What several
connections or a loss leave in an inbox is covered by `EventuallySynced` only,
on the scenarios of `sync_live`; `LatestWins` does not hold there.

## What is not modelled, and the plan

Not modelled: byte encodings (`net/wire.rs`, `repo/codec.rs`, most of
`transfer/pack.rs`), which have no state; the CLI, service files, logs and key
handling, which are I/O; the control socket's framing; the status slots of the
outbox and peers' health reports, which are only shown; the repo settings file;
`DirWatcher`, taken at its word that a change of the op heads wakes the repo
task; the kernel's side of the watchers beyond queues and watches.

Next: `LatestWins` is claimed of one connection; a version of it that survives a
reconnect would relate a slot to the daemon and connection it came from, and
needs `announceSeq` of a restarted daemon told apart from that of the old one.
