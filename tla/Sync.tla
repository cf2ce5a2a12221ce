-------------------------------- MODULE Sync --------------------------------
(***************************************************************************)
(* Op log synchronization between daemons: each machine's hub, its repo    *)
(* tasks (daemon/repos/task.rs) and clones (daemon/control/clone.rs), and  *)
(* the connections their announcements and fetches go over.                *)
(*                                                                         *)
(* A repo task announces the operations of its repo and fetches announced  *)
(* ones it misses; its loop is cut at its await points.  Announcements go  *)
(* on streams of their own, each read and routed by a task of its own: on  *)
(* one connection they overtake each other, and one that was read is       *)
(* routed even if its connection ended meanwhile.                          *)
(*                                                                         *)
(* Abstracted: how two machines settle on a connection (a new one replaces *)
(* the old), the fetch protocol (a fetch is its outcome, decided when it   *)
(* ends), the mesh-wide list of repos (any unregistered name can be added  *)
(* or cloned), and an announcement's validation.                           *)
(***************************************************************************)
EXTENDS SyncHub

CONSTANT
    Scenarios      \* where an execution starts, and what happens in it

\* In a scenario, `held` are the repos registered at the start, `moved` the
\* ones users add, forget and clone, and the other fields bound what is yet
\* to happen: operations written, repos moved, connections made, restarts,
\* failures that are retried, and messages lost on a connection that stays
\* open.
Scenario ==
    [held : SUBSET (Machine \X RepoName), moved : SUBSET (Machine \X RepoName),
     ops : Nat, regs : Nat, conns : Nat, restarts : Nat, faults : Nat, losses : Nat]

ASSUME SyncAssumption ==
    /\ Scenarios \subseteq Scenario
    /\ RepoName \subseteq RepoId      \* a name's first id is its number
    /\ RepoName # {}

VARIABLES
    hub,           \* hub[m]: machine m's SyncHub
    ops,           \* ops[m][n]: the operations of the repo registered as n
    task,          \* task[m][n]: its repo task
    stale,         \* tasks aborted but yet to reach an await point
    clone,         \* clone[m]: the clone under way
    link,          \* link[{a, b}]: the open connection, or 0
    net,           \* announcement streams
    ids,           \* the repo ids generated so far
    scenario       \* the scenario, as far as it has not happened yet

vars == <<hub, ops, task, stale, clone, link, net, ids, scenario>>

Pairs == {{a, b} : a, b \in Machine} \ {{a} : a \in Machine}

PeerAnnounces == [peer : Machine, seq : Nat, heads : SUBSET Op]

Tasks ==
    [phase : {"closed", "idle", "busy"},
     heads : SUBSET Op,                  \* the baseline last published
     todo : SUBSET PeerAnnounces]        \* drained, not handled yet

ClosedTask == [phase |-> "closed", heads |-> {}, todo |-> {}]

Clones ==
    [name : RepoName, id : RepoId \cup {NoId},
     sources : SUBSET [peer : Machine, heads : SUBSET Op],
     pulled : SUBSET Op]

NoClone(n) == [name |-> n, id |-> NoId, sources |-> {}, pulled |-> {}]

Streams ==
    [conn : Nat, from : Machine, to : Machine, name : RepoName, announce : Announce,
     read : BOOLEAN]

StaleTasks == [machine : Machine, name : RepoName, id : RepoId, heads : SUBSET Op]

\* The variables have their types, and a slot whose heads were retracted is
\* never drained again.
TypeOK ==
    /\ hub \in [Machine -> HubState]
    /\ \A m, p \in Machine, n \in RepoName :
          LET slot == hub[m].repos[n].inbox[p] IN slot.heads = {} => slot.drained
    /\ ops \in [Machine -> [RepoName -> SUBSET Op]]
    /\ task \in [Machine -> [RepoName -> Tasks]]
    /\ stale \subseteq StaleTasks
    /\ clone \in [Machine -> Clones]
    /\ link \in [Pairs -> Nat]
    /\ net \subseteq Streams
    /\ ids \subseteq RepoId
    /\ scenario \in Scenario

SomeName == CHOOSE n \in RepoName : TRUE

Init ==
    /\ scenario \in Scenarios
    /\ hub = [m \in Machine |->
                 [EmptyHub EXCEPT !.repos = [n \in RepoName |->
                     NewEntry(IF <<m, n>> \in scenario.held THEN n ELSE NoId)]]]
    /\ ops = [m \in Machine |-> [n \in RepoName |->
                 IF <<m, n>> \in scenario.held THEN {<<n, 0>>} ELSE {}]]
    /\ task = [m \in Machine |-> [n \in RepoName |-> ClosedTask]]
    /\ stale = {}
    /\ clone = [m \in Machine |-> NoClone(SomeName)]
    /\ link = [pair \in Pairs |-> 0]
    /\ net = {}
    /\ ids = {held[2] : held \in scenario.held}

RepoIdOf(m, n) == hub[m].repos[n].id

\* Both ends hold the connection that is open.
Connected(a, b) ==
    /\ a # b
    /\ link[{a, b}] # 0
    /\ hub[a].conn[b] = link[{a, b}]
    /\ hub[b].conn[a] = link[{a, b}]

\* What the scenario bounds.
Registers(m, n) ==
    /\ <<m, n>> \in scenario.moved /\ scenario.regs > 0
    /\ scenario' = [scenario EXCEPT !.regs = @ - 1]

Faults == scenario.faults > 0 /\ scenario' = [scenario EXCEPT !.faults = @ - 1]

Losses == scenario.losses > 0 /\ scenario' = [scenario EXCEPT !.losses = @ - 1]

-----------------------------------------------------------------------------
(***************************************************************************)
(* The user                                                                *)
(***************************************************************************)

\* A jj command writes an operation.
Operate(m, n) ==
    /\ Registered(hub[m], n)
    /\ scenario.ops > 0
    /\ scenario' = [scenario EXCEPT !.ops = @ - 1]
    /\ ops' = [ops EXCEPT ![m][n] = @ \cup {<<RepoIdOf(m, n), scenario.ops>>}]
    /\ UNCHANGED <<hub, task, stale, clone, link, net, ids>>

\* `jj-mesh repo add`: RepoSet::sync registers the repo under a new id.  Ids
\* are random: which unused one it is does not matter.
AddRepo(m, n, id) ==
    /\ ~Registered(hub[m], n)
    /\ id \notin ids /\ \A other \in RepoId \ ids : id <= other
    /\ Registers(m, n)
    /\ ids' = ids \cup {id}
    /\ hub' = [hub EXCEPT ![m] = RegisterRepo(@, n, id)]
    /\ ops' = [ops EXCEPT ![m][n] = {<<id, 0>>}]
    /\ UNCHANGED <<task, stale, clone, link, net>>

\* `jj-mesh repo forget`: RepoSet::sync aborts the task, which may still
\* publish once before it stops, and unregisters the repo.
ForgetRepo(m, n) ==
    /\ Registered(hub[m], n)
    /\ Registers(m, n)
    /\ hub' = [hub EXCEPT ![m] = UnregisterRepo(@, n)]
    /\ ops' = [ops EXCEPT ![m][n] = {}]
    /\ task' = [task EXCEPT ![m][n] = ClosedTask]
    /\ stale' = IF ops[m][n] # task[m][n].heads
                THEN stale \cup {[machine |-> m, name |-> n, id |-> RepoIdOf(m, n),
                                  heads |-> ops[m][n]]}
                ELSE stale
    /\ UNCHANGED <<clone, link, net, ids>>

-----------------------------------------------------------------------------
(***************************************************************************)
(* Repo tasks                                                              *)
(***************************************************************************)

\* RepoTask::watch up to its loop: serve the repo and publish its heads.
Open(m, n) ==
    /\ Registered(hub[m], n)
    /\ task[m][n].phase = "closed"
    /\ hub' = [hub EXCEPT ![m] =
                  Publish(RepoOpened(@, n, RepoIdOf(m, n)), n, RepoIdOf(m, n), ops[m][n])]
    /\ task' = [task EXCEPT ![m][n] = [phase |-> "idle", heads |-> ops[m][n], todo |-> {}]]
    /\ UNCHANGED <<ops, stale, clone, link, net, ids, scenario>>

\* The loop wakes (a watch event, a notification, the retry timer) and
\* drains the inbox.
Wake(m, n) ==
    /\ task[m][n].phase = "idle"
    /\ Undrained(hub[m], n) # {} \/ ops[m][n] # task[m][n].heads
    /\ hub' = [hub EXCEPT ![m] = Drain(@, n)]
    /\ task' = [task EXCEPT ![m][n].phase = "busy", ![m][n].todo = Drained(hub[m], n)]
    /\ UNCHANGED <<ops, stale, clone, link, net, ids, scenario>>

\* A fetch of `heads` that m makes of p can succeed.  It takes effect at the
\* moment it is served.
CanFetch(m, p, n, id, heads) ==
    Connected(m, p) /\ Serves(hub[p], n, id) /\ heads \subseteq ops[p][n]

First(todo) == CHOOSE x \in todo : \A y \in todo : x.peer <= y.peer

\* handle_announce, for the first of the drained announcements: nothing is
\* missing, the fetch is served, or the check or the fetch fails and the
\* announcement is queued again.
Handle(m, n) ==
    LET x == First(task[m][n].todo)
        missing == ~(x.heads \subseteq ops[m][n])
        served == CanFetch(m, x.peer, n, RepoIdOf(m, n), x.heads)
    IN  /\ task[m][n].phase = "busy" /\ task[m][n].todo # {}
        /\ task' = [task EXCEPT ![m][n].todo = @ \ {x}]
        /\ \/ ~missing /\ UNCHANGED <<hub, ops, scenario>>
           \/ /\ missing /\ served
              /\ ops' = [ops EXCEPT ![m][n] = @ \cup x.heads]
              /\ UNCHANGED <<hub, scenario>>
           \/ /\ (missing /\ ~served /\ UNCHANGED scenario) \/ Faults
              /\ hub' = [hub EXCEPT ![m] = Requeue(@, n, x)]
              /\ UNCHANGED ops
        /\ UNCHANGED <<stale, clone, link, net, ids>>

\* The end of an iteration: the heads are read again and published if they
\* changed.
Settle(m, n) ==
    /\ task[m][n].phase = "busy" /\ task[m][n].todo = {}
    /\ hub' = IF ops[m][n] = task[m][n].heads THEN hub
              ELSE [hub EXCEPT ![m] = Publish(@, n, RepoIdOf(m, n), ops[m][n])]
    /\ task' = [task EXCEPT ![m][n].phase = "idle", ![m][n].heads = ops[m][n]]
    /\ UNCHANGED <<ops, stale, clone, link, net, ids, scenario>>

\* The watch fails or the store was reconfigured: the repo is not served
\* until it is opened again.
WatchEnds(m, n) ==
    /\ task[m][n].phase # "closed" /\ task[m][n].todo = {}
    /\ Faults
    /\ hub' = [hub EXCEPT ![m] = RepoClosed(@, n, RepoIdOf(m, n))]
    /\ task' = [task EXCEPT ![m][n] = ClosedTask]
    /\ UNCHANGED <<ops, stale, clone, link, net, ids>>

\* The check of an announcement panics: the watch ends, and what it drained
\* is not handled.
CheckPanics(m, n) ==
    /\ task[m][n].todo # {}
    /\ Losses
    /\ hub' = [hub EXCEPT ![m] = RepoClosed(@, n, RepoIdOf(m, n))]
    /\ task' = [task EXCEPT ![m][n] = ClosedTask]
    /\ UNCHANGED <<ops, stale, clone, link, net, ids>>

\* An aborted task gets as far as publishing.  (One aborted while it opens
\* its stores may get as far as making them servable: under the id it was
\* spawned for, as the registration's own task is about to do.)
PublishStale(z) ==
    /\ stale' = stale \ {z}
    /\ hub' = [hub EXCEPT ![z.machine] = Publish(@, z.name, z.id, z.heads)]
    /\ UNCHANGED <<ops, task, clone, link, net, ids, scenario>>

\* Or reaches an await point first.
StopStale(z) ==
    /\ stale' = stale \ {z}
    /\ UNCHANGED <<hub, ops, task, clone, link, net, ids, scenario>>

-----------------------------------------------------------------------------
(***************************************************************************)
(* Clones                                                                  *)
(***************************************************************************)

\* add_repo refuses a name or an id that is registered.
CanRegister(m, n, id) ==
    ~Registered(hub[m], n) /\ \A k \in RepoName : RepoIdOf(m, k) # id

\* clone_pull_and_register: the sources are looked up once.
StartClone(m, n) ==
    /\ clone[m].id = NoId
    /\ CloneSources(hub[m], n) # {}
    /\ Registers(m, n)
    /\ \E id \in RepoId :
          /\ SourcesAgree(hub[m], n, id) /\ CanRegister(m, n, id)
          /\ clone' = [clone EXCEPT ![m] =
                [name |-> n, id |-> id,
                 sources |-> {[peer |-> p, heads |-> hub[m].orphans[n][p].heads] :
                                 p \in CloneSources(hub[m], n)},
                 pulled |-> {}]]
    /\ UNCHANGED <<hub, ops, task, stale, link, net, ids>>

\* The pull from the first source ends: with its heads, or on to the next.
PullClone(m) ==
    LET c == clone[m]
        x == First(c.sources)
    IN  /\ c.sources # {}
        /\ \/ /\ CanFetch(m, x.peer, c.name, c.id, x.heads)
              /\ clone' = [clone EXCEPT ![m].pulled = x.heads, ![m].sources = {}]
              /\ UNCHANGED scenario
           \/ /\ \/ ~CanFetch(m, x.peer, c.name, c.id, x.heads) /\ UNCHANGED scenario
                 \/ Faults
              /\ clone' = [clone EXCEPT ![m].sources = @ \ {x}]
        /\ UNCHANGED <<hub, ops, task, stale, link, net, ids>>

\* The clone ends: registered if a source was pulled and the name is free.
EndClone(m) ==
    LET c == clone[m]
    IN  /\ c.id # NoId /\ c.sources = {}
        /\ clone' = [clone EXCEPT ![m] = NoClone(SomeName)]
        /\ IF c.pulled # {} /\ CanRegister(m, c.name, c.id)
           THEN /\ hub' = [hub EXCEPT ![m] = RegisterRepo(@, c.name, c.id)]
                /\ ops' = [ops EXCEPT ![m][c.name] = c.pulled]
           ELSE UNCHANGED <<hub, ops>>
        /\ UNCHANGED <<task, stale, link, net, ids, scenario>>

\* The client that asked for the clone goes away.
CancelClone(m) ==
    /\ clone[m].id # NoId
    /\ Faults
    /\ clone' = [clone EXCEPT ![m] = NoClone(SomeName)]
    /\ UNCHANGED <<hub, ops, task, stale, link, net, ids>>

-----------------------------------------------------------------------------
(***************************************************************************)
(* Connections and streams                                                 *)
(***************************************************************************)

\* The streams of a pair that end with its connection: those not read yet.
Surviving(pair) == {s \in net : {s.from, s.to} # pair \/ s.read}

\* A connection is made; it replaces the pair's old one, if any.
Connect(pair) ==
    /\ scenario.conns > 0
    /\ scenario' = [scenario EXCEPT !.conns = @ - 1]
    /\ link' = [link EXCEPT ![pair] = scenario.conns]
    /\ net' = Surviving(pair)
    /\ UNCHANGED <<hub, ops, task, stale, clone, ids>>

Disconnect(pair) ==
    /\ link[pair] # 0
    /\ link' = [link EXCEPT ![pair] = 0]
    /\ net' = Surviving(pair)
    /\ UNCHANGED <<hub, ops, task, stale, clone, ids, scenario>>

\* a's peer task holds the open connection to b.
Adopt(a, b) ==
    /\ link[{a, b}] # 0 /\ hub[a].conn[b] # link[{a, b}]
    /\ hub' = [hub EXCEPT ![a] = PeerConnected(@, b, link[{a, b}])]
    /\ UNCHANGED <<ops, task, stale, clone, link, net, ids, scenario>>

\* a's peer task sees its connection to b closed.
NoticeLoss(a, b) ==
    /\ hub[a].conn[b] # 0 /\ hub[a].conn[b] # link[{a, b}]
    /\ hub' = [hub EXCEPT ![a] = PeerDisconnected(@, b)]
    /\ UNCHANGED <<ops, task, stale, clone, link, net, ids, scenario>>

Pending(h, p) == {n \in RepoName : h.outbox[p][n] # NoAnnounce}

\* run_sender takes the first pending announcement.
Popped(h, p) == CHOOSE n \in Pending(h, p) : \A k \in Pending(h, p) : n <= k

Send(a, b) ==
    LET n == Popped(hub[a], b)
    IN  /\ hub[a].sending[b] /\ Pending(hub[a], b) # {}
        /\ hub[a].conn[b] = link[{a, b}]
        /\ hub' = [hub EXCEPT ![a].outbox[b][n] = NoAnnounce]
        /\ net' = net \cup {[conn |-> link[{a, b}], from |-> a, to |-> b, name |-> n,
                             announce |-> hub[a].outbox[b][n], read |-> FALSE]}
        /\ UNCHANGED <<ops, task, stale, clone, link, ids, scenario>>

\* A send that exceeds SEND_TIMEOUT ends the sender task, not the connection.
SendTimesOut(a, b) ==
    /\ hub[a].sending[b] /\ Pending(hub[a], b) # {}
    /\ Losses
    /\ hub' = [hub EXCEPT ![a] =
                  [@ EXCEPT !.sending[b] = FALSE,
                            !.outbox[b][Popped(hub[a], b)] = NoAnnounce]]
    /\ UNCHANGED <<ops, task, stale, clone, link, net, ids>>

\* serve_uni's task reads a stream of the connection its peer task holds.
Read(s) ==
    /\ ~s.read
    /\ s.conn = link[{s.from, s.to}] /\ s.conn = hub[s.to].conn[s.from]
    /\ net' = (net \ {s}) \cup {[s EXCEPT !.read = TRUE]}
    /\ UNCHANGED <<hub, ops, task, stale, clone, link, ids, scenario>>

\* And routes it, whatever became of the connection.
Route(s) ==
    /\ s.read
    /\ net' = net \ {s}
    /\ hub' = [hub EXCEPT ![s.to] = RouteAnnounce(@, s.from, s.name, s.announce)]
    /\ UNCHANGED <<ops, task, stale, clone, link, ids, scenario>>

\* Or drops it: too many open streams, or a read past STREAM_READ_TIMEOUT.
DropStream(s) ==
    /\ ~s.read
    /\ Losses
    /\ net' = net \ {s}
    /\ UNCHANGED <<hub, ops, task, stale, clone, link, ids>>

\* The daemon restarts: connections end, sequences start over and the
\* registered repos are registered again.
Restart(m) ==
    /\ scenario.restarts > 0
    /\ scenario' = [scenario EXCEPT !.restarts = @ - 1]
    /\ hub' = [hub EXCEPT ![m] =
                  [EmptyHub EXCEPT !.repos = [n \in RepoName |-> NewEntry(RepoIdOf(m, n))]]]
    /\ task' = [task EXCEPT ![m] = [n \in RepoName |-> ClosedTask]]
    /\ stale' = {z \in stale : z.machine # m}
    /\ clone' = [clone EXCEPT ![m] = NoClone(SomeName)]
    /\ link' = [pair \in Pairs |-> IF m \in pair THEN 0 ELSE link[pair]]
    /\ net' = {s \in net : s.to # m /\ (s.from = m => s.read)}
    /\ UNCHANGED <<ops, ids>>

-----------------------------------------------------------------------------
RepoStep(m, n) == Open(m, n) \/ Wake(m, n) \/ Handle(m, n) \/ Settle(m, n)

PeerStep(a, b) == a # b /\ (Adopt(a, b) \/ NoticeLoss(a, b) \/ Send(a, b))

StreamStep(s) == Read(s) \/ Route(s)

Next ==
    \/ \E m \in Machine, n \in RepoName : RepoStep(m, n)
    \/ \E m \in Machine, n \in RepoName : Operate(m, n)
    \/ \E m \in Machine, n \in RepoName, id \in RepoId : AddRepo(m, n, id)
    \/ \E m \in Machine, n \in RepoName : ForgetRepo(m, n)
    \/ \E m \in Machine, n \in RepoName : WatchEnds(m, n)
    \/ \E m \in Machine, n \in RepoName : CheckPanics(m, n)
    \/ \E z \in stale : PublishStale(z)
    \/ \E z \in stale : StopStale(z)
    \/ \E m \in Machine, n \in RepoName : StartClone(m, n)
    \/ \E m \in Machine : PullClone(m)
    \/ \E m \in Machine : EndClone(m)
    \/ \E m \in Machine : CancelClone(m)
    \/ \E pair \in Pairs : Connect(pair)
    \/ \E pair \in Pairs : Disconnect(pair)
    \/ \E a, b \in Machine : PeerStep(a, b)
    \/ \E a, b \in Machine : a # b /\ SendTimesOut(a, b)
    \/ \E s \in net : StreamStep(s)
    \/ \E s \in net : DropStream(s)
    \/ \E m \in Machine : Restart(m)

Spec == Init /\ [][Next]_vars

\* Tasks are scheduled, timers fire, and an open connection delivers.
Fairness ==
    /\ \A m \in Machine, n \in RepoName : WF_vars(RepoStep(m, n))
    /\ \A a, b \in Machine : a # b => WF_vars(Adopt(a, b)) /\ WF_vars(NoticeLoss(a, b))
                                      /\ WF_vars(Send(a, b))
    /\ WF_vars(\E s \in net : StreamStep(s))
    /\ \A m \in Machine : WF_vars(PullClone(m) \/ EndClone(m))

FairSpec == Spec /\ Fairness

-----------------------------------------------------------------------------
(***************************************************************************)
(* Properties                                                              *)
(***************************************************************************)

\* A name match with a different id is a conflict, never a sync: what a
\* repo's inbox offers for fetching, and what an orphan offers for cloning,
\* belongs to the repo it is filed under.
OffersAreOfTheirRepo ==
    \A m, p \in Machine, n \in RepoName :
        /\ hub[m].repos[n].inbox[p].heads \subseteq OpsOf(hub[m].repos[n].id)
        /\ hub[m].orphans[n][p].heads \subseteq OpsOf(hub[m].orphans[n][p].id)

\* While m holds a connection to p and a registration, its slot for p only
\* moves forward: the heads in it change only to those of a later
\* announcement, so neither a reordered stream nor a retried fetch brings
\* back superseded heads.  The exception is a retraction by a peer that has
\* restarted: a retry takes a slot for its own by the sequence alone, and the
\* new daemon's retraction may have that of the old one's announcement.
InboxMovesForward ==
    [][\A m, p \in Machine, n \in RepoName :
          LET old == hub[m].repos[n].inbox[p]
              new == hub'[m].repos[n].inbox[p]
          IN  /\ hub[m].conn[p] # 0 /\ hub'[m].conn[p] = hub[m].conn[p]
              /\ Registered(hub[m], n) /\ Registered(hub'[m], n)
              => \/ new.seq > old.seq
                 \/ new.seq = old.seq /\ (new.heads = old.heads \/ old.heads = {})]_vars

\* Nothing of a's is on its way to b.
Quiet(a, b) ==
    /\ Connected(a, b)
    /\ Pending(hub[a], b) = {}
    /\ \A s \in net : s.from # a \/ s.to # b

\* Latest wins: when nothing is on its way, what b's inbox holds from a is
\* what a last published of the same repo, however often a dropped it and
\* cloned it again.  b's own registration is the original one: the watermark
\* starts over with it.  It holds of one connection that loses nothing: a lost
\* announcement is not repeated, and what a's daemon announced before a restart
\* may stand after it (see InboxMovesForward and EventuallySynced).
LatestWins ==
    \A a, b \in Machine, n \in RepoName :
        /\ Quiet(a, b) /\ <<b, n>> \notin scenario.moved
        /\ Registered(hub[b], n)
        /\ RepoIdOf(a, n) \in {NoId, RepoIdOf(b, n)}
        => \/ hub[b].repos[n].inbox[a].seq = 0
           \/ hub[b].repos[n].inbox[a].heads = hub[a].repos[n].published

\* Once the users stop, two machines that are connected and hold the same
\* repo hold the same operations.
Synced ==
    \A a, b \in Machine, n \in RepoName :
        Connected(a, b) /\ Registered(hub[a], n) /\ RepoIdOf(a, n) = RepoIdOf(b, n)
        => ops[a][n] = ops[b][n]

EventuallySynced == <>[]Synced

\* One peer's unregistered repos take a bounded share of the orphan map,
\* whatever it announces and whatever is unregistered here.
OrphansAreBounded ==
    \A m, p \in Machine : OrphansHeldBy(hub[m], p) <= MAX_ORPHAN_REPOS_PER_PEER
=============================================================================
