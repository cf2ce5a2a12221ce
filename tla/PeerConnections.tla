-------------------------- MODULE PeerConnections --------------------------
(***************************************************************************)
(* Peer tasks and their connections (daemon/peers.rs): every machine runs  *)
(* one task per paired peer, both sides dial, and each side resolves the   *)
(* duplicates by itself.  Peers are removed and added again while tasks    *)
(* are at work.                                                            *)
(*                                                                         *)
(* A task is cut at its awaits.  Aborting one takes effect at its next     *)
(* await: a task between obtaining a connection and registering it in the  *)
(* hub ("got") still registers it.  A connection is closed for both ends   *)
(* at once; each end finds out in a step of its own.                       *)
(*                                                                         *)
(* Abstracted: time (a delay ends some time later, a connection may or may *)
(* not have been stable); the streams served over a connection, which are  *)
(* in Sync, Mesh and Transfer; names and status reports.                   *)
(***************************************************************************)
EXTENDS Naturals, Sequences, FiniteSets

CONSTANTS
    Machine,         \* endpoint ids
    Conn,            \* connections
    Slot,            \* tasks a machine can have for one peer: the one that
                     \* runs, and aborted ones that have not stopped yet
    INBOUND_QUEUE,
    Scenarios        \* what happens in an execution

NoConn == 0

\* In a scenario machines start with `paired` peers; `changes` bounds the
\* removals and additions of peers, `faults` the failed dials, lost
\* connections, restarts and dials cut short.
Scenario == [paired : [Machine -> SUBSET Machine], changes : Nat, faults : Nat]

ASSUME PeersAssumption ==
    /\ Machine \subseteq Nat /\ Machine # {}
    /\ Conn \subseteq Nat \ {NoConn}
    /\ Slot \subseteq Nat /\ \E s \in Slot : \A t \in Slot : s <= t
    /\ INBOUND_QUEUE \in Nat \ {0}
    /\ Scenarios \subseteq Scenario

VARIABLES
    paired,          \* paired[m]: the peers the mesh state of m lists
    task,            \* task[m][p][s]: m's tasks for p
    hub,             \* hub[m][p]: the connection the hub of m sends to p on
    conn,            \* conn[c]: a connection
    scenario

vars == <<paired, task, hub, conn, scenario>>

Tasks ==
    [phase : {"none", "backoff", "dialing", "got", "connected", "gone"},
     aborted : BOOLEAN,
     conn : Conn \cup {NoConn},
     outbound : BOOLEAN,
     queue : Seq(Conn)]               \* inbound connections

NoTask == [phase |-> "none", aborted |-> FALSE, conn |-> NoConn, outbound |-> FALSE, queue |-> <<>>]

NewTask == [NoTask EXCEPT !.phase = "dialing"]

\* `arriving`: the acceptor has not routed it yet.
Conns == [dialer : Machine, acceptor : Machine, open : BOOLEAN, arriving : BOOLEAN]

Init ==
    /\ scenario \in Scenarios
    /\ paired = scenario.paired
    /\ task = [m \in Machine |-> [p \in Machine |-> [s \in Slot |->
                  IF p \in paired[m] /\ \A t \in Slot : s <= t THEN NewTask ELSE NoTask]]]
    /\ hub = [m \in Machine |-> [p \in Machine |-> NoConn]]
    /\ conn = [c \in Conn |-> [dialer |-> CHOOSE m \in Machine : TRUE,
                              acceptor |-> CHOOSE m \in Machine : TRUE,
                              open |-> FALSE, arriving |-> FALSE]]

----------------------------------------------------------------------------
Fault == scenario.faults > 0 /\ scenario' = [scenario EXCEPT !.faults = @ - 1]

Change == scenario.changes > 0 /\ scenario' = [scenario EXCEPT !.changes = @ - 1]

Running(m, p, s) == task[m][p][s].phase # "none" /\ ~ task[m][p][s].aborted

SetTask(m, p, s, t) == task' = [task EXCEPT ![m][p][s] = t]

Queued(t) == {t.queue[i] : i \in 1 .. Len(t.queue)}

\* A connection nobody refers to: its number can be used again.
Unused(c) ==
    /\ ~ conn[c].arriving
    /\ \A m, p \in Machine :
        /\ hub[m][p] # c
        /\ \A s \in Slot : task[m][p][s].conn # c /\ c \notin Queued(task[m][p][s])

\* The next dialed connection, taken in order.
NextUnused(c) == Unused(c) /\ \A d \in Conn : d < c => ~ Unused(d)

Closed(cs) == [c \in Conn |-> [conn[c] EXCEPT !.open = @ /\ c \notin cs]]

Dialed(m, p, open) == [dialer |-> m, acceptor |-> p, open |-> open, arriving |-> TRUE]

----------------------------------------------------------------------------
\* run_peer.

\* The reconnect delay is over.  A connection that waits is adopted at the
\* first poll: one queued at the end of the delay is one queued right after.
BackoffEnds(m, p, s) ==
    LET t == task[m][p][s] IN
    /\ Running(m, p, s)
    /\ t.phase = "backoff"
    /\ t.queue = <<>>
    /\ SetTask(m, p, s, [t EXCEPT !.phase = "dialing"])
    /\ UNCHANGED <<paired, hub, conn, scenario>>

\* An inbound connection is adopted during the delay, or by the higher id
\* instead of its own dial.  The dial cut short may have reached the peer.
Adopts(m, p, phase) == phase = "backoff" \/ (phase = "dialing" /\ m > p)

Adopt(m, p, s) ==
    LET t == task[m][p][s] IN
    /\ Running(m, p, s)
    /\ t.queue # <<>>
    /\ Adopts(m, p, t.phase)
    /\ SetTask(m, p, s, [t EXCEPT !.phase = "got", !.conn = Head(t.queue), !.outbound = FALSE,
                                  !.queue = Tail(@)])
    /\ \/ UNCHANGED <<conn, scenario>>
       \/ /\ t.phase = "dialing"
          /\ Fault
          /\ \E c \in Conn : NextUnused(c) /\ conn' = [conn EXCEPT ![c] = Dialed(m, p, FALSE)]
    /\ UNCHANGED <<paired, hub>>

\* dial succeeds: the connection is on its way to the peer's accept loop.  The
\* higher id dials only while it has no connection to adopt.
DialCompletes(m, p, s) ==
    /\ Running(m, p, s)
    /\ task[m][p][s].phase = "dialing"
    /\ m < p \/ task[m][p][s].queue = <<>>
    /\ \E c \in Conn :
        /\ NextUnused(c)
        /\ conn' = [conn EXCEPT ![c] = Dialed(m, p, TRUE)]
        /\ SetTask(m, p, s, [task[m][p][s] EXCEPT !.phase = "got", !.conn = c, !.outbound = TRUE])
    /\ UNCHANGED <<paired, hub, scenario>>

DialFails(m, p, s) ==
    /\ Running(m, p, s)
    /\ task[m][p][s].phase = "dialing"
    /\ Fault
    /\ SetTask(m, p, s, [task[m][p][s] EXCEPT !.phase = "backoff"])
    /\ UNCHANGED <<paired, hub, conn>>

\* The beginning of connected: SyncHub::peer_connected, then the shared
\* state.  An aborted task gets here too.  The hub drops the connection it
\* had, which closes one that no task holds.
Register(m, p, s) ==
    /\ task[m][p][s].phase = "got"
    /\ hub' = [hub EXCEPT ![m][p] = task[m][p][s].conn]
    /\ SetTask(m, p, s, [task[m][p][s] EXCEPT !.phase = "connected"])
    /\ conn' = Closed({hub[m][p]} \ {task[m][p][t].conn : t \in Slot})
    /\ UNCHANGED <<paired, scenario>>

\* Mutant of KeepsOwn: a machine keeps what it dialed.
KeepsOutbound(m, p, outbound) == outbound

\* Keep the connection dialed by the lower id.
KeepsOwn(m, p, outbound) == outbound /\ m < p

\* connected: an inbound connection arrives while one is held.
Duplicate(m, p, s) ==
    LET t == task[m][p][s]
        new == Head(t.queue)
    IN
    /\ Running(m, p, s)
    /\ t.phase = "connected"
    /\ t.queue # <<>>
    /\ IF KeepsOwn(m, p, t.outbound)
       THEN /\ conn' = Closed({new})
            /\ SetTask(m, p, s, [t EXCEPT !.queue = Tail(@)])
            /\ UNCHANGED hub
       ELSE /\ conn' = Closed({t.conn} \cup ({hub[m][p]} \ {task[m][p][u].conn : u \in Slot}))
            /\ SetTask(m, p, s, [t EXCEPT !.queue = Tail(@), !.conn = new, !.outbound = FALSE])
            /\ hub' = [hub EXCEPT ![m][p] = new]
    /\ UNCHANGED <<paired, scenario>>

\* connected ends: SyncHub::peer_disconnected, which closes the connection
\* the hub has.  One that was stable is redialed at once.
SeesClosed(m, p, s) ==
    LET t == task[m][p][s] IN
    /\ Running(m, p, s)
    /\ t.phase = "connected"
    /\ ~ conn[t.conn].open
    /\ hub' = [hub EXCEPT ![m][p] = NoConn]
    /\ conn' = Closed({hub[m][p]})
    /\ \E phase \in {"backoff", "dialing"} :
        SetTask(m, p, s, [t EXCEPT !.phase = phase, !.conn = NoConn])
    /\ UNCHANGED <<paired, scenario>>

----------------------------------------------------------------------------
\* PeerSet.

\* Mutant of RouteInbound: a full queue takes one more.
RouteUnbounded(c) ==
    /\ conn[c].arriving
    /\ conn' = [conn EXCEPT ![c].arriving = FALSE]
    /\ \E s \in Slot :
        LET t == task[conn[c].acceptor][conn[c].dialer][s] IN
        /\ Running(conn[c].acceptor, conn[c].dialer, s)
        /\ SetTask(conn[c].acceptor, conn[c].dialer, s, [t EXCEPT !.queue = Append(@, c)])
    /\ UNCHANGED <<paired, hub, scenario>>

\* route_inbound: the connection goes to the task of its peer, and is closed
\* when there is none or its queue is full.
RouteInbound(c) ==
    LET m == conn[c].acceptor
        p == conn[c].dialer
        routed == [conn EXCEPT ![c].arriving = FALSE]
    IN
    /\ conn[c].arriving
    /\ IF \E s \in Slot : Running(m, p, s) /\ Len(task[m][p][s].queue) < INBOUND_QUEUE
       THEN /\ \E s \in Slot :
                /\ Running(m, p, s)
                /\ SetTask(m, p, s, [task[m][p][s] EXCEPT !.queue = Append(@, c)])
            /\ conn' = routed
       ELSE conn' = [routed EXCEPT ![c].open = FALSE] /\ UNCHANGED task
    /\ UNCHANGED <<paired, hub, scenario>>

\* sync after the peer was removed from the mesh state: the task is aborted,
\* its connection closed if it has published one, and a cleanup waits for it.
RemovePeer(m, p) ==
    /\ p \in paired[m]
    /\ Change
    /\ paired' = [paired EXCEPT ![m] = @ \ {p}]
    /\ task' = [task EXCEPT ![m][p] = [s \in Slot |->
                   IF Running(m, p, s) THEN [@[s] EXCEPT !.aborted = TRUE] ELSE @[s]]]
    /\ conn' = Closed({task[m][p][s].conn : s \in {t \in Slot : Running(m, p, t)
                                                    /\ task[m][p][t].phase = "connected"}})
    /\ UNCHANGED hub

\* sync after the peer was added: a task is spawned.
AddPeer(m, p) ==
    /\ m # p
    /\ p \notin paired[m]
    /\ Change
    /\ paired' = [paired EXCEPT ![m] = @ \cup {p}]
    /\ \E s \in Slot :
        /\ task[m][p][s].phase = "none"
        /\ \A t \in Slot : t < s => task[m][p][t].phase # "none"
        /\ SetTask(m, p, s, NewTask)
    /\ UNCHANGED <<hub, conn>>

\* The abort takes effect at an await.  What the task held is dropped, which
\* closes it unless the hub holds it too.
AbortLands(m, p, s) ==
    LET t == task[m][p][s] IN
    /\ t.aborted
    /\ t.phase \in {"backoff", "dialing", "connected"}
    /\ SetTask(m, p, s, [NoTask EXCEPT !.phase = "gone", !.aborted = TRUE])
    /\ conn' = Closed(({t.conn} \cup Queued(t)) \ {hub[m][p]})
    /\ UNCHANGED <<paired, hub, scenario>>

\* Mutant of CleanUp: the cleanup does not wait for the task's end.
CleanUpAtOnce(m, p, s) ==
    /\ task[m][p][s].aborted
    /\ hub' = [hub EXCEPT ![m][p] = NoConn]
    /\ conn' = Closed({hub[m][p]})
    /\ SetTask(m, p, s, IF task[m][p][s].phase = "got"
                        THEN [task[m][p][s] EXCEPT !.aborted = FALSE]
                        ELSE NoTask)
    /\ UNCHANGED <<paired, scenario>>

\* The cleanup spawned by sync, once the task is gone.
CleanUp(m, p, s) ==
    /\ task[m][p][s].phase = "gone"
    /\ hub' = [hub EXCEPT ![m][p] = NoConn]
    /\ conn' = Closed({hub[m][p]})
    /\ SetTask(m, p, s, NoTask)
    /\ UNCHANGED <<paired, scenario>>

----------------------------------------------------------------------------
\* The world around: external to the component.

\* The network drops a connection.
ConnectionLost(c) ==
    /\ conn[c].open
    /\ Fault
    /\ conn' = Closed({c})
    /\ UNCHANGED <<paired, task, hub>>

\* The daemon of m stops, and starts again from its mesh state.
Restart(m) ==
    /\ Fault
    /\ task' = [task EXCEPT ![m] = [p \in Machine |-> [s \in Slot |->
                   IF p \in paired[m] /\ \A t \in Slot : s <= t THEN NewTask ELSE NoTask]]]
    /\ hub' = [hub EXCEPT ![m] = [p \in Machine |-> NoConn]]
    /\ conn' = [c \in Conn |->
                   IF conn[c].acceptor = m
                   THEN [conn[c] EXCEPT !.open = FALSE, !.arriving = FALSE]
                   ELSE [conn[c] EXCEPT !.open = @ /\ conn[c].dialer # m]]
    /\ UNCHANGED paired

TaskStep(m, p, s) ==
    \/ BackoffEnds(m, p, s) \/ Adopt(m, p, s) \/ DialCompletes(m, p, s) \/ DialFails(m, p, s)
    \/ Register(m, p, s) \/ Duplicate(m, p, s) \/ SeesClosed(m, p, s)
    \/ AbortLands(m, p, s) \/ CleanUp(m, p, s)

Next ==
    \/ \E m, p \in Machine : RemovePeer(m, p) \/ AddPeer(m, p) \/ \E s \in Slot : TaskStep(m, p, s)
    \/ \E c \in Conn : RouteInbound(c) \/ ConnectionLost(c)
    \/ \E m \in Machine : Restart(m)

Spec == Init /\ [][Next]_vars

\* The runtime polls every task that can go on, and a dial that nothing
\* disturbs completes.
Fairness ==
    /\ \A m, p \in Machine, s \in Slot :
        /\ WF_vars(BackoffEnds(m, p, s)) /\ WF_vars(Adopt(m, p, s))
        /\ WF_vars(DialCompletes(m, p, s)) /\ WF_vars(Register(m, p, s))
        /\ WF_vars(Duplicate(m, p, s)) /\ WF_vars(SeesClosed(m, p, s))
        /\ WF_vars(AbortLands(m, p, s)) /\ WF_vars(CleanUp(m, p, s))
    /\ \A c \in Conn : WF_vars(RouteInbound(c))

FairSpec == Spec /\ Fairness

----------------------------------------------------------------------------
\* Properties.

\* The state is what the daemons can hold, and the queues are bounded.
TypeOK ==
    /\ paired \in [Machine -> SUBSET Machine]
    /\ task \in [Machine -> [Machine -> [Slot -> Tasks]]]
    /\ hub \in [Machine -> [Machine -> Conn \cup {NoConn}]]
    /\ conn \in [Conn -> Conns]
    /\ scenario \in Scenario
    /\ \A m, p \in Machine, s \in Slot : Len(task[m][p][s].queue) <= INBOUND_QUEUE

\* A removed peer is never left registered in the hub, where it would go on
\* receiving announcements: whatever a task did around its abort, a cleanup is
\* still to come (PeerSet::sync).
RevokedPeersAreCleanedUp ==
    \A m, p \in Machine :
        hub[m][p] # NoConn => p \in paired[m] \/ \E s \in Slot : task[m][p][s].aborted

\* m and p hold one open connection between them.
Connected(m, p) ==
    \E c \in Conn, s, t \in Slot :
        /\ conn[c].open
        /\ Running(m, p, s) /\ task[m][p][s].phase = "connected" /\ task[m][p][s].conn = c
        /\ Running(p, m, t) /\ task[p][m][t].phase = "connected" /\ task[p][m][t].conn = c

\* Two machines that have each other as peer end up with one connection and
\* keep it, whatever both dialed at once and however often one was removed and
\* added again; a machine that is no peer ends up without.
EventuallyOneConnection ==
    <>[](\A m, p \in Machine :
            IF p \in paired[m] /\ m \in paired[p]
            THEN m # p => Connected(m, p)
            ELSE p \notin paired[m] => hub[m][p] = NoConn)
============================================================================
