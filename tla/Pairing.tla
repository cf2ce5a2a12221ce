------------------------------ MODULE Pairing ------------------------------
(***************************************************************************)
(* Pairing (daemon/pairing.rs, net/pair.rs): a host issues a one-time      *)
(* ticket, another machine redeems it in an exchange over a connection of  *)
(* its own, and each machine then registers the other as a peer.           *)
(*                                                                         *)
(* An exchange is cut at every await of either side.  The connection can   *)
(* be lost at any moment, either side can time out or go away, a ticket    *)
(* can expire, be revoked or be replaced while it is being redeemed, and   *)
(* saving the peer can fail (a full mesh, a disk error) or be cut by the   *)
(* joining daemon's death.                                                 *)
(*                                                                         *)
(* Abstracted: the names and the text of rejections (whether a machine     *)
(* accepts the other's name is fixed per execution); the encoding of       *)
(* tickets (a ticket is its secret); what else the mesh state holds (a     *)
(* save that fails on a full mesh is a save that fails).                   *)
(***************************************************************************)
EXTENDS Naturals, FiniteSets

CONSTANTS
    Machine,
    Ticket,          \* ticket secrets, drawn in order
    MAX_EXCHANGES,
    Scenarios        \* what happens in an execution

NoTicket == 0

\* In a scenario the users of h and j want <<h, j>> of `wanted` paired, with
\* h hosting, while the `users` run commands; m refuses the name of p for
\* <<m, p>> of `refused`; `strays` bounds the commands no pairing needs, and
\* `faults` what goes wrong.
Scenario ==
    [users : SUBSET Machine, wanted : SUBSET (Machine \X Machine),
     refused : SUBSET (Machine \X Machine), strays : Nat, faults : Nat]

ASSUME PairingAssumption ==
    /\ IsFiniteSet(Machine)
    /\ Ticket \subseteq Nat \ {NoTicket}
    /\ MAX_EXCHANGES \in Nat
    /\ Scenarios \subseteq Scenario

VARIABLES
    peers,           \* peers[m]: the machines registered in m's mesh state
    hostOf,          \* hostOf[t]: the machine that issued t, or none yet
    issued,          \* issued[m]: the outstanding ticket of m
    hosting,         \* hosting[m]: the host requests waiting for a relay
    exchange,        \* exchange[j]: j's exchange, both ends of it
    registered,      \* registered[t]: how often t's host registered a peer by t
    scenario

vars == <<peers, hostOf, issued, hosting, exchange, registered, scenario>>

Issued == [ticket : Ticket \cup {NoTicket}, expired : BOOLEAN]

NotIssued == [ticket |-> NoTicket, expired |-> FALSE]

\* An exchange has a phase at the joiner and one at the host.  `sent` is the
\* joiner's last message and `close` how the connection was closed.
Exchanges ==
    [host : Machine,
     secret : Ticket \cup {NoTicket},            \* what the joiner presents
     joiner : {"idle", "hello", "done", "save"},
     server : {"idle", "inbound", "hello", "welcomed", "redeem", "reject"},
     ticket : Ticket \cup {NoTicket},            \* the host's copy of its ticket
     sent : {"hello", "done", "reject"},
     answer : {"none", "welcome", "reject"},
     close : {"open", "busy", "timeout", "cancelled", "rejected", "failed", "paired",
              "lost"},
     knowsHost : BOOLEAN,                        \* in the joiner's snapshot
     knowsJoiner : BOOLEAN]                      \* in the host's snapshot

NoExchange(m) ==
    [host |-> m, secret |-> NoTicket, joiner |-> "idle", server |-> "idle",
     ticket |-> NoTicket, sent |-> "hello", answer |-> "none", close |-> "lost",
     knowsHost |-> FALSE, knowsJoiner |-> FALSE]

Init ==
    /\ peers = [m \in Machine |-> {}]
    /\ hostOf = [t \in Ticket |-> {}]
    /\ issued = [m \in Machine |-> NotIssued]
    /\ hosting = [m \in Machine |-> 0]
    /\ exchange = [m \in Machine |-> NoExchange(m)]
    /\ registered = [t \in Ticket |-> 0]
    /\ scenario \in Scenarios

----------------------------------------------------------------------------
\* What the users want.

Paired(h, j) == j \in peers[h] /\ h \in peers[j]

\* Whether t would be accepted now.
Redeemable(m, t) == t # NoTicket /\ issued[m].ticket = t /\ ~ issued[m].expired

Wanted(h, j) == <<h, j>> \in scenario.wanted /\ ~ Paired(h, j)

Stray == scenario.strays > 0 /\ scenario' = [scenario EXCEPT !.strays = @ - 1]

Fault == scenario.faults > 0 /\ scenario' = [scenario EXCEPT !.faults = @ - 1]

\* An exchange both sides have ended is forgotten.
Set(j, x) ==
    exchange' = [exchange EXCEPT ![j] =
                    IF x.joiner = "idle" /\ x.server = "idle" THEN NoExchange(j) ELSE x]

----------------------------------------------------------------------------
\* Hosting.

\* Pairing::host up to the relay wait: the outstanding ticket is revoked
\* first, whatever becomes of the new one.
Revoke(h) ==
    /\ issued' = [issued EXCEPT ![h] = NotIssued]
    /\ hosting' = [hosting EXCEPT ![h] = @ + 1]
    /\ UNCHANGED <<peers, hostOf, exchange, registered>>

\* The user asks for a ticket because a pairing needs one, or again.
HostWanted(h) ==
    /\ \E j \in Machine : Wanted(h, j)
    /\ hosting[h] = 0
    /\ ~ Redeemable(h, issued[h].ticket)
    /\ Revoke(h)
    /\ UNCHANGED scenario

HostAgain(h) ==
    /\ \E j \in Machine : <<h, j>> \in scenario.wanted
    /\ Revoke(h)
    /\ Stray

Fresh(t) == hostOf[t] = {} /\ \A u \in Ticket : u < t => hostOf[u] # {}

\* The rest of Pairing::host.
Issue(h) ==
    /\ hosting[h] > 0
    /\ \E t \in Ticket :
        /\ Fresh(t)
        /\ hostOf' = [hostOf EXCEPT ![t] = {h}]
        /\ issued' = [issued EXCEPT ![h] = [ticket |-> t, expired |-> FALSE]]
    /\ hosting' = [hosting EXCEPT ![h] = @ - 1]
    /\ UNCHANGED <<peers, exchange, registered, scenario>>

\* No relay is reached in time.
HostFails(h) ==
    /\ hosting[h] > 0
    /\ Fault
    /\ hosting' = [hosting EXCEPT ![h] = @ - 1]
    /\ UNCHANGED <<peers, hostOf, issued, exchange, registered>>

\* The ticket's time to live passes.
Expire(h) ==
    /\ issued[h].ticket # NoTicket
    /\ ~ issued[h].expired
    /\ Fault
    /\ issued' = [issued EXCEPT ![h].expired = TRUE]
    /\ UNCHANGED <<peers, hostOf, hosting, exchange, registered>>

----------------------------------------------------------------------------
\* The joining side: join, and pair_join around it.

\* join up to its first read: connects, opens the stream and writes Hello.
\* The connection reaches the host's accept loop.
Connect(j, h, t) ==
    /\ exchange[j].joiner = "idle"
    /\ exchange[j].server = "idle"
    /\ h \in hostOf[t]
    /\ h # j
    /\ Set(j, [NoExchange(h) EXCEPT !.secret = t, !.joiner = "hello", !.server = "inbound",
                                    !.close = "open", !.knowsHost = h \in peers[j]])
    /\ UNCHANGED <<peers, hostOf, issued, hosting, registered>>

JoinWanted(j) ==
    \E h \in Machine, t \in Ticket :
        /\ Wanted(h, j)
        /\ Redeemable(h, t)
        /\ Connect(j, h, t)
        /\ UNCHANGED scenario

\* With any ticket there ever was.
JoinAnyway(j) ==
    \E h \in Machine, t \in Ticket :
        /\ j \in scenario.users
        /\ Connect(j, h, t)
        /\ Stray

\* Mutant of Accepts: re-pairing a registered machine is refused.
AcceptsOnlyNew(m, known, p) == ~ known /\ <<m, p>> \notin scenario.refused

\* resolve_peer_name: a registered peer keeps its name, another's is validated.
Accepts(m, known, p) == known \/ <<m, p>> \notin scenario.refused

\* The joiner reads the host's answer.
ReadAnswer(j) ==
    LET x == exchange[j] IN
    /\ x.joiner = "hello"
    /\ \/ /\ x.answer = "welcome"
          /\ Accepts(j, x.knowsHost, x.host)
          /\ Set(j, [x EXCEPT !.joiner = "done", !.sent = "done"])
       \/ /\ x.answer = "welcome"
          /\ ~ Accepts(j, x.knowsHost, x.host)
          /\ Set(j, [x EXCEPT !.joiner = "idle", !.sent = "reject"])
       \/ /\ x.answer = "reject"
          /\ Set(j, [x EXCEPT !.joiner = "idle",
                              !.close = IF @ = "open" THEN "rejected" ELSE @])
    /\ UNCHANGED <<peers, hostOf, issued, hosting, registered, scenario>>

\* Any close but `paired` ends the join with an error.
JoinEnds(j) ==
    LET x == exchange[j] IN
    /\ \/ x.joiner = "hello" /\ x.close # "open"
       \/ x.joiner = "done" /\ x.close \notin {"open", "paired"}
    /\ Set(j, [x EXCEPT !.joiner = "idle"])
    /\ UNCHANGED <<peers, hostOf, issued, hosting, registered, scenario>>

\* The user interrupts the command, or PAIRING_TIMEOUT passes: the exchange
\* is dropped and its connection with it.
CancelJoin(j) ==
    LET x == exchange[j] IN
    /\ x.joiner \in {"hello", "done"}
    /\ Fault
    /\ Set(j, [x EXCEPT !.joiner = "idle", !.close = IF @ = "open" THEN "lost" ELSE @])
    /\ UNCHANGED <<peers, hostOf, issued, hosting, registered>>

\* Mutant of Confirmed: any close counts as the confirmation.
ConfirmedByAnyClose(j) ==
    /\ exchange[j].joiner = "done"
    /\ exchange[j].close # "open"
    /\ Set(j, [exchange[j] EXCEPT !.joiner = "save"])
    /\ UNCHANGED <<peers, hostOf, issued, hosting, registered, scenario>>

\* The host's confirmation arrives.
Confirmed(j) ==
    /\ exchange[j].joiner = "done"
    /\ exchange[j].close = "paired"
    /\ Set(j, [exchange[j] EXCEPT !.joiner = "save"])
    /\ UNCHANGED <<peers, hostOf, issued, hosting, registered, scenario>>

\* MeshStore::add_paired_peer.
Saves(m, p) == peers' = [peers EXCEPT ![m] = @ \cup {p}]

JoinerSaves(j) ==
    /\ exchange[j].joiner = "save"
    /\ Saves(j, exchange[j].host)
    /\ Set(j, [exchange[j] EXCEPT !.joiner = "idle"])
    /\ UNCHANGED <<hostOf, issued, hosting, registered, scenario>>

\* The save fails, or the daemon dies before it.
JoinerFails(j) ==
    /\ exchange[j].joiner = "save"
    /\ Fault
    /\ Set(j, [exchange[j] EXCEPT !.joiner = "idle"])
    /\ UNCHANGED <<peers, hostOf, issued, hosting, registered>>

----------------------------------------------------------------------------
\* The hosting side: serve_inbound and pair_with.

\* Exchanges that hold a permit of h.
Permits(h) ==
    {j \in Machine : exchange[j].host = h /\ exchange[j].server \notin {"idle", "inbound"}}

\* A side closes the connection, unless it is closed already.
ClosedAs(x, reason) == IF x.close = "open" THEN reason ELSE x.close

\* Mutant of ServeInbound: an exchange runs without a permit.
ServeInboundUnbounded(j) ==
    LET x == exchange[j]
        h == x.host
    IN
    /\ x.server = "inbound"
    /\ Set(j, IF Redeemable(h, issued[h].ticket)
              THEN [x EXCEPT !.server = "hello", !.ticket = issued[h].ticket,
                             !.knowsJoiner = j \in peers[h]]
              ELSE [x EXCEPT !.server = "reject", !.answer = "reject"])
    /\ UNCHANGED <<peers, hostOf, issued, hosting, registered, scenario>>

\* serve_inbound up to its first await: the permit, the outstanding ticket,
\* which is dropped if it has expired, and the snapshot of the state.
ServeInbound(j) ==
    LET x == exchange[j]
        h == x.host
    IN
    /\ x.server = "inbound"
    /\ \/ /\ Cardinality(Permits(h)) >= MAX_EXCHANGES
          /\ Set(j, [x EXCEPT !.server = "idle", !.close = ClosedAs(x, "busy")])
          /\ UNCHANGED issued
       \/ /\ Cardinality(Permits(h)) < MAX_EXCHANGES
          /\ ~ Redeemable(h, issued[h].ticket)
          /\ Set(j, [x EXCEPT !.server = "reject", !.answer = "reject"])
          /\ issued' = [issued EXCEPT ![h] = NotIssued]
       \/ /\ Cardinality(Permits(h)) < MAX_EXCHANGES
          /\ Redeemable(h, issued[h].ticket)
          /\ Set(j, [x EXCEPT !.server = "hello", !.ticket = issued[h].ticket,
                              !.knowsJoiner = j \in peers[h]])
          /\ UNCHANGED issued
    /\ UNCHANGED <<peers, hostOf, hosting, registered, scenario>>

\* pair_with reads Hello and answers it.
ReadHello(j) ==
    LET x == exchange[j] IN
    /\ x.server = "hello"
    /\ \/ /\ x.secret # x.ticket \/ ~ Accepts(x.host, x.knowsJoiner, j)
          /\ Set(j, [x EXCEPT !.server = "reject", !.answer = "reject"])
       \/ /\ x.secret = x.ticket /\ Accepts(x.host, x.knowsJoiner, j)
          /\ Set(j, [x EXCEPT !.server = "welcomed", !.answer = "welcome"])
    /\ UNCHANGED <<peers, hostOf, issued, hosting, registered, scenario>>

\* send_reject lingers until the joiner has closed, or the linger is over.
RejectEnds(j) ==
    LET x == exchange[j] IN
    /\ x.server = "reject"
    /\ x.close # "open" \/ x.joiner = "idle"
    /\ Set(j, [x EXCEPT !.server = "idle", !.close = ClosedAs(x, "rejected")])
    /\ UNCHANGED <<peers, hostOf, issued, hosting, registered, scenario>>

\* Mutant of ReadDone: the joiner's answer is not looked at.
ReadAnyAnswer(j) ==
    LET x == exchange[j] IN
    /\ x.server = "welcomed"
    /\ x.sent # "hello"
    /\ Set(j, [x EXCEPT !.server = "redeem"])
    /\ UNCHANGED <<peers, hostOf, issued, hosting, registered, scenario>>

\* pair_with reads the joiner's answer: Done completes the exchange, and
\* Reject or an unexpected message fails it, dropping the connection.
ReadDone(j) ==
    LET x == exchange[j] IN
    /\ x.server = "welcomed"
    /\ \/ x.sent = "done" /\ Set(j, [x EXCEPT !.server = "redeem"])
       \/ x.sent = "reject" /\ Set(j, [x EXCEPT !.server = "idle", !.close = ClosedAs(x, "lost")])
    /\ UNCHANGED <<peers, hostOf, issued, hosting, registered, scenario>>

\* The connection ended under the host, or HELLO_TIMEOUT, EXCHANGE_TIMEOUT or
\* the linger passes.
ServeLost(j) ==
    LET x == exchange[j] IN
    /\ x.server \in {"hello", "welcomed"}
    /\ x.close # "open"
    /\ Set(j, [x EXCEPT !.server = "idle"])
    /\ UNCHANGED <<peers, hostOf, issued, hosting, registered, scenario>>

ServeTimeout(j) ==
    LET x == exchange[j] IN
    /\ x.server \in {"hello", "welcomed", "reject"}
    /\ Fault
    /\ Set(j, [x EXCEPT !.server = "idle", !.close = ClosedAs(x, "timeout")])
    /\ UNCHANGED <<peers, hostOf, issued, hosting, registered>>

\* Mutant of Live: the age of the ticket is only checked before the exchange.
LiveAtAnyAge(x) == issued[x.host].ticket = x.ticket

\* The end of serve_inbound, under the lock: a ticket that is no longer the
\* outstanding one registers nobody; otherwise it is consumed, the peer is
\* saved, and only then the joiner is told.
Live(x) == Redeemable(x.host, x.ticket)

Discard(j) ==
    LET x == exchange[j] IN
    /\ x.server = "redeem"
    /\ ~ Live(x)
    /\ Set(j, [x EXCEPT !.server = "idle", !.close = ClosedAs(x, "cancelled")])
    /\ UNCHANGED <<peers, hostOf, issued, hosting, registered, scenario>>

\* Mutant of Redeem: the ticket is consumed when the joiner has confirmed, later.
RedeemKeepingTicket(j) ==
    LET x == exchange[j] IN
    /\ x.server = "redeem"
    /\ Live(x)
    /\ Saves(x.host, j)
    /\ registered' = [registered EXCEPT ![x.ticket] = @ + 1]
    /\ Set(j, [x EXCEPT !.server = "idle", !.close = ClosedAs(x, "paired")])
    /\ UNCHANGED <<hostOf, issued, hosting, scenario>>

Redeem(j) ==
    LET x == exchange[j] IN
    /\ x.server = "redeem"
    /\ Live(x)
    /\ issued' = [issued EXCEPT ![x.host] = NotIssued]
    /\ \/ /\ Saves(x.host, j)
          /\ registered' = [registered EXCEPT ![x.ticket] = @ + 1]
          /\ Set(j, [x EXCEPT !.server = "idle", !.close = ClosedAs(x, "paired")])
          /\ UNCHANGED scenario
       \/ /\ Fault
          /\ Set(j, [x EXCEPT !.server = "idle", !.close = ClosedAs(x, "failed")])
          /\ UNCHANGED <<peers, registered>>
    /\ UNCHANGED <<hostOf, hosting>>

----------------------------------------------------------------------------
\* The world around: external to the component.

\* The connection breaks, or a close is lost: the sides find out by themselves.
ConnectionLost(j) ==
    LET x == exchange[j] IN
    /\ x.joiner \in {"hello", "done"} \/ x.server # "idle"
    /\ x.close # "lost"
    /\ Fault
    /\ Set(j, [x EXCEPT !.close = "lost"])
    /\ UNCHANGED <<peers, hostOf, issued, hosting, registered>>

\* The user removes a peer, which the other machine may not know.
RemovePeer(m, p) ==
    /\ p \in peers[m]
    /\ Stray
    /\ peers' = [peers EXCEPT ![m] = @ \ {p}]
    /\ UNCHANGED <<hostOf, issued, hosting, exchange, registered>>

Next ==
    \E m \in Machine :
        \/ HostWanted(m) \/ HostAgain(m) \/ Issue(m) \/ HostFails(m) \/ Expire(m)
        \/ JoinWanted(m) \/ JoinAnyway(m) \/ ReadAnswer(m) \/ JoinEnds(m) \/ CancelJoin(m)
        \/ Confirmed(m) \/ JoinerSaves(m) \/ JoinerFails(m)
        \/ ServeInbound(m) \/ ReadHello(m) \/ RejectEnds(m) \/ ReadDone(m)
        \/ ServeLost(m) \/ ServeTimeout(m) \/ Discard(m) \/ Redeem(m)
        \/ ConnectionLost(m) \/ \E p \in Machine : RemovePeer(m, p)

Spec == Init /\ [][Next]_vars

\* Daemons take their steps, and the users keep at a pairing they want: they
\* host when no ticket can be redeemed and join with the one that can.  A
\* join needs the joiner's last one to be over, time and again.
Fairness ==
    \A m \in Machine :
        /\ WF_vars(HostWanted(m)) /\ SF_vars(JoinWanted(m))
        /\ WF_vars(Issue(m)) /\ WF_vars(ReadAnswer(m)) /\ WF_vars(JoinEnds(m))
        /\ WF_vars(Confirmed(m)) /\ WF_vars(JoinerSaves(m)) /\ WF_vars(ServeInbound(m))
        /\ WF_vars(ReadHello(m)) /\ WF_vars(RejectEnds(m)) /\ WF_vars(ReadDone(m))
        /\ WF_vars(ServeLost(m)) /\ WF_vars(Discard(m)) /\ WF_vars(Redeem(m))

FairSpec == Spec /\ Fairness

----------------------------------------------------------------------------
\* Properties.

\* The state is what the daemons can hold, and a host never runs more
\* exchanges than it has permits.
TypeOK ==
    /\ peers \in [Machine -> SUBSET Machine]
    /\ hostOf \in [Ticket -> SUBSET Machine]
    /\ issued \in [Machine -> Issued]
    /\ hosting \in [Machine -> Nat]
    /\ exchange \in [Machine -> Exchanges]
    /\ registered \in [Ticket -> Nat]
    /\ scenario \in Scenario
    /\ \A h \in Machine : Cardinality(Permits(h)) <= MAX_EXCHANGES

\* A ticket registers at most one machine, at most once, however many
\* exchanges ran on it at a time (serve_inbound consumes it and saves the peer
\* under one lock).
TicketsAreOneTime == \A t \in Ticket : registered[t] <= 1

\* A ticket that was revoked, replaced, redeemed or has expired, even while an
\* exchange on it was under way, never registers a machine again
\* (daemon/pairing.rs: the check under the lock).
DeadTicketsRegisterNobody ==
    [][\A h \in Machine, t \in Ticket :
          h \in hostOf[t] /\ ~ Redeemable(h, t) =>
              registered'[t] = registered[t] /\ ~ Redeemable(h, t)']_vars

\* A joiner that is about to save the pairing has been registered by the host
\* with the ticket it presented: no machine registers a host that refused it,
\* discarded its ticket or failed to save (confirm_paired comes last).
HostSavesFirst ==
    \A j \in Machine :
        exchange[j].joiner = "save" => registered[exchange[j].secret] = 1

\* When one of two machines refuses the other, neither registers the other
\* (each side validates before it answers, net/pair.rs).
NoSidePersistsARefusal ==
    \A m, p \in Machine :
        <<m, p>> \in scenario.refused => p \notin peers[m] /\ m \notin peers[p]

\* Pairing again heals a pairing that only one side saved: once nothing goes
\* wrong any more, two machines that accept each other end up registered with
\* each other (add_paired_peer and resolve_peer_name are idempotent).
EventuallyPaired ==
    <>[](\A h, j \in Machine :
            <<h, j>> \in scenario.wanted /\ {<<h, j>>, <<j, h>>} \cap scenario.refused = {}
                => Paired(h, j))
============================================================================
