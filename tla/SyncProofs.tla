------------------------------ MODULE SyncProofs ------------------------------
(***************************************************************************)
(* Proofs about Sync: an inductive invariant, and from it the types, that  *)
(* every offer belongs to the repo it is filed under, that a peer's        *)
(* orphans stay below their cap, and that an inbox only moves forward.     *)
(* Then, of one connection that loses nothing, a second invariant: of two  *)
(* machines and a repo, what one has published, what of it is on its way   *)
(* and what the other holds; and from it that the latest announcement      *)
(* wins.                                                                   *)
(***************************************************************************)
EXTENDS Sync, SyncHubProofs, WellFoundedInduction

\* What a retry of x would put back in the slot is what the slot held, unless
\* a retraction cleared it.
RetryFits(x, slot) ==
    slot.seq = x.seq /\ slot.drained /\ slot.heads # {} => slot.heads = x.heads

\* A task runs for a registered repo only, and what it drained are heads of
\* that repo, one set of each peer, which it may queue again.
TaskSound(t, e) ==
    /\ t.phase # "busy" => t.todo = {}
    /\ e.id = NoId => t = ClosedTask
    /\ \A x \in t.todo :
          /\ x.heads # {} /\ x.heads \subseteq OpsOf(e.id)
          /\ RetryFits(x, e.inbox[x.peer])
          /\ \A y \in t.todo : y.peer = x.peer => y = x

CloneSound(c) ==
    /\ c.id = NoId => c.sources = {} /\ c.pulled = {}
    /\ c.pulled \subseteq OpsOf(c.id)
    /\ \A x \in c.sources : x.heads \subseteq OpsOf(c.id)

MachineSound(m) ==
    /\ HubSound(hub[m])
    /\ \A n \in RepoName :
          /\ TaskSound(task[m][n], hub[m].repos[n])
          /\ ops[m][n] \subseteq OpsOf(hub[m].repos[n].id)

\* What is on its way: clones, aborted tasks and announcements.
TransitSound ==
    /\ \A m \in Machine : CloneSound(clone[m])
    /\ \A z \in stale : z.heads \subseteq OpsOf(z.id)
    /\ \A s \in net : AnnounceSound(s.announce)

IInv == TypeOK /\ (\A m \in Machine : MachineSound(m)) /\ TransitSound

\* What InboxMovesForward says of one hub.
SlotsForward(h, k) ==
    \A p \in Machine, n \in RepoName :
        LET old == h.repos[n].inbox[p]
            new == k.repos[n].inbox[p]
        IN  /\ h.conn[p] # 0 /\ k.conn[p] = h.conn[p]
            /\ Registered(h, n) /\ Registered(k, n)
            => \/ new.seq > old.seq
               \/ new.seq = old.seq /\ (new.heads = old.heads \/ old.heads = {})

\* What every step is shown to do.
Holds == IInv' /\ \A m \in Machine : SlotsForward(hub[m], hub'[m])

-----------------------------------------------------------------------------
LEMMA Types ==
    ASSUME IInv, NEW m \in Machine
    PROVE  /\ hub[m] \in HubState /\ HubSound(hub[m])
           /\ ops[m] \in [RepoName -> SUBSET Op]
           /\ task[m] \in [RepoName -> Tasks]
           /\ clone[m] \in Clones /\ CloneSound(clone[m])
           /\ \A n \in RepoName :
                 /\ ops[m][n] \in SUBSET Op /\ ops[m][n] \subseteq OpsOf(hub[m].repos[n].id)
                 /\ task[m][n] \in Tasks /\ TaskSound(task[m][n], hub[m].repos[n])
                 /\ hub[m].repos[n] \in RepoEntry
                 /\ hub[m].repos[n].id \in RepoId \cup {NoId}
  <1>1. /\ hub \in [Machine -> HubState] /\ ops \in [Machine -> [RepoName -> SUBSET Op]]
        /\ task \in [Machine -> [RepoName -> Tasks]] /\ clone \in [Machine -> Clones]
    BY DEF IInv, TypeOK
  <1>2. MachineSound(m) /\ CloneSound(clone[m])
    BY DEF IInv, TransitSound
  <1>3. \A n \in RepoName : hub[m].repos[n] \in RepoEntry
    BY <1>1, HubTypes
  <1>4. \A n \in RepoName : hub[m].repos[n].id \in RepoId \cup {NoId}
    BY <1>3, EntryTypes
  <1> QED BY <1>1, <1>2, <1>3, <1>4 DEF MachineSound

LEMMA TaskTypes ==
    ASSUME NEW t \in Tasks
    PROVE  /\ t.phase \in {"closed", "idle", "busy"} /\ t.heads \in SUBSET Op
           /\ t.todo \in SUBSET PeerAnnounces
  BY DEF Tasks

LEMMA CloneTypes ==
    ASSUME NEW c \in Clones
    PROVE  /\ c.name \in RepoName /\ c.id \in RepoId \cup {NoId}
           /\ c.sources \in SUBSET [peer : Machine, heads : SUBSET Op]
           /\ c.pulled \in SUBSET Op
  BY DEF Clones

LEMMA ClosedTaskSound ==
    ClosedTask \in Tasks /\ \A e : TaskSound(ClosedTask, e)
  <1>1. ClosedTask \in Tasks /\ ClosedTask.todo = {} /\ ClosedTask.phase = "closed"
    BY DEF ClosedTask, Tasks
  <1> QED BY <1>1 DEF TaskSound

\* Operations of no repo are none.
LEMMA NoIdFacts ==
    ASSUME NEW S \in SUBSET Op, S \subseteq OpsOf(NoId)
    PROVE  S = {}
  BY HubAssumption DEF Op, OpsOf, NoId

LEMMA RepoIdFacts ==
    ASSUME NEW id \in RepoId
    PROVE  id # NoId /\ id \in Nat /\ OpsOf(id) \subseteq Op
  BY HubAssumption DEF NoId, OpsOf, Op

LEMMA PairFacts ==
    ASSUME IInv, NEW a \in Machine, NEW b \in Machine, a # b
    PROVE  {a, b} \in Pairs /\ link[{a, b}] \in Nat
  <1>1. {a, b} \in Pairs
    BY DEF Pairs
  <1> QED BY <1>1 DEF IInv, TypeOK

\* The element with the first peer.
LEMMA FirstFacts ==
    ASSUME NEW S, S # {}, \A x \in S : x.peer \in Machine
    PROVE  First(S) \in S
  <1> DEFINE R == OpToRel(<, Nat)
             P == {x.peer : x \in S}
  <1>1. IsWellFoundedOn(R, Nat)
    BY NatLessThanWellFounded
  <1>2. \A x, y \in Nat : <<y, x>> \in R <=> y < x
    BY DEF OpToRel
  <1>3. P \in SUBSET Nat /\ P # {}
    BY HubAssumption
  <1> HIDE DEF R, P
  <1>4. PICK p \in P : \A q \in P : ~ (<<q, p>> \in R)
    BY <1>1, <1>3, WFMin
  <1>5. \A q \in P : p <= q
    <2> SUFFICES ASSUME NEW q \in P PROVE p <= q
      OBVIOUS
    <2>1. p \in Nat /\ q \in Nat
      BY <1>3
    <2>2. ~ (q < p)
      BY <1>2, <1>4, <2>1
    <2> QED BY <2>1, <2>2
  <1>6. PICK x \in S : x.peer = p
    BY <1>4 DEF P
  <1>7. \A y \in S : x.peer <= y.peer
    BY <1>5, <1>6 DEF P
  <1> QED BY <1>7 DEF First

LEMMA PoppedFacts ==
    ASSUME NEW h, NEW p, Pending(h, p) # {}
    PROVE  Popped(h, p) \in RepoName /\ h.outbox[p][Popped(h, p)] # NoAnnounce
  <1> DEFINE R == OpToRel(<, Nat)
             P == Pending(h, p)
  <1>1. IsWellFoundedOn(R, Nat)
    BY NatLessThanWellFounded
  <1>2. \A x, y \in Nat : <<y, x>> \in R <=> y < x
    BY DEF OpToRel
  <1>3. P \in SUBSET Nat /\ P # {} /\ P \subseteq RepoName
    BY HubAssumption DEF Pending
  <1> HIDE DEF R, P
  <1>4. PICK n \in P : \A k \in P : ~ (<<k, n>> \in R)
    BY <1>1, <1>3, WFMin
  <1>5. \A k \in P : n <= k
    <2> SUFFICES ASSUME NEW k \in P PROVE n <= k
      OBVIOUS
    <2>1. n \in Nat /\ k \in Nat
      BY <1>3
    <2>2. ~ (k < n)
      BY <1>2, <1>4, <2>1
    <2> QED BY <2>1, <2>2
  <1>6. Popped(h, p) \in P
    BY <1>5 DEF Popped, P
  <1> QED BY <1>3, <1>6 DEF P, Pending

-----------------------------------------------------------------------------
\* One machine's step, and what becomes of what is on its way.
LEMMA Assemble ==
    ASSUME IInv, NEW m \in Machine,
           hub' \in [Machine -> HubState], ops' \in [Machine -> [RepoName -> SUBSET Op]],
           task' \in [Machine -> [RepoName -> Tasks]],
           \A a \in Machine \ {m} : hub'[a] = hub[a] /\ ops'[a] = ops[a] /\ task'[a] = task[a],
           HubSound(hub'[m]), SlotsForward(hub[m], hub'[m]),
           \A n \in RepoName :
              /\ TaskSound(task'[m][n], hub'[m].repos[n])
              /\ ops'[m][n] \subseteq OpsOf(hub'[m].repos[n].id),
           clone' \in [Machine -> Clones], \A a \in Machine : CloneSound(clone'[a]),
           stale' \in SUBSET StaleTasks, \A z \in stale' : z.heads \subseteq OpsOf(z.id),
           net' \in SUBSET Streams, \A s \in net' : AnnounceSound(s.announce),
           link' \in [Pairs -> Nat], ids' \in SUBSET RepoId, scenario' \in Scenario
    PROVE  Holds
  <1>1. \A a \in Machine : MachineSound(a)'
    <2> SUFFICES ASSUME NEW a \in Machine PROVE MachineSound(a)'
      OBVIOUS
    <2>1. CASE a = m
      BY <2>1 DEF MachineSound
    <2>2. CASE a # m
      <3>1. MachineSound(a)
        BY DEF IInv
      <3> QED BY <2>2, <3>1 DEF MachineSound
    <2> QED BY <2>1, <2>2
  <1>2. \A a \in Machine : HubSound(hub'[a])
    BY <1>1 DEF MachineSound
  <1>3. TransitSound'
    BY DEF TransitSound
  <1>4. TypeOK'
    <2>1. \A a, p \in Machine, n \in RepoName :
             LET slot == hub'[a].repos[n].inbox[p] IN slot.heads = {} => slot.drained
      BY <1>2 DEF HubSound, EntriesSound, EntrySound
    <2> QED BY <2>1 DEF TypeOK
  <1>5. \A a \in Machine : SlotsForward(hub[a], hub'[a])
    <2> SUFFICES ASSUME NEW a \in Machine PROVE SlotsForward(hub[a], hub'[a])
      OBVIOUS
    <2>1. CASE a # m
      BY <2>1 DEF SlotsForward
    <2> QED BY <2>1
  <1> QED BY <1>1, <1>3, <1>4, <1>5 DEF IInv, Holds

\* Nothing happens to the hubs, tasks and repos.
LEMMA QuietStep ==
    ASSUME IInv, UNCHANGED <<hub, ops, task>>,
           clone' \in [Machine -> Clones], \A a \in Machine : CloneSound(clone'[a]),
           stale' \in SUBSET stale,
           net' \in SUBSET Streams, \A s \in net' : AnnounceSound(s.announce),
           link' \in [Pairs -> Nat], ids' \in SUBSET RepoId, scenario' \in Scenario
    PROVE  Holds
  <1>1. \A a \in Machine : MachineSound(a)'
    BY DEF IInv, MachineSound
  <1>2. TransitSound'
    BY DEF TransitSound, IInv
  <1>3. TypeOK'
    BY DEF TypeOK, IInv
  <1>4. \A a \in Machine : SlotsForward(hub[a], hub'[a])
    BY DEF SlotsForward
  <1> QED BY <1>1, <1>2, <1>3, <1>4 DEF IInv, Holds

\* A task is kept while its repo's slots are kept, advance or are dropped.
LEMMA TaskKept ==
    ASSUME NEW t \in Tasks, NEW e \in RepoEntry, NEW g \in RepoEntry, TaskSound(t, e),
           g.id = e.id,
           \A p \in Machine : \/ g.inbox[p] = e.inbox[p]
                              \/ Advances(e.inbox[p], g.inbox[p])
                              \/ g.inbox[p] = NoSlot
    PROVE  TaskSound(t, g)
  <1>1. \A x \in t.todo : RetryFits(x, g.inbox[x.peer])
    <2> SUFFICES ASSUME NEW x \in t.todo PROVE RetryFits(x, g.inbox[x.peer])
      OBVIOUS
    <2>1. x.peer \in Machine
      BY TaskTypes DEF PeerAnnounces
    <2>2. RetryFits(x, e.inbox[x.peer])
      BY DEF TaskSound
    <2> QED BY <2>1, <2>2, NoSlotFacts DEF RetryFits, Advances
  <1> QED BY <1>1 DEF TaskSound

LEMMA HubForward ==
    ASSUME NEW h \in HubState, NEW k, SlotsAdvance(h, k)
    PROVE  SlotsForward(h, k)
  <1> SUFFICES ASSUME NEW p \in Machine, NEW n \in RepoName,
                      h.conn[p] # 0, k.conn[p] = h.conn[p], Registered(h, n), Registered(k, n)
               PROVE  LET old == h.repos[n].inbox[p]
                          new == k.repos[n].inbox[p]
                      IN  \/ new.seq > old.seq
                          \/ new.seq = old.seq /\ (new.heads = old.heads \/ old.heads = {})
    BY DEF SlotsForward
  <1> QED BY DEF SlotsAdvance, Advances

\* An operation on m's hub that leaves its repos registered and its tasks
\* alone.
LEMMA HubOnly ==
    ASSUME IInv, NEW m \in Machine, NEW k, HubStep(hub[m], k), hub' = [hub EXCEPT ![m] = k],
           UNCHANGED <<ops, task, clone>>, stale' \in SUBSET stale,
           net' \in SUBSET Streams, \A s \in net' : AnnounceSound(s.announce),
           link' \in [Pairs -> Nat], ids' \in SUBSET RepoId, scenario' \in Scenario
    PROVE  Holds
  <1>1. /\ hub \in [Machine -> HubState] /\ ops \in [Machine -> [RepoName -> SUBSET Op]]
        /\ task \in [Machine -> [RepoName -> Tasks]] /\ clone \in [Machine -> Clones]
        /\ stale \in SUBSET StaleTasks
    BY DEF IInv, TypeOK
  <1>2. /\ k \in HubState /\ HubSound(k) /\ SlotsAdvance(hub[m], k)
        /\ \A n \in RepoName : k.repos[n].id = hub[m].repos[n].id
    BY DEF HubStep
  <1>3. /\ hub' \in [Machine -> HubState] /\ hub'[m] = k
        /\ \A a \in Machine \ {m} : hub'[a] = hub[a]
    BY <1>1, <1>2
  <1>4. \A n \in RepoName :
           /\ TaskSound(task[m][n], k.repos[n])
           /\ ops[m][n] \subseteq OpsOf(k.repos[n].id)
    <2> SUFFICES ASSUME NEW n \in RepoName
                 PROVE  /\ TaskSound(task[m][n], k.repos[n])
                        /\ ops[m][n] \subseteq OpsOf(k.repos[n].id)
      OBVIOUS
    <2>1. /\ task[m][n] \in Tasks /\ TaskSound(task[m][n], hub[m].repos[n])
          /\ hub[m].repos[n] \in RepoEntry /\ ops[m][n] \subseteq OpsOf(hub[m].repos[n].id)
      BY Types
    <2>2. k.repos[n] \in RepoEntry
      BY <1>2, HubTypes
    <2>3. \A p \in Machine :
             \/ k.repos[n].inbox[p] = hub[m].repos[n].inbox[p]
             \/ Advances(hub[m].repos[n].inbox[p], k.repos[n].inbox[p])
             \/ k.repos[n].inbox[p] = NoSlot
      BY <1>2 DEF SlotsAdvance
    <2>4. k.repos[n].id = hub[m].repos[n].id
      BY <1>2
    <2>5. TaskSound(task[m][n], k.repos[n])
      BY <2>1, <2>2, <2>3, <2>4, TaskKept
    <2> QED BY <2>1, <2>4, <2>5
  <1>5. SlotsForward(hub[m], k)
    BY <1>1, <1>2, HubForward
  <1>6. \A a \in Machine : CloneSound(clone[a])
    BY DEF IInv, TransitSound
  <1>7. \A z \in stale : z.heads \subseteq OpsOf(z.id)
    BY DEF IInv, TransitSound
  <1> QED BY <1>1, <1>2, <1>3, <1>4, <1>5, <1>6, <1>7, Assemble

\* What most steps leave alone.
LEMMA Transit ==
    ASSUME IInv
    PROVE  /\ \A a \in Machine : CloneSound(clone[a])
           /\ \A z \in stale : z.heads \subseteq OpsOf(z.id)
           /\ \A s \in net : AnnounceSound(s.announce)
           /\ hub \in [Machine -> HubState] /\ ops \in [Machine -> [RepoName -> SUBSET Op]]
           /\ task \in [Machine -> [RepoName -> Tasks]] /\ clone \in [Machine -> Clones]
           /\ stale \in SUBSET StaleTasks /\ net \in SUBSET Streams
           /\ link \in [Pairs -> Nat] /\ ids \in SUBSET RepoId /\ scenario \in Scenario
           /\ scenario.ops \in Nat /\ scenario.regs \in Nat /\ scenario.conns \in Nat
           /\ scenario.restarts \in Nat /\ scenario.faults \in Nat /\ scenario.losses \in Nat
  BY DEF IInv, TransitSound, TypeOK, Scenario

\* A bound of the scenario is used up by one.
LEMMA ScenarioBounds ==
    ASSUME NEW s \in Scenario
    PROVE  /\ s.ops > 0 => [s EXCEPT !.ops = s.ops - 1] \in Scenario
           /\ s.regs > 0 => [s EXCEPT !.regs = s.regs - 1] \in Scenario
           /\ s.conns > 0 => [s EXCEPT !.conns = s.conns - 1] \in Scenario
           /\ s.restarts > 0 => [s EXCEPT !.restarts = s.restarts - 1] \in Scenario
           /\ s.faults > 0 => [s EXCEPT !.faults = s.faults - 1] \in Scenario
           /\ s.losses > 0 => [s EXCEPT !.losses = s.losses - 1] \in Scenario
  <1> DEFINE H == SUBSET (Machine \X RepoName)
  <1>1. Scenario = [held : H, moved : H, ops : Nat, regs : Nat, conns : Nat,
                    restarts : Nat, faults : Nat, losses : Nat]
    BY DEF Scenario
  <1> HIDE DEF H
  <1> QED BY <1>1

\* Whatever a step uses up, a scenario is left.
LEMMA ScenarioFacts ==
    ASSUME IInv,
           \/ UNCHANGED scenario
           \/ scenario.ops > 0 /\ scenario' = [scenario EXCEPT !.ops = @ - 1]
           \/ scenario.regs > 0 /\ scenario' = [scenario EXCEPT !.regs = @ - 1]
           \/ scenario.conns > 0 /\ scenario' = [scenario EXCEPT !.conns = @ - 1]
           \/ scenario.restarts > 0 /\ scenario' = [scenario EXCEPT !.restarts = @ - 1]
           \/ Faults \/ Losses
    PROVE  scenario' \in Scenario
  <1>1. PICK s \in Scenario : s = scenario
    BY Transit
  <1> QED BY <1>1, ScenarioBounds DEF Faults, Losses

-----------------------------------------------------------------------------
\* Steps of connections, clones and aborted tasks.

LEMMA ConnectionHolds ==
    ASSUME IInv, NEW pair \in Pairs, Connect(pair) \/ Disconnect(pair)
    PROVE  Holds
  <1>1. UNCHANGED <<hub, ops, task, stale, clone, ids>> /\ net' \in SUBSET net
    BY DEF Connect, Disconnect, Surviving
  <1>2. link' \in [Pairs -> Nat]
    BY Transit DEF Connect, Disconnect
  <1>3. scenario' \in Scenario
    BY ScenarioFacts DEF Connect, Disconnect
  <1> QED BY <1>1, <1>2, <1>3, Transit, QuietStep

LEMMA StreamHolds ==
    ASSUME IInv, NEW s \in net, Read(s) \/ DropStream(s)
    PROVE  Holds
  <1>1. UNCHANGED <<hub, ops, task, stale, clone, link, ids>>
    BY DEF Read, DropStream
  <1>2. scenario' \in Scenario
    BY Transit, ScenarioFacts DEF Read, DropStream
  <1>3. s \in Streams /\ AnnounceSound(s.announce)
    BY Transit
  <1> DEFINE r == [s EXCEPT !.read = TRUE]
  <1>4. r \in Streams /\ r.announce = s.announce
    BY <1>3 DEF Streams
  <1>5. net' \subseteq net \cup {r}
    BY DEF Read, DropStream
  <1> HIDE DEF r
  <1>6. net' \in SUBSET Streams /\ \A t \in net' : AnnounceSound(t.announce)
    BY <1>3, <1>4, <1>5, Transit
  <1> QED BY <1>1, <1>2, <1>6, Transit, QuietStep

LEMMA RouteHolds ==
    ASSUME IInv, NEW s \in net, Route(s)
    PROVE  Holds
  <1>1. s \in Streams /\ AnnounceSound(s.announce)
    BY Transit
  <1>2. PICK m \in Machine, p \in Machine, n \in RepoName, a \in Announce :
           m = s.to /\ p = s.from /\ n = s.name /\ a = s.announce
    BY <1>1 DEF Streams
  <1>3. HubStep(hub[m], RouteAnnounce(hub[m], p, n, a))
    BY <1>1, <1>2, Types, RouteStep
  <1>4. /\ hub' = [hub EXCEPT ![m] = RouteAnnounce(hub[m], p, n, a)]
        /\ UNCHANGED <<ops, task, stale, clone, link, ids, scenario>> /\ net' \in SUBSET net
    BY <1>2, Transit DEF Route
  <1> QED BY <1>3, <1>4, Transit, HubOnly

LEMMA StaleHolds ==
    ASSUME IInv, NEW z \in stale, PublishStale(z) \/ StopStale(z)
    PROVE  Holds
  <1>1. CASE PublishStale(z)
    <2>1. z \in StaleTasks /\ z.heads \subseteq OpsOf(z.id)
      BY Transit
    <2>2. PICK m \in Machine, n \in RepoName, id \in RepoId, heads \in SUBSET Op :
             m = z.machine /\ n = z.name /\ id = z.id /\ heads = z.heads
      BY <2>1 DEF StaleTasks
    <2>3. HubStep(hub[m], Publish(hub[m], n, id, heads))
      BY <2>1, <2>2, Types, PublishStep
    <2>4. /\ hub' = [hub EXCEPT ![m] = Publish(hub[m], n, id, heads)]
          /\ UNCHANGED <<ops, task, clone, link, net, ids, scenario>>
          /\ stale' \in SUBSET stale
      BY <1>1, <2>2, Transit DEF PublishStale
    <2> QED BY <2>3, <2>4, Transit, HubOnly
  <1>2. CASE StopStale(z)
    <2>1. /\ UNCHANGED <<hub, ops, task, clone, link, net, ids, scenario>>
          /\ stale' \in SUBSET stale
      BY <1>2 DEF StopStale
    <2> QED BY <2>1, Transit, QuietStep
  <1> QED BY <1>1, <1>2

LEMMA AdoptHolds ==
    ASSUME IInv, NEW a \in Machine, NEW b \in Machine, a # b, Adopt(a, b) \/ NoticeLoss(a, b)
    PROVE  Holds
  <1>1. PICK c \in Nat : c = link[{a, b}]
    BY PairFacts
  <1>2. CASE Adopt(a, b)
    <2>1. HubStep(hub[a], PeerConnected(hub[a], b, c))
      BY <1>1, <1>2, Types, PeerConnectedStep DEF Adopt
    <2>2. /\ hub' = [hub EXCEPT ![a] = PeerConnected(hub[a], b, c)]
          /\ UNCHANGED <<ops, task, stale, clone, link, net, ids, scenario>>
      BY <1>1, <1>2, Transit DEF Adopt
    <2> QED BY <2>1, <2>2, Transit, HubOnly
  <1>3. CASE NoticeLoss(a, b)
    <2>1. HubStep(hub[a], PeerDisconnected(hub[a], b))
      BY Types, PeerDisconnectedStep
    <2>2. /\ hub' = [hub EXCEPT ![a] = PeerDisconnected(hub[a], b)]
          /\ UNCHANGED <<ops, task, stale, clone, link, net, ids, scenario>>
      BY <1>3, Transit DEF NoticeLoss
    <2> QED BY <2>1, <2>2, Transit, HubOnly
  <1> QED BY <1>2, <1>3

LEMMA SendHolds ==
    ASSUME IInv, NEW a \in Machine, NEW b \in Machine, a # b, Send(a, b) \/ SendTimesOut(a, b)
    PROVE  Holds
  <1> DEFINE n == Popped(hub[a], b)
             h == hub[a]
             msg == h.outbox[b][n]
             s == [conn |-> link[{a, b}], from |-> a, to |-> b, name |-> n,
                   announce |-> msg, read |-> FALSE]
  <1>1. n \in RepoName
    BY PoppedFacts DEF Send, SendTimesOut
  <1>2. /\ HubStep(h, [h EXCEPT !.outbox[b][n] = NoAnnounce])
        /\ HubStep(h, [h EXCEPT !.sending[b] = FALSE, !.outbox[b][n] = NoAnnounce])
        /\ msg \in Announce /\ AnnounceSound(msg)
    <2>1. h \in HubState /\ HubSound(h)
      BY Types
    <2> HIDE DEF h, n
    <2> QED BY <1>1, <2>1, TakeStep
  <1>3. CASE Send(a, b)
    <2>1. link[{a, b}] \in Nat
      BY PairFacts
    <2> DEFINE k == [h EXCEPT !.outbox[b][n] = NoAnnounce]
    <2>2. /\ hub' = [hub EXCEPT ![a] = k] /\ net' = net \cup {s}
          /\ UNCHANGED <<ops, task, stale, clone, link, ids, scenario>>
      BY <1>3, Transit DEF Send
    <2>3. HubStep(h, k)
      BY <1>2
    <2> HIDE DEF k, n, msg
    <2>4. s \in Streams /\ s.announce = msg
      BY <1>1, <1>2, <2>1 DEF Streams
    <2> HIDE DEF s
    <2>5. net' \in SUBSET Streams /\ \A t \in net' : AnnounceSound(t.announce)
      BY <1>2, <2>2, <2>4, Transit
    <2> QED BY <2>2, <2>3, <2>5, Transit, HubOnly
  <1>4. CASE SendTimesOut(a, b)
    <2> DEFINE k == [h EXCEPT !.sending[b] = FALSE, !.outbox[b][n] = NoAnnounce]
    <2>1. /\ hub' = [hub EXCEPT ![a] = k]
          /\ UNCHANGED <<ops, task, stale, clone, link, net, ids>>
      BY <1>4, Transit DEF SendTimesOut
    <2>2. scenario' \in Scenario
      BY <1>4, ScenarioFacts DEF SendTimesOut
    <2>3. HubStep(h, k)
      BY <1>2
    <2> HIDE DEF k
    <2> QED BY <2>1, <2>2, <2>3, Transit, HubOnly
  <1> QED BY <1>3, <1>4

\* One machine's clone changes, and nothing else.
LEMMA CloneChanges ==
    ASSUME IInv, NEW m \in Machine, NEW c \in Clones, CloneSound(c),
           clone' = [clone EXCEPT ![m] = c],
           UNCHANGED <<hub, ops, task, stale, link, net, ids>>, scenario' \in Scenario
    PROVE  Holds
  <1>1. clone' \in [Machine -> Clones] /\ \A a \in Machine : CloneSound(clone'[a])
    BY Transit
  <1> QED BY <1>1, Transit, QuietStep

LEMMA NoCloneFacts ==
    SomeName \in RepoName /\ NoClone(SomeName) \in Clones /\ CloneSound(NoClone(SomeName))
  <1>1. SomeName \in RepoName
    BY SyncAssumption DEF SomeName
  <1>2. NoClone(SomeName) \in Clones /\ NoClone(SomeName).sources = {}
        /\ NoClone(SomeName).pulled = {}
    BY <1>1 DEF NoClone, Clones
  <1> QED BY <1>1, <1>2 DEF CloneSound

LEMMA StartCloneHolds ==
    ASSUME IInv, NEW m \in Machine, NEW n \in RepoName, StartClone(m, n)
    PROVE  Holds
  <1>1. PICK id \in RepoId :
           /\ SourcesAgree(hub[m], n, id)
           /\ clone' = [clone EXCEPT ![m] =
                 [name |-> n, id |-> id,
                  sources |-> {[peer |-> p, heads |-> hub[m].orphans[n][p].heads] :
                                  p \in CloneSources(hub[m], n)},
                  pulled |-> {}]]
    BY DEF StartClone
  <1> DEFINE sources == {[peer |-> p, heads |-> hub[m].orphans[n][p].heads] :
                            p \in CloneSources(hub[m], n)}
             c == [name |-> n, id |-> id, sources |-> sources, pulled |-> {}]
  <1>2. /\ hub[m].orphans \in [RepoName -> [Machine -> Orphan]]
        /\ OrphansSound(hub[m].orphans)
    BY Types, HubTypes DEF HubSound
  <1>3. \A p \in Machine : /\ hub[m].orphans[n][p].heads \in SUBSET Op
                           /\ hub[m].orphans[n][p].heads
                                 \subseteq OpsOf(hub[m].orphans[n][p].id)
    BY <1>2 DEF Orphan, OrphansSound
  <1>4. \A p \in CloneSources(hub[m], n) :
           p \in Machine /\ hub[m].orphans[n][p].heads \subseteq OpsOf(id)
    BY <1>1, <1>3 DEF CloneSources, SourcesAgree
  <1>5. /\ sources \in SUBSET [peer : Machine, heads : SUBSET Op]
        /\ \A x \in sources : x.heads \subseteq OpsOf(id)
    BY <1>3, <1>4
  <1> HIDE DEF sources
  <1>6. c \in Clones /\ c.id = id /\ c.sources = sources /\ c.pulled = {}
    BY <1>5 DEF Clones
  <1>7. clone' = [clone EXCEPT ![m] = c]
    BY <1>1 DEF sources
  <1> HIDE DEF c
  <1>8. CloneSound(c)
    BY <1>5, <1>6, RepoIdFacts DEF CloneSound
  <1>9. scenario' \in Scenario /\ UNCHANGED <<hub, ops, task, stale, link, net, ids>>
    BY ScenarioFacts DEF StartClone, Registers
  <1> QED BY <1>6, <1>7, <1>8, <1>9, CloneChanges

LEMMA PullCloneHolds ==
    ASSUME IInv, NEW m \in Machine, PullClone(m)
    PROVE  Holds
  <1>1. PICK c \in Clones : c = clone[m]
    BY Types
  <1>2. CloneSound(c) /\ c.sources # {}
    BY <1>1, Types DEF PullClone
  <1>3. PICK x : x = First(c.sources)
    OBVIOUS
  <1>4. x \in c.sources /\ x.heads \in SUBSET Op /\ x.heads \subseteq OpsOf(c.id)
    BY <1>2, <1>3, CloneTypes, FirstFacts DEF CloneSound
  <1>5. UNCHANGED <<hub, ops, task, stale, link, net, ids>> /\ scenario' \in Scenario
    BY ScenarioFacts DEF PullClone
  <1> DEFINE pulled == [c EXCEPT !.pulled = x.heads, !.sources = {}]
             next == [c EXCEPT !.sources = c.sources \ {x}]
  <1>6. clone' = [clone EXCEPT ![m] = pulled] \/ clone' = [clone EXCEPT ![m] = next]
    BY <1>1, <1>3, Transit DEF PullClone
  <1>7. /\ pulled \in Clones /\ pulled.id = c.id /\ pulled.sources = {}
        /\ pulled.pulled = x.heads
    BY <1>4 DEF Clones
  <1>8. /\ next \in Clones /\ next.id = c.id /\ next.sources = c.sources \ {x}
        /\ next.pulled = c.pulled
    BY DEF Clones
  <1> HIDE DEF pulled, next
  <1>9. c.id # NoId
    BY <1>2 DEF CloneSound
  <1>10. CloneSound(pulled)
    BY <1>4, <1>7, <1>9 DEF CloneSound
  <1>11. CloneSound(next)
    BY <1>2, <1>8, <1>9 DEF CloneSound
  <1>12. CASE clone' = [clone EXCEPT ![m] = pulled]
    BY <1>5, <1>7, <1>10, <1>12, CloneChanges
  <1>13. CASE clone' = [clone EXCEPT ![m] = next]
    BY <1>5, <1>8, <1>11, <1>13, CloneChanges
  <1> QED BY <1>6, <1>12, <1>13

LEMMA CancelCloneHolds ==
    ASSUME IInv, NEW m \in Machine, CancelClone(m)
    PROVE  Holds
  <1>1. /\ clone' = [clone EXCEPT ![m] = NoClone(SomeName)]
        /\ UNCHANGED <<hub, ops, task, stale, link, net, ids>>
    BY DEF CancelClone
  <1>2. scenario' \in Scenario
    BY ScenarioFacts DEF CancelClone
  <1> QED BY <1>1, <1>2, NoCloneFacts, CloneChanges

-----------------------------------------------------------------------------
\* Steps of repo tasks, and of the user on a repo.

\* A repo's task, and a repo's operations, become t and S.
TaskBecomes(m, n, t) == task' = [task EXCEPT ![m][n] = t]

OpsBecome(m, n, S) == ops' = [ops EXCEPT ![m][n] = S]

LEMMA BecomesFacts ==
    ASSUME IInv, NEW m \in Machine, NEW n \in RepoName, NEW t \in Tasks, NEW S \in SUBSET Op
    PROVE  /\ TaskBecomes(m, n, t) =>
                 /\ task' \in [Machine -> [RepoName -> Tasks]] /\ task'[m][n] = t
                 /\ \A a \in Machine \ {m} : task'[a] = task[a]
                 /\ \A j \in RepoName \ {n} : task'[m][j] = task[m][j]
           /\ OpsBecome(m, n, S) =>
                 /\ ops' \in [Machine -> [RepoName -> SUBSET Op]] /\ ops'[m][n] = S
                 /\ \A a \in Machine \ {m} : ops'[a] = ops[a]
                 /\ \A j \in RepoName \ {n} : ops'[m][j] = ops[m][j]
           /\ UNCHANGED task => TaskBecomes(m, n, task[m][n])
           /\ UNCHANGED ops => OpsBecome(m, n, ops[m][n])
  <1> DEFINE taskN == [task EXCEPT ![m][n] = t]
             opsN == [ops EXCEPT ![m][n] = S]
  <1>1. /\ taskN \in [Machine -> [RepoName -> Tasks]] /\ taskN[m][n] = t
        /\ \A a \in Machine \ {m} : taskN[a] = task[a]
        /\ \A j \in RepoName \ {n} : taskN[m][j] = task[m][j]
    BY Transit
  <1>2. /\ opsN \in [Machine -> [RepoName -> SUBSET Op]] /\ opsN[m][n] = S
        /\ \A a \in Machine \ {m} : opsN[a] = ops[a]
        /\ \A j \in RepoName \ {n} : opsN[m][j] = ops[m][j]
    BY Transit
  <1>3. (TaskBecomes(m, n, t) => task' = taskN) /\ (OpsBecome(m, n, S) => ops' = opsN)
    BY DEF TaskBecomes, OpsBecome
  <1>4. task = [task EXCEPT ![m][n] = task[m][n]] /\ ops = [ops EXCEPT ![m][n] = ops[m][n]]
    BY Transit
  <1>5. UNCHANGED task => TaskBecomes(m, n, task[m][n])
    BY <1>4 DEF TaskBecomes
  <1>6. UNCHANGED ops => OpsBecome(m, n, ops[m][n])
    BY <1>4 DEF OpsBecome
  <1> HIDE DEF taskN, opsN
  <1> QED BY <1>1, <1>2, <1>3, <1>5, <1>6

LEMMA StepKeepsTasks ==
    ASSUME IInv, NEW m \in Machine, NEW k, HubStep(hub[m], k)
    PROVE  /\ k \in HubState /\ HubSound(k) /\ SlotsForward(hub[m], k)
           /\ \A j \in RepoName : /\ k.repos[j].id = hub[m].repos[j].id
                                  /\ TaskSound(task[m][j], k.repos[j])
  <1>1. /\ k \in HubState /\ HubSound(k) /\ SlotsAdvance(hub[m], k)
        /\ \A n \in RepoName : k.repos[n].id = hub[m].repos[n].id
    BY DEF HubStep
  <1>2. SlotsForward(hub[m], k)
    BY <1>1, Types, HubForward
  <1>3. ASSUME NEW n \in RepoName PROVE TaskSound(task[m][n], k.repos[n])
    <2>1. /\ task[m][n] \in Tasks /\ TaskSound(task[m][n], hub[m].repos[n])
          /\ hub[m].repos[n] \in RepoEntry
      BY Types
    <2>2. k.repos[n] \in RepoEntry
      BY <1>1, HubTypes
    <2>3. \A p \in Machine :
             \/ k.repos[n].inbox[p] = hub[m].repos[n].inbox[p]
             \/ Advances(hub[m].repos[n].inbox[p], k.repos[n].inbox[p])
             \/ k.repos[n].inbox[p] = NoSlot
      BY <1>1 DEF SlotsAdvance
    <2>4. k.repos[n].id = hub[m].repos[n].id
      BY <1>1
    <2> QED BY <2>1, <2>2, <2>3, <2>4, TaskKept
  <1> QED BY <1>1, <1>2, <1>3

\* The task of n takes a step on m's hub.
LEMMA TaskChanges ==
    ASSUME IInv, NEW m \in Machine, NEW n \in RepoName, NEW k \in HubState,
           HubSound(k), SlotsForward(hub[m], k),
           \A j \in RepoName : /\ k.repos[j].id = hub[m].repos[j].id
                               /\ j # n => TaskSound(task[m][j], k.repos[j]),
           hub' = [hub EXCEPT ![m] = k],
           NEW t \in Tasks, TaskSound(t, k.repos[n]), TaskBecomes(m, n, t),
           NEW S \in SUBSET Op, S \subseteq OpsOf(hub[m].repos[n].id), OpsBecome(m, n, S),
           UNCHANGED <<stale, clone, link, net, ids>>, scenario' \in Scenario
    PROVE  Holds
  <1>1. /\ task' \in [Machine -> [RepoName -> Tasks]] /\ task'[m][n] = t
        /\ \A a \in Machine \ {m} : task'[a] = task[a]
        /\ \A j \in RepoName \ {n} : task'[m][j] = task[m][j]
    BY BecomesFacts
  <1>2. /\ ops' \in [Machine -> [RepoName -> SUBSET Op]] /\ ops'[m][n] = S
        /\ \A a \in Machine \ {m} : ops'[a] = ops[a]
        /\ \A j \in RepoName \ {n} : ops'[m][j] = ops[m][j]
    BY BecomesFacts
  <1>3. /\ hub' \in [Machine -> HubState] /\ hub'[m] = k
        /\ \A a \in Machine \ {m} : hub'[a] = hub[a]
    BY Transit
  <1>4. \A j \in RepoName : /\ TaskSound(task'[m][j], hub'[m].repos[j])
                            /\ ops'[m][j] \subseteq OpsOf(hub'[m].repos[j].id)
    <2> SUFFICES ASSUME NEW j \in RepoName
                 PROVE  /\ TaskSound(task'[m][j], k.repos[j])
                        /\ ops'[m][j] \subseteq OpsOf(k.repos[j].id)
      BY <1>3
    <2>1. ops[m][j] \subseteq OpsOf(hub[m].repos[j].id)
      BY Types
    <2>2. CASE j = n
      BY <1>1, <1>2, <2>2
    <2>3. CASE j # n
      BY <1>1, <1>2, <2>1, <2>3
    <2> QED BY <2>2, <2>3
  <1>5. /\ HubSound(hub'[m]) /\ SlotsForward(hub[m], hub'[m])
    BY <1>3
  <1>6. /\ clone' \in [Machine -> Clones] /\ (\A a \in Machine : CloneSound(clone'[a]))
        /\ stale' \in SUBSET StaleTasks /\ (\A z \in stale' : z.heads \subseteq OpsOf(z.id))
        /\ net' \in SUBSET Streams /\ (\A s \in net' : AnnounceSound(s.announce))
        /\ link' \in [Pairs -> Nat] /\ ids' \in SUBSET RepoId
    BY Transit
  <1> QED BY <1>1, <1>2, <1>3, <1>4, <1>5, <1>6, Assemble

\* The same, for an operation that keeps every slot, advances it or drops it.
LEMMA TaskStepHolds ==
    ASSUME IInv, NEW m \in Machine, NEW n \in RepoName, NEW k, HubStep(hub[m], k),
           hub' = [hub EXCEPT ![m] = k],
           NEW t \in Tasks, TaskSound(t, k.repos[n]), TaskBecomes(m, n, t),
           NEW S \in SUBSET Op, S \subseteq OpsOf(hub[m].repos[n].id), OpsBecome(m, n, S),
           UNCHANGED <<stale, clone, link, net, ids>>, scenario' \in Scenario
    PROVE  Holds
  <1>1. /\ k \in HubState /\ HubSound(k) /\ SlotsForward(hub[m], k)
        /\ \A j \in RepoName : /\ k.repos[j].id = hub[m].repos[j].id
                               /\ TaskSound(task[m][j], k.repos[j])
    BY StepKeepsTasks
  <1> QED BY <1>1, TaskChanges

LEMMA OperateHolds ==
    ASSUME IInv, NEW m \in Machine, NEW n \in RepoName, Operate(m, n)
    PROVE  Holds
  <1>1. PICK id \in RepoId \cup {NoId} : id = hub[m].repos[n].id
    BY Types
  <1>2. id \in RepoId
    BY <1>1 DEF Operate, Registered
  <1>3. PICK S : S = ops[m][n] \cup {<<id, scenario.ops>>}
    OBVIOUS
  <1>4. S \in SUBSET Op /\ S \subseteq OpsOf(hub[m].repos[n].id)
    <2>1. <<id, scenario.ops>> \in Op /\ <<id, scenario.ops>> \in OpsOf(id)
      BY <1>2, Transit DEF Op, OpsOf
    <2>2. ops[m][n] \in SUBSET Op /\ ops[m][n] \subseteq OpsOf(hub[m].repos[n].id)
      BY Types
    <2> QED BY <1>1, <1>3, <2>1, <2>2
  <1>5. OpsBecome(m, n, S)
    BY <1>1, <1>3, Transit DEF Operate, OpsBecome, RepoIdOf
  <1>6. UNCHANGED <<hub, task, stale, clone, link, net, ids>>
    BY DEF Operate
  <1>7. scenario' \in Scenario
    BY ScenarioFacts DEF Operate
  <1>8. /\ hub[m] \in HubState /\ HubSound(hub[m]) /\ hub' = [hub EXCEPT ![m] = hub[m]]
        /\ task[m][n] \in Tasks /\ TaskSound(task[m][n], hub[m].repos[n])
    BY <1>6, Types, Transit
  <1>9. HubStep(hub[m], hub[m])
    BY <1>8, SameHub
  <1>10. TaskBecomes(m, n, task[m][n])
    BY <1>6, <1>8, BecomesFacts
  <1> QED BY <1>4, <1>5, <1>6, <1>7, <1>8, <1>9, <1>10, TaskStepHolds

LEMMA OpenHolds ==
    ASSUME IInv, NEW m \in Machine, NEW n \in RepoName, Open(m, n)
    PROVE  Holds
  <1>1. PICK id \in RepoId \cup {NoId} : id = hub[m].repos[n].id
    BY Types
  <1>2. id \in RepoId /\ id # NoId
    BY <1>1 DEF Open, Registered
  <1>3. /\ hub[m] \in HubState /\ HubSound(hub[m])
        /\ ops[m][n] \in SUBSET Op /\ ops[m][n] \subseteq OpsOf(id)
    BY <1>1, Types
  <1>4. PICK f : f = RepoOpened(hub[m], n, id)
    OBVIOUS
  <1>5. /\ HubStep(hub[m], f) /\ f.conn = hub[m].conn
        /\ \A j \in RepoName : f.repos[j].inbox = hub[m].repos[j].inbox
    BY <1>3, <1>4, ServingStep
  <1>6. PICK k : k = Publish(f, n, id, ops[m][n])
    OBVIOUS
  <1>7. f \in HubState /\ HubSound(f)
    BY <1>5 DEF HubStep
  <1>8. HubStep(f, k)
    BY <1>2, <1>3, <1>6, <1>7, PublishStep
  <1>9. HubStep(hub[m], k)
    BY <1>3, <1>5, <1>8, ThenStep
  <1> DEFINE t == [phase |-> "idle", heads |-> ops[m][n], todo |-> {}]
  <1>10. t \in Tasks /\ t.phase = "idle" /\ t.todo = {}
    BY <1>3 DEF Tasks
  <1>11. k.repos[n].id = id
    BY <1>1, <1>9 DEF HubStep
  <1>12. /\ TaskBecomes(m, n, t) /\ hub' = [hub EXCEPT ![m] = k]
         /\ UNCHANGED <<ops, stale, clone, link, net, ids, scenario>>
    BY <1>1, <1>4, <1>6, Transit DEF Open, TaskBecomes, RepoIdOf
  <1> HIDE DEF t
  <1>13. TaskSound(t, k.repos[n])
    BY <1>2, <1>10, <1>11 DEF TaskSound
  <1>14. OpsBecome(m, n, ops[m][n])
    BY <1>3, <1>10, <1>12, BecomesFacts
  <1> QED BY <1>1, <1>3, <1>9, <1>10, <1>12, <1>13, <1>14, Transit, TaskStepHolds

LEMMA SettleHolds ==
    ASSUME IInv, NEW m \in Machine, NEW n \in RepoName, Settle(m, n)
    PROVE  Holds
  <1>1. PICK id \in RepoId \cup {NoId} : id = hub[m].repos[n].id
    BY Types
  <1>2. /\ hub[m] \in HubState /\ HubSound(hub[m])
        /\ ops[m][n] \in SUBSET Op /\ ops[m][n] \subseteq OpsOf(id)
        /\ task[m][n] \in Tasks /\ TaskSound(task[m][n], hub[m].repos[n])
    BY <1>1, Types
  <1>3. task[m][n].phase = "busy" /\ task[m][n].todo = {}
    BY DEF Settle
  <1>4. id # NoId /\ id \in RepoId
    <2>1. task[m][n] # ClosedTask
      BY <1>3 DEF ClosedTask
    <2> QED BY <1>1, <1>2, <2>1 DEF TaskSound
  <1>5. PICK k : k = IF ops[m][n] = task[m][n].heads THEN hub[m]
                     ELSE Publish(hub[m], n, id, ops[m][n])
    OBVIOUS
  <1>6. HubStep(hub[m], k)
    BY <1>2, <1>4, <1>5, SameHub, PublishStep
  <1>7. hub' = [hub EXCEPT ![m] = k] /\ UNCHANGED <<ops, stale, clone, link, net, ids, scenario>>
    BY <1>1, <1>5, Transit DEF Settle, RepoIdOf
  <1> DEFINE t == [task[m][n] EXCEPT !.phase = "idle", !.heads = ops[m][n]]
  <1>8. t \in Tasks /\ t.phase = "idle" /\ t.todo = {}
    BY <1>2, <1>3 DEF Tasks
  <1>9. TaskBecomes(m, n, t)
    BY DEF Settle, TaskBecomes
  <1> HIDE DEF t
  <1>10. k.repos[n].id = id
    BY <1>1, <1>6 DEF HubStep
  <1>11. TaskSound(t, k.repos[n])
    BY <1>4, <1>8, <1>10 DEF TaskSound
  <1>12. OpsBecome(m, n, ops[m][n])
    BY <1>2, <1>7, <1>8, BecomesFacts
  <1> QED BY <1>1, <1>2, <1>6, <1>7, <1>8, <1>9, <1>11, <1>12, Transit, TaskStepHolds

LEMMA WatchEndsHolds ==
    ASSUME IInv, NEW m \in Machine, NEW n \in RepoName, WatchEnds(m, n) \/ CheckPanics(m, n)
    PROVE  Holds
  <1>1. PICK k : k = RepoClosed(hub[m], n, RepoIdOf(m, n))
    OBVIOUS
  <1>2. /\ hub[m] \in HubState /\ HubSound(hub[m])
        /\ ops[m][n] \in SUBSET Op /\ ops[m][n] \subseteq OpsOf(hub[m].repos[n].id)
    BY Types
  <1>3. HubStep(hub[m], k)
    BY <1>1, <1>2, ServingStep
  <1>4. /\ hub' = [hub EXCEPT ![m] = k] /\ UNCHANGED <<ops, stale, clone, link, net, ids>>
        /\ TaskBecomes(m, n, ClosedTask)
    BY <1>1, Transit DEF WatchEnds, CheckPanics, TaskBecomes
  <1>5. scenario' \in Scenario
    BY ScenarioFacts DEF WatchEnds, CheckPanics
  <1>6. OpsBecome(m, n, ops[m][n])
    BY <1>2, <1>4, ClosedTaskSound, BecomesFacts
  <1> QED BY <1>2, <1>3, <1>4, <1>5, <1>6, ClosedTaskSound, Transit, TaskStepHolds

\* Another repo's task does not see what becomes of n's slots.
LEMMA OthersKept ==
    ASSUME IInv, NEW m \in Machine, NEW n \in RepoName, NEW k \in HubState,
           \A j \in RepoName : k.repos[j].id = hub[m].repos[j].id,
           \A j \in RepoName, p \in Machine :
              j # n => k.repos[j].inbox[p] = hub[m].repos[j].inbox[p]
    PROVE  \A j \in RepoName : j # n => TaskSound(task[m][j], k.repos[j])
  <1> SUFFICES ASSUME NEW j \in RepoName, j # n PROVE TaskSound(task[m][j], k.repos[j])
    OBVIOUS
  <1>1. /\ task[m][j] \in Tasks /\ TaskSound(task[m][j], hub[m].repos[j])
        /\ hub[m].repos[j] \in RepoEntry
    BY Types
  <1>2. k.repos[j] \in RepoEntry
    BY HubTypes
  <1>3. \A p \in Machine : k.repos[j].inbox[p] = hub[m].repos[j].inbox[p]
    OBVIOUS
  <1> QED BY <1>1, <1>2, <1>3, TaskKept

LEMMA DrainedFacts ==
    ASSUME NEW h \in HubState, HubSound(h), NEW n \in RepoName
    PROVE  /\ Drained(h, n) \in SUBSET PeerAnnounces
           /\ \A x \in Drained(h, n) :
                 /\ x.peer \in Machine /\ x.heads # {}
                 /\ x.heads \subseteq OpsOf(h.repos[n].id)
                 /\ x.heads = h.repos[n].inbox[x.peer].heads
                 /\ \A y \in Drained(h, n) : y.peer = x.peer => y = x
  <1>1. h.repos[n] \in RepoEntry /\ EntrySound(h.repos[n])
    BY HubTypes DEF HubSound, EntriesSound
  <1>2. \A p \in Machine :
           /\ h.repos[n].inbox[p].seq \in Nat /\ h.repos[n].inbox[p].heads \in SUBSET Op
           /\ h.repos[n].inbox[p].heads \subseteq OpsOf(h.repos[n].id)
           /\ h.repos[n].inbox[p].heads = {} => h.repos[n].inbox[p].drained
    BY <1>1, EntryTypes, SlotTypes DEF EntrySound
  <1>3. ASSUME NEW x \in Drained(h, n)
        PROVE  \E p \in Machine :
                  /\ ~h.repos[n].inbox[p].drained
                  /\ x = [peer |-> p, seq |-> h.repos[n].inbox[p].seq,
                          heads |-> h.repos[n].inbox[p].heads]
    BY <1>3 DEF Drained, Undrained
  <1>4. Drained(h, n) \in SUBSET PeerAnnounces
    BY <1>2, <1>3 DEF PeerAnnounces
  <1>5. \A x \in Drained(h, n) :
           /\ x.peer \in Machine /\ x.heads # {}
           /\ x.heads \subseteq OpsOf(h.repos[n].id)
           /\ x.heads = h.repos[n].inbox[x.peer].heads
    BY <1>2, <1>3
  <1>6. \A x, y \in Drained(h, n) : y.peer = x.peer => y = x
    BY <1>3
  <1> QED BY <1>4, <1>5, <1>6

LEMMA WakeHolds ==
    ASSUME IInv, NEW m \in Machine, NEW n \in RepoName, Wake(m, n)
    PROVE  Holds
  <1>1. PICK h \in HubState : h = hub[m]
    BY Types
  <1>2. /\ HubSound(h) /\ ops[m][n] \in SUBSET Op /\ ops[m][n] \subseteq OpsOf(h.repos[n].id)
        /\ task[m][n] \in Tasks /\ TaskSound(task[m][n], h.repos[n])
    BY <1>1, Types
  <1>3. PICK k : k = Drain(h, n)
    OBVIOUS
  <1>4. /\ k \in HubState /\ HubSound(k) /\ k.conn = h.conn
        /\ \A j \in RepoName : k.repos[j].id = h.repos[j].id
        /\ \A j \in RepoName, p \in Machine :
              /\ k.repos[j].inbox[p].seq = h.repos[j].inbox[p].seq
              /\ k.repos[j].inbox[p].heads = h.repos[j].inbox[p].heads
              /\ j # n => k.repos[j].inbox[p] = h.repos[j].inbox[p]
    <2>1. HubSound(h)
      BY <1>2
    <2>2. k \in HubState /\ HubSound(k) /\ k.conn = h.conn
      BY <1>3, <2>1, DrainStep
    <2>3. \A j \in RepoName : k.repos[j].id = h.repos[j].id
      BY <1>3, <2>1, DrainStep
    <2>4. \A j \in RepoName, p \in Machine :
             /\ k.repos[j].inbox[p].seq = h.repos[j].inbox[p].seq
             /\ k.repos[j].inbox[p].heads = h.repos[j].inbox[p].heads
             /\ j # n => k.repos[j].inbox[p] = h.repos[j].inbox[p]
      BY <1>3, <2>1, DrainStep
    <2> QED BY <2>2, <2>3, <2>4
  <1>5. SlotsForward(h, k)
    BY <1>4 DEF SlotsForward
  <1>6. PICK todo : todo = Drained(h, n)
    OBVIOUS
  <1>7. /\ todo \in SUBSET PeerAnnounces
        /\ \A x \in todo :
              /\ x.peer \in Machine /\ x.heads # {}
              /\ x.heads \subseteq OpsOf(h.repos[n].id)
              /\ x.heads = h.repos[n].inbox[x.peer].heads
              /\ \A y \in todo : y.peer = x.peer => y = x
    BY <1>2, <1>6, DrainedFacts
  <1> DEFINE t == [task[m][n] EXCEPT !.phase = "busy", !.todo = todo]
  <1>8. t \in Tasks /\ t.phase = "busy" /\ t.todo = todo
    BY <1>2, <1>7 DEF Tasks
  <1>9. TaskBecomes(m, n, t)
    BY <1>1, <1>6 DEF Wake, TaskBecomes
  <1> HIDE DEF t
  <1>10. h.repos[n].id # NoId
    <2>1. task[m][n] # ClosedTask
      BY DEF ClosedTask, Wake
    <2> QED BY <1>2, <2>1 DEF TaskSound
  <1>11. \A x \in todo : RetryFits(x, k.repos[n].inbox[x.peer])
    BY <1>4, <1>7 DEF RetryFits
  <1>12. TaskSound(t, k.repos[n])
    BY <1>4, <1>7, <1>8, <1>10, <1>11 DEF TaskSound
  <1>13. /\ hub' = [hub EXCEPT ![m] = k]
         /\ UNCHANGED <<ops, stale, clone, link, net, ids, scenario>>
    BY <1>1, <1>3, Transit DEF Wake
  <1>14. OpsBecome(m, n, ops[m][n])
    BY <1>2, <1>8, <1>13, BecomesFacts
  <1>15. \A j \in RepoName : j # n => TaskSound(task[m][j], k.repos[j])
    <2>1. /\ k \in HubState /\ \A j \in RepoName : k.repos[j].id = hub[m].repos[j].id
          /\ \A j \in RepoName, p \in Machine :
                j # n => k.repos[j].inbox[p] = hub[m].repos[j].inbox[p]
      BY <1>1, <1>4
    <2> QED BY <2>1, OthersKept
  <1> QED BY <1>1, <1>2, <1>4, <1>5, <1>8, <1>9, <1>12, <1>13, <1>14, <1>15, Transit,
             TaskChanges

LEMMA HandleHolds ==
    ASSUME IInv, NEW m \in Machine, NEW n \in RepoName, Handle(m, n)
    PROVE  Holds
  <1>1. PICK h \in HubState : h = hub[m]
    BY Types
  <1>2. /\ HubSound(h) /\ ops[m][n] \in SUBSET Op /\ ops[m][n] \subseteq OpsOf(h.repos[n].id)
        /\ task[m][n] \in Tasks /\ TaskSound(task[m][n], h.repos[n])
    BY <1>1, Types
  <1>3. task[m][n].phase = "busy" /\ task[m][n].todo # {}
    BY DEF Handle
  <1>4. PICK x : x = First(task[m][n].todo)
    OBVIOUS
  <1>5. x \in task[m][n].todo /\ x \in PeerAnnounces /\ x.peer \in Machine
    <2>1. task[m][n].todo \in SUBSET PeerAnnounces
      BY <1>2, TaskTypes
    <2>2. \A y \in PeerAnnounces : y.peer \in Machine
      BY DEF PeerAnnounces
    <2> QED BY <1>3, <1>4, <2>1, <2>2, FirstFacts
  <1>6. x.heads \in SUBSET Op /\ x.heads # {} /\ x.heads \subseteq OpsOf(h.repos[n].id)
    BY <1>2, <1>5 DEF TaskSound, PeerAnnounces
  <1> DEFINE t == [task[m][n] EXCEPT !.todo = task[m][n].todo \ {x}]
  <1>7. t \in Tasks /\ t.phase = "busy" /\ t.todo = task[m][n].todo \ {x}
    BY <1>2, <1>3 DEF Tasks
  <1>8. TaskBecomes(m, n, t)
    BY <1>4, Transit DEF Handle, TaskBecomes
  <1> HIDE DEF t
  <1>9. h.repos[n].id # NoId
    <2>1. task[m][n] # ClosedTask
      BY <1>3 DEF ClosedTask
    <2> QED BY <1>2, <2>1 DEF TaskSound
  <1>10. UNCHANGED <<stale, clone, link, net, ids>> /\ scenario' \in Scenario
    BY ScenarioFacts DEF Handle
  <1>11. TaskSound(t, h.repos[n])
    BY <1>2, <1>7, <1>9 DEF TaskSound
  <1>12. CASE UNCHANGED hub
    <2>1. hub' = [hub EXCEPT ![m] = h] /\ HubStep(hub[m], h)
      BY <1>1, <1>2, <1>12, Transit, SameHub
    <2>2. CASE UNCHANGED ops
      <3>1. OpsBecome(m, n, ops[m][n])
        BY <1>2, <1>7, <2>2, BecomesFacts
      <3> QED BY <1>1, <1>2, <1>7, <1>8, <1>10, <1>11, <2>1, <3>1, TaskStepHolds
    <2>3. CASE ops' = [ops EXCEPT ![m][n] = @ \cup x.heads]
      <3> DEFINE S == ops[m][n] \cup x.heads
      <3>1. S \in SUBSET Op /\ S \subseteq OpsOf(h.repos[n].id)
        BY <1>2, <1>6
      <3>2. OpsBecome(m, n, S)
        BY <2>3, Transit DEF OpsBecome
      <3> HIDE DEF S
      <3> QED BY <1>1, <1>7, <1>8, <1>10, <1>11, <2>1, <3>1, <3>2, TaskStepHolds
    <2>4. \/ UNCHANGED ops \/ ops' = [ops EXCEPT ![m][n] = @ \cup x.heads]
      BY <1>4 DEF Handle
    <2> QED BY <2>2, <2>3, <2>4
  <1>13. CASE hub' = [hub EXCEPT ![m] = Requeue(@, n, x)] /\ UNCHANGED ops
    <2>1. PICK k : k = Requeue(h, n, x)
      OBVIOUS
    <2>2. hub' = [hub EXCEPT ![m] = k]
      BY <1>1, <1>13, <2>1, Transit
    <2>3. /\ k \in HubState /\ HubSound(k) /\ k.conn = h.conn
          /\ \A j \in RepoName : k.repos[j].id = h.repos[j].id
          /\ \A j \in RepoName, q \in Machine :
                j # n \/ q # x.peer => k.repos[j].inbox[q] = h.repos[j].inbox[q]
          /\ Requeued(h.repos[n].inbox[x.peer], k.repos[n].inbox[x.peer], x)
      <3>1. HubSound(h)
        BY <1>2
      <3>2. x \in [peer : Machine, seq : Nat, heads : SUBSET Op]
        BY <1>5 DEF PeerAnnounces
      <3>3. k \in HubState /\ HubSound(k) /\ k.conn = h.conn
        BY <1>6, <2>1, <3>1, <3>2, RequeueStep
      <3>4. \A j \in RepoName : k.repos[j].id = h.repos[j].id
        BY <1>6, <2>1, <3>1, <3>2, RequeueStep
      <3>5. \A j \in RepoName, q \in Machine :
               j # n \/ q # x.peer => k.repos[j].inbox[q] = h.repos[j].inbox[q]
        BY <1>6, <2>1, <3>1, <3>2, RequeueStep
      <3>6. Requeued(h.repos[n].inbox[x.peer], k.repos[n].inbox[x.peer], x)
        BY <1>6, <2>1, <3>1, <3>2, RequeueStep
      <3> QED BY <3>3, <3>4, <3>5, <3>6
    <2> DEFINE old == h.repos[n].inbox[x.peer]
               new == k.repos[n].inbox[x.peer]
    <2>4. old.seq = x.seq /\ old.drained /\ old.heads # {} => old.heads = x.heads
      BY <1>2, <1>5 DEF TaskSound, RetryFits
    <2>11. Requeued(old, new, x)
      BY <2>3
    <2> HIDE DEF old, new
    <2>5. \/ new = old
          \/ new.seq = old.seq /\ (new.heads = old.heads \/ old.heads = {})
      BY <2>4, <2>11 DEF Requeued
    <2>6. SlotsForward(h, k)
      BY <1>5, <2>3, <2>5 DEF SlotsForward, old, new
    <2>7. \A y \in t.todo : RetryFits(y, k.repos[n].inbox[y.peer])
      <3> SUFFICES ASSUME NEW y \in t.todo PROVE RetryFits(y, k.repos[n].inbox[y.peer])
        OBVIOUS
      <3>1. y \in task[m][n].todo /\ y # x
        BY <1>7
      <3>2. y.peer # x.peer /\ RetryFits(y, h.repos[n].inbox[y.peer])
        BY <1>2, <1>5, <3>1 DEF TaskSound
      <3>3. y.peer \in Machine
        BY <1>2, <3>1, TaskTypes DEF PeerAnnounces
      <3> QED BY <2>3, <3>2, <3>3
    <2>8. TaskSound(t, k.repos[n])
      BY <1>11, <2>3, <2>7 DEF TaskSound
    <2>9. \A j \in RepoName : j # n => TaskSound(task[m][j], k.repos[j])
      <3>1. /\ k \in HubState /\ \A j \in RepoName : k.repos[j].id = hub[m].repos[j].id
            /\ \A j \in RepoName, p \in Machine :
                  j # n => k.repos[j].inbox[p] = hub[m].repos[j].inbox[p]
        BY <1>1, <2>3
      <3> QED BY <3>1, OthersKept
    <2>10. OpsBecome(m, n, ops[m][n])
      BY <1>2, <1>7, <1>13, BecomesFacts
    <2>12. /\ k \in HubState /\ HubSound(k) /\ SlotsForward(hub[m], k)
           /\ \A j \in RepoName : /\ k.repos[j].id = hub[m].repos[j].id
                                  /\ j # n => TaskSound(task[m][j], k.repos[j])
      BY <1>1, <2>3, <2>6, <2>9
    <2>13. ops[m][n] \in SUBSET Op /\ ops[m][n] \subseteq OpsOf(hub[m].repos[n].id)
      BY <1>1, <1>2
    <2> QED BY <1>7, <1>8, <1>10, <2>2, <2>8, <2>10, <2>12, <2>13, TaskChanges
  <1>14. \/ UNCHANGED hub
         \/ hub' = [hub EXCEPT ![m] = Requeue(@, n, x)] /\ UNCHANGED ops
    BY <1>4 DEF Handle
  <1> QED BY <1>12, <1>13, <1>14

-----------------------------------------------------------------------------
\* Steps that register a repo, forget one or start the daemon over.

LEMMA RefileHolds ==
    ASSUME IInv, NEW m \in Machine, NEW n \in RepoName, NEW id, NEW k,
           Refiled(hub[m], k, n, id), hub' = [hub EXCEPT ![m] = k],
           TaskBecomes(m, n, ClosedTask),
           NEW S \in SUBSET Op, S \subseteq OpsOf(id), OpsBecome(m, n, S),
           clone' \in [Machine -> Clones], \A a \in Machine : CloneSound(clone'[a]),
           stale' \in SUBSET StaleTasks, \A z \in stale' : z.heads \subseteq OpsOf(z.id),
           UNCHANGED <<link, net>>, ids' \in SUBSET RepoId, scenario' \in Scenario
    PROVE  Holds
  <1>1. /\ k \in HubState /\ HubSound(k) /\ SlotsAdvance(hub[m], k)
        /\ k.repos[n].id = id /\ \A j \in RepoName \ {n} : k.repos[j] = hub[m].repos[j]
    BY DEF Refiled
  <1>2. /\ task' \in [Machine -> [RepoName -> Tasks]] /\ task'[m][n] = ClosedTask
        /\ \A a \in Machine \ {m} : task'[a] = task[a]
        /\ \A j \in RepoName \ {n} : task'[m][j] = task[m][j]
    BY ClosedTaskSound, BecomesFacts
  <1>3. /\ ops' \in [Machine -> [RepoName -> SUBSET Op]] /\ ops'[m][n] = S
        /\ \A a \in Machine \ {m} : ops'[a] = ops[a]
        /\ \A j \in RepoName \ {n} : ops'[m][j] = ops[m][j]
    BY ClosedTaskSound, BecomesFacts
  <1>4. /\ hub' \in [Machine -> HubState] /\ hub'[m] = k
        /\ \A a \in Machine \ {m} : hub'[a] = hub[a]
    BY <1>1, Transit
  <1>5. \A j \in RepoName : /\ TaskSound(task'[m][j], hub'[m].repos[j])
                            /\ ops'[m][j] \subseteq OpsOf(hub'[m].repos[j].id)
    <2> SUFFICES ASSUME NEW j \in RepoName
                 PROVE  /\ TaskSound(task'[m][j], k.repos[j])
                        /\ ops'[m][j] \subseteq OpsOf(k.repos[j].id)
      BY <1>4
    <2>1. /\ ops[m][j] \subseteq OpsOf(hub[m].repos[j].id)
          /\ TaskSound(task[m][j], hub[m].repos[j])
      BY Types
    <2>2. CASE j = n
      BY <1>1, <1>2, <1>3, <2>2, ClosedTaskSound
    <2>3. CASE j # n
      BY <1>1, <1>2, <1>3, <2>1, <2>3
    <2> QED BY <2>2, <2>3
  <1>6. SlotsForward(hub[m], hub'[m])
    <2>1. SlotsForward(hub[m], k)
      BY <1>1, Types, HubForward
    <2> QED BY <1>4, <2>1
  <1>7. HubSound(hub'[m])
    BY <1>1, <1>4
  <1>8. /\ net' \in SUBSET Streams /\ (\A s \in net' : AnnounceSound(s.announce))
        /\ link' \in [Pairs -> Nat]
    BY Transit
  <1> QED BY <1>2, <1>3, <1>4, <1>5, <1>6, <1>7, <1>8, Assemble

\* No task runs for a name that is not registered.
LEMMA NoTaskFacts ==
    ASSUME IInv, NEW m \in Machine, NEW n \in RepoName, ~Registered(hub[m], n), UNCHANGED task
    PROVE  TaskBecomes(m, n, ClosedTask)
  <1>1. TaskSound(task[m][n], hub[m].repos[n]) /\ task[m][n] \in Tasks
    BY Types
  <1>2. task[m][n] = ClosedTask
    BY <1>1 DEF TaskSound, Registered
  <1>3. ops[m][n] \in SUBSET Op
    BY Types
  <1> QED BY <1>1, <1>2, <1>3, BecomesFacts

LEMMA AddRepoHolds ==
    ASSUME IInv, NEW m \in Machine, NEW n \in RepoName, NEW id \in RepoId, AddRepo(m, n, id)
    PROVE  Holds
  <1>1. PICK k : k = RegisterRepo(hub[m], n, id)
    OBVIOUS
  <1>2. ~Registered(hub[m], n) /\ UNCHANGED <<task, stale, clone, link, net>>
    BY DEF AddRepo
  <1>3. Refiled(hub[m], k, n, id)
    BY <1>1, <1>2, Types, RegisterStep
  <1>4. hub' = [hub EXCEPT ![m] = k]
    BY <1>1, Transit DEF AddRepo
  <1>5. TaskBecomes(m, n, ClosedTask)
    BY <1>2, NoTaskFacts
  <1> DEFINE S == {<<id, 0>>}
  <1>6. S \in SUBSET Op /\ S \subseteq OpsOf(id)
    BY DEF Op, OpsOf
  <1>7. OpsBecome(m, n, S)
    BY DEF AddRepo, OpsBecome
  <1> HIDE DEF S
  <1>8. scenario' \in Scenario
    BY ScenarioFacts DEF AddRepo, Registers
  <1>9. ids' \in SUBSET RepoId
    BY Transit DEF AddRepo
  <1>10. /\ clone' \in [Machine -> Clones] /\ (\A a \in Machine : CloneSound(clone'[a]))
         /\ stale' \in SUBSET StaleTasks /\ (\A z \in stale' : z.heads \subseteq OpsOf(z.id))
    BY <1>2, Transit
  <1> QED BY <1>2, <1>3, <1>4, <1>5, <1>6, <1>7, <1>8, <1>9, <1>10, RefileHolds

LEMMA ForgetRepoHolds ==
    ASSUME IInv, NEW m \in Machine, NEW n \in RepoName, ForgetRepo(m, n)
    PROVE  Holds
  <1>1. PICK k : k = UnregisterRepo(hub[m], n)
    OBVIOUS
  <1>2. UNCHANGED <<clone, link, net, ids>>
    BY DEF ForgetRepo
  <1>3. Refiled(hub[m], k, n, NoId)
    BY <1>1, Types, UnregisterStep
  <1>4. hub' = [hub EXCEPT ![m] = k]
    BY <1>1, Transit DEF ForgetRepo
  <1>5. TaskBecomes(m, n, ClosedTask)
    BY DEF ForgetRepo, TaskBecomes
  <1>6. OpsBecome(m, n, {})
    BY DEF ForgetRepo, OpsBecome
  <1>7. scenario' \in Scenario
    BY ScenarioFacts DEF ForgetRepo, Registers
  <1>8. PICK id \in RepoId \cup {NoId} : id = hub[m].repos[n].id
    BY Types
  <1>9. id \in RepoId
    BY <1>8 DEF ForgetRepo, Registered
  <1>10. ops[m][n] \in SUBSET Op /\ ops[m][n] \subseteq OpsOf(id)
    BY <1>8, Types
  <1> DEFINE z == [machine |-> m, name |-> n, id |-> id, heads |-> ops[m][n]]
  <1>11. z \in StaleTasks /\ z.heads \subseteq OpsOf(z.id)
    BY <1>9, <1>10 DEF StaleTasks
  <1>12. stale' \subseteq stale \cup {z}
    BY <1>8 DEF ForgetRepo, RepoIdOf
  <1> HIDE DEF z
  <1>13. stale' \in SUBSET StaleTasks /\ (\A y \in stale' : y.heads \subseteq OpsOf(y.id))
    BY <1>11, <1>12, Transit
  <1>14. /\ clone' \in [Machine -> Clones] /\ (\A a \in Machine : CloneSound(clone'[a]))
         /\ ids' \in SUBSET RepoId
    BY <1>2, Transit
  <1>15. {} \in SUBSET Op /\ {} \subseteq OpsOf(NoId)
    OBVIOUS
  <1> QED BY <1>2, <1>3, <1>4, <1>5, <1>6, <1>7, <1>13, <1>14, <1>15, RefileHolds

LEMMA EndCloneHolds ==
    ASSUME IInv, NEW m \in Machine, EndClone(m)
    PROVE  Holds
  <1>1. PICK c \in Clones : c = clone[m]
    BY Types
  <1>2. CloneSound(c) /\ c.id # NoId
    BY <1>1, Types DEF EndClone
  <1>3. PICK n \in RepoName, id \in RepoId, S \in SUBSET Op :
           n = c.name /\ id = c.id /\ S = c.pulled
    BY <1>2, CloneTypes
  <1>4. S \subseteq OpsOf(id)
    BY <1>2, <1>3 DEF CloneSound
  <1>5. PICK d \in Clones : d = NoClone(SomeName) /\ CloneSound(d)
    BY NoCloneFacts
  <1>6. /\ clone' = [clone EXCEPT ![m] = d]
        /\ UNCHANGED <<task, stale, link, net, ids, scenario>>
    BY <1>5 DEF EndClone
  <1>7. clone' \in [Machine -> Clones] /\ \A a \in Machine : CloneSound(clone'[a])
    BY <1>5, <1>6, Transit
  <1>8. CASE ~(S # {} /\ CanRegister(m, n, id))
    <2>1. UNCHANGED <<hub, ops>>
      BY <1>1, <1>3, <1>8 DEF EndClone
    <2> QED BY <1>5, <1>6, <2>1, Transit, CloneChanges
  <1>9. CASE S # {} /\ CanRegister(m, n, id)
    <2>1. PICK k : k = RegisterRepo(hub[m], n, id)
      OBVIOUS
    <2>2. ~Registered(hub[m], n)
      BY <1>9 DEF CanRegister
    <2>3. Refiled(hub[m], k, n, id)
      BY <2>1, <2>2, Types, RegisterStep
    <2>4. hub' = [hub EXCEPT ![m] = k]
      BY <1>1, <1>3, <1>9, <2>1, Transit DEF EndClone
    <2>5. OpsBecome(m, n, S)
      BY <1>1, <1>3, <1>9 DEF EndClone, OpsBecome
    <2>6. TaskBecomes(m, n, ClosedTask)
      BY <1>6, <2>2, NoTaskFacts
    <2>7. /\ stale' \in SUBSET StaleTasks /\ (\A y \in stale' : y.heads \subseteq OpsOf(y.id))
          /\ ids' \in SUBSET RepoId /\ scenario' \in Scenario
      BY <1>6, Transit
    <2> QED BY <1>4, <1>6, <1>7, <2>3, <2>4, <2>5, <2>6, <2>7, RefileHolds
  <1> QED BY <1>8, <1>9

LEMMA RestartHolds ==
    ASSUME IInv, NEW m \in Machine, Restart(m)
    PROVE  Holds
  <1>1. PICK id : id = [n \in RepoName |-> RepoIdOf(m, n)]
    OBVIOUS
  <1>2. \A n \in RepoName : id[n] = hub[m].repos[n].id /\ id[n] \in RepoId \cup {NoId}
    BY <1>1, Types DEF RepoIdOf
  <1>3. PICK k : k = [EmptyHub EXCEPT !.repos = [n \in RepoName |-> NewEntry(id[n])]]
    OBVIOUS
  <1>4. /\ k \in HubState /\ HubSound(k)
        /\ \A p \in Machine : k.conn[p] = 0
        /\ \A n \in RepoName : k.repos[n].id = id[n]
    BY <1>2, <1>3, StartFacts
  <1>5. hub' = [hub EXCEPT ![m] = k]
    BY <1>1, <1>3 DEF Restart
  <1>6. /\ hub' \in [Machine -> HubState] /\ hub'[m] = k
        /\ \A a \in Machine \ {m} : hub'[a] = hub[a]
    BY <1>4, <1>5, Transit
  <1>7. /\ task' \in [Machine -> [RepoName -> Tasks]]
        /\ \A n \in RepoName : task'[m][n] = ClosedTask
        /\ \A a \in Machine \ {m} : task'[a] = task[a]
    BY ClosedTaskSound, Transit DEF Restart
  <1>8. UNCHANGED <<ops, ids>>
    BY DEF Restart
  <1>9. \A n \in RepoName : /\ TaskSound(task'[m][n], hub'[m].repos[n])
                            /\ ops'[m][n] \subseteq OpsOf(hub'[m].repos[n].id)
    BY <1>2, <1>4, <1>6, <1>7, <1>8, Types, ClosedTaskSound
  <1>10. SlotsForward(hub[m], hub'[m])
    BY <1>4, <1>6 DEF SlotsForward
  <1>11. clone' \in [Machine -> Clones] /\ \A a \in Machine : CloneSound(clone'[a])
    BY NoCloneFacts, Transit DEF Restart
  <1>12. stale' \in SUBSET stale /\ net' \in SUBSET net
    BY DEF Restart
  <1>13. link' \in [Pairs -> Nat]
    BY Transit DEF Restart
  <1>14. scenario' \in Scenario
    BY ScenarioFacts DEF Restart
  <1>15. /\ stale' \in SUBSET StaleTasks /\ (\A z \in stale' : z.heads \subseteq OpsOf(z.id))
         /\ net' \in SUBSET Streams /\ (\A s \in net' : AnnounceSound(s.announce))
         /\ ops' \in [Machine -> [RepoName -> SUBSET Op]] /\ ids' \in SUBSET RepoId
         /\ \A a \in Machine \ {m} : ops'[a] = ops[a]
    BY <1>8, <1>12, Transit
  <1>16. HubSound(hub'[m])
    BY <1>4, <1>6
  <1> QED BY <1>6, <1>7, <1>9, <1>10, <1>11, <1>13, <1>14, <1>15, <1>16, Assemble

-----------------------------------------------------------------------------
LEMMA InitIInv == Init => IInv
  <1> SUFFICES ASSUME Init PROVE IInv
    OBVIOUS
  <1>1. scenario \in Scenario /\ scenario.held \subseteq Machine \X RepoName
    BY SyncAssumption DEF Init, Scenario
  <1>2. ASSUME NEW m \in Machine
        PROVE  /\ hub[m] \in HubState /\ HubSound(hub[m])
               /\ \A n \in RepoName :
                     hub[m].repos[n].id = IF <<m, n>> \in scenario.held THEN n ELSE NoId
    <2>1. PICK id : id = [n \in RepoName |-> IF <<m, n>> \in scenario.held THEN n ELSE NoId]
      OBVIOUS
    <2>2. \A n \in RepoName :
             /\ id[n] = IF <<m, n>> \in scenario.held THEN n ELSE NoId
             /\ id[n] \in RepoId \cup {NoId}
      BY <2>1, SyncAssumption
    <2>3. PICK k : k = [EmptyHub EXCEPT !.repos = [n \in RepoName |-> NewEntry(id[n])]]
      OBVIOUS
    <2>4. k \in HubState /\ HubSound(k) /\ \A n \in RepoName : k.repos[n].id = id[n]
      BY <2>2, <2>3, StartFacts
    <2>5. hub[m] = k
      BY <2>1, <2>3 DEF Init
    <2> QED BY <2>2, <2>4, <2>5
  <1>3. ASSUME NEW m \in Machine, NEW n \in RepoName
        PROVE  /\ ops[m][n] \in SUBSET Op /\ ops[m][n] \subseteq OpsOf(hub[m].repos[n].id)
               /\ task[m][n] = ClosedTask
    <2>1. ops[m][n] = IF <<m, n>> \in scenario.held THEN {<<n, 0>>} ELSE {}
      BY DEF Init
    <2>2. <<n, 0>> \in Op /\ <<n, 0>> \in OpsOf(n)
      BY SyncAssumption DEF Op, OpsOf
    <2>3. task[m][n] = ClosedTask
      BY DEF Init
    <2> QED BY <1>2, <2>1, <2>2, <2>3
  <1>4. \A m \in Machine : MachineSound(m)
    BY <1>2, <1>3, ClosedTaskSound DEF MachineSound
  <1>5. TransitSound
    BY NoCloneFacts DEF Init, TransitSound
  <1>6. hub \in [Machine -> HubState]
    BY <1>2 DEF Init
  <1>7. /\ ops \in [Machine -> [RepoName -> SUBSET Op]]
        /\ task \in [Machine -> [RepoName -> Tasks]]
    BY <1>3, ClosedTaskSound DEF Init
  <1>8. /\ stale \subseteq StaleTasks /\ clone \in [Machine -> Clones]
        /\ link \in [Pairs -> Nat] /\ net \subseteq Streams
    BY NoCloneFacts DEF Init
  <1>9. ids \subseteq RepoId
    BY <1>1, SyncAssumption DEF Init
  <1>10. \A m, p \in Machine, n \in RepoName :
            LET slot == hub[m].repos[n].inbox[p] IN slot.heads = {} => slot.drained
    BY <1>2 DEF HubSound, EntriesSound, EntrySound
  <1>11. TypeOK
    BY <1>1, <1>6, <1>7, <1>8, <1>9, <1>10 DEF TypeOK
  <1> QED BY <1>4, <1>5, <1>11 DEF IInv

LEMMA NextHolds ==
    ASSUME IInv, [Next]_vars
    PROVE  Holds
  <1>1. ASSUME NEW m \in Machine, NEW n \in RepoName, RepoStep(m, n) PROVE Holds
    BY <1>1, OpenHolds, WakeHolds, HandleHolds, SettleHolds DEF RepoStep
  <1>2. ASSUME NEW a \in Machine, NEW b \in Machine, PeerStep(a, b) PROVE Holds
    BY <1>2, AdoptHolds, SendHolds DEF PeerStep
  <1>3. ASSUME NEW s \in net, StreamStep(s) PROVE Holds
    BY <1>3, StreamHolds, RouteHolds DEF StreamStep
  <1>4. CASE UNCHANGED vars
    BY <1>4, Transit, QuietStep DEF vars
  <1>5. ASSUME NEW m \in Machine, NEW n \in RepoName,
               \/ Operate(m, n) \/ ForgetRepo(m, n) \/ WatchEnds(m, n) \/ CheckPanics(m, n)
               \/ StartClone(m, n)
        PROVE  Holds
    BY <1>5, OperateHolds, ForgetRepoHolds, WatchEndsHolds, StartCloneHolds
  <1>6. ASSUME NEW m \in Machine,
               PullClone(m) \/ EndClone(m) \/ CancelClone(m) \/ Restart(m)
        PROVE  Holds
    BY <1>6, PullCloneHolds, EndCloneHolds, CancelCloneHolds, RestartHolds
  <1>7. CASE \E m \in Machine, n \in RepoName, id \in RepoId : AddRepo(m, n, id)
    BY <1>7, AddRepoHolds
  <1>8. CASE \E z \in stale : PublishStale(z) \/ StopStale(z)
    BY <1>8, StaleHolds
  <1>9. CASE \E pair \in Pairs : Connect(pair) \/ Disconnect(pair)
    BY <1>9, ConnectionHolds
  <1>10. CASE \E a, b \in Machine : a # b /\ SendTimesOut(a, b)
    BY <1>10, SendHolds
  <1>11. CASE \E s \in net : DropStream(s)
    BY <1>11, StreamHolds
  <1> QED BY <1>1, <1>2, <1>3, <1>4, <1>5, <1>6, <1>7, <1>8, <1>9, <1>10, <1>11 DEF Next

-----------------------------------------------------------------------------
\* The inductive invariant holds in every reachable state.
THEOREM Invariant == Spec => []IInv
  <1>1. IInv /\ [Next]_vars => IInv'
    BY NextHolds DEF Holds
  <1> QED BY InitIInv, <1>1, PTL DEF Spec

\* The variables keep their types, and a retracted slot is not drained again.
THEOREM TypeCorrect == Spec => []TypeOK
  <1>1. IInv => TypeOK
    BY DEF IInv
  <1> QED BY Invariant, <1>1, PTL

\* Whatever is announced, requeued, demoted when a repo is forgotten, or
\* published by an aborted task, an inbox and the orphans only hold operations
\* of the repo they are filed under.
THEOREM OffersFiled == Spec => []OffersAreOfTheirRepo
  <1>1. IInv => OffersAreOfTheirRepo
    <2> SUFFICES ASSUME IInv, NEW m \in Machine, NEW p \in Machine, NEW n \in RepoName
                 PROVE  /\ hub[m].repos[n].inbox[p].heads \subseteq OpsOf(hub[m].repos[n].id)
                        /\ hub[m].orphans[n][p].heads \subseteq OpsOf(hub[m].orphans[n][p].id)
      BY DEF OffersAreOfTheirRepo
    <2>1. HubSound(hub[m])
      BY Types
    <2> QED BY <2>1 DEF HubSound, EntriesSound, EntrySound, OrphansSound
  <1> QED BY Invariant, <1>1, PTL

\* Neither announcements nor forgotten repos take a peer's orphans past their
\* cap.
THEOREM OrphansCapped == Spec => []OrphansAreBounded
  <1>1. IInv => OrphansAreBounded
    <2> SUFFICES ASSUME IInv, NEW m \in Machine, NEW p \in Machine
                 PROVE  OrphansHeldBy(hub[m], p) <= MAX_ORPHAN_REPOS_PER_PEER
      BY DEF OrphansAreBounded
    <2>1. HubSound(hub[m])
      BY Types
    <2> QED BY <2>1 DEF HubSound, OrphansSound, OrphansHeldBy
  <1> QED BY Invariant, <1>1, PTL

\* While a connection and a registration last, the slot of a peer only moves
\* forward, retried fetches and reordered streams included.
THEOREM InboxForward == Spec => InboxMovesForward
  <1> DEFINE Forward ==
        \A m, p \in Machine, n \in RepoName :
          LET old == hub[m].repos[n].inbox[p]
              new == hub'[m].repos[n].inbox[p]
          IN  /\ hub[m].conn[p] # 0 /\ hub'[m].conn[p] = hub[m].conn[p]
              /\ Registered(hub[m], n) /\ Registered(hub'[m], n)
              => \/ new.seq > old.seq
                 \/ new.seq = old.seq /\ (new.heads = old.heads \/ old.heads = {})
  <1>1. IInv /\ [Next]_vars => Forward
    <2> SUFFICES ASSUME IInv, [Next]_vars PROVE Forward
      OBVIOUS
    <2>1. \A m \in Machine : SlotsForward(hub[m], hub'[m])
      BY NextHolds DEF Holds
    <2> QED BY <2>1 DEF SlotsForward
  <1>2. IInv /\ [Next]_vars => [Forward]_vars
    BY <1>1
  <1> QED BY Invariant, <1>2, PTL DEF Spec, InboxMovesForward

-----------------------------------------------------------------------------
(***************************************************************************)
(* The latest announcement wins.  What matters of two machines and a repo  *)
(* is gathered in a view, a record of values, and the argument is one      *)
(* about views: whatever b holds, or is to get, that a has not published   *)
(* last is overtaken by something with a later sequence.                   *)
(***************************************************************************)

Streaming(a, b, n) == {s \in net : s.from = a /\ s.to = b /\ s.name = n}

\* What there is of repo n between a, which announces it, and b.
View(a, b, n) ==
    [link |-> link[{a, b}],
     sender |-> hub[a].conn[b],
     receiver |-> hub[b].conn[a],
     source |-> hub[a].repos[n].id,
     published |-> hub[a].repos[n].published,
     top |-> hub[a].announceSeq,
     sent |-> ({hub[a].outbox[b][n]} \ {NoAnnounce}) \cup {s.announce : s \in Streaming(a, b, n)},
     arrived |-> {s \in Streaming(a, b, n) : s.read},
     id |-> hub[b].repos[n].id,
     seq |-> hub[b].repos[n].inbox[a].seq,
     heads |-> hub[b].repos[n].inbox[a].heads,
     todo |-> {x \in task[b][n].todo : x.peer = a}]

ViewTypes(v) ==
    /\ v.seq \in Nat /\ v.top \in Nat
    /\ \A x \in v.sent : x.seq \in Nat
    /\ \A x \in v.todo : x.seq \in Nat

\* Something that counts, after sequence s, has reached b or is on its way.
Overtaken(v, s) == v.seq > s \/ \E x \in v.sent : Counts(x, v.id) /\ x.seq > s

\* What b holds, and what it is to get, is what a published or is overtaken.
Settled(v) ==
    /\ v.seq # 0 => v.heads = v.published \/ Overtaken(v, v.seq)
    /\ \A x \in v.sent : Counts(x, v.id) => x.heads = v.published \/ Overtaken(v, x.seq)

\* The ends hold the connection or none, which they have nothing from; and
\* unless a now holds another repo under the name, the view is settled.
CaughtUp(v) ==
    /\ v.sender \in {0, v.link} /\ v.receiver \in {0, v.link}
    /\ v.sender = 0 => v.sent = {}
    /\ v.receiver = 0 => v.arrived = {}
    /\ v.sender = 0 \/ v.receiver = 0 => v.seq = 0 /\ v.heads = {} /\ v.todo = {}
    /\ v.seq <= v.top
    /\ \A x \in v.sent : 0 < x.seq /\ x.seq <= v.top
    /\ \A x \in v.todo : x.seq <= v.seq /\ (x.seq = v.seq => x.heads = v.heads)
    /\ v.source \in {NoId, v.id} \/ v.published = {} => Settled(v)

\* Nothing new comes from a, and what comes is no news to b.
LEMMA StillCaughtUp ==
    ASSUME NEW v, NEW w, ViewTypes(v), ViewTypes(w), CaughtUp(v),
           w.link = v.link, w.sender = v.sender, w.receiver = v.receiver,
           w.id = v.id, w.seq = v.seq, w.heads = v.heads,
           w.receiver = 0 => w.arrived = {},
           \A x \in w.todo : \/ x \in v.todo
                             \/ x.seq = v.seq /\ x.heads = v.heads /\ x.heads # {},
           w.sent = v.sent, w.top >= v.top,
           \/ w.source = v.source /\ w.published = v.published
           \/ w.published = {} /\ v.published = {}
    PROVE  CaughtUp(w)
  <1>1. /\ w.sender \in {0, w.link} /\ w.receiver \in {0, w.link}
        /\ w.sender = 0 => w.sent = {}
    BY DEF CaughtUp
  <1>2. w.sender = 0 \/ w.receiver = 0 => w.seq = 0 /\ w.heads = {} /\ w.todo = {}
    BY DEF CaughtUp
  <1>3. w.seq <= w.top /\ \A x \in w.sent : 0 < x.seq /\ x.seq <= w.top
    BY DEF CaughtUp, ViewTypes
  <1>4. \A x \in w.todo : x.seq <= w.seq /\ (x.seq = w.seq => x.heads = w.heads)
    BY DEF CaughtUp, ViewTypes
  <1>5. Settled(v) => Settled(w)
    BY DEF Settled, Overtaken, CaughtUp
  <1>6. w.source \in {NoId, w.id} \/ w.published = {} => Settled(w)
    BY <1>5 DEF CaughtUp
  <1> QED BY <1>1, <1>2, <1>3, <1>4, <1>6 DEF CaughtUp

\* a announces x, which is its last word.
LEMMA CatchesUp ==
    ASSUME NEW v, NEW w, ViewTypes(v), ViewTypes(w), CaughtUp(v),
           w.link = v.link, w.sender = v.sender, w.receiver = v.receiver,
           w.id = v.id, w.seq = v.seq, w.heads = v.heads,
           w.receiver = 0 => w.arrived = {},
           \A y \in w.todo : \/ y \in v.todo
                             \/ y.seq = v.seq /\ y.heads = v.heads /\ y.heads # {},
           NEW x, x.seq = v.top + 1, w.top = x.seq, w.published = x.heads,
           w.source = x.id \/ x.heads = {}, x.id # NoId,
           IF v.sender = 0 THEN w.sent = v.sent
                           ELSE x \in w.sent /\ w.sent \subseteq v.sent \cup {x}
    PROVE  CaughtUp(w)
  <1>1. /\ w.sender \in {0, w.link} /\ w.receiver \in {0, w.link}
        /\ w.sender = 0 => w.sent = {}
    BY DEF CaughtUp
  <1>2. w.sender = 0 \/ w.receiver = 0 => w.seq = 0 /\ w.heads = {} /\ w.todo = {}
    BY DEF CaughtUp
  <1>3. w.seq < w.top /\ \A y \in w.sent : y = x \/ (y \in v.sent /\ 0 < y.seq /\ y.seq < w.top)
    BY DEF CaughtUp, ViewTypes
  <1>4. w.seq <= w.top /\ \A y \in w.sent : 0 < y.seq /\ y.seq <= w.top
    BY <1>3 DEF ViewTypes
  <1>5. \A y \in w.todo : y.seq <= w.seq /\ (y.seq = w.seq => y.heads = w.heads)
    BY DEF CaughtUp, ViewTypes
  <1>6. w.source \in {NoId, w.id} \/ w.published = {} => Settled(w)
    <2>1. CASE v.sender = 0
      BY <1>1, <1>2, <2>1 DEF Settled
    <2>2. CASE v.sender # 0 /\ ~Counts(x, w.id)
      BY <2>2 DEF Counts
    <2>3. CASE v.sender # 0 /\ Counts(x, w.id)
      <3>1. \A s : s \in Nat /\ s < w.top => Overtaken(w, s)
        BY <2>3 DEF Overtaken
      <3>2. w.seq \in Nat /\ \A y \in w.sent : y.seq \in Nat
        BY DEF ViewTypes
      <3> QED BY <1>3, <3>1, <3>2 DEF Settled
    <2> QED BY <2>1, <2>2, <2>3
  <1> QED BY <1>1, <1>2, <1>4, <1>5, <1>6 DEF CaughtUp

\* b routes x.
LEMMA RouteCaughtUp ==
    ASSUME NEW v, NEW w, ViewTypes(v), ViewTypes(w), CaughtUp(v),
           w.link = v.link, w.sender = v.sender, w.receiver = v.receiver,
           w.source = v.source, w.published = v.published, w.top = v.top,
           w.id = v.id, w.arrived \subseteq v.arrived, w.todo = v.todo,
           v.arrived # {}, NEW x \in v.sent,
           w.sent \subseteq v.sent, v.sent \subseteq w.sent \cup {x},
           IF Counts(x, v.id) /\ v.seq < x.seq
           THEN w.seq = x.seq /\ w.heads = x.heads
           ELSE w.seq = v.seq /\ w.heads = v.heads
    PROVE  CaughtUp(w)
  <1>1. /\ v.sender # 0 /\ v.receiver # 0 /\ w.sender \in {0, w.link} /\ w.receiver \in {0, w.link}
    BY DEF CaughtUp
  <1>2. /\ v.seq \in Nat /\ w.seq \in Nat /\ x.seq \in Nat /\ \A y \in v.sent : y.seq \in Nat
    BY DEF ViewTypes
  <1>3. w.seq <= w.top /\ \A y \in w.sent : 0 < y.seq /\ y.seq <= w.top
    BY DEF CaughtUp
  <1>4. \A y \in w.todo : y.seq <= w.seq /\ (y.seq = w.seq => y.heads = w.heads)
    BY <1>2 DEF CaughtUp, ViewTypes
  <1>5. w.seq >= v.seq /\ (Counts(x, v.id) => w.seq >= x.seq)
    BY <1>2
  <1>6. ASSUME NEW s \in Nat, Overtaken(v, s) PROVE Overtaken(w, s)
    <2>1. CASE v.seq > s
      BY <1>2, <1>5, <2>1 DEF Overtaken
    <2>2. CASE \E y \in v.sent : Counts(y, v.id) /\ y.seq > s
      BY <1>2, <1>5, <2>2 DEF Overtaken
    <2> QED BY <1>6, <2>1, <2>2 DEF Overtaken
  <1>7. Settled(v) => Settled(w)
    BY <1>2, <1>6 DEF Settled, CaughtUp
  <1>8. w.source \in {NoId, w.id} \/ w.published = {} => Settled(w)
    BY <1>7 DEF CaughtUp
  <1> QED BY <1>1, <1>3, <1>4, <1>8 DEF CaughtUp

\* a holds the connection, and tells b all it has published.
LEMMA SenderAdopts ==
    ASSUME NEW v, NEW w, ViewTypes(v), ViewTypes(w), CaughtUp(v), v.sender = 0,
           w.link = v.link, w.sender = v.link, w.receiver = v.receiver,
           w.source = v.source, w.published = v.published, w.top = v.top,
           w.id = v.id, w.seq = v.seq, w.heads = v.heads,
           w.arrived = v.arrived, w.todo = v.todo,
           NEW x, w.sent = IF v.published = {} THEN {} ELSE {x},
           v.published # {} => /\ x.heads = v.published /\ 0 < x.seq /\ x.seq <= v.top
                               /\ v.link # 0
    PROVE  CaughtUp(w)
  <1>1. w.seq = 0 /\ w.heads = {} /\ w.todo = {} /\ w.seq <= w.top
    BY DEF CaughtUp
  <1>2. \A y \in w.sent : y = x /\ v.published # {}
    OBVIOUS
  <1>3. Settled(w)
    BY <1>1, <1>2 DEF Settled
  <1> QED BY <1>1, <1>2, <1>3 DEF CaughtUp

\* b holds the connection.
LEMMA ReceiverAdopts ==
    ASSUME NEW v, NEW w, ViewTypes(v), ViewTypes(w), CaughtUp(v), v.receiver = 0,
           w.link = v.link, w.sender = v.sender, w.receiver = v.link,
           w.source = v.source, w.published = v.published, w.top = v.top,
           w.id = v.id, w.seq = 0, w.heads = {}, w.arrived = v.arrived, w.todo = v.todo,
           w.sent = v.sent
    PROVE  CaughtUp(w)
  <1>1. v.seq = 0 /\ v.todo = {} /\ v.arrived = {}
    BY DEF CaughtUp
  <1>2. Settled(v) => Settled(w)
    BY <1>1 DEF Settled, Overtaken
  <1> QED BY <1>1, <1>2 DEF CaughtUp

\* There is no connection yet.
LEMMA NothingSent ==
    ASSUME NEW w, ViewTypes(w), w.sender = 0, w.receiver = 0, w.sent = {}, w.arrived = {},
           w.seq = 0, w.heads = {}, w.todo = {}
    PROVE  CaughtUp(w)
  BY DEF CaughtUp, Settled, ViewTypes

-----------------------------------------------------------------------------
\* The scenario: one connection is made at most, and it loses nothing.
OneConnection == scenario.conns <= 1 /\ scenario.losses = 0

\* While the connection is to be made there is none.  With it, what each hub
\* counts, and that a clone is of a repo that moves.
Once ==
    /\ OneConnection
    /\ scenario.conns = 1 => \A pair \in Pairs : link[pair] = 0
    /\ \A m \in Machine : /\ Numbered(hub[m])
                          /\ clone[m].id # NoId => <<m, clone[m].name>> \in scenario.moved

\* The connection of a and b has not ended.
Usable(a, b) == scenario.conns = 1 \/ link[{a, b}] # 0

\* b's registration is the original one.
Stays(b, n) == <<b, n>> \notin scenario.moved /\ Registered(hub[b], n)

\* The inductive invariant, on top of IInv.
LatestInv ==
    /\ Once
    /\ \A a, b \in Machine, n \in RepoName :
          a # b /\ Usable(a, b) /\ Stays(b, n) => CaughtUp(View(a, b, n))

\* v is the view, field by field.
Shows(v, a, b, n) ==
    /\ v.link = link[{a, b}]
    /\ v.sender = hub[a].conn[b] /\ v.receiver = hub[b].conn[a]
    /\ v.source = hub[a].repos[n].id /\ v.published = hub[a].repos[n].published
    /\ v.top = hub[a].announceSeq
    /\ v.sent = ({hub[a].outbox[b][n]} \ {NoAnnounce})
                   \cup {s.announce : s \in Streaming(a, b, n)}
    /\ v.arrived = {s \in Streaming(a, b, n) : s.read}
    /\ v.id = hub[b].repos[n].id
    /\ v.seq = hub[b].repos[n].inbox[a].seq /\ v.heads = hub[b].repos[n].inbox[a].heads
    /\ v.todo = {x \in task[b][n].todo : x.peer = a}

LEMMA ViewShows ==
    ASSUME NEW a, NEW b, NEW n
    PROVE  /\ \E v : v = View(a, b, n) /\ Shows(v, a, b, n)
           /\ \E w : w = View(a, b, n)' /\ Shows(w, a, b, n)'
  <1>1. PICK v : v = View(a, b, n)
    OBVIOUS
  <1>2. Shows(v, a, b, n)
    BY <1>1 DEF View, Shows
  <1>3. PICK w : w = View(a, b, n)'
    OBVIOUS
  <1>4. Shows(w, a, b, n)'
    BY <1>3 DEF View, Shows
  <1> QED BY <1>1, <1>2, <1>3, <1>4

\* The types of a view's parts, of whatever hubs, task and streams.
LEMMA SendingTypes ==
    ASSUME NEW h \in HubState, NEW b \in Machine, NEW n \in RepoName
    PROVE  /\ h.announceSeq \in Nat
           /\ h.outbox[b][n] \in Announce /\ h.outbox[b][n].seq \in Nat
  <1>1. h.announceSeq \in Nat /\ h.outbox \in [Machine -> [RepoName -> Announce]]
    BY HubTypes
  <1>2. h.outbox[b][n] \in Announce
    BY <1>1
  <1> QED BY <1>1, <1>2, AnnounceTypes

LEMMA InboxTypes ==
    ASSUME NEW h \in HubState, NEW a \in Machine, NEW n \in RepoName
    PROVE  h.repos[n].inbox[a].seq \in Nat
  <1>1. h.repos[n] \in RepoEntry
    BY HubTypes
  <1>2. h.repos[n].inbox[a] \in Slot
    BY <1>1, EntryTypes
  <1> QED BY <1>2, SlotTypes

LEMMA StreamTypes ==
    ASSUME NEW N \in SUBSET Streams
    PROVE  \A s \in N : s.announce.seq \in Nat
  <1>1. \A s \in N : s.announce \in Announce
    BY DEF Streams
  <1> QED BY <1>1, AnnounceTypes

LEMMA TodoTypes ==
    ASSUME NEW t \in Tasks
    PROVE  \A x \in t.todo : x.seq \in Nat
  BY TaskTypes DEF PeerAnnounces

LEMMA ViewTyped ==
    ASSUME NEW a \in Machine, NEW b \in Machine, NEW n \in RepoName
    PROVE  /\ IInv => ViewTypes(View(a, b, n))
           /\ IInv' => ViewTypes(View(a, b, n)')
  <1>1. ASSUME IInv PROVE ViewTypes(View(a, b, n))
    <2>1. /\ hub[a] \in HubState /\ hub[b] \in HubState /\ task[b][n] \in Tasks
          /\ net \in SUBSET Streams
      BY <1>1 DEF IInv, TypeOK
    <2>2. PICK v : v = View(a, b, n) /\ Shows(v, a, b, n)
      BY ViewShows
    <2>3. /\ hub[a].announceSeq \in Nat /\ hub[b].repos[n].inbox[a].seq \in Nat
          /\ hub[a].outbox[b][n].seq \in Nat
          /\ \A s \in net : s.announce.seq \in Nat
          /\ \A x \in task[b][n].todo : x.seq \in Nat
      <3>1. hub[a].announceSeq \in Nat /\ hub[a].outbox[b][n].seq \in Nat
        BY <2>1, SendingTypes
      <3>2. hub[b].repos[n].inbox[a].seq \in Nat
        BY <2>1, InboxTypes
      <3>3. \A s \in net : s.announce.seq \in Nat
        BY <2>1, StreamTypes
      <3>4. \A x \in task[b][n].todo : x.seq \in Nat
        BY <2>1, TodoTypes
      <3> QED BY <3>1, <3>2, <3>3, <3>4
    <2>4. ViewTypes(v)
      BY <2>2, <2>3 DEF ViewTypes, Streaming, Shows
    <2> QED BY <2>2, <2>4
  <1>2. ASSUME IInv' PROVE ViewTypes(View(a, b, n)')
    <2>1. /\ hub'[a] \in HubState /\ hub'[b] \in HubState /\ task'[b][n] \in Tasks
          /\ net' \in SUBSET Streams
      BY <1>2 DEF IInv, TypeOK
    <2>2. PICK v : v = View(a, b, n)' /\ Shows(v, a, b, n)'
      BY ViewShows
    <2>3. /\ hub'[a].announceSeq \in Nat /\ hub'[b].repos[n].inbox[a].seq \in Nat
          /\ hub'[a].outbox[b][n].seq \in Nat
          /\ \A s \in net' : s.announce.seq \in Nat
          /\ \A x \in task'[b][n].todo : x.seq \in Nat
      <3>1. hub'[a].announceSeq \in Nat /\ hub'[a].outbox[b][n].seq \in Nat
        BY <2>1, SendingTypes
      <3>2. hub'[b].repos[n].inbox[a].seq \in Nat
        BY <2>1, InboxTypes
      <3>3. \A s \in net' : s.announce.seq \in Nat
        BY <2>1, StreamTypes
      <3>4. \A x \in task'[b][n].todo : x.seq \in Nat
        BY <2>1, TodoTypes
      <3> QED BY <3>1, <3>2, <3>3, <3>4
    <2>4. ViewTypes(v)
      BY <2>2, <2>3 DEF ViewTypes, Streaming, Shows
    <2> QED BY <2>2, <2>4
  <1> QED BY <1>1, <1>2

\* What b has of a's announcements of n does not change, but that its task
\* may drain them.
StillHeard(a, b, n) ==
    /\ HearsNothing(hub[b], hub'[b], a, n)
    /\ \A x \in task'[b][n].todo :
          x.peer = a => \/ x \in task[b][n].todo
                        \/ /\ x.seq = hub[b].repos[n].inbox[a].seq
                           /\ x.heads = hub[b].repos[n].inbox[a].heads /\ x.heads # {}

\* a tells b something, or nothing; b holds what it held.
LEMMA TellingKeepsLatest ==
    ASSUME IInv, IInv', NEW a \in Machine, NEW b \in Machine, NEW n \in RepoName,
           CaughtUp(View(a, b, n)), StillHeard(a, b, n),
           NothingTold(hub[a], hub'[a], b, n)
              \/ \E x \in Announce : Told(hub[a], hub'[a], b, n, x),
           link'[{a, b}] = link[{a, b}], Streaming(a, b, n)' = Streaming(a, b, n)
    PROVE  CaughtUp(View(a, b, n)')
  <1>1. PICK v : v = View(a, b, n) /\ Shows(v, a, b, n)
    BY ViewShows
  <1>2. PICK w : w = View(a, b, n)' /\ Shows(w, a, b, n)'
    BY ViewShows
  <1>3. ViewTypes(v) /\ ViewTypes(w) /\ CaughtUp(v)
    BY <1>1, <1>2, ViewTyped
  <1>4. /\ w.link = v.link /\ w.receiver = v.receiver
        /\ w.id = v.id /\ w.seq = v.seq /\ w.heads = v.heads
    BY <1>1, <1>2 DEF Shows, StillHeard, HearsNothing
  <1>5. w.arrived = v.arrived
    BY <1>1, <1>2 DEF Shows
  <1>6. \A x \in w.todo : \/ x \in v.todo
                          \/ x.seq = v.seq /\ x.heads = v.heads /\ x.heads # {}
    BY <1>1, <1>2 DEF Shows, StillHeard
  <1>7. w.receiver = 0 => w.arrived = {}
    BY <1>3, <1>4, <1>5 DEF CaughtUp
  <1>8. CASE NothingTold(hub[a], hub'[a], b, n)
    <2>1. /\ w.sender = v.sender /\ w.sent = v.sent /\ w.top >= v.top
          /\ \/ w.source = v.source /\ w.published = v.published
             \/ w.published = {} /\ v.published = {}
      BY <1>1, <1>2, <1>8 DEF Shows, NothingTold
    <2>2. CaughtUp(w)
      BY <1>3, <1>4, <1>6, <1>7, <2>1, StillCaughtUp
    <2> QED BY <1>2, <2>2
  <1>9. CASE \E x \in Announce : Told(hub[a], hub'[a], b, n, x)
    <2>1. PICK x \in Announce : Told(hub[a], hub'[a], b, n, x)
      BY <1>9
    <2>2. /\ w.sender = v.sender /\ w.top = x.seq /\ x.seq = v.top + 1
          /\ w.published = x.heads /\ x.id # NoId /\ (w.source = x.id \/ x.heads = {})
      BY <1>1, <1>2, <2>1 DEF Shows, Told
    <2>3. x # NoAnnounce
      BY <2>2 DEF NoAnnounce
    <2>4. IF v.sender = 0 THEN w.sent = v.sent ELSE x \in w.sent /\ w.sent \subseteq v.sent \cup {x}
      BY <1>1, <1>2, <2>1, <2>3 DEF Shows, Told
    <2>5. CaughtUp(w)
      BY <1>3, <1>4, <1>6, <1>7, <2>2, <2>4, CatchesUp
    <2> QED BY <1>2, <2>5
  <1> QED BY <1>8, <1>9

-----------------------------------------------------------------------------
\* Of the scenario, only what does not matter here is used up.
ScenarioKept ==
    /\ scenario'.moved = scenario.moved /\ scenario'.conns = scenario.conns
    /\ scenario'.losses = scenario.losses

LEMMA KeptFacts ==
    ASSUME IInv,
           \/ UNCHANGED scenario
           \/ scenario' = [scenario EXCEPT !.ops = @ - 1]
           \/ scenario' = [scenario EXCEPT !.regs = @ - 1]
           \/ scenario' = [scenario EXCEPT !.restarts = @ - 1]
           \/ Faults
    PROVE  ScenarioKept
  <1> DEFINE H == SUBSET (Machine \X RepoName)
  <1>1. scenario \in [held : H, moved : H, ops : Nat, regs : Nat, conns : Nat,
                      restarts : Nat, faults : Nat, losses : Nat]
    BY Transit DEF Scenario
  <1> HIDE DEF H
  <1>2. CASE UNCHANGED scenario
    BY <1>2 DEF ScenarioKept
  <1>3. CASE scenario' = [scenario EXCEPT !.ops = @ - 1]
    BY <1>1, <1>3 DEF ScenarioKept
  <1>4. CASE scenario' = [scenario EXCEPT !.regs = @ - 1]
    BY <1>1, <1>4 DEF ScenarioKept
  <1>5. CASE scenario' = [scenario EXCEPT !.restarts = @ - 1]
    BY <1>1, <1>5 DEF ScenarioKept
  <1>6. CASE Faults
    BY <1>1, <1>6 DEF ScenarioKept, Faults
  <1> QED BY <1>2, <1>3, <1>4, <1>5, <1>6

\* What machine m does, while streams and connections are left alone.
LEMMA MachineKeepsLatest ==
    ASSUME IInv, IInv', LatestInv, NEW m \in Machine,
           \A a \in Machine \ {m} : hub'[a] = hub[a] /\ task'[a] = task[a],
           Tells(hub[m], hub'[m]),
           \A p \in Machine, n \in RepoName :
              p # m /\ Usable(p, m) /\ <<m, n>> \notin scenario.moved /\ Registered(hub'[m], n)
              => Registered(hub[m], n) /\ (Registered(hub[m], n) => StillHeard(p, m, n)),
           \A a \in Machine : clone'[a].id # NoId => <<a, clone'[a].name>> \in scenario.moved,
           UNCHANGED <<link, net>>, ScenarioKept
    PROVE  LatestInv'
  <1>1. Once'
    <2>1. \A a \in Machine : Numbered(hub'[a])
      BY DEF LatestInv, Once, Tells
    <2>2. OneConnection' /\ (scenario'.conns = 1 => \A pair \in Pairs : link'[pair] = 0)
      BY DEF LatestInv, Once, OneConnection, ScenarioKept
    <2> QED BY <2>1, <2>2 DEF Once, ScenarioKept
  <1>2. ASSUME NEW a \in Machine, NEW b \in Machine, NEW n \in RepoName,
               a # b, Usable(a, b)', Stays(b, n)'
        PROVE  CaughtUp(View(a, b, n)')
    <2>1. Usable(a, b)
      BY <1>2 DEF Usable, ScenarioKept
    <2>2. Registered(hub[b], n) /\ <<b, n>> \notin scenario.moved /\ StillHeard(a, b, n)
      <3>1. CASE b = m
        BY <1>2, <2>1, <3>1 DEF Stays, ScenarioKept
      <3>2. CASE b # m
        BY <1>2, <3>2 DEF Stays, ScenarioKept, StillHeard, HearsNothing
      <3> QED BY <3>1, <3>2
    <2>3. CaughtUp(View(a, b, n))
      BY <1>2, <2>1, <2>2 DEF LatestInv, Stays
    <2>4. NothingTold(hub[a], hub'[a], b, n) \/ \E x \in Announce : Told(hub[a], hub'[a], b, n, x)
      <3>1. CASE a = m
        BY <3>1 DEF Tells
      <3>2. CASE a # m
        <4>1. hub'[a] = hub[a] /\ hub[a].announceSeq \in Nat
          BY <3>2, Types, HubTypes
        <4> QED BY <4>1 DEF NothingTold
      <3> QED BY <3>1, <3>2
    <2>5. Streaming(a, b, n)' = Streaming(a, b, n)
      BY DEF Streaming
    <2> QED BY <2>2, <2>3, <2>4, <2>5, TellingKeepsLatest
  <1> QED BY <1>1, <1>2 DEF LatestInv

\* A clone under way is of a repo that moves.
ClonesMove(c) == \A a \in Machine : c[a].id # NoId => <<a, c[a].name>> \in scenario.moved

LEMMA ClonesFacts ==
    ASSUME IInv, LatestInv
    PROVE  /\ ClonesMove(clone)
           /\ \A m \in Machine : \A d : (d.id # NoId => <<m, d.name>> \in scenario.moved)
                 => ClonesMove([clone EXCEPT ![m] = d])
  <1>1. ClonesMove(clone)
    BY DEF LatestInv, Once, ClonesMove
  <1>2. clone \in [Machine -> Clones]
    BY Transit
  <1>3. ASSUME NEW m \in Machine, NEW d, d.id # NoId => <<m, d.name>> \in scenario.moved
        PROVE  ClonesMove([clone EXCEPT ![m] = d])
    BY <1>1, <1>2, <1>3 DEF ClonesMove
  <1> QED BY <1>1, <1>3

\* A step of the hub that leaves registrations, and of the task of n.
LEMMA TaskKeepsLatest ==
    ASSUME IInv, IInv', LatestInv, NEW m \in Machine, NEW n \in RepoName, NEW k,
           hub' = [hub EXCEPT ![m] = k], Tells(hub[m], k),
           \A j \in RepoName : k.repos[j].id = hub[m].repos[j].id,
           \A p \in Machine, j \in RepoName :
              p # m /\ Usable(p, m) /\ Stays(m, j) => HearsNothing(hub[m], k, p, j),
           NEW t \in Tasks, TaskBecomes(m, n, t),
           \A x \in t.todo :
              \/ x \in task[m][n].todo
              \/ /\ x.seq = hub[m].repos[n].inbox[x.peer].seq
                 /\ x.heads = hub[m].repos[n].inbox[x.peer].heads /\ x.heads # {},
           UNCHANGED <<clone, link, net>>, ScenarioKept
    PROVE  LatestInv'
  <1>1. hub'[m] = k /\ \A a \in Machine \ {m} : hub'[a] = hub[a]
    BY Transit
  <1>2. /\ task'[m][n] = t
        /\ \A a \in Machine \ {m} : task'[a] = task[a]
        /\ \A j \in RepoName \ {n} : task'[m][j] = task[m][j]
    <2>1. task \in [Machine -> [RepoName -> Tasks]] /\ task' = [task EXCEPT ![m][n] = t]
      BY Transit DEF TaskBecomes
    <2> QED BY <2>1
  <1>3. ASSUME NEW p \in Machine, NEW j \in RepoName, p # m, Usable(p, m), Stays(m, j)
        PROVE  StillHeard(p, m, j)
    <2>1. HearsNothing(hub[m], hub'[m], p, j)
      BY <1>1, <1>3
    <2>2. CASE j = n
      BY <1>2, <2>1, <2>2 DEF StillHeard
    <2>3. CASE j # n
      BY <1>2, <2>1, <2>3 DEF StillHeard
    <2> QED BY <2>2, <2>3
  <1>4. ASSUME NEW p \in Machine, NEW j \in RepoName, p # m, Usable(p, m),
               <<m, j>> \notin scenario.moved, Registered(hub'[m], j)
        PROVE  Registered(hub[m], j) /\ StillHeard(p, m, j)
    BY <1>1, <1>3, <1>4 DEF Stays, Registered
  <1>5. \A a \in Machine : clone'[a].id # NoId => <<a, clone'[a].name>> \in scenario.moved
    BY DEF LatestInv, Once
  <1> QED BY <1>1, <1>2, <1>4, <1>5, MachineKeepsLatest

\* A step that leaves the hubs and the tasks alone.
LEMMA IdleKeepsLatest ==
    ASSUME IInv, IInv', LatestInv, NEW m \in Machine, UNCHANGED <<hub, task, link, net>>,
           ClonesMove(clone'), ScenarioKept
    PROVE  LatestInv'
  <1>1. hub[m] \in HubState /\ Numbered(hub[m])
    BY Types DEF LatestInv, Once
  <1>2. Tells(hub[m], hub[m])
    BY <1>1, SameTells DEF Same, TellsNothing
  <1>3. \A p \in Machine, n \in RepoName : StillHeard(p, m, n)
    BY DEF StillHeard, HearsNothing
  <1>4. \A a \in Machine : clone'[a].id # NoId => <<a, clone'[a].name>> \in scenario.moved
    BY DEF ClonesMove
  <1> QED BY <1>2, <1>3, <1>4, MachineKeepsLatest
-----------------------------------------------------------------------------
LEMMA OperateKeepsLatest ==
    ASSUME IInv, IInv', LatestInv, NEW m \in Machine, NEW n \in RepoName, Operate(m, n)
    PROVE  LatestInv'
  <1>1. ScenarioKept
    BY KeptFacts DEF Operate
  <1>2. UNCHANGED <<hub, task, link, net, clone>>
    BY DEF Operate
  <1> QED BY <1>1, <1>2, ClonesFacts, IdleKeepsLatest

LEMMA StartCloneKeepsLatest ==
    ASSUME IInv, IInv', LatestInv, NEW m \in Machine, NEW n \in RepoName, StartClone(m, n)
    PROVE  LatestInv'
  <1>1. PICK id, sources :
           clone' = [clone EXCEPT ![m] =
                        [name |-> n, id |-> id, sources |-> sources, pulled |-> {}]]
    BY DEF StartClone
  <1> DEFINE c == [name |-> n, id |-> id, sources |-> sources, pulled |-> {}]
  <1>2. c.name = n
    OBVIOUS
  <1>3. clone' = [clone EXCEPT ![m] = c]
    BY <1>1
  <1> HIDE DEF c
  <1>4. <<m, n>> \in scenario.moved /\ UNCHANGED <<hub, task, link, net>>
    BY DEF StartClone, Registers
  <1>5. ScenarioKept
    BY KeptFacts DEF StartClone, Registers
  <1>6. ClonesMove([clone EXCEPT ![m] = c])
    BY <1>2, <1>4, ClonesFacts
  <1>7. ClonesMove(clone')
    BY <1>3, <1>6
  <1> QED BY <1>4, <1>5, <1>7, IdleKeepsLatest

LEMMA PullCloneKeepsLatest ==
    ASSUME IInv, IInv', LatestInv, NEW m \in Machine, PullClone(m)
    PROVE  LatestInv'
  <1>1. PICK c \in Clones : c = clone[m]
    BY Types
  <1>2. c.id # NoId => <<m, c.name>> \in scenario.moved
    BY <1>1 DEF LatestInv, Once
  <1>3. PICK d : clone' = [clone EXCEPT ![m] = d] /\ d.id = c.id /\ d.name = c.name
    <2> DEFINE x == First(c.sources)
               pulled == [c EXCEPT !.pulled = x.heads, !.sources = {}]
               next == [c EXCEPT !.sources = c.sources \ {x}]
    <2>1. clone' = [clone EXCEPT ![m] = pulled] \/ clone' = [clone EXCEPT ![m] = next]
      BY <1>1, Transit DEF PullClone
    <2>2. pulled.id = c.id /\ pulled.name = c.name
      BY DEF Clones
    <2>3. next.id = c.id /\ next.name = c.name
      BY DEF Clones
    <2> HIDE DEF pulled, next
    <2> QED BY <2>1, <2>2, <2>3
  <1>4. ClonesMove([clone EXCEPT ![m] = d])
    BY <1>2, <1>3, ClonesFacts
  <1>5. ScenarioKept
    BY KeptFacts DEF PullClone
  <1>6. UNCHANGED <<hub, task, link, net>>
    BY DEF PullClone
  <1> QED BY <1>3, <1>4, <1>5, <1>6, IdleKeepsLatest

LEMMA NoCloneMoves ==
    ASSUME IInv, LatestInv, NEW m \in Machine
    PROVE  ClonesMove([clone EXCEPT ![m] = NoClone(SomeName)])
  <1>1. PICK d : d = NoClone(SomeName)
    OBVIOUS
  <1>2. d.id = NoId
    BY <1>1 DEF NoClone
  <1> QED BY <1>1, <1>2, ClonesFacts

LEMMA CancelCloneKeepsLatest ==
    ASSUME IInv, IInv', LatestInv, NEW m \in Machine, CancelClone(m)
    PROVE  LatestInv'
  <1>1. clone' = [clone EXCEPT ![m] = NoClone(SomeName)] /\ UNCHANGED <<hub, task, link, net>>
    BY DEF CancelClone
  <1>2. ScenarioKept
    BY KeptFacts DEF CancelClone
  <1> QED BY <1>1, <1>2, NoCloneMoves, IdleKeepsLatest

\* m's registration of n, which moves, changes.
LEMMA RefileKeepsLatest ==
    ASSUME IInv, IInv', LatestInv, NEW m \in Machine, NEW n \in RepoName,
           <<m, n>> \in scenario.moved, NEW k, hub' = [hub EXCEPT ![m] = k],
           Tells(hub[m], k),
           \A p \in Machine, j \in RepoName \ {n} : HearsNothing(hub[m], k, p, j),
           \A a \in Machine \ {m} : task'[a] = task[a],
           \A j \in RepoName \ {n} : task'[m][j] = task[m][j],
           ClonesMove(clone'), UNCHANGED <<link, net>>, ScenarioKept
    PROVE  LatestInv'
  <1>1. hub'[m] = k /\ \A a \in Machine \ {m} : hub'[a] = hub[a]
    BY Transit
  <1>2. ASSUME NEW p \in Machine, NEW j \in RepoName, p # m, Usable(p, m),
               <<m, j>> \notin scenario.moved, Registered(hub'[m], j)
        PROVE  Registered(hub[m], j) /\ StillHeard(p, m, j)
    <2>1. j # n /\ HearsNothing(hub[m], hub'[m], p, j) /\ task'[m][j] = task[m][j]
      BY <1>1, <1>2
    <2>2. StillHeard(p, m, j)
      BY <2>1 DEF StillHeard
    <2> QED BY <1>2, <2>1, <2>2 DEF HearsNothing, Registered
  <1>3. \A a \in Machine : clone'[a].id # NoId => <<a, clone'[a].name>> \in scenario.moved
    BY DEF ClonesMove
  <1> QED BY <1>1, <1>2, <1>3, MachineKeepsLatest

LEMMA HubFacts ==
    ASSUME IInv, LatestInv, NEW m \in Machine
    PROVE  hub[m] \in HubState /\ HubSound(hub[m]) /\ Numbered(hub[m])
  BY Types DEF LatestInv, Once

LEMMA AddRepoKeepsLatest ==
    ASSUME IInv, IInv', LatestInv, NEW m \in Machine, NEW n \in RepoName, NEW id \in RepoId,
           AddRepo(m, n, id)
    PROVE  LatestInv'
  <1>1. PICK k : k = RegisterRepo(hub[m], n, id)
    OBVIOUS
  <1>2. ~Registered(hub[m], n) /\ <<m, n>> \in scenario.moved
        /\ UNCHANGED <<task, clone, link, net>>
    BY DEF AddRepo, Registers
  <1>3. Tells(hub[m], k) /\ \A p \in Machine, j \in RepoName \ {n} : HearsNothing(hub[m], k, p, j)
    BY <1>1, <1>2, HubFacts, RegisterTells
  <1>4. hub' = [hub EXCEPT ![m] = k]
    BY <1>1, Transit DEF AddRepo
  <1>5. ScenarioKept
    BY KeptFacts DEF AddRepo, Registers
  <1>6. /\ \A a \in Machine \ {m} : task'[a] = task[a]
        /\ \A j \in RepoName \ {n} : task'[m][j] = task[m][j]
    BY <1>2
  <1>7. ClonesMove(clone')
    BY <1>2, ClonesFacts
  <1> QED BY <1>2, <1>3, <1>4, <1>5, <1>6, <1>7, RefileKeepsLatest

LEMMA ForgetRepoKeepsLatest ==
    ASSUME IInv, IInv', LatestInv, NEW m \in Machine, NEW n \in RepoName, ForgetRepo(m, n)
    PROVE  LatestInv'
  <1>1. PICK k : k = UnregisterRepo(hub[m], n)
    OBVIOUS
  <1>2. Registered(hub[m], n) /\ <<m, n>> \in scenario.moved /\ UNCHANGED <<clone, link, net>>
    BY DEF ForgetRepo, Registers
  <1>3. Tells(hub[m], k) /\ \A p \in Machine, j \in RepoName \ {n} : HearsNothing(hub[m], k, p, j)
    BY <1>1, <1>2, HubFacts, UnregisterTells
  <1>4. hub' = [hub EXCEPT ![m] = k]
    BY <1>1, Transit DEF ForgetRepo
  <1>5. ScenarioKept
    BY KeptFacts DEF ForgetRepo, Registers
  <1>6. /\ \A a \in Machine \ {m} : task'[a] = task[a]
        /\ \A j \in RepoName \ {n} : task'[m][j] = task[m][j]
    BY Transit DEF ForgetRepo
  <1>7. ClonesMove(clone')
    BY <1>2, ClonesFacts
  <1> QED BY <1>2, <1>3, <1>4, <1>5, <1>6, <1>7, RefileKeepsLatest

LEMMA EndCloneKeepsLatest ==
    ASSUME IInv, IInv', LatestInv, NEW m \in Machine, EndClone(m)
    PROVE  LatestInv'
  <1>1. PICK c \in Clones : c = clone[m]
    BY Types
  <1>2. c.id # NoId /\ UNCHANGED <<task, link, net, scenario>>
    BY <1>1 DEF EndClone
  <1>3. PICK n \in RepoName : n = c.name
    BY CloneTypes
  <1>4. <<m, n>> \in scenario.moved
    BY <1>1, <1>2, <1>3 DEF LatestInv, Once
  <1>5. ClonesMove(clone')
    BY NoCloneMoves DEF EndClone
  <1>6. ScenarioKept
    BY <1>2 DEF ScenarioKept
  <1>7. CASE UNCHANGED hub
    BY <1>2, <1>5, <1>6, <1>7, IdleKeepsLatest
  <1>8. CASE CanRegister(m, n, c.id) /\ hub' = [hub EXCEPT ![m] = RegisterRepo(@, n, c.id)]
    <2>1. PICK k : k = RegisterRepo(hub[m], n, c.id)
      OBVIOUS
    <2>2. ~Registered(hub[m], n)
      BY <1>8 DEF CanRegister
    <2>3. Tells(hub[m], k)
          /\ \A p \in Machine, j \in RepoName \ {n} : HearsNothing(hub[m], k, p, j)
      BY <2>1, <2>2, HubFacts, RegisterTells
    <2>4. hub' = [hub EXCEPT ![m] = k]
      BY <1>8, <2>1, Transit
    <2>5. /\ \A a \in Machine \ {m} : task'[a] = task[a]
          /\ \A j \in RepoName \ {n} : task'[m][j] = task[m][j]
      BY <1>2
    <2> QED BY <1>2, <1>4, <1>5, <1>6, <2>3, <2>4, <2>5, RefileKeepsLatest
  <1> QED BY <1>1, <1>3, <1>7, <1>8 DEF EndClone
-----------------------------------------------------------------------------
\* A hub that hears nothing keeps its registrations.
LEMMA QuietFacts ==
    ASSUME NEW h, NEW k, \A p \in Machine, j \in RepoName : HearsNothing(h, k, p, j),
           NEW m \in Machine
    PROVE  \A j \in RepoName : k.repos[j].id = h.repos[j].id
  BY DEF HearsNothing

LEMMA OpenKeepsLatest ==
    ASSUME IInv, IInv', LatestInv, NEW m \in Machine, NEW n \in RepoName, Open(m, n)
    PROVE  LatestInv'
  <1>1. PICK id \in RepoId : id = hub[m].repos[n].id
    BY Types DEF Open, Registered
  <1>2. PICK heads \in SUBSET Op : heads = ops[m][n]
    BY Types
  <1>3. PICK f : f = RepoOpened(hub[m], n, id)
    OBVIOUS
  <1>4. PICK k : k = Publish(f, n, id, heads)
    OBVIOUS
  <1>5. Same(hub[m], f)
    BY <1>3, HubFacts, ServingTells
  <1>6. f \in HubState
    BY <1>3, HubFacts, ServingStep DEF HubStep
  <1>7. Numbered(f)
    BY <1>5, HubFacts, SameTells DEF Tells
  <1>8. Tells(f, k) /\ \A p \in Machine, j \in RepoName : HearsNothing(f, k, p, j)
    BY <1>4, <1>6, <1>7, PublishTells
  <1>9. Tells(hub[m], k) /\ \A p \in Machine, j \in RepoName : HearsNothing(hub[m], k, p, j)
    BY <1>5, <1>6, <1>8, HubFacts, SameThenTells
  <1> DEFINE t == [phase |-> "idle", heads |-> heads, todo |-> {}]
  <1>10. t \in Tasks /\ t.todo = {}
    BY DEF Tasks
  <1>11. /\ TaskBecomes(m, n, t) /\ hub' = [hub EXCEPT ![m] = k]
         /\ UNCHANGED <<clone, link, net, scenario>>
    BY <1>1, <1>2, <1>3, <1>4, Transit DEF Open, TaskBecomes, RepoIdOf
  <1> HIDE DEF t
  <1>12. \A j \in RepoName : k.repos[j].id = hub[m].repos[j].id
    BY <1>9, QuietFacts
  <1>13. ScenarioKept
    BY <1>11 DEF ScenarioKept
  <1> QED BY <1>9, <1>10, <1>11, <1>12, <1>13, TaskKeepsLatest

LEMMA SettleKeepsLatest ==
    ASSUME IInv, IInv', LatestInv, NEW m \in Machine, NEW n \in RepoName, Settle(m, n)
    PROVE  LatestInv'
  <1>1. /\ task[m][n] \in Tasks /\ TaskSound(task[m][n], hub[m].repos[n])
        /\ task[m][n].phase = "busy" /\ task[m][n].todo = {}
    BY Types DEF Settle
  <1>2. PICK id \in RepoId : id = hub[m].repos[n].id
    <2>1. task[m][n] # ClosedTask
      BY <1>1 DEF ClosedTask
    <2>2. hub[m].repos[n].id \in RepoId \cup {NoId}
      BY Types
    <2> QED BY <1>1, <2>1, <2>2 DEF TaskSound
  <1>3. PICK heads \in SUBSET Op : heads = ops[m][n]
    BY Types
  <1>4. PICK k : k = IF heads = task[m][n].heads THEN hub[m] ELSE Publish(hub[m], n, id, heads)
    OBVIOUS
  <1>5. Tells(hub[m], k) /\ \A p \in Machine, j \in RepoName : HearsNothing(hub[m], k, p, j)
    <2>1. Same(hub[m], hub[m])
      BY DEF Same, TellsNothing
    <2>2. CASE k = hub[m]
      BY <2>1, <2>2, HubFacts, SameTells
    <2>3. CASE k = Publish(hub[m], n, id, heads)
      BY <2>3, HubFacts, PublishTells
    <2> QED BY <1>4, <2>2, <2>3
  <1>6. hub' = [hub EXCEPT ![m] = k] /\ UNCHANGED <<clone, link, net, scenario>>
    BY <1>2, <1>3, <1>4, Transit DEF Settle, RepoIdOf
  <1> DEFINE t == [task[m][n] EXCEPT !.phase = "idle", !.heads = heads]
  <1>7. t \in Tasks /\ t.todo = {}
    BY <1>1 DEF Tasks
  <1>8. TaskBecomes(m, n, t)
    BY <1>3 DEF Settle, TaskBecomes
  <1> HIDE DEF t
  <1>9. \A j \in RepoName : k.repos[j].id = hub[m].repos[j].id
    BY <1>5, QuietFacts
  <1>10. ScenarioKept
    BY <1>6 DEF ScenarioKept
  <1> QED BY <1>5, <1>6, <1>7, <1>8, <1>9, <1>10, TaskKeepsLatest

LEMMA WatchEndsKeepsLatest ==
    ASSUME IInv, IInv', LatestInv, NEW m \in Machine, NEW n \in RepoName, WatchEnds(m, n)
    PROVE  LatestInv'
  <1>1. PICK k : k = RepoClosed(hub[m], n, RepoIdOf(m, n))
    OBVIOUS
  <1>2. Same(hub[m], k)
    BY <1>1, HubFacts, ServingTells
  <1>3. Tells(hub[m], k) /\ \A p \in Machine, j \in RepoName : HearsNothing(hub[m], k, p, j)
    BY <1>2, HubFacts, SameTells
  <1>4. hub' = [hub EXCEPT ![m] = k] /\ UNCHANGED <<clone, link, net>>
    BY <1>1, Transit DEF WatchEnds
  <1>5. TaskBecomes(m, n, ClosedTask)
    BY DEF WatchEnds, TaskBecomes
  <1>6. ClosedTask \in Tasks /\ ClosedTask.todo = {}
    BY ClosedTaskSound DEF ClosedTask
  <1>7. \A j \in RepoName : k.repos[j].id = hub[m].repos[j].id
    BY <1>3, QuietFacts
  <1>8. ScenarioKept
    BY KeptFacts DEF WatchEnds
  <1> QED BY <1>3, <1>4, <1>5, <1>6, <1>7, <1>8, TaskKeepsLatest

LEMMA StaleKeepsLatest ==
    ASSUME IInv, IInv', LatestInv, NEW z \in stale, PublishStale(z) \/ StopStale(z)
    PROVE  LatestInv'
  <1>1. z \in StaleTasks
    BY Transit
  <1>2. PICK m \in Machine, n \in RepoName, id \in RepoId, heads \in SUBSET Op :
           m = z.machine /\ n = z.name /\ id = z.id /\ heads = z.heads
    BY <1>1 DEF StaleTasks
  <1>3. ScenarioKept /\ UNCHANGED <<task, clone, link, net>>
    BY KeptFacts DEF PublishStale, StopStale
  <1>4. CASE StopStale(z)
    <2>1. UNCHANGED hub
      BY <1>4 DEF StopStale
    <2> QED BY <1>3, <2>1, ClonesFacts, IdleKeepsLatest
  <1>5. CASE PublishStale(z)
    <2>1. PICK k : k = Publish(hub[m], n, id, heads)
      OBVIOUS
    <2>2. hub' = [hub EXCEPT ![m] = k]
      BY <1>2, <1>5, <2>1, Transit DEF PublishStale
    <2>3. Tells(hub[m], k) /\ \A p \in Machine, j \in RepoName : HearsNothing(hub[m], k, p, j)
      BY <2>1, HubFacts, PublishTells
    <2>4. \A j \in RepoName : k.repos[j].id = hub[m].repos[j].id
      BY <2>3, QuietFacts
    <2>5. PICK t \in Tasks : t = task[m][n]
      BY Types
    <2>6. TaskBecomes(m, n, t)
      BY <1>3, <2>5, Transit DEF TaskBecomes
    <2> QED BY <1>3, <2>2, <2>3, <2>4, <2>5, <2>6, TaskKeepsLatest
  <1> QED BY <1>4, <1>5

LEMMA WakeKeepsLatest ==
    ASSUME IInv, IInv', LatestInv, NEW m \in Machine, NEW n \in RepoName, Wake(m, n)
    PROVE  LatestInv'
  <1>1. PICK k : k = Drain(hub[m], n)
    OBVIOUS
  <1>2. Tells(hub[m], k) /\ \A p \in Machine, j \in RepoName : HearsNothing(hub[m], k, p, j)
    BY <1>1, HubFacts, DrainTells
  <1>3. \A j \in RepoName : k.repos[j].id = hub[m].repos[j].id
    BY <1>2, QuietFacts
  <1>4. PICK todo : todo = Drained(hub[m], n)
    OBVIOUS
  <1>5. /\ todo \in SUBSET PeerAnnounces
        /\ \A x \in todo : /\ x.heads # {} /\ x.heads = hub[m].repos[n].inbox[x.peer].heads
    BY <1>4, HubFacts, DrainedFacts
  <1>6. \A x \in todo : x.seq = hub[m].repos[n].inbox[x.peer].seq
    <2>1. todo = {[peer |-> p, seq |-> hub[m].repos[n].inbox[p].seq,
                   heads |-> hub[m].repos[n].inbox[p].heads] : p \in Undrained(hub[m], n)}
      BY <1>4 DEF Drained
    <2>2. SUFFICES ASSUME NEW x \in todo
                   PROVE  x.seq = hub[m].repos[n].inbox[x.peer].seq
      OBVIOUS
    <2>3. PICK p : x = [peer |-> p, seq |-> hub[m].repos[n].inbox[p].seq,
                        heads |-> hub[m].repos[n].inbox[p].heads]
      BY <2>1
    <2>4. x.peer = p /\ x.seq = hub[m].repos[n].inbox[p].seq
      BY <2>3
    <2> QED BY <2>4
  <1> DEFINE t == [task[m][n] EXCEPT !.phase = "busy", !.todo = todo]
  <1>7. t \in Tasks /\ t.todo = todo
    <2>1. task[m][n] \in Tasks
      BY Types
    <2> QED BY <1>5, <2>1 DEF Tasks
  <1>8. TaskBecomes(m, n, t)
    BY <1>4 DEF Wake, TaskBecomes
  <1> HIDE DEF t
  <1>9. hub' = [hub EXCEPT ![m] = k] /\ UNCHANGED <<clone, link, net, scenario>>
    BY <1>1, Transit DEF Wake
  <1>10. ScenarioKept
    BY <1>9 DEF ScenarioKept
  <1> QED BY <1>2, <1>3, <1>5, <1>6, <1>7, <1>8, <1>9, <1>10, TaskKeepsLatest

LEMMA HandleKeepsLatest ==
    ASSUME IInv, IInv', LatestInv, NEW m \in Machine, NEW n \in RepoName, Handle(m, n)
    PROVE  LatestInv'
  <1>1. task[m][n] \in Tasks /\ task[m][n].todo # {} /\ UNCHANGED <<clone, link, net>>
    BY Types DEF Handle
  <1>2. /\ task[m][n].todo \in SUBSET PeerAnnounces
        /\ \A y \in PeerAnnounces : y.peer \in Machine /\ y.heads \in SUBSET Op
    BY <1>1, TaskTypes DEF PeerAnnounces
  <1>3. PICK x : x = First(task[m][n].todo)
    OBVIOUS
  <1>4. x \in task[m][n].todo /\ x.peer \in Machine /\ x.heads \in SUBSET Op
    BY <1>1, <1>2, <1>3, FirstFacts
  <1> DEFINE t == [task[m][n] EXCEPT !.todo = task[m][n].todo \ {x}]
  <1>5. t \in Tasks /\ t.todo \subseteq task[m][n].todo
    BY <1>1 DEF Tasks
  <1>6. TaskBecomes(m, n, t)
    BY <1>3, Transit DEF Handle, TaskBecomes
  <1> HIDE DEF t
  <1>7. ScenarioKept
    BY KeptFacts DEF Handle
  <1>8. PICK k : (k = hub[m] \/ k = Requeue(hub[m], n, x)) /\ hub' = [hub EXCEPT ![m] = k]
    BY <1>3, Transit DEF Handle
  <1>9. ASSUME NEW p \in Machine, p = x.peer, p # m, Usable(p, m), Stays(m, n),
               hub[m].repos[n].inbox[p].seq = x.seq
        PROVE  hub[m].repos[n].inbox[p].heads = x.heads
    <2>1. CaughtUp(View(p, m, n))
      BY <1>9 DEF LatestInv
    <2>2. PICK v : v = View(p, m, n) /\ Shows(v, p, m, n)
      BY ViewShows
    <2>3. x \in v.todo
      BY <1>4, <1>9, <2>2 DEF Shows
    <2>4. v.seq = x.seq => v.heads = x.heads
      BY <2>1, <2>2, <2>3 DEF CaughtUp
    <2> QED BY <1>9, <2>2, <2>4 DEF Shows
  <1>10. /\ Tells(hub[m], k)
         /\ \A j \in RepoName : k.repos[j].id = hub[m].repos[j].id
         /\ \A p \in Machine, j \in RepoName :
               p # m /\ Usable(p, m) /\ Stays(m, j) => HearsNothing(hub[m], k, p, j)
    <2>1. CASE k = hub[m]
      <3>1. Same(hub[m], hub[m])
        BY DEF Same, TellsNothing
      <3> QED BY <2>1, <3>1, HubFacts, SameTells
    <2>2. CASE k = Requeue(hub[m], n, x)
      <3>1. Tells(hub[m], k)
        BY <1>4, <2>2, HubFacts, RequeueTells
      <3>2. \A p \in Machine, j \in RepoName :
               (p = x.peer /\ j = n /\ hub[m].repos[n].inbox[p].seq = x.seq
                   => hub[m].repos[n].inbox[p].heads = x.heads)
               => HearsNothing(hub[m], k, p, j)
        BY <1>4, <2>2, HubFacts, RequeueTells
      <3>3. \A j \in RepoName : k.repos[j].id = hub[m].repos[j].id
        <4>1. x \in [peer : Machine, seq : Nat, heads : SUBSET Op]
          BY <1>2, <1>4 DEF PeerAnnounces
        <4>2. x.heads # {} /\ x.heads \subseteq OpsOf(hub[m].repos[n].id)
          BY <1>4, Types DEF TaskSound
        <4> QED BY <1>4, <2>2, <4>1, <4>2, HubFacts, RequeueStep
      <3> QED BY <1>9, <3>1, <3>2, <3>3
    <2> QED BY <1>8, <2>1, <2>2
  <1> QED BY <1>1, <1>5, <1>6, <1>7, <1>8, <1>10, TaskKeepsLatest
-----------------------------------------------------------------------------
\* What does not change of the sender, or of the receiver.
LEMMA Unmoved ==
    ASSUME IInv, NEW a \in Machine
    PROVE  /\ hub'[a] = hub[a] => \A b \in Machine, n \in RepoName :
                 NothingTold(hub[a], hub'[a], b, n) /\ HearsNothing(hub[a], hub'[a], b, n)
           /\ hub'[a] = hub[a] /\ task'[a] = task[a] =>
                 \A p \in Machine, n \in RepoName : StillHeard(p, a, n)
  <1>1. hub[a].announceSeq \in Nat
    BY Types, HubTypes
  <1>2. hub'[a] = hub[a] => \A b \in Machine, n \in RepoName :
                 NothingTold(hub[a], hub'[a], b, n) /\ HearsNothing(hub[a], hub'[a], b, n)
    BY <1>1 DEF NothingTold, HearsNothing
  <1>3. hub'[a] = hub[a] /\ task'[a] = task[a] =>
           \A p \in Machine, n \in RepoName : StillHeard(p, a, n)
    BY <1>2 DEF StillHeard
  <1> QED BY <1>2, <1>3

\* Once is kept by what numbers its announcements.
LEMMA OnceKept ==
    ASSUME IInv, LatestInv, \A m \in Machine : Numbered(hub'[m]), ClonesMove(clone'),
           scenario'.moved = scenario.moved, OneConnection',
           scenario'.conns = 1 => \A pair \in Pairs : link'[pair] = 0
    PROVE  Once'
  BY DEF Once, ClonesMove

LEMMA ConnectKeepsLatest ==
    ASSUME IInv, IInv', LatestInv, NEW pair \in Pairs, Connect(pair)
    PROVE  LatestInv'
  <1>1. /\ scenario.conns = 1 /\ scenario'.conns = 0 /\ scenario'.moved = scenario.moved
        /\ scenario'.losses = 0
    <2> DEFINE H == SUBSET (Machine \X RepoName)
    <2>1. scenario \in [held : H, moved : H, ops : Nat, regs : Nat, conns : Nat,
                        restarts : Nat, faults : Nat, losses : Nat]
      BY Transit DEF Scenario
    <2> HIDE DEF H
    <2>2. scenario.conns > 0 /\ scenario' = [scenario EXCEPT !.conns = @ - 1]
      BY DEF Connect
    <2>3. scenario.conns <= 1 /\ scenario.losses = 0
      BY DEF LatestInv, Once, OneConnection
    <2> QED BY <2>1, <2>2, <2>3
  <1>2. UNCHANGED <<hub, task, clone>> /\ net' \subseteq net
    BY DEF Connect, Surviving
  <1>3. \A other \in Pairs : link[other] = 0
    BY <1>1 DEF LatestInv, Once
  <1>4. Once'
    <2>1. \A m \in Machine : Numbered(hub'[m])
      BY <1>2 DEF LatestInv, Once
    <2>2. OneConnection'
      BY <1>1 DEF OneConnection
    <2>3. ClonesMove(clone')
      BY <1>2, ClonesFacts
    <2> QED BY <1>1, <2>1, <2>2, <2>3, OnceKept
  <1>5. ASSUME NEW a \in Machine, NEW b \in Machine, NEW n \in RepoName,
               a # b, Usable(a, b)', Stays(b, n)'
        PROVE  CaughtUp(View(a, b, n)')
    <2>1. CaughtUp(View(a, b, n))
      <3>1. Usable(a, b) /\ Stays(b, n)
        BY <1>1, <1>2, <1>5 DEF Usable, Stays
      <3> QED BY <1>5, <3>1 DEF LatestInv
    <2>2. PICK v : v = View(a, b, n) /\ Shows(v, a, b, n)
      BY ViewShows
    <2>3. PICK w : w = View(a, b, n)' /\ Shows(w, a, b, n)'
      BY ViewShows
    <2>4. ViewTypes(w)
      BY <2>3, ViewTyped
    <2>5. /\ v.sender = 0 /\ v.receiver = 0 /\ v.sent = {} /\ v.arrived = {}
          /\ v.seq = 0 /\ v.heads = {} /\ v.todo = {}
      <3>1. v.link = 0
        BY <1>3, <1>5, <2>2, PairFacts DEF Shows
      <3> QED BY <2>1, <2>2, <3>1 DEF CaughtUp
    <2>6. Streaming(a, b, n)' \subseteq Streaming(a, b, n)
      BY <1>2 DEF Streaming
    <2>7. w.sent \subseteq v.sent /\ w.arrived \subseteq v.arrived
      <3>1. hub'[a] = hub[a]
        BY <1>2
      <3>2. w.sent \subseteq v.sent
        <4>1. PICK S, T : /\ S = Streaming(a, b, n) /\ T = Streaming(a, b, n)'
                          /\ T \subseteq S
          BY <2>6
        <4>2. /\ v.sent = ({hub[a].outbox[b][n]} \ {NoAnnounce}) \cup {s.announce : s \in S}
              /\ w.sent = ({hub[a].outbox[b][n]} \ {NoAnnounce}) \cup {s.announce : s \in T}
          BY <2>2, <2>3, <3>1, <4>1 DEF Shows
        <4> QED BY <4>1, <4>2
      <3>3. w.arrived \subseteq v.arrived
        BY <2>2, <2>3, <2>6 DEF Shows
      <3> QED BY <3>2, <3>3
    <2>8. /\ w.sender = v.sender /\ w.receiver = v.receiver /\ w.seq = v.seq
          /\ w.heads = v.heads /\ w.todo = v.todo
      BY <1>2, <2>2, <2>3 DEF Shows
    <2>9. CaughtUp(w)
      BY <2>4, <2>5, <2>7, <2>8, NothingSent
    <2> QED BY <2>3, <2>9
  <1> QED BY <1>4, <1>5 DEF LatestInv

LEMMA DisconnectKeepsLatest ==
    ASSUME IInv, IInv', LatestInv, NEW pair \in Pairs, Disconnect(pair)
    PROVE  LatestInv'
  <1>1. /\ UNCHANGED <<hub, task, clone, scenario>> /\ link[pair] # 0
        /\ link' = [link EXCEPT ![pair] = 0] /\ net' = Surviving(pair)
    BY DEF Disconnect
  <1>2. scenario.conns # 1
    BY <1>1 DEF LatestInv, Once
  <1>3. link'[pair] = 0 /\ \A other \in Pairs \ {pair} : link'[other] = link[other]
    BY <1>1, Transit
  <1>4. Once'
    <2>1. \A m \in Machine : Numbered(hub'[m])
      BY <1>1 DEF LatestInv, Once
    <2>2. OneConnection'
      BY <1>1 DEF LatestInv, Once, OneConnection
    <2>3. ClonesMove(clone')
      BY <1>1, ClonesFacts
    <2> QED BY <1>1, <1>2, <2>1, <2>2, <2>3, OnceKept
  <1>5. ASSUME NEW a \in Machine, NEW b \in Machine, NEW n \in RepoName,
               a # b, Usable(a, b)', Stays(b, n)'
        PROVE  CaughtUp(View(a, b, n)')
    <2>1. {a, b} \in Pairs /\ link'[{a, b}] # 0
      BY <1>1, <1>2, <1>5, PairFacts DEF Usable
    <2>2. {a, b} # pair /\ link'[{a, b}] = link[{a, b}]
      BY <1>3, <2>1
    <2>3. CaughtUp(View(a, b, n))
      BY <1>1, <1>5, <2>1, <2>2 DEF LatestInv, Usable, Stays
    <2>4. Streaming(a, b, n)' = Streaming(a, b, n)
      BY <1>1, <2>2 DEF Streaming, Surviving
    <2>5. StillHeard(a, b, n) /\ NothingTold(hub[a], hub'[a], b, n)
      BY <1>1, Unmoved
    <2> QED BY <2>2, <2>3, <2>4, <2>5, TellingKeepsLatest
  <1> QED BY <1>4, <1>5 DEF LatestInv

\* m's connection to p changes, and the two of them are left to show.
LEMMA PeerKeepsLatest ==
    ASSUME IInv, IInv', LatestInv, NEW m \in Machine, NEW p \in Machine, m # p,
           NEW k, NEW c, NEW row, PeerReplaced(hub[m], k, p, c, row),
           hub' = [hub EXCEPT ![m] = k], UNCHANGED <<task, clone, link, net, scenario>>,
           \A n \in RepoName : Usable(m, p) /\ Stays(p, n) => CaughtUp(View(m, p, n)'),
           \A n \in RepoName : Usable(p, m) /\ Stays(m, n) => CaughtUp(View(p, m, n)')
    PROVE  LatestInv'
  <1>1. hub'[m] = k /\ \A a \in Machine \ {m} : hub'[a] = hub[a]
    BY Transit
  <1>2. Once'
    <2>1. \A a \in Machine : Numbered(hub'[a])
      BY <1>1 DEF LatestInv, Once, PeerReplaced
    <2>2. OneConnection' /\ (scenario'.conns = 1 => \A pair \in Pairs : link'[pair] = 0)
      BY DEF LatestInv, Once, OneConnection
    <2>3. ClonesMove(clone')
      BY ClonesFacts
    <2> QED BY <2>1, <2>2, <2>3, OnceKept
  <1>3. ASSUME NEW a \in Machine, NEW b \in Machine, NEW n \in RepoName,
               a # b, Usable(a, b)', Stays(b, n)'
        PROVE  CaughtUp(View(a, b, n)')
    <2>1. Usable(a, b) /\ Stays(b, n)
      BY <1>1, <1>3 DEF Usable, Stays, Registered, PeerReplaced
    <2>2. CASE a = m /\ b = p
      BY <2>1, <2>2
    <2>3. CASE a = p /\ b = m
      BY <2>1, <2>3
    <2>4. CASE ~(a = m /\ b = p) /\ ~(a = p /\ b = m)
      <3>1. NothingTold(hub[a], hub'[a], b, n)
        BY <1>1, <1>3, <2>4, Unmoved DEF PeerReplaced
      <3>2. HearsNothing(hub[b], hub'[b], a, n)
        BY <1>1, <1>3, <2>4, Unmoved DEF PeerReplaced
      <3>3. StillHeard(a, b, n)
        BY <3>2 DEF StillHeard
      <3>4. CaughtUp(View(a, b, n))
        BY <1>3, <2>1 DEF LatestInv
      <3>5. Streaming(a, b, n)' = Streaming(a, b, n)
        BY DEF Streaming
      <3> QED BY <3>1, <3>3, <3>4, <3>5, TellingKeepsLatest
    <2> QED BY <2>2, <2>3, <2>4
  <1> QED BY <1>2, <1>3 DEF LatestInv

LEMMA AdoptKeepsLatest ==
    ASSUME IInv, IInv', LatestInv, NEW m \in Machine, NEW p \in Machine, m # p, Adopt(m, p)
    PROVE  LatestInv'
  <1>1. PICK c \in Nat : c = link[{m, p}]
    BY PairFacts
  <1>2. c # 0 /\ hub[m].conn[p] # c /\ UNCHANGED <<task, clone, link, net, scenario>>
    BY <1>1 DEF Adopt
  <1>3. PICK k : k = PeerConnected(hub[m], p, c)
    OBVIOUS
  <1>4. hub' = [hub EXCEPT ![m] = k]
    BY <1>1, <1>3, Transit DEF Adopt
  <1>5. hub'[m] = k /\ \A a \in Machine \ {m} : hub'[a] = hub[a]
    BY <1>4, Transit
  <1>6. PeerReplaced(hub[m], k, p, c, Replay(hub[m]))
    BY <1>3, HubFacts, ConnectedTells
  <1>7. {p, m} = {m, p}
    OBVIOUS
  <1>10. /\ k.conn[p] = c /\ k.announceSeq = hub[m].announceSeq
         /\ \A n \in RepoName : /\ k.repos[n].id = hub[m].repos[n].id
                                /\ k.repos[n].published = hub[m].repos[n].published
                                /\ k.repos[n].inbox[p].seq = 0
                                /\ k.repos[n].inbox[p].heads = {}
    BY <1>6 DEF PeerReplaced, NoSlot
  <1>8. ASSUME NEW n \in RepoName, Usable(m, p), Stays(p, n)
        PROVE  CaughtUp(View(m, p, n)')
    <2>1. PICK v : v = View(m, p, n) /\ Shows(v, m, p, n)
      BY ViewShows
    <2>2. PICK w : w = View(m, p, n)' /\ Shows(w, m, p, n)'
      BY ViewShows
    <2>3. ViewTypes(v) /\ ViewTypes(w) /\ CaughtUp(v)
      BY <1>8, <2>1, <2>2, ViewTyped DEF LatestInv
    <2>4. v.sender = 0 /\ v.link = c /\ Streaming(m, p, n) = {}
      <3>1. v.link = c /\ v.sender # c
        BY <1>1, <1>2, <2>1 DEF Shows
      <3>2. v.sender = 0 /\ v.sent = {}
        BY <2>3, <3>1 DEF CaughtUp
      <3>3. PICK S : S = Streaming(m, p, n)
        OBVIOUS
      <3>4. \A s \in S : s.announce \in v.sent
        BY <2>1, <3>3 DEF Shows
      <3> QED BY <3>1, <3>2, <3>3, <3>4
    <2>5. Streaming(m, p, n)' = {}
      <3>1. Streaming(m, p, n)' = Streaming(m, p, n)
        BY <1>2 DEF Streaming
      <3> QED BY <2>4, <3>1
    <2>6. /\ w.link = v.link /\ w.sender = v.link
          /\ w.source = v.source /\ w.published = v.published /\ w.top = v.top
      <3>1. w.link = v.link
        BY <1>2, <2>1, <2>2 DEF Shows
      <3>3. w.sender = hub'[m].conn[p]
        BY <2>2 DEF Shows
      <3>4. hub'[m].conn[p] = c
        BY <1>5, <1>10
      <3>2. w.source = v.source /\ w.published = v.published /\ w.top = v.top
        <4>1. /\ v.source = hub[m].repos[n].id /\ v.published = hub[m].repos[n].published
              /\ v.top = hub[m].announceSeq
          BY <2>1 DEF Shows
        <4>2. /\ w.source = hub'[m].repos[n].id /\ w.published = hub'[m].repos[n].published
              /\ w.top = hub'[m].announceSeq
          BY <2>2 DEF Shows
        <4> QED BY <1>5, <1>10, <4>1, <4>2
      <3> QED BY <2>4, <3>1, <3>2, <3>3, <3>4
    <2>7. /\ w.receiver = v.receiver /\ w.id = v.id /\ w.seq = v.seq /\ w.heads = v.heads
          /\ w.todo = v.todo /\ w.arrived = v.arrived
      <3>1. /\ v.receiver = hub[p].conn[m] /\ v.id = hub[p].repos[n].id
            /\ v.seq = hub[p].repos[n].inbox[m].seq /\ v.heads = hub[p].repos[n].inbox[m].heads
            /\ v.todo = {y \in task[p][n].todo : y.peer = m}
        BY <2>1 DEF Shows
      <3>2. /\ w.receiver = hub'[p].conn[m] /\ w.id = hub'[p].repos[n].id
            /\ w.seq = hub'[p].repos[n].inbox[m].seq /\ w.heads = hub'[p].repos[n].inbox[m].heads
            /\ w.todo = {y \in task'[p][n].todo : y.peer = m}
        BY <2>2 DEF Shows
      <3>3. hub'[p] = hub[p] /\ task' = task
        BY <1>2, <1>5
      <3>4. v.arrived = {} /\ w.arrived = {}
        <4>1. v.arrived = {s \in {} : s.read}
          BY <2>1, <2>4 DEF Shows
        <4>2. w.arrived = {s \in {} : s.read}
          BY <2>2, <2>5 DEF Shows
        <4> QED BY <4>1, <4>2
      <3> QED BY <3>1, <3>2, <3>3, <3>4
    <2> DEFINE e == hub[m].repos[n]
               x == [id |-> e.id, seq |-> e.seq, heads |-> e.published]
    <2>8. /\ e.published # {} => 0 < e.seq
          /\ e.seq <= hub[m].announceSeq
      BY HubFacts DEF Numbered
    <2>9. k.outbox[p][n] = IF e.published = {} THEN NoAnnounce ELSE x
      BY <1>6 DEF PeerReplaced, Replay
    <2>10. e.published = v.published /\ hub[m].announceSeq = v.top
      BY <2>1 DEF Shows
    <2>11. x.seq = e.seq /\ x.heads = e.published
      OBVIOUS
    <2> HIDE DEF x, e
    <2>12. v.published # {} => x.heads = v.published /\ 0 < x.seq /\ x.seq <= v.top /\ v.link # 0
      BY <1>2, <2>4, <2>8, <2>10, <2>11
    <2>13. w.sent = {k.outbox[p][n]} \ {NoAnnounce}
      <3>1. w.sent = ({hub'[m].outbox[p][n]} \ {NoAnnounce}) \cup {s.announce : s \in {}}
        BY <2>2, <2>5 DEF Shows
      <3> QED BY <1>5, <3>1
    <2>14. x = NoAnnounce => x.seq = 0
      BY DEF NoAnnounce
    <2>15. w.sent = IF v.published = {} THEN {} ELSE {x}
      BY <2>9, <2>10, <2>12, <2>13, <2>14
    <2>16. CaughtUp(w)
      BY <2>3, <2>4, <2>6, <2>7, <2>12, <2>15, SenderAdopts
    <2> QED BY <2>2, <2>16
  <1>9. ASSUME NEW n \in RepoName, Usable(p, m), Stays(m, n)
        PROVE  CaughtUp(View(p, m, n)')
    <2>1. PICK v : v = View(p, m, n) /\ Shows(v, p, m, n)
      BY ViewShows
    <2>2. PICK w : w = View(p, m, n)' /\ Shows(w, p, m, n)'
      BY ViewShows
    <2>3. ViewTypes(v) /\ ViewTypes(w) /\ CaughtUp(v)
      BY <1>9, <2>1, <2>2, ViewTyped DEF LatestInv
    <2>4. v.receiver = 0
      <3>1. v.link = c /\ v.receiver # c
        BY <1>1, <1>2, <1>7, <2>1 DEF Shows
      <3> QED BY <2>3, <3>1 DEF CaughtUp
    <2>5. Streaming(p, m, n)' = Streaming(p, m, n)
      BY <1>2 DEF Streaming
    <2>6. /\ w.link = v.link /\ w.sender = v.sender /\ w.source = v.source
          /\ w.published = v.published /\ w.top = v.top /\ w.sent = v.sent
          /\ w.arrived = v.arrived /\ w.todo = v.todo
      <3>1. PICK S : S = Streaming(p, m, n)
        OBVIOUS
      <3>2. /\ v.link = link[{p, m}] /\ v.sender = hub[p].conn[m]
            /\ v.source = hub[p].repos[n].id /\ v.published = hub[p].repos[n].published
            /\ v.top = hub[p].announceSeq
            /\ v.sent = ({hub[p].outbox[m][n]} \ {NoAnnounce}) \cup {s.announce : s \in S}
            /\ v.arrived = {s \in S : s.read}
            /\ v.todo = {y \in task[m][n].todo : y.peer = p}
        BY <2>1, <3>1 DEF Shows
      <3>3. /\ w.link = link'[{p, m}] /\ w.sender = hub'[p].conn[m]
            /\ w.source = hub'[p].repos[n].id /\ w.published = hub'[p].repos[n].published
            /\ w.top = hub'[p].announceSeq
            /\ w.sent = ({hub'[p].outbox[m][n]} \ {NoAnnounce}) \cup {s.announce : s \in S}
            /\ w.arrived = {s \in S : s.read}
            /\ w.todo = {y \in task'[m][n].todo : y.peer = p}
        BY <2>2, <2>5, <3>1 DEF Shows
      <3>4. hub'[p] = hub[p] /\ task' = task /\ link' = link
        BY <1>2, <1>5
      <3> QED BY <3>2, <3>3, <3>4
    <2>7. w.receiver = v.link /\ w.id = v.id /\ w.seq = 0 /\ w.heads = {}
      <3>1. v.link = c /\ w.receiver = c
        <4>1. v.link = link[{p, m}]
          BY <2>1 DEF Shows
        <4>2. w.receiver = hub'[m].conn[p]
          BY <2>2 DEF Shows
        <4> QED BY <1>1, <1>5, <1>7, <1>10, <4>1, <4>2
      <3>2. w.id = v.id /\ w.seq = 0 /\ w.heads = {}
        <4>1. v.id = hub[m].repos[n].id
          BY <2>1 DEF Shows
        <4>2. /\ w.id = hub'[m].repos[n].id /\ w.seq = hub'[m].repos[n].inbox[p].seq
              /\ w.heads = hub'[m].repos[n].inbox[p].heads
          BY <2>2 DEF Shows
        <4> QED BY <1>5, <1>10, <4>1, <4>2
      <3> QED BY <3>1, <3>2
    <2>8. CaughtUp(w)
      BY <2>3, <2>4, <2>6, <2>7, ReceiverAdopts
    <2> QED BY <2>2, <2>8
  <1> QED BY <1>2, <1>4, <1>6, <1>8, <1>9, PeerKeepsLatest

\* A connection that has not ended is not seen closed.
LEMMA NoticeLossKeepsLatest ==
    ASSUME IInv, IInv', LatestInv, NEW m \in Machine, NEW p \in Machine, m # p, NoticeLoss(m, p)
    PROVE  LatestInv'
  <1>1. hub[m].conn[p] # 0 /\ hub[m].conn[p] # link[{m, p}]
    BY DEF NoticeLoss
  <1>2. UNCHANGED <<task, clone, link, net, scenario>>
    BY DEF NoticeLoss
  <1>3. PICK k : k = PeerDisconnected(hub[m], p)
    OBVIOUS
  <1>4. hub' = [hub EXCEPT ![m] = k]
    BY <1>3, Transit DEF NoticeLoss
  <1>5. PeerReplaced(hub[m], k, p, 0, [n \in RepoName |-> NoAnnounce])
    BY <1>3, HubFacts, ConnectedTells
  <1>6. ASSUME NEW n \in RepoName, Usable(m, p), Stays(p, n)
        PROVE  FALSE
    <2>1. CaughtUp(View(m, p, n))
      BY <1>6 DEF LatestInv
    <2>2. PICK v : v = View(m, p, n) /\ Shows(v, m, p, n)
      BY ViewShows
    <2> QED BY <1>1, <2>1, <2>2 DEF CaughtUp, Shows
  <1>7. ASSUME NEW n \in RepoName, Usable(p, m), Stays(m, n)
        PROVE  FALSE
    <2>1. CaughtUp(View(p, m, n))
      BY <1>7 DEF LatestInv
    <2>2. PICK v : v = View(p, m, n) /\ Shows(v, p, m, n)
      BY ViewShows
    <2>3. {p, m} = {m, p}
      OBVIOUS
    <2> QED BY <1>1, <2>1, <2>2, <2>3 DEF CaughtUp, Shows
  <1> QED BY <1>2, <1>4, <1>5, <1>6, <1>7, PeerKeepsLatest
\* One pending announcement of m's goes on a stream.
LEMMA SendKeepsLatest ==
    ASSUME IInv, IInv', LatestInv, NEW m \in Machine, NEW p \in Machine, m # p, Send(m, p)
    PROVE  LatestInv'
  <1>1. PICK j \in RepoName : j = Popped(hub[m], p) /\ hub[m].outbox[p][j] # NoAnnounce
    BY PoppedFacts DEF Send
  <1>2. PICK x : x = hub[m].outbox[p][j]
    OBVIOUS
  <1>3. PICK k : k = [hub[m] EXCEPT !.outbox[p][j] = NoAnnounce]
    OBVIOUS
  <1>4. hub' = [hub EXCEPT ![m] = k] /\ UNCHANGED <<task, clone, link, scenario>>
    BY <1>1, <1>3, Transit DEF Send
  <1>5. hub'[m] = k /\ \A a \in Machine \ {m} : hub'[a] = hub[a]
    BY <1>4, Transit
  <1>6. /\ k.repos = hub[m].repos /\ k.announceSeq = hub[m].announceSeq
        /\ k.conn = hub[m].conn /\ k.outbox[p][j] = NoAnnounce
        /\ \A q \in Machine, n \in RepoName :
              q # p \/ n # j => k.outbox[q][n] = hub[m].outbox[q][n]
    BY <1>3, HubFacts, TakeTells
  <1>7. PICK s : /\ net' = net \cup {s} /\ s.from = m /\ s.to = p /\ s.name = j
                 /\ s.announce = x /\ s.read = FALSE
    <2> DEFINE s == [conn |-> link[{m, p}], from |-> m, to |-> p, name |-> j,
                     announce |-> x, read |-> FALSE]
    <2>1. net' = net \cup {s}
      BY <1>1, <1>2 DEF Send
    <2>2. s.from = m /\ s.to = p /\ s.name = j /\ s.announce = x /\ s.read = FALSE
      OBVIOUS
    <2> HIDE DEF s
    <2> QED BY <2>1, <2>2
  <1>8. Once'
    <2>1. \A a \in Machine : Numbered(hub'[a])
      <3>1. Numbered(k)
        BY <1>6, HubFacts DEF Numbered
      <3> QED BY <1>5, <3>1, HubFacts
    <2>2. OneConnection' /\ (scenario'.conns = 1 => \A pair \in Pairs : link'[pair] = 0)
      BY <1>4 DEF LatestInv, Once, OneConnection
    <2>3. ClonesMove(clone')
      BY <1>4, ClonesFacts
    <2> QED BY <1>4, <2>1, <2>2, <2>3, OnceKept
  <1>9. ASSUME NEW a \in Machine, NEW b \in Machine, NEW n \in RepoName,
               a # b, Usable(a, b)', Stays(b, n)'
        PROVE  CaughtUp(View(a, b, n)')
    <2>1. Usable(a, b) /\ Stays(b, n)
      BY <1>4, <1>5, <1>6, <1>9 DEF Usable, Stays, Registered
    <2>2. CaughtUp(View(a, b, n))
      BY <1>9, <2>1 DEF LatestInv
    <2>3. CASE a = m /\ b = p /\ n = j
      <3>1. PICK v : v = View(m, p, j) /\ Shows(v, m, p, j)
        BY ViewShows
      <3>2. PICK w : w = View(m, p, j)' /\ Shows(w, m, p, j)'
        BY ViewShows
      <3>3. ViewTypes(v) /\ ViewTypes(w) /\ CaughtUp(v)
        BY <2>2, <2>3, <3>1, <3>2, ViewTyped
      <3>4. PICK S, T : /\ S = Streaming(m, p, j) /\ T = Streaming(m, p, j)'
                        /\ T = S \cup {s}
        <4>1. Streaming(m, p, j)' = Streaming(m, p, j) \cup {s}
          BY <1>7 DEF Streaming
        <4> QED BY <4>1
      <3>5. w.sent = v.sent
        <4>1. v.sent = {x} \cup {t.announce : t \in S}
          <5>1. v.sent = ({hub[m].outbox[p][j]} \ {NoAnnounce}) \cup {t.announce : t \in S}
            BY <3>1, <3>4 DEF Shows
          <5>2. {hub[m].outbox[p][j]} \ {NoAnnounce} = {x}
            BY <1>1, <1>2
          <5> QED BY <5>1, <5>2
        <4>2. w.sent = {t.announce : t \in T}
          <5>1. w.sent = ({hub'[m].outbox[p][j]} \ {NoAnnounce}) \cup {t.announce : t \in T}
            BY <3>2, <3>4 DEF Shows
          <5>2. {hub'[m].outbox[p][j]} \ {NoAnnounce} = {}
            BY <1>5, <1>6
          <5> QED BY <5>1, <5>2
        <4> QED BY <1>7, <3>4, <4>1, <4>2
      <3>6. w.arrived = v.arrived
        <4>1. v.arrived = {t \in S : t.read} /\ w.arrived = {t \in T : t.read}
          BY <3>1, <3>2, <3>4 DEF Shows
        <4> QED BY <1>7, <3>4, <4>1
      <3>7. /\ w.link = v.link /\ w.sender = v.sender /\ w.receiver = v.receiver
            /\ w.source = v.source /\ w.published = v.published /\ w.top = v.top
        <4>1. w.link = v.link /\ w.receiver = v.receiver
          BY <1>4, <1>5, <3>1, <3>2 DEF Shows
        <4>2. /\ w.sender = k.conn[p] /\ w.source = k.repos[j].id
              /\ w.published = k.repos[j].published /\ w.top = k.announceSeq
          BY <1>5, <3>2 DEF Shows
        <4>3. /\ v.sender = hub[m].conn[p] /\ v.source = hub[m].repos[j].id
              /\ v.published = hub[m].repos[j].published /\ v.top = hub[m].announceSeq
          BY <3>1 DEF Shows
        <4> QED BY <1>6, <4>1, <4>2, <4>3
      <3>8. /\ w.id = v.id /\ w.seq = v.seq /\ w.heads = v.heads /\ w.todo = v.todo
        <4>1. hub'[p] = hub[p] /\ task'[p] = task[p]
          BY <1>4, <1>5
        <4>2. w.id = v.id /\ w.seq = v.seq /\ w.heads = v.heads
          <5>1. /\ v.id = hub[p].repos[j].id /\ v.seq = hub[p].repos[j].inbox[m].seq
                /\ v.heads = hub[p].repos[j].inbox[m].heads
            BY <3>1 DEF Shows
          <5>2. /\ w.id = hub'[p].repos[j].id /\ w.seq = hub'[p].repos[j].inbox[m].seq
                /\ w.heads = hub'[p].repos[j].inbox[m].heads
            BY <3>2 DEF Shows
          <5> QED BY <4>1, <5>1, <5>2
        <4>3. w.todo = v.todo
          <5>1. v.todo = {y \in task[p][j].todo : y.peer = m}
            BY <3>1 DEF Shows
          <5>2. w.todo = {y \in task'[p][j].todo : y.peer = m}
            BY <3>2 DEF Shows
          <5> QED BY <4>1, <5>1, <5>2
        <4> QED BY <4>2, <4>3
      <3>9. (w.receiver = 0 => w.arrived = {}) /\ w.top >= v.top
        BY <3>3, <3>6, <3>7 DEF CaughtUp, ViewTypes
      <3>10. CaughtUp(w)
        BY <3>3, <3>5, <3>7, <3>8, <3>9, StillCaughtUp
      <3> QED BY <2>3, <3>2, <3>10
    <2>4. CASE ~(a = m /\ b = p /\ n = j)
      <3>1. Streaming(a, b, n)' = Streaming(a, b, n)
        BY <1>7, <2>4 DEF Streaming
      <3>2. NothingTold(hub[a], hub'[a], b, n)
        <4>1. CASE a = m
          <5>1. hub[m].announceSeq \in Nat
            BY HubFacts, HubTypes
          <5> QED BY <1>5, <1>6, <2>4, <4>1, <5>1 DEF NothingTold
        <4>2. CASE a # m
          BY <1>5, <4>2, Unmoved
        <4> QED BY <4>1, <4>2
      <3>3. HearsNothing(hub[b], hub'[b], a, n)
        BY <1>5, <1>6, Unmoved DEF HearsNothing
      <3>4. StillHeard(a, b, n)
        BY <1>4, <3>3 DEF StillHeard
      <3> QED BY <1>4, <2>2, <3>1, <3>2, <3>4, TellingKeepsLatest
    <2> QED BY <2>3, <2>4
  <1> QED BY <1>8, <1>9 DEF LatestInv

\* What was read came over the connection that its receiver holds.
LEMMA ReadKeepsLatest ==
    ASSUME IInv, IInv', LatestInv, NEW s \in net, Read(s)
    PROVE  LatestInv'
  <1>1. s \in Streams
    BY Transit
  <1>2. PICK r : net' = (net \ {s}) \cup {r} /\ r.from = s.from /\ r.to = s.to
                 /\ r.name = s.name /\ r.announce = s.announce /\ r.read
    <2> DEFINE r == [s EXCEPT !.read = TRUE]
    <2>1. net' = (net \ {s}) \cup {r}
      BY DEF Read
    <2>2. r.from = s.from /\ r.to = s.to /\ r.name = s.name /\ r.announce = s.announce /\ r.read
      BY <1>1 DEF Streams
    <2> HIDE DEF r
    <2> QED BY <2>1, <2>2
  <1>3. UNCHANGED <<hub, task, clone, link, scenario>>
    BY DEF Read
  <1>4. Once'
    <2>1. \A m \in Machine : Numbered(hub'[m])
      BY <1>3 DEF LatestInv, Once
    <2>2. OneConnection' /\ (scenario'.conns = 1 => \A pair \in Pairs : link'[pair] = 0)
      BY <1>3 DEF LatestInv, Once, OneConnection
    <2>3. ClonesMove(clone')
      BY <1>3, ClonesFacts
    <2> QED BY <1>3, <2>1, <2>2, <2>3, OnceKept
  <1>5. ASSUME NEW a \in Machine, NEW b \in Machine, NEW n \in RepoName,
               a # b, Usable(a, b)', Stays(b, n)'
        PROVE  CaughtUp(View(a, b, n)')
    <2>1. CaughtUp(View(a, b, n))
      BY <1>3, <1>5 DEF LatestInv, Usable, Stays
    <2>2. CASE s.from = a /\ s.to = b /\ s.name = n
      <3>1. PICK v : v = View(a, b, n) /\ Shows(v, a, b, n)
        BY ViewShows
      <3>2. PICK w : w = View(a, b, n)' /\ Shows(w, a, b, n)'
        BY ViewShows
      <3>3. ViewTypes(v) /\ ViewTypes(w) /\ CaughtUp(v)
        BY <2>1, <3>1, <3>2, ViewTyped
      <3>4. PICK S, T : /\ S = Streaming(a, b, n) /\ T = Streaming(a, b, n)'
                        /\ T = (S \ {s}) \cup {r} /\ s \in S
        <4>1. Streaming(a, b, n)' = (Streaming(a, b, n) \ {s}) \cup {r} /\ s \in Streaming(a, b, n)
          BY <1>2, <2>2 DEF Streaming
        <4> QED BY <4>1
      <3>5. w.sent = v.sent /\ s.announce \in v.sent
        <4>1. hub'[a] = hub[a]
          BY <1>3
        <4>2. /\ v.sent = ({hub[a].outbox[b][n]} \ {NoAnnounce}) \cup {t.announce : t \in S}
              /\ w.sent = ({hub[a].outbox[b][n]} \ {NoAnnounce}) \cup {t.announce : t \in T}
          BY <3>1, <3>2, <3>4, <4>1 DEF Shows
        <4> QED BY <1>2, <3>4, <4>2
      <3>6. /\ w.link = v.link /\ w.sender = v.sender /\ w.receiver = v.receiver
            /\ w.source = v.source /\ w.published = v.published /\ w.top = v.top
            /\ w.id = v.id /\ w.seq = v.seq /\ w.heads = v.heads /\ w.todo = v.todo
        BY <1>3, <3>1, <3>2 DEF Shows
      <3>7. v.receiver # 0
        <4>1. s.conn = link[{a, b}] /\ s.conn = hub[b].conn[a]
          BY <2>2 DEF Read
        <4>2. v.link = v.receiver
          BY <3>1, <4>1 DEF Shows
        <4> QED BY <3>3, <3>5, <4>2 DEF CaughtUp
      <3>8. w.top >= v.top
        BY <3>3, <3>6 DEF ViewTypes
      <3>9. CaughtUp(w)
        BY <3>3, <3>5, <3>6, <3>7, <3>8, StillCaughtUp
      <3> QED BY <3>2, <3>9
    <2>3. CASE ~(s.from = a /\ s.to = b /\ s.name = n)
      <3>1. Streaming(a, b, n)' = Streaming(a, b, n)
        BY <1>2, <2>3 DEF Streaming
      <3>2. StillHeard(a, b, n) /\ NothingTold(hub[a], hub'[a], b, n)
        BY <1>3, Unmoved
      <3> QED BY <1>3, <2>1, <3>1, <3>2, TellingKeepsLatest
    <2> QED BY <2>2, <2>3
  <1> QED BY <1>4, <1>5 DEF LatestInv
\* What is routed was read, and is in the view until it is.
LEMMA RouteKeepsLatest ==
    ASSUME IInv, IInv', LatestInv, NEW s \in net, Route(s)
    PROVE  LatestInv'
  <1>1. s \in Streams /\ AnnounceSound(s.announce)
    BY Transit
  <1>2. PICK m \in Machine, p \in Machine, j \in RepoName, x \in Announce :
           m = s.to /\ p = s.from /\ j = s.name /\ x = s.announce
    BY <1>1 DEF Streams
  <1>3. PICK k : k = RouteAnnounce(hub[m], p, j, x)
    OBVIOUS
  <1>4. /\ hub' = [hub EXCEPT ![m] = k] /\ net' = net \ {s}
        /\ UNCHANGED <<task, clone, link, scenario>>
    BY <1>2, <1>3, Transit DEF Route
  <1>5. hub'[m] = k /\ \A a \in Machine \ {m} : hub'[a] = hub[a]
    BY <1>4, Transit
  <1>6. /\ TellsNothing(hub[m], k)
        /\ Registered(hub[m], j) => Hears(hub[m], k, p, j, x)
        /\ \A q \in Machine, n \in RepoName : n # j \/ q # p => HearsNothing(hub[m], k, q, n)
    BY <1>1, <1>2, <1>3, HubFacts, RouteHears
  <1>7. Tells(hub[m], k)
    BY <1>6, HubFacts, QuietTells
  <1>8. Once'
    <2>1. \A a \in Machine : Numbered(hub'[a])
      BY <1>5, <1>7, HubFacts DEF Tells
    <2>2. OneConnection' /\ (scenario'.conns = 1 => \A pair \in Pairs : link'[pair] = 0)
      BY <1>4 DEF LatestInv, Once, OneConnection
    <2>3. ClonesMove(clone')
      BY <1>4, ClonesFacts
    <2> QED BY <1>4, <2>1, <2>2, <2>3, OnceKept
  <1>9. ASSUME NEW a \in Machine, NEW b \in Machine, NEW n \in RepoName,
               a # b, Usable(a, b)', Stays(b, n)'
        PROVE  CaughtUp(View(a, b, n)')
    <2>1. Usable(a, b) /\ Stays(b, n)
      BY <1>4, <1>5, <1>6, <1>9 DEF Usable, Stays, Registered, TellsNothing
    <2>2. CaughtUp(View(a, b, n))
      BY <1>9, <2>1 DEF LatestInv
    <2>3. CASE a = p /\ b = m /\ n = j
      <3>1. PICK v : v = View(p, m, j) /\ Shows(v, p, m, j)
        BY ViewShows
      <3>2. PICK w : w = View(p, m, j)' /\ Shows(w, p, m, j)'
        BY ViewShows
      <3>3. ViewTypes(v) /\ ViewTypes(w) /\ CaughtUp(v)
        BY <2>2, <2>3, <3>1, <3>2, ViewTyped
      <3>4. PICK S, T : /\ S = Streaming(p, m, j) /\ T = Streaming(p, m, j)'
                        /\ T = S \ {s} /\ s \in S /\ s.read
        <4>1. Streaming(p, m, j)' = Streaming(p, m, j) \ {s} /\ s \in Streaming(p, m, j)
          BY <1>2, <1>4 DEF Streaming
        <4> QED BY <4>1 DEF Route
      <3>5. hub'[p] = hub[p]
        BY <1>5, <1>9, <2>3
      <3>6. x \in v.sent /\ w.sent \subseteq v.sent /\ v.sent \subseteq w.sent \cup {x}
        <4>1. /\ v.sent = ({hub[p].outbox[m][j]} \ {NoAnnounce}) \cup {t.announce : t \in S}
              /\ w.sent = ({hub[p].outbox[m][j]} \ {NoAnnounce}) \cup {t.announce : t \in T}
          BY <3>1, <3>2, <3>4, <3>5 DEF Shows
        <4> QED BY <1>2, <3>4, <4>1
      <3>7. w.arrived \subseteq v.arrived /\ v.arrived # {}
        <4>1. v.arrived = {t \in S : t.read} /\ w.arrived = {t \in T : t.read}
          BY <3>1, <3>2, <3>4 DEF Shows
        <4> QED BY <3>4, <4>1
      <3>8. /\ w.link = v.link /\ w.sender = v.sender /\ w.source = v.source
            /\ w.published = v.published /\ w.top = v.top
        <4>1. w.link = v.link
          BY <1>4, <3>1, <3>2 DEF Shows
        <4>2. w.sender = v.sender
          BY <3>1, <3>2, <3>5 DEF Shows
        <4>3. w.source = v.source /\ w.published = v.published /\ w.top = v.top
          BY <3>1, <3>2, <3>5 DEF Shows
        <4> QED BY <4>1, <4>2, <4>3
      <3>9. w.receiver = v.receiver /\ w.id = v.id
        <4>1. k.conn = hub[m].conn /\ k.repos[j].id = hub[m].repos[j].id
          BY <1>6 DEF TellsNothing
        <4>2. w.receiver = k.conn[p] /\ w.id = k.repos[j].id
          BY <1>5, <3>2 DEF Shows
        <4>3. v.receiver = hub[m].conn[p] /\ v.id = hub[m].repos[j].id
          BY <3>1 DEF Shows
        <4> QED BY <4>1, <4>2, <4>3
      <3>10. w.todo = v.todo
        BY <1>4, <3>1, <3>2 DEF Shows
      <3>11. IF Counts(x, v.id) /\ v.seq < x.seq
             THEN w.seq = x.seq /\ w.heads = x.heads
             ELSE w.seq = v.seq /\ w.heads = v.heads
        <4>1. Hears(hub[m], k, p, j, x)
          BY <1>6, <2>1, <2>3 DEF Stays
        <4>2. w.seq = k.repos[j].inbox[p].seq /\ w.heads = k.repos[j].inbox[p].heads
          BY <1>5, <3>2 DEF Shows
        <4>3. /\ v.seq = hub[m].repos[j].inbox[p].seq /\ v.heads = hub[m].repos[j].inbox[p].heads
              /\ v.id = hub[m].repos[j].id
          BY <3>1 DEF Shows
        <4> QED BY <4>1, <4>2, <4>3 DEF Hears
      <3>12. CaughtUp(w)
        BY <3>3, <3>6, <3>7, <3>8, <3>9, <3>10, <3>11, RouteCaughtUp
      <3> QED BY <2>3, <3>2, <3>12
    <2>4. CASE ~(a = p /\ b = m /\ n = j)
      <3>1. Streaming(a, b, n)' = Streaming(a, b, n)
        BY <1>2, <1>4, <2>4 DEF Streaming
      <3>2. NothingTold(hub[a], hub'[a], b, n)
        <4>1. CASE a = m
          <5>1. hub[m].announceSeq \in Nat
            BY HubFacts, HubTypes
          <5> QED BY <1>5, <1>6, <4>1, <5>1 DEF NothingTold, TellsNothing
        <4>2. CASE a # m
          BY <1>5, <4>2, Unmoved
        <4> QED BY <4>1, <4>2
      <3>3. HearsNothing(hub[b], hub'[b], a, n)
        <4>1. CASE b = m
          BY <1>5, <1>6, <2>4, <4>1
        <4>2. CASE b # m
          BY <1>5, <4>2, Unmoved
        <4> QED BY <4>1, <4>2
      <3>4. StillHeard(a, b, n)
        BY <1>4, <3>3 DEF StillHeard
      <3> QED BY <1>4, <2>2, <3>1, <3>2, <3>4, TellingKeepsLatest
    <2> QED BY <2>3, <2>4
  <1> QED BY <1>8, <1>9 DEF LatestInv

\* A daemon that restarts ends its connections: none is left that it heard or
\* told anything over.
LEMMA RestartKeepsLatest ==
    ASSUME IInv, IInv', LatestInv, NEW m \in Machine, Restart(m)
    PROVE  LatestInv'
  <1>1. PICK id : id = [n \in RepoName |-> RepoIdOf(m, n)]
    OBVIOUS
  <1>2. \A n \in RepoName : id[n] = hub[m].repos[n].id /\ id[n] \in RepoId \cup {NoId}
    BY <1>1, Types DEF RepoIdOf
  <1>3. PICK k : k = [EmptyHub EXCEPT !.repos = [n \in RepoName |-> NewEntry(id[n])]]
    OBVIOUS
  <1>4. hub' = [hub EXCEPT ![m] = k]
    BY <1>1, <1>3 DEF Restart
  <1>5. hub'[m] = k /\ \A a \in Machine \ {m} : hub'[a] = hub[a]
    BY <1>4, Transit
  <1>6. /\ Numbered(k)
        /\ \A p \in Machine, n \in RepoName : k.conn[p] = 0 /\ k.outbox[p][n] = NoAnnounce
    <2>1. Numbered(k)
      BY <1>3, StartTells
    <2>2. \A p \in Machine, n \in RepoName : k.conn[p] = 0 /\ k.outbox[p][n] = NoAnnounce
      BY <1>3, StartTells
    <2> QED BY <2>1, <2>2
  <1>7. \A n \in RepoName, p \in Machine :
           /\ k.repos[n].id = hub[m].repos[n].id
           /\ k.repos[n].inbox[p].seq = 0 /\ k.repos[n].inbox[p].heads = {}
    <2>1. /\ \A n \in RepoName : k.repos[n].id = id[n]
          /\ \A n \in RepoName, p \in Machine : k.repos[n].inbox[p] = NoSlot
      BY <1>2, <1>3, StartFacts
    <2> QED BY <1>2, <2>1 DEF NoSlot
  <1>8. /\ \A n \in RepoName : task'[m][n].todo = {}
        /\ \A a \in Machine \ {m} : task'[a] = task[a]
    BY Transit DEF Restart, ClosedTask
  <1>9. /\ net' \subseteq net
        /\ \A s \in net : s.from # m /\ s.to # m => s \in net'
    BY DEF Restart
  <1>10. /\ \A pair \in Pairs : link'[pair] = IF m \in pair THEN 0 ELSE link[pair]
         /\ clone' = [clone EXCEPT ![m] = NoClone(SomeName)]
    BY DEF Restart
  <1>11. ScenarioKept
    BY KeptFacts DEF Restart
  <1>12. Once'
    <2>1. \A a \in Machine : Numbered(hub'[a])
      BY <1>5, <1>6, HubFacts
    <2>2. OneConnection' /\ (scenario'.conns = 1 => \A pair \in Pairs : link'[pair] = 0)
      BY <1>10, <1>11 DEF LatestInv, Once, OneConnection, ScenarioKept
    <2>3. ClonesMove(clone')
      BY <1>10, NoCloneMoves
    <2> QED BY <1>11, <2>1, <2>2, <2>3, OnceKept DEF ScenarioKept
  <1>13. ASSUME NEW a \in Machine, NEW b \in Machine, NEW n \in RepoName,
                a # b, Usable(a, b)', Stays(b, n)'
         PROVE  CaughtUp(View(a, b, n)')
    <2>1. Stays(b, n)
      BY <1>5, <1>7, <1>11, <1>13 DEF Stays, Registered, ScenarioKept
    <2>2. {a, b} \in Pairs
      BY <1>13, PairFacts
    <2>3. CASE scenario.conns = 1
      <3>1. CaughtUp(View(a, b, n)) /\ link[{a, b}] = 0
        BY <1>13, <2>1, <2>2, <2>3 DEF LatestInv, Once, Usable
      <3>2. PICK v : v = View(a, b, n) /\ Shows(v, a, b, n)
        BY ViewShows
      <3>3. PICK w : w = View(a, b, n)' /\ Shows(w, a, b, n)'
        BY ViewShows
      <3>4. /\ v.sender = 0 /\ v.receiver = 0 /\ v.sent = {} /\ v.arrived = {}
            /\ v.seq = 0 /\ v.heads = {} /\ v.todo = {}
        <4>1. v.link = 0
          BY <3>1, <3>2 DEF Shows
        <4> QED BY <3>1, <3>2, <4>1 DEF CaughtUp
      <3>5. Streaming(a, b, n) = {} /\ hub[a].outbox[b][n] = NoAnnounce
        <4>1. PICK S : S = Streaming(a, b, n)
          OBVIOUS
        <4>2. v.sent = ({hub[a].outbox[b][n]} \ {NoAnnounce}) \cup {s.announce : s \in S}
          BY <3>2, <4>1 DEF Shows
        <4>3. S = {}
          BY <3>4, <4>2
        <4>4. hub[a].outbox[b][n] = NoAnnounce
          BY <3>4, <4>2
        <4> QED BY <4>1, <4>3, <4>4
      <3>6. Streaming(a, b, n)' = {}
        BY <1>9, <3>5 DEF Streaming
      <3>7. hub'[a].conn[b] = 0 /\ hub'[a].outbox[b][n] = NoAnnounce
        <4>1. hub[a].conn[b] = 0
          BY <3>2, <3>4 DEF Shows
        <4>2. CASE a = m
          BY <1>5, <1>6, <4>2
        <4>3. CASE a # m
          BY <1>5, <3>5, <4>1, <4>3
        <4> QED BY <4>2, <4>3
      <3>8. /\ hub'[b].conn[a] = 0 /\ hub'[b].repos[n].inbox[a].seq = 0
            /\ hub'[b].repos[n].inbox[a].heads = {}
            /\ \A x \in task'[b][n].todo : x.peer # a
        <4>1. /\ hub[b].conn[a] = 0 /\ hub[b].repos[n].inbox[a].seq = 0
              /\ hub[b].repos[n].inbox[a].heads = {}
              /\ \A x \in task[b][n].todo : x.peer # a
          BY <3>2, <3>4 DEF Shows
        <4>2. CASE b = m
          BY <1>5, <1>6, <1>7, <1>8, <4>2
        <4>3. CASE b # m
          BY <1>5, <1>8, <4>1, <4>3
        <4> QED BY <4>2, <4>3
      <3>9. /\ w.sender = 0 /\ w.receiver = 0 /\ w.seq = 0 /\ w.heads = {}
        BY <3>3, <3>7, <3>8 DEF Shows
      <3>10. w.sent = {} /\ w.arrived = {}
        BY <3>3, <3>6, <3>7 DEF Shows
      <3>11. w.todo = {}
        BY <3>3, <3>8 DEF Shows
      <3>12. ViewTypes(w)
        BY <3>3, ViewTyped
      <3>13. CaughtUp(w)
        BY <3>9, <3>10, <3>11, <3>12, NothingSent
      <3> QED BY <3>3, <3>13
    <2>4. CASE scenario.conns # 1
      <3>1. a # m /\ b # m /\ link'[{a, b}] = link[{a, b}]
        BY <1>10, <1>11, <1>13, <2>2, <2>4 DEF Usable, ScenarioKept
      <3>2. CaughtUp(View(a, b, n))
        BY <1>11, <1>13, <2>1, <2>4, <3>1 DEF LatestInv, Usable, ScenarioKept
      <3>3. Streaming(a, b, n)' = Streaming(a, b, n)
        BY <1>9, <3>1 DEF Streaming
      <3>4. StillHeard(a, b, n) /\ NothingTold(hub[a], hub'[a], b, n)
        BY <1>5, <1>8, <3>1, Unmoved
      <3> QED BY <3>1, <3>2, <3>3, <3>4, TellingKeepsLatest
    <2> QED BY <2>3, <2>4
  <1> QED BY <1>12, <1>13 DEF LatestInv
-----------------------------------------------------------------------------
LEMMA InitLatest == Init /\ OneConnection => LatestInv
  <1> SUFFICES ASSUME Init, OneConnection PROVE LatestInv
    OBVIOUS
  <1>1. IInv
    BY InitIInv
  <1>2. ASSUME NEW m \in Machine
        PROVE  /\ Numbered(hub[m])
               /\ \A p \in Machine : hub[m].conn[p] = 0
               /\ \A p \in Machine, n \in RepoName :
                     /\ hub[m].outbox[p][n] = NoAnnounce
                     /\ hub[m].repos[n].inbox[p].seq = 0 /\ hub[m].repos[n].inbox[p].heads = {}
    <2>1. PICK id : id = [n \in RepoName |-> IF <<m, n>> \in scenario.held THEN n ELSE NoId]
      OBVIOUS
    <2>2. \A n \in RepoName : id[n] \in RepoId \cup {NoId}
      BY <2>1, SyncAssumption
    <2>3. PICK k : k = [EmptyHub EXCEPT !.repos = [n \in RepoName |-> NewEntry(id[n])]]
      OBVIOUS
    <2>4. hub[m] = k
      BY <2>1, <2>3 DEF Init
    <2>5. Numbered(k)
      BY <2>3, StartTells
    <2>6. /\ \A p \in Machine : k.conn[p] = 0
          /\ \A p \in Machine, n \in RepoName : k.outbox[p][n] = NoAnnounce
      BY <2>3, StartTells
    <2>7. \A n \in RepoName, p \in Machine : k.repos[n].inbox[p] = NoSlot
      BY <2>2, <2>3, StartFacts
    <2>8. NoSlot.seq = 0 /\ NoSlot.heads = {}
      BY DEF NoSlot
    <2> QED BY <2>4, <2>5, <2>6, <2>7, <2>8
  <1>3. /\ \A pair \in Pairs : link[pair] = 0
        /\ net = {} /\ \A m \in Machine : clone[m].id = NoId
        /\ \A m \in Machine, n \in RepoName : task[m][n].todo = {}
    BY DEF Init, NoClone, ClosedTask
  <1>4. Once
    BY <1>2, <1>3 DEF Once
  <1>5. ASSUME NEW a \in Machine, NEW b \in Machine, NEW n \in RepoName, a # b
        PROVE  CaughtUp(View(a, b, n))
    <2>1. PICK v : v = View(a, b, n) /\ Shows(v, a, b, n)
      BY ViewShows
    <2>2. Streaming(a, b, n) = {}
      BY <1>3 DEF Streaming
    <2>7. hub[a].conn[b] = 0 /\ hub[a].outbox[b][n] = NoAnnounce
      BY <1>2
    <2>8. /\ hub[b].conn[a] = 0 /\ hub[b].repos[n].inbox[a].seq = 0
          /\ hub[b].repos[n].inbox[a].heads = {}
      BY <1>2
    <2>3. v.sender = 0 /\ v.receiver = 0 /\ v.seq = 0 /\ v.heads = {}
      BY <2>1, <2>7, <2>8 DEF Shows
    <2>4. v.sent = {} /\ v.arrived = {}
      BY <2>1, <2>2, <2>7 DEF Shows
    <2>5. v.todo = {}
      BY <1>3, <2>1 DEF Shows
    <2>6. ViewTypes(v)
      BY <1>1, <2>1, ViewTyped
    <2> QED BY <2>1, <2>3, <2>4, <2>5, <2>6, NothingSent
  <1> QED BY <1>4, <1>5 DEF LatestInv

LEMMA NextKeepsLatest ==
    ASSUME IInv, IInv', LatestInv, [Next]_vars
    PROVE  LatestInv'
  <1>1. ASSUME NEW m \in Machine, NEW n \in RepoName, RepoStep(m, n) PROVE LatestInv'
    BY <1>1, OpenKeepsLatest, WakeKeepsLatest, HandleKeepsLatest, SettleKeepsLatest DEF RepoStep
  <1>2. ASSUME NEW a \in Machine, NEW b \in Machine, PeerStep(a, b) PROVE LatestInv'
    BY <1>2, AdoptKeepsLatest, NoticeLossKeepsLatest, SendKeepsLatest DEF PeerStep
  <1>3. ASSUME NEW s \in net, StreamStep(s) PROVE LatestInv'
    BY <1>3, ReadKeepsLatest, RouteKeepsLatest DEF StreamStep
  <1>4. CASE UNCHANGED vars
    <2>1. UNCHANGED <<hub, task, clone, link, net, scenario>>
      BY <1>4 DEF vars
    <2>2. Once'
      BY <2>1 DEF LatestInv, Once, OneConnection
    <2>3. ASSUME NEW a \in Machine, NEW b \in Machine, NEW n \in RepoName,
                 a # b, Usable(a, b)', Stays(b, n)'
          PROVE  CaughtUp(View(a, b, n)')
      <3>1. CaughtUp(View(a, b, n))
        BY <2>1, <2>3 DEF LatestInv, Usable, Stays
      <3>2. Streaming(a, b, n)' = Streaming(a, b, n)
        BY <2>1 DEF Streaming
      <3>3. StillHeard(a, b, n) /\ NothingTold(hub[a], hub'[a], b, n)
        BY <2>1, Unmoved
      <3> QED BY <2>1, <3>1, <3>2, <3>3, TellingKeepsLatest
    <2> QED BY <2>2, <2>3 DEF LatestInv
  <1>5. ASSUME NEW m \in Machine, NEW n \in RepoName,
               Operate(m, n) \/ ForgetRepo(m, n) \/ WatchEnds(m, n) \/ StartClone(m, n)
        PROVE  LatestInv'
    BY <1>5, OperateKeepsLatest, ForgetRepoKeepsLatest, WatchEndsKeepsLatest, StartCloneKeepsLatest
  <1>6. ASSUME NEW m \in Machine,
               PullClone(m) \/ EndClone(m) \/ CancelClone(m) \/ Restart(m)
        PROVE  LatestInv'
    BY <1>6, PullCloneKeepsLatest, EndCloneKeepsLatest, CancelCloneKeepsLatest, RestartKeepsLatest
  <1>7. CASE \E m \in Machine, n \in RepoName, id \in RepoId : AddRepo(m, n, id)
    BY <1>7, AddRepoKeepsLatest
  <1>8. CASE \E z \in stale : PublishStale(z) \/ StopStale(z)
    BY <1>8, StaleKeepsLatest
  <1>9. CASE \E pair \in Pairs : Connect(pair) \/ Disconnect(pair)
    BY <1>9, ConnectKeepsLatest, DisconnectKeepsLatest
  <1>10. ~Losses
    BY DEF LatestInv, Once, OneConnection, Losses
  <1>11. /\ \A m \in Machine, n \in RepoName : ~CheckPanics(m, n)
         /\ \A a, b \in Machine : ~SendTimesOut(a, b)
         /\ \A s \in net : ~DropStream(s)
    BY <1>10 DEF CheckPanics, SendTimesOut, DropStream
  <1> QED BY <1>1, <1>2, <1>3, <1>4, <1>5, <1>6, <1>7, <1>8, <1>9, <1>11 DEF Next

LEMMA LatestInvFits == IInv /\ LatestInv => LatestWins
  <1> SUFFICES ASSUME IInv, LatestInv, NEW a \in Machine, NEW b \in Machine, NEW n \in RepoName,
                      Quiet(a, b), <<b, n>> \notin scenario.moved, Registered(hub[b], n),
                      RepoIdOf(a, n) \in {NoId, RepoIdOf(b, n)}
               PROVE  \/ hub[b].repos[n].inbox[a].seq = 0
                      \/ hub[b].repos[n].inbox[a].heads = hub[a].repos[n].published
    BY DEF LatestWins
  <1>1. CaughtUp(View(a, b, n))
    BY DEF LatestInv, Usable, Stays, Quiet, Connected
  <1>2. PICK v : v = View(a, b, n) /\ Shows(v, a, b, n)
    BY ViewShows
  <1>3. v.sent = {}
    <2>1. hub[a].outbox[b][n] = NoAnnounce
      BY DEF Quiet, Pending
    <2>2. Streaming(a, b, n) = {}
      BY DEF Quiet, Streaming
    <2> QED BY <1>2, <2>1, <2>2 DEF Shows
  <1>4. v.seq \in Nat
    BY <1>2, ViewTyped DEF ViewTypes
  <1>5. v.source \in {NoId, v.id}
    BY <1>2 DEF Shows, RepoIdOf
  <1>6. v.seq = 0 \/ v.heads = v.published
    BY <1>1, <1>2, <1>3, <1>4, <1>5 DEF CaughtUp, Settled, Overtaken
  <1> QED BY <1>2, <1>6 DEF Shows

\* Latest wins, whatever the machines, the repos and the bounds of the
\* scenario, of which one connection is made and nothing sent over it is lost:
\* whatever order its streams are routed in, however fetches fail and are
\* retried, and however often the announcing machine drops the repo, when
\* nothing is on its way an inbox holds what was last published.
THEOREM LatestStands == Spec /\ OneConnection => []LatestWins
  <1>1. Init /\ OneConnection => LatestInv
    BY InitLatest
  <1>2. IInv /\ LatestInv /\ [Next]_vars => LatestInv'
    <2>1. IInv /\ [Next]_vars => IInv'
      BY NextHolds DEF Holds
    <2> QED BY <2>1, NextKeepsLatest
  <1>3. IInv /\ LatestInv => LatestWins
    BY LatestInvFits
  <1> QED BY Invariant, <1>1, <1>2, <1>3, PTL DEF Spec
=============================================================================
