---------------------------- MODULE PeersProofs ----------------------------
(***************************************************************************)
(* A removed peer is always cleaned up, for any number of machines,        *)
(* connections, aborted tasks and faults.  The property is not inductive:  *)
(* a removal aborts the task that would have to be there, and a task that  *)
(* registers late must be one that is running or aborted.                  *)
(***************************************************************************)
EXTENDS PeerConnections, TLAPS

\* A peer has exactly one task that was not aborted; anybody else has none.
OneRunningTask ==
    \A m, p \in Machine :
        /\ p \in paired[m] <=> \E s \in Slot : Running(m, p, s)
        /\ \A s, t \in Slot : Running(m, p, s) /\ Running(m, p, t) => s = t

GoneTasksWereAborted ==
    \A m, p \in Machine, s \in Slot : task[m][p][s].phase = "gone" => task[m][p][s].aborted

IInv == TypeOK /\ OneRunningTask /\ GoneTasksWereAborted /\ RevokedPeersAreCleanedUp

IsRunning(t) == t.phase # "none" /\ ~ t.aborted

----------------------------------------------------------------------------
LEMMA TypedTask ==
    ASSUME TypeOK, NEW m \in Machine, NEW p \in Machine, NEW s \in Slot
    PROVE  task[m][p][s] \in Tasks /\ Len(task[m][p][s].queue) <= INBOUND_QUEUE
  BY DEF TypeOK

LEMMA TypedNewTask ==
    /\ NoTask \in Tasks /\ NewTask \in Tasks
    /\ Len(NoTask.queue) <= INBOUND_QUEUE /\ Len(NewTask.queue) <= INBOUND_QUEUE
    /\ ~ IsRunning(NoTask) /\ IsRunning(NewTask)
    /\ NoTask.phase # "gone" /\ NewTask.phase # "gone"
  <1>1. NoTask \in Tasks /\ NewTask \in Tasks
    <2>1. <<>> \in Seq(Conn)
      OBVIOUS
    <2>2. NoTask \in Tasks
      BY <2>1 DEF NoTask, Tasks
    <2> QED BY <2>2 DEF NewTask, Tasks
  <1>2. Len(<<>>) <= INBOUND_QUEUE
    BY PeersAssumption
  <1>3. NoTask.queue = <<>> /\ NewTask.queue = <<>>
    BY DEF NoTask, NewTask
  <1>4. NoTask.phase = "none" /\ NewTask.phase = "dialing" /\ ~ NewTask.aborted
    BY DEF NoTask, NewTask
  <1> QED BY <1>1, <1>2, <1>3, <1>4 DEF IsRunning

\* A queue gives its head away.
LEMMA QueueFacts ==
    ASSUME NEW t \in Tasks, t.queue # <<>>
    PROVE  /\ Head(t.queue) \in Conn
           /\ Tail(t.queue) \in Seq(Conn)
           /\ Len(Tail(t.queue)) <= Len(t.queue)
  BY DEF Tasks

LEMMA ClosedTyped ==
    ASSUME TypeOK, NEW cs
    PROVE  Closed(cs) \in [Conn -> Conns]
  BY DEF TypeOK, Closed, Conns

LEMMA FaultTyped ==
    ASSUME TypeOK, Fault \/ Change \/ UNCHANGED scenario
    PROVE  scenario' \in Scenario
  <1>0. scenario \in Scenario
    BY DEF TypeOK
  <1>1. CASE Fault
    BY <1>0, <1>1 DEF Fault, Scenario
  <1>2. CASE Change
    BY <1>0, <1>2 DEF Change, Scenario
  <1> QED BY <1>0, <1>1, <1>2

\* SetTask changes one task.
LEMMA SetTaskFacts ==
    ASSUME TypeOK, NEW m \in Machine, NEW p \in Machine, NEW s \in Slot, NEW t \in Tasks,
           SetTask(m, p, s, t)
    PROVE  /\ task' \in [Machine -> [Machine -> [Slot -> Tasks]]]
           /\ task'[m][p][s] = t
           /\ \A n, q \in Machine, u \in Slot :
                n # m \/ q # p \/ u # s => task'[n][q][u] = task[n][q][u]
  BY DEF TypeOK, SetTask

\* A step of one task that neither starts nor stops it: the hub has a
\* connection only of a task that is running or aborted.
LEMMA OneTaskStep ==
    ASSUME IInv, NEW m \in Machine, NEW p \in Machine, NEW s \in Slot, NEW t \in Tasks,
           SetTask(m, p, s, t), Len(t.queue) <= INBOUND_QUEUE,
           IsRunning(t) <=> IsRunning(task[m][p][s]),
           t.phase = "gone" => t.aborted,
           conn' \in [Conn -> Conns],
           hub' \in [Machine -> [Machine -> Conn \cup {NoConn}]],
           \A n, q \in Machine : n # m \/ q # p => hub'[n][q] = hub[n][q],
           hub'[m][p] # NoConn =>
              /\ t.aborted <=> task[m][p][s].aborted
              /\ hub'[m][p] = hub[m][p] \/ IsRunning(t) \/ t.aborted,
           UNCHANGED paired, Fault \/ Change \/ UNCHANGED scenario
    PROVE  IInv'
  <1> USE DEF IInv
  <1>1. /\ task' \in [Machine -> [Machine -> [Slot -> Tasks]]]
        /\ task'[m][p][s] = t
        /\ \A n, q \in Machine, u \in Slot :
              n # m \/ q # p \/ u # s => task'[n][q][u] = task[n][q][u]
    BY SetTaskFacts
  <1>2. TypeOK'
    <2>1. \A n, q \in Machine, u \in Slot : Len(task'[n][q][u].queue) <= INBOUND_QUEUE
      BY <1>1 DEF TypeOK
    <2>2. scenario' \in Scenario
      BY FaultTyped
    <2>3. paired' \in [Machine -> SUBSET Machine]
      BY DEF TypeOK
    <2> QED BY <1>1, <2>1, <2>2, <2>3 DEF TypeOK
  <1>3. ASSUME NEW n \in Machine, NEW q \in Machine, NEW u \in Slot
        PROVE  Running(n, q, u)' <=> Running(n, q, u)
    <2>1. CASE n = m /\ q = p /\ u = s
      BY <1>1, <2>1 DEF Running, IsRunning
    <2>2. CASE n # m \/ q # p \/ u # s
      BY <1>1, <2>2 DEF Running
    <2> QED BY <2>1, <2>2
  <1>4. OneRunningTask'
    BY <1>3 DEF OneRunningTask
  <1>5. GoneTasksWereAborted'
    <2> SUFFICES ASSUME NEW n \in Machine, NEW q \in Machine, NEW u \in Slot,
                        task'[n][q][u].phase = "gone"
                 PROVE  task'[n][q][u].aborted
      BY DEF GoneTasksWereAborted
    <2>1. CASE n = m /\ q = p /\ u = s
      BY <1>1, <2>1
    <2>2. CASE n # m \/ q # p \/ u # s
      <3>1. task'[n][q][u] = task[n][q][u]
        BY <1>1, <2>2
      <3> QED BY <3>1 DEF GoneTasksWereAborted
    <2> QED BY <2>1, <2>2
  <1>6. RevokedPeersAreCleanedUp'
    <2> SUFFICES ASSUME NEW n \in Machine, NEW q \in Machine, hub'[n][q] # NoConn
                 PROVE  q \in paired[n] \/ \E u \in Slot : task'[n][q][u].aborted
      BY DEF RevokedPeersAreCleanedUp
    <2>1. CASE n # m \/ q # p
      <3>1. \A u \in Slot : task'[n][q][u] = task[n][q][u]
        BY <1>1, <2>1
      <3>2. hub[n][q] # NoConn
        BY <2>1
      <3> QED BY <3>1, <3>2 DEF RevokedPeersAreCleanedUp
    <2>2. CASE n = m /\ q = p
      <3>1. CASE hub'[m][p] = hub[m][p]
        <4>1. \A u \in Slot : task'[m][p][u].aborted <=> task[m][p][u].aborted
          <5> SUFFICES ASSUME NEW u \in Slot
                       PROVE  task'[m][p][u].aborted <=> task[m][p][u].aborted
            OBVIOUS
          <5>1. CASE u = s
            BY <1>1, <2>2, <5>1
          <5>2. CASE u # s
            BY <1>1, <5>2
          <5> QED BY <5>1, <5>2
        <4> QED BY <2>2, <3>1, <4>1 DEF RevokedPeersAreCleanedUp
      <3>2. CASE IsRunning(t)
        <4>1. Running(m, p, s)
          BY <3>2 DEF Running, IsRunning
        <4> QED BY <4>1, <2>2 DEF OneRunningTask
      <3>3. CASE t.aborted
        BY <1>1, <2>2, <3>3
      <3> QED BY <2>2, <3>1, <3>2, <3>3
    <2> QED BY <2>1, <2>2
  <1> QED BY <1>2, <1>4, <1>5, <1>6

----------------------------------------------------------------------------
\* The steps of a task.

\* What the hub holds is not touched.
LEMMA QuietTaskStep ==
    ASSUME IInv, NEW m \in Machine, NEW p \in Machine, NEW s \in Slot, NEW t \in Tasks,
           SetTask(m, p, s, t), Len(t.queue) <= INBOUND_QUEUE, Running(m, p, s),
           t.phase \notin {"none", "gone"}, t.aborted = task[m][p][s].aborted,
           conn' \in [Conn -> Conns],
           UNCHANGED <<paired, hub>>, Fault \/ Change \/ UNCHANGED scenario
    PROVE  IInv'
  <1>1. IsRunning(t) /\ IsRunning(task[m][p][s])
    BY DEF IsRunning, Running
  <1>2. hub' \in [Machine -> [Machine -> Conn \cup {NoConn}]]
    BY DEF IInv, TypeOK
  <1> QED BY <1>1, <1>2, OneTaskStep

LEMMA ConnTyped ==
    ASSUME TypeOK, NEW c \in Conn, NEW m \in Machine, NEW p \in Machine, NEW open \in BOOLEAN
    PROVE  [conn EXCEPT ![c] = Dialed(m, p, open)] \in [Conn -> Conns]
  BY DEF TypeOK, Dialed, Conns

LEMMA DialingSteps ==
    ASSUME IInv, NEW m \in Machine, NEW p \in Machine, NEW s \in Slot,
           BackoffEnds(m, p, s) \/ DialFails(m, p, s) \/ DialCompletes(m, p, s)
    PROVE  IInv'
  <1> DEFINE t == task[m][p][s]
  <1>1. t \in Tasks /\ Len(t.queue) <= INBOUND_QUEUE
    BY TypedTask DEF IInv
  <1>2. conn \in [Conn -> Conns]
    BY DEF IInv, TypeOK
  <1>3. CASE BackoffEnds(m, p, s)
    <2> DEFINE u == [t EXCEPT !.phase = "dialing"]
    <2>1. u \in Tasks /\ u.queue = t.queue /\ u.phase = "dialing" /\ u.aborted = t.aborted
      BY <1>1 DEF Tasks
    <2> HIDE DEF u
    <2> QED BY <1>1, <1>2, <1>3, <2>1, QuietTaskStep DEF BackoffEnds, u
  <1>4. CASE DialFails(m, p, s)
    <2> DEFINE u == [t EXCEPT !.phase = "backoff"]
    <2>1. u \in Tasks /\ u.queue = t.queue /\ u.phase = "backoff" /\ u.aborted = t.aborted
      BY <1>1 DEF Tasks
    <2> HIDE DEF u
    <2> QED BY <1>1, <1>2, <1>4, <2>1, QuietTaskStep DEF DialFails, u
  <1>5. CASE DialCompletes(m, p, s)
    <2>1. PICK c \in Conn :
              /\ conn' = [conn EXCEPT ![c] = Dialed(m, p, TRUE)]
              /\ SetTask(m, p, s, [t EXCEPT !.phase = "got", !.conn = c, !.outbound = TRUE])
      BY <1>5 DEF DialCompletes
    <2> DEFINE u == [t EXCEPT !.phase = "got", !.conn = c, !.outbound = TRUE]
    <2>2. u \in Tasks /\ u.queue = t.queue /\ u.phase = "got" /\ u.aborted = t.aborted
      BY <1>1 DEF Tasks
    <2>3. conn' \in [Conn -> Conns]
      BY <2>1, ConnTyped DEF IInv
    <2> HIDE DEF u
    <2> QED BY <1>1, <1>5, <2>1, <2>2, <2>3, QuietTaskStep DEF DialCompletes, u
  <1> QED BY <1>3, <1>4, <1>5

LEMMA AdoptIInv ==
    ASSUME IInv, NEW m \in Machine, NEW p \in Machine, NEW s \in Slot, Adopt(m, p, s)
    PROVE  IInv'
  <1> DEFINE t == task[m][p][s]
             u == [t EXCEPT !.phase = "got", !.conn = Head(t.queue), !.outbound = FALSE,
                            !.queue = Tail(@)]
  <1>1. t \in Tasks /\ Len(t.queue) <= INBOUND_QUEUE
    BY TypedTask DEF IInv
  <1>2. t.queue # <<>>
    BY DEF Adopt
  <1>3. /\ Head(t.queue) \in Conn /\ Tail(t.queue) \in Seq(Conn)
        /\ Len(Tail(t.queue)) <= Len(t.queue)
    BY <1>1, <1>2, QueueFacts
  <1>4. Len(Tail(t.queue)) <= INBOUND_QUEUE
    BY <1>1, <1>3, PeersAssumption DEF Tasks
  <1>5. u \in Tasks /\ u.queue = Tail(t.queue) /\ u.phase = "got" /\ u.aborted = t.aborted
    BY <1>1, <1>3 DEF Tasks
  <1>6. conn' \in [Conn -> Conns]
    <2>1. CASE UNCHANGED conn
      BY <2>1 DEF IInv, TypeOK
    <2>2. CASE \E c \in Conn : NextUnused(c) /\ conn' = [conn EXCEPT ![c] = Dialed(m, p, FALSE)]
      <3>1. PICK c \in Conn : conn' = [conn EXCEPT ![c] = Dialed(m, p, FALSE)]
        BY <2>2
      <3>2. conn \in [Conn -> Conns] /\ Dialed(m, p, FALSE) \in Conns
        BY DEF IInv, TypeOK, Dialed, Conns
      <3> QED BY <3>1, <3>2
    <2> QED BY <2>1, <2>2 DEF Adopt
  <1>7. UNCHANGED scenario \/ Fault
    BY DEF Adopt
  <1> HIDE DEF u
  <1> QED BY <1>4, <1>5, <1>6, <1>7, QuietTaskStep DEF Adopt, u

LEMMA RegisterIInv ==
    ASSUME IInv, NEW m \in Machine, NEW p \in Machine, NEW s \in Slot, Register(m, p, s)
    PROVE  IInv'
  <1> DEFINE t == task[m][p][s]
             u == [t EXCEPT !.phase = "connected"]
  <1>1. t \in Tasks /\ Len(t.queue) <= INBOUND_QUEUE /\ t.phase = "got"
    BY TypedTask DEF IInv, Register
  <1>2. u \in Tasks /\ u.queue = t.queue /\ u.phase = "connected" /\ u.aborted = t.aborted
    BY <1>1 DEF Tasks
  <1>3. IsRunning(u) \/ u.aborted
    BY <1>2 DEF IsRunning
  <1>4. IsRunning(u) <=> IsRunning(t)
    BY <1>1, <1>2 DEF IsRunning
  <1>5. conn' \in [Conn -> Conns]
    BY ClosedTyped DEF Register, IInv
  <1>6. hub' \in [Machine -> [Machine -> Conn \cup {NoConn}]]
    BY <1>1 DEF Register, IInv, TypeOK, Tasks
  <1>7. \A n, q \in Machine : n # m \/ q # p => hub'[n][q] = hub[n][q]
    BY DEF Register, IInv, TypeOK
  <1>8. SetTask(m, p, s, u) /\ UNCHANGED paired /\ UNCHANGED scenario
    BY DEF Register
  <1>9. u.aborted <=> t.aborted
    BY <1>2
  <1>10. Len(u.queue) <= INBOUND_QUEUE /\ u.phase # "gone"
    BY <1>1, <1>2
  <1> HIDE DEF u
  <1> QED BY <1>2, <1>3, <1>4, <1>5, <1>6, <1>7, <1>8, <1>9, <1>10, OneTaskStep

LEMMA DuplicateIInv ==
    ASSUME IInv, NEW m \in Machine, NEW p \in Machine, NEW s \in Slot, Duplicate(m, p, s)
    PROVE  IInv'
  <1> DEFINE t == task[m][p][s]
             kept == [t EXCEPT !.queue = Tail(@)]
             swapped == [t EXCEPT !.queue = Tail(@), !.conn = Head(t.queue), !.outbound = FALSE]
  <1>1. t \in Tasks /\ Len(t.queue) <= INBOUND_QUEUE /\ t.phase = "connected" /\ Running(m, p, s)
    BY TypedTask DEF IInv, Duplicate
  <1>2. t.queue # <<>>
    BY DEF Duplicate
  <1>3. /\ Head(t.queue) \in Conn /\ Tail(t.queue) \in Seq(Conn)
        /\ Len(Tail(t.queue)) <= Len(t.queue)
    BY <1>1, <1>2, QueueFacts
  <1>4. Len(Tail(t.queue)) <= INBOUND_QUEUE
    BY <1>1, <1>3, PeersAssumption DEF Tasks
  <1>5. CASE SetTask(m, p, s, kept) /\ UNCHANGED hub /\ conn' = Closed({Head(t.queue)})
    <2>1. /\ kept \in Tasks /\ kept.queue = Tail(t.queue) /\ kept.phase = "connected"
          /\ kept.aborted = t.aborted
      BY <1>1, <1>3 DEF Tasks
    <2>2. conn' \in [Conn -> Conns]
      BY <1>5, ClosedTyped DEF IInv
    <2> HIDE DEF kept
    <2> QED BY <1>1, <1>4, <1>5, <2>1, <2>2, QuietTaskStep DEF Duplicate
  <1>6. CASE /\ SetTask(m, p, s, swapped)
             /\ hub' = [hub EXCEPT ![m][p] = Head(t.queue)]
             /\ conn' = Closed({t.conn} \cup ({hub[m][p]} \ {task[m][p][u].conn : u \in Slot}))
    <2>1. /\ swapped \in Tasks /\ swapped.queue = Tail(t.queue) /\ swapped.phase = "connected"
          /\ swapped.aborted = t.aborted
      BY <1>1, <1>3 DEF Tasks
    <2>2. IsRunning(swapped) /\ IsRunning(t)
      BY <1>1, <2>1 DEF IsRunning, Running
    <2>3. conn' \in [Conn -> Conns]
      BY <1>6, ClosedTyped DEF IInv
    <2>4. /\ hub' \in [Machine -> [Machine -> Conn \cup {NoConn}]]
          /\ \A n, q \in Machine : n # m \/ q # p => hub'[n][q] = hub[n][q]
      BY <1>3, <1>6 DEF IInv, TypeOK
    <2>5. UNCHANGED paired /\ UNCHANGED scenario
      BY DEF Duplicate
    <2>6. swapped.aborted <=> t.aborted
      BY <2>1
    <2>7. Len(swapped.queue) <= INBOUND_QUEUE /\ swapped.phase # "gone"
      BY <1>4, <2>1
    <2> HIDE DEF swapped
    <2>8. IsRunning(swapped) <=> IsRunning(t)
      BY <2>2
    <2>9. SetTask(m, p, s, swapped)
      BY <1>6
    <2> QED BY <2>9, <2>1, <2>2, <2>3, <2>4, <2>5, <2>6, <2>7, <2>8, OneTaskStep
  <1> QED BY <1>5, <1>6 DEF Duplicate

\* A step of one task that empties the hub's entry.
LEMMA HubEmptied ==
    ASSUME IInv, NEW m \in Machine, NEW p \in Machine,
           hub' = [hub EXCEPT ![m][p] = NoConn]
    PROVE  /\ hub' \in [Machine -> [Machine -> Conn \cup {NoConn}]]
           /\ \A n, q \in Machine : n # m \/ q # p => hub'[n][q] = hub[n][q]
           /\ hub'[m][p] = NoConn
  BY DEF IInv, TypeOK

LEMMA SeesClosedIInv ==
    ASSUME IInv, NEW m \in Machine, NEW p \in Machine, NEW s \in Slot, SeesClosed(m, p, s)
    PROVE  IInv'
  <1> DEFINE t == task[m][p][s]
  <1>1. t \in Tasks /\ Len(t.queue) <= INBOUND_QUEUE /\ t.phase = "connected" /\ Running(m, p, s)
    BY TypedTask DEF IInv, SeesClosed
  <1>2. PICK phase \in {"backoff", "dialing"} :
            SetTask(m, p, s, [t EXCEPT !.phase = phase, !.conn = NoConn])
    BY DEF SeesClosed
  <1> DEFINE u == [t EXCEPT !.phase = phase, !.conn = NoConn]
  <1>3. u \in Tasks /\ u.queue = t.queue /\ u.phase = phase /\ u.aborted = t.aborted
    BY <1>1 DEF Tasks
  <1>4. IsRunning(u) /\ IsRunning(t)
    BY <1>1, <1>3 DEF IsRunning, Running
  <1>5. conn' \in [Conn -> Conns]
    BY ClosedTyped DEF IInv, SeesClosed
  <1>6. hub' = [hub EXCEPT ![m][p] = NoConn] /\ UNCHANGED paired /\ UNCHANGED scenario
    BY DEF SeesClosed
  <1>7. SetTask(m, p, s, u) /\ Len(u.queue) <= INBOUND_QUEUE /\ u.phase # "gone"
    BY <1>1, <1>2, <1>3
  <1> HIDE DEF u
  <1>8. IsRunning(u) <=> IsRunning(t)
    BY <1>4
  <1>9. /\ hub' \in [Machine -> [Machine -> Conn \cup {NoConn}]]
        /\ \A n, q \in Machine : n # m \/ q # p => hub'[n][q] = hub[n][q]
        /\ hub'[m][p] = NoConn
    BY <1>6, HubEmptied
  <1> QED BY <1>3, <1>5, <1>6, <1>7, <1>8, <1>9, OneTaskStep

LEMMA CleanUpIInv ==
    ASSUME IInv, NEW m \in Machine, NEW p \in Machine, NEW s \in Slot, CleanUp(m, p, s)
    PROVE  IInv'
  <1>1. task[m][p][s].phase = "gone" /\ task[m][p][s].aborted
    BY DEF IInv, GoneTasksWereAborted, CleanUp
  <1>2. ~ IsRunning(task[m][p][s])
    BY <1>1 DEF IsRunning
  <1>3. conn' \in [Conn -> Conns]
    BY ClosedTyped DEF IInv, CleanUp
  <1>4. /\ hub' = [hub EXCEPT ![m][p] = NoConn] /\ UNCHANGED paired /\ UNCHANGED scenario
        /\ SetTask(m, p, s, NoTask)
    BY DEF CleanUp
  <1>5. /\ hub' \in [Machine -> [Machine -> Conn \cup {NoConn}]]
        /\ \A n, q \in Machine : n # m \/ q # p => hub'[n][q] = hub[n][q]
        /\ hub'[m][p] = NoConn
    BY <1>4, HubEmptied
  <1>6. /\ NoTask \in Tasks /\ Len(NoTask.queue) <= INBOUND_QUEUE
        /\ ~ IsRunning(NoTask) /\ NoTask.phase # "gone"
    BY TypedNewTask
  <1> QED BY <1>2, <1>3, <1>4, <1>5, <1>6, OneTaskStep

\* The aborted task stays counted until the cleanup.
LEMMA AbortLandsIInv ==
    ASSUME IInv, NEW m \in Machine, NEW p \in Machine, NEW s \in Slot, AbortLands(m, p, s)
    PROVE  IInv'
  <1> DEFINE u == [NoTask EXCEPT !.phase = "gone", !.aborted = TRUE]
  <1>1. u \in Tasks /\ u.queue = NoTask.queue /\ u.phase = "gone" /\ u.aborted
    BY TypedNewTask DEF NoTask, Tasks
  <1>2. task[m][p][s].aborted
    BY DEF AbortLands
  <1>3. ~ IsRunning(u) /\ ~ IsRunning(task[m][p][s])
    BY <1>1, <1>2 DEF IsRunning
  <1>4. conn' \in [Conn -> Conns]
    BY ClosedTyped DEF IInv, AbortLands
  <1>5. UNCHANGED hub /\ UNCHANGED paired /\ UNCHANGED scenario /\ SetTask(m, p, s, u)
    BY DEF AbortLands
  <1>6. hub' \in [Machine -> [Machine -> Conn \cup {NoConn}]]
    BY <1>5 DEF IInv, TypeOK
  <1>7. Len(u.queue) <= INBOUND_QUEUE
    BY <1>1, TypedNewTask
  <1> HIDE DEF u
  <1> QED BY <1>1, <1>2, <1>3, <1>4, <1>5, <1>6, <1>7, OneTaskStep

----------------------------------------------------------------------------
\* The steps of the set of peers, and the world's.

LEMMA RouteInboundIInv ==
    ASSUME IInv, NEW c \in Conn, RouteInbound(c)
    PROVE  IInv'
  <1>0. PICK m \in Machine, p \in Machine : m = conn[c].acceptor /\ p = conn[c].dialer
    BY DEF IInv, TypeOK, Conns
  <1> DEFINE routed == [conn EXCEPT ![c].arriving = FALSE]
  <1>1. routed \in [Conn -> Conns] /\ [routed EXCEPT ![c].open = FALSE] \in [Conn -> Conns]
    BY DEF IInv, TypeOK, Conns
  <1>2. UNCHANGED paired /\ UNCHANGED hub /\ UNCHANGED scenario
    BY DEF RouteInbound
  <1>3. CASE \E s \in Slot : Running(m, p, s) /\ Len(task[m][p][s].queue) < INBOUND_QUEUE
    <2>1. PICK s \in Slot :
              /\ Running(m, p, s)
              /\ SetTask(m, p, s, [task[m][p][s] EXCEPT !.queue = Append(@, c)])
      BY <1>0, <1>3 DEF RouteInbound
    <2>2. conn' = routed
      BY <1>0, <1>3 DEF RouteInbound
    <2>3. Len(task[m][p][s].queue) < INBOUND_QUEUE
      BY <1>3, <2>1 DEF IInv, OneRunningTask
    <2>4. task[m][p][s] \in Tasks
      BY TypedTask DEF IInv
    <2> DEFINE q == task[m][p][s].queue
               u == [task[m][p][s] EXCEPT !.queue = Append(@, c)]
    <2>5. q \in Seq(Conn) /\ Append(q, c) \in Seq(Conn) /\ Len(Append(q, c)) = Len(q) + 1
          /\ Len(q) \in Nat
      BY <2>4 DEF Tasks
    <2>6. Len(Append(q, c)) <= INBOUND_QUEUE
      BY <2>3, <2>5, PeersAssumption
    <2>7. /\ u \in Tasks /\ u.queue = Append(q, c)
          /\ u.phase = task[m][p][s].phase /\ u.aborted = task[m][p][s].aborted
      BY <2>4, <2>5 DEF Tasks
    <2>8. u.phase \notin {"none", "gone"}
      BY <2>1, <2>7 DEF Running, IInv, GoneTasksWereAborted
    <2>9. conn' \in [Conn -> Conns]
      BY <1>1, <2>2
    <2> HIDE DEF u
    <2>10. SetTask(m, p, s, u) /\ Len(u.queue) <= INBOUND_QUEUE
      BY <2>1, <2>6, <2>7 DEF u
    <2> QED BY <1>2, <2>1, <2>7, <2>8, <2>9, <2>10, QuietTaskStep
  <1>4. CASE ~ \E s \in Slot : Running(m, p, s) /\ Len(task[m][p][s].queue) < INBOUND_QUEUE
    <2>1. conn' = [routed EXCEPT ![c].open = FALSE] /\ UNCHANGED task
      BY <1>0, <1>4 DEF RouteInbound
    <2> QED BY <1>1, <1>2, <2>1 DEF IInv, TypeOK, OneRunningTask, Running, GoneTasksWereAborted,
                                    RevokedPeersAreCleanedUp
  <1> QED BY <1>3, <1>4

LEMMA ConnectionLostIInv ==
    ASSUME IInv, NEW c \in Conn, ConnectionLost(c)
    PROVE  IInv'
  <1>1. conn' \in [Conn -> Conns] /\ scenario' \in Scenario
    BY ClosedTyped, FaultTyped DEF ConnectionLost, IInv
  <1>2. UNCHANGED paired /\ UNCHANGED hub /\ UNCHANGED task
    BY DEF ConnectionLost
  <1> QED BY <1>1, <1>2 DEF IInv, TypeOK, OneRunningTask, Running, GoneTasksWereAborted,
                            RevokedPeersAreCleanedUp

\* The running task of the removed peer becomes the one to clean up.
LEMMA RemovePeerIInv ==
    ASSUME IInv, NEW m \in Machine, NEW p \in Machine, RemovePeer(m, p)
    PROVE  IInv'
  <1> USE DEF IInv
  <1> DEFINE aborted(s) == [task[m][p][s] EXCEPT !.aborted = TRUE]
  <1>1. /\ paired' = [paired EXCEPT ![m] = @ \ {p}]
        /\ UNCHANGED hub
        /\ scenario' \in Scenario
        /\ p \in paired[m]
    BY FaultTyped DEF RemovePeer
  <1>2. conn' \in [Conn -> Conns]
    BY ClosedTyped DEF RemovePeer
  <1>3. ASSUME NEW s \in Slot
        PROVE  /\ aborted(s) \in Tasks /\ aborted(s).queue = task[m][p][s].queue
               /\ aborted(s).aborted /\ aborted(s).phase = task[m][p][s].phase
    <2>1. task[m][p][s] \in Tasks
      BY TypedTask
    <2> QED BY <2>1 DEF Tasks
  <1>4. task' = [task EXCEPT ![m][p] = [s \in Slot |->
                    IF Running(m, p, s) THEN aborted(s) ELSE task[m][p][s]]]
    BY DEF RemovePeer, TypeOK
  <1> HIDE DEF aborted
  <1>5. /\ task' \in [Machine -> [Machine -> [Slot -> Tasks]]]
        /\ \A s \in Slot : task'[m][p][s] = IF Running(m, p, s) THEN aborted(s) ELSE task[m][p][s]
        /\ \A n, q \in Machine, s \in Slot : n # m \/ q # p => task'[n][q][s] = task[n][q][s]
    BY <1>3, <1>4 DEF TypeOK
  <1>6. TypeOK'
    <2>1. ASSUME NEW n \in Machine, NEW q \in Machine, NEW s \in Slot
          PROVE  Len(task'[n][q][s].queue) <= INBOUND_QUEUE
      <3>1. CASE n = m /\ q = p
        <4>1. Len(task[m][p][s].queue) <= INBOUND_QUEUE
          BY TypedTask
        <4>2. task'[m][p][s].queue = task[m][p][s].queue
          BY <1>3, <1>5
        <4> QED BY <3>1, <4>1, <4>2
      <3>2. CASE n # m \/ q # p
        <4>1. Len(task[n][q][s].queue) <= INBOUND_QUEUE
          BY TypedTask
        <4> QED BY <1>5, <3>2, <4>1
      <3> QED BY <3>1, <3>2
    <2>2. paired' \in [Machine -> SUBSET Machine]
      BY <1>1 DEF TypeOK
    <2> QED BY <1>1, <1>2, <1>5, <2>1, <2>2 DEF TypeOK
  <1>7. \A n, q \in Machine, s \in Slot :
            Running(n, q, s)' <=> (n # m \/ q # p) /\ Running(n, q, s)
    <2> SUFFICES ASSUME NEW n \in Machine, NEW q \in Machine, NEW s \in Slot
                 PROVE  Running(n, q, s)' <=> (n # m \/ q # p) /\ Running(n, q, s)
      OBVIOUS
    <2>1. CASE n # m \/ q # p
      BY <1>5, <2>1 DEF Running
    <2>2. CASE n = m /\ q = p
      <3>1. CASE Running(m, p, s)
        BY <1>3, <1>5, <2>2, <3>1 DEF Running
      <3>2. CASE ~ Running(m, p, s)
        BY <1>5, <2>2, <3>2 DEF Running
      <3> QED BY <3>1, <3>2
    <2> QED BY <2>1, <2>2
  <1>8. OneRunningTask'
    BY <1>1, <1>7 DEF OneRunningTask, TypeOK
  <1>9. \A n, q \in Machine, s \in Slot :
            /\ task'[n][q][s].phase = task[n][q][s].phase
            /\ task[n][q][s].aborted => task'[n][q][s].aborted
    <2> SUFFICES ASSUME NEW n \in Machine, NEW q \in Machine, NEW s \in Slot
                 PROVE  /\ task'[n][q][s].phase = task[n][q][s].phase
                        /\ task[n][q][s].aborted => task'[n][q][s].aborted
      OBVIOUS
    <2>1. CASE n # m \/ q # p
      BY <1>5, <2>1
    <2>2. CASE n = m /\ q = p
      <3>1. CASE Running(m, p, s)
        BY <1>3, <1>5, <2>2, <3>1
      <3>2. CASE ~ Running(m, p, s)
        BY <1>5, <2>2, <3>2
      <3> QED BY <3>1, <3>2
    <2> QED BY <2>1, <2>2
  <1>10. GoneTasksWereAborted'
    BY <1>9 DEF GoneTasksWereAborted
  <1>11. RevokedPeersAreCleanedUp'
    <2> SUFFICES ASSUME NEW n \in Machine, NEW q \in Machine, hub[n][q] # NoConn
                 PROVE  q \in paired'[n] \/ \E s \in Slot : task'[n][q][s].aborted
      BY <1>1 DEF RevokedPeersAreCleanedUp
    <2>1. CASE n = m /\ q = p
      <3>1. PICK s \in Slot : Running(m, p, s)
        BY <1>1 DEF OneRunningTask
      <3> QED BY <1>3, <1>5, <2>1, <3>1
    <2>2. CASE n # m \/ q # p
      <3>1. q \in paired[n] \/ \E s \in Slot : task[n][q][s].aborted
        BY DEF RevokedPeersAreCleanedUp
      <3>2. q \in paired[n] => q \in paired'[n]
        BY <1>1, <2>2 DEF TypeOK
      <3> QED BY <1>9, <3>1, <3>2
    <2> QED BY <2>1, <2>2
  <1> QED BY <1>6, <1>8, <1>10, <1>11

LEMMA AddPeerIInv ==
    ASSUME IInv, NEW m \in Machine, NEW p \in Machine, AddPeer(m, p)
    PROVE  IInv'
  <1> USE DEF IInv
  <1>1. PICK s \in Slot : task[m][p][s].phase = "none" /\ SetTask(m, p, s, NewTask)
    BY DEF AddPeer
  <1>2. /\ paired' = [paired EXCEPT ![m] = @ \cup {p}] /\ p \notin paired[m]
        /\ hub' = hub /\ conn' = conn
        /\ scenario' \in Scenario
    BY FaultTyped DEF AddPeer
  <1>3. /\ task' \in [Machine -> [Machine -> [Slot -> Tasks]]]
        /\ task'[m][p][s] = NewTask
        /\ \A n, q \in Machine, u \in Slot :
              n # m \/ q # p \/ u # s => task'[n][q][u] = task[n][q][u]
    BY <1>1, TypedNewTask, SetTaskFacts
  <1>4. TypeOK'
    <2>1. ASSUME NEW n \in Machine, NEW q \in Machine, NEW u \in Slot
          PROVE  Len(task'[n][q][u].queue) <= INBOUND_QUEUE
      <3>1. CASE n = m /\ q = p /\ u = s
        BY <1>3, <3>1, TypedNewTask
      <3>2. CASE n # m \/ q # p \/ u # s
        <4>1. task'[n][q][u] = task[n][q][u]
          BY <1>3, <3>2
        <4> QED BY <4>1, TypedTask
      <3> QED BY <3>1, <3>2
    <2> QED BY <1>2, <1>3, <2>1 DEF TypeOK
  <1>5. \A n, q \in Machine, u \in Slot :
            Running(n, q, u)' <=> Running(n, q, u) \/ (n = m /\ q = p /\ u = s)
    BY <1>3, TypedNewTask DEF Running, IsRunning
  <1>6. \A u \in Slot : ~ Running(m, p, u)
    BY <1>2 DEF OneRunningTask
  <1>7. \A n, q \in Machine : q \in paired'[n] <=> q \in paired[n] \/ (n = m /\ q = p)
    BY <1>2 DEF TypeOK
  <1>8. OneRunningTask'
    BY <1>5, <1>6, <1>7 DEF OneRunningTask
  <1>9. GoneTasksWereAborted'
    <2> SUFFICES ASSUME NEW n \in Machine, NEW q \in Machine, NEW u \in Slot,
                        task'[n][q][u].phase = "gone"
                 PROVE  task'[n][q][u].aborted
      BY DEF GoneTasksWereAborted
    <2>1. n # m \/ q # p \/ u # s
      BY <1>3, TypedNewTask
    <2>2. task'[n][q][u] = task[n][q][u]
      BY <1>3, <2>1
    <2> QED BY <2>2 DEF GoneTasksWereAborted
  <1>10. RevokedPeersAreCleanedUp'
    <2> SUFFICES ASSUME NEW n \in Machine, NEW q \in Machine, hub[n][q] # NoConn,
                        q \notin paired'[n]
                 PROVE  \E u \in Slot : task'[n][q][u].aborted
      BY <1>2 DEF RevokedPeersAreCleanedUp
    <2>1. q \notin paired[n] /\ (n # m \/ q # p)
      BY <1>7
    <2>2. PICK u \in Slot : task[n][q][u].aborted
      BY <2>1 DEF RevokedPeersAreCleanedUp
    <2>3. task'[n][q][u] = task[n][q][u]
      BY <1>3, <2>1
    <2> QED BY <2>2, <2>3
  <1> QED BY <1>4, <1>8, <1>9, <1>10

\* The tasks a daemon starts with.
StartedTask(m, p, s) ==
    IF p \in paired[m] /\ \A t \in Slot : s <= t THEN NewTask ELSE NoTask

LEMMA StartedTasks ==
    ASSUME NEW m \in Machine, NEW p \in Machine
    PROVE  /\ \A s \in Slot :
                /\ StartedTask(m, p, s) \in Tasks
                /\ Len(StartedTask(m, p, s).queue) <= INBOUND_QUEUE
                /\ StartedTask(m, p, s).phase # "gone"
           /\ p \in paired[m] <=> \E s \in Slot : IsRunning(StartedTask(m, p, s))
           /\ \A s, t \in Slot :
                IsRunning(StartedTask(m, p, s)) /\ IsRunning(StartedTask(m, p, t)) => s = t
  <1>1. \A s \in Slot :
            IsRunning(StartedTask(m, p, s)) <=> p \in paired[m] /\ \A t \in Slot : s <= t
    BY TypedNewTask DEF StartedTask
  <1>2. \E s \in Slot : \A t \in Slot : s <= t
    BY PeersAssumption
  <1>3. \A s, t \in Slot : s <= t /\ t <= s => s = t
    <2>1. Slot \subseteq Nat
      BY PeersAssumption
    <2>2. \A i, j \in Nat : i <= j /\ j <= i => i = j
      OBVIOUS
    <2> QED BY <2>1, <2>2
  <1> QED BY <1>1, <1>2, <1>3, TypedNewTask DEF StartedTask

LEMMA RestartIInv ==
    ASSUME IInv, NEW m \in Machine, Restart(m)
    PROVE  IInv'
  <1> USE DEF IInv
  <1>1. paired' = paired /\ scenario' \in Scenario
    BY FaultTyped DEF Restart
  <1>2. conn' \in [Conn -> Conns]
    BY DEF Restart, TypeOK, Conns
  <1>3. task' = [task EXCEPT ![m] = [p \in Machine |-> [s \in Slot |-> StartedTask(m, p, s)]]]
    BY DEF Restart, StartedTask
  <1>4. hub' = [hub EXCEPT ![m] = [p \in Machine |-> NoConn]]
    BY DEF Restart
  <1>5. /\ task' \in [Machine -> [Machine -> [Slot -> Tasks]]]
        /\ \A p \in Machine, s \in Slot : task'[m][p][s] = StartedTask(m, p, s)
        /\ \A n, p \in Machine, s \in Slot : n # m => task'[n][p][s] = task[n][p][s]
    BY <1>3, StartedTasks DEF TypeOK
  <1>6. /\ hub' \in [Machine -> [Machine -> Conn \cup {NoConn}]]
        /\ \A p \in Machine : hub'[m][p] = NoConn
        /\ \A n, p \in Machine : n # m => hub'[n][p] = hub[n][p]
    BY <1>4 DEF TypeOK
  <1>7. TypeOK'
    <2>1. ASSUME NEW n \in Machine, NEW p \in Machine, NEW s \in Slot
          PROVE  Len(task'[n][p][s].queue) <= INBOUND_QUEUE
      <3>1. CASE n = m
        <4>1. task'[n][p][s] = StartedTask(m, p, s)
          BY <1>5, <3>1
        <4> QED BY <4>1, StartedTasks
      <3>2. CASE n # m
        <4>1. task'[n][p][s] = task[n][p][s]
          BY <1>5, <3>2
        <4> QED BY <4>1, TypedTask
      <3> QED BY <3>1, <3>2
    <2> QED BY <1>1, <1>2, <1>5, <1>6, <2>1 DEF TypeOK
  <1>8. OneRunningTask'
    <2> SUFFICES ASSUME NEW n \in Machine, NEW p \in Machine
                 PROVE  /\ p \in paired[n] <=> \E s \in Slot : Running(n, p, s)'
                        /\ \A s, t \in Slot : Running(n, p, s)' /\ Running(n, p, t)' => s = t
      BY <1>1 DEF OneRunningTask
    <2>1. CASE n # m
      <3>1. \A s \in Slot : task'[n][p][s] = task[n][p][s]
        BY <1>5, <2>1
      <3>2. \A s \in Slot : Running(n, p, s)' <=> Running(n, p, s)
        BY <3>1 DEF Running
      <3> QED BY <3>2 DEF OneRunningTask
    <2>2. CASE n = m
      <3>1. \A s \in Slot : Running(n, p, s)' <=> IsRunning(StartedTask(m, p, s))
        BY <1>5, <2>2 DEF Running, IsRunning
      <3> QED BY <2>2, <3>1, StartedTasks
    <2> QED BY <2>1, <2>2
  <1>9. GoneTasksWereAborted'
    <2> SUFFICES ASSUME NEW n \in Machine, NEW p \in Machine, NEW s \in Slot,
                        task'[n][p][s].phase = "gone"
                 PROVE  task'[n][p][s].aborted
      BY DEF GoneTasksWereAborted
    <2>1. n # m
      BY <1>5, StartedTasks
    <2>2. task'[n][p][s] = task[n][p][s]
      BY <1>5, <2>1
    <2> QED BY <2>2 DEF GoneTasksWereAborted
  <1>10. RevokedPeersAreCleanedUp'
    <2> SUFFICES ASSUME NEW n \in Machine, NEW p \in Machine, hub'[n][p] # NoConn
                 PROVE  p \in paired[n] \/ \E s \in Slot : task'[n][p][s].aborted
      BY <1>1 DEF RevokedPeersAreCleanedUp
    <2>1. n # m
      BY <1>6
    <2>2. hub[n][p] # NoConn
      BY <1>6, <2>1
    <2>3. \A s \in Slot : task'[n][p][s] = task[n][p][s]
      BY <1>5, <2>1
    <2> QED BY <2>2, <2>3 DEF RevokedPeersAreCleanedUp
  <1> QED BY <1>7, <1>8, <1>9, <1>10

----------------------------------------------------------------------------
LEMMA InitIInv == Init => IInv
  <1> SUFFICES ASSUME Init PROVE IInv
    OBVIOUS
  <1>1. scenario \in Scenario /\ paired \in [Machine -> SUBSET Machine]
    BY PeersAssumption DEF Init, Scenario
  <1>2. \A m, p \in Machine, s \in Slot : task[m][p][s] = StartedTask(m, p, s)
    BY DEF Init, StartedTask
  <1>3. task \in [Machine -> [Machine -> [Slot -> Tasks]]]
    <2>1. task = [m \in Machine |-> [p \in Machine |-> [s \in Slot |-> StartedTask(m, p, s)]]]
      BY DEF Init, StartedTask
    <2> QED BY <2>1, StartedTasks
  <1>4. (CHOOSE m \in Machine : TRUE) \in Machine
    BY PeersAssumption
  <1>5. conn \in [Conn -> Conns]
    BY <1>4 DEF Init, Conns
  <1>6. TypeOK
    BY <1>1, <1>2, <1>3, <1>5, StartedTasks DEF TypeOK, Init
  <1>7. OneRunningTask
    <2>1. \A m, p \in Machine, s \in Slot : Running(m, p, s) <=> IsRunning(StartedTask(m, p, s))
      BY <1>2 DEF Running, IsRunning
    <2> QED BY <2>1, StartedTasks DEF OneRunningTask
  <1>8. GoneTasksWereAborted
    BY <1>2, StartedTasks DEF GoneTasksWereAborted
  <1>9. RevokedPeersAreCleanedUp
    BY DEF Init, RevokedPeersAreCleanedUp
  <1> QED BY <1>6, <1>7, <1>8, <1>9 DEF IInv

LEMMA NextIInv == IInv /\ [Next]_vars => IInv'
  <1> SUFFICES ASSUME IInv, [Next]_vars PROVE IInv'
    OBVIOUS
  <1>1. ASSUME NEW m \in Machine, NEW p \in Machine, NEW s \in Slot, TaskStep(m, p, s) PROVE IInv'
    <2>1. CASE BackoffEnds(m, p, s) \/ DialFails(m, p, s) \/ DialCompletes(m, p, s)
      BY <2>1, DialingSteps
    <2>2. CASE Adopt(m, p, s)
      BY <2>2, AdoptIInv
    <2>3. CASE Register(m, p, s)
      BY <2>3, RegisterIInv
    <2>4. CASE Duplicate(m, p, s)
      BY <2>4, DuplicateIInv
    <2>5. CASE SeesClosed(m, p, s)
      BY <2>5, SeesClosedIInv
    <2>6. CASE AbortLands(m, p, s)
      BY <2>6, AbortLandsIInv
    <2>7. CASE CleanUp(m, p, s)
      BY <2>7, CleanUpIInv
    <2> QED BY <1>1, <2>1, <2>2, <2>3, <2>4, <2>5, <2>6, <2>7 DEF TaskStep
  <1>2. ASSUME NEW m \in Machine, NEW p \in Machine, RemovePeer(m, p) \/ AddPeer(m, p) PROVE IInv'
    BY <1>2, RemovePeerIInv, AddPeerIInv
  <1>3. ASSUME NEW c \in Conn, RouteInbound(c) \/ ConnectionLost(c) PROVE IInv'
    BY <1>3, RouteInboundIInv, ConnectionLostIInv
  <1>4. ASSUME NEW m \in Machine, Restart(m) PROVE IInv'
    BY <1>4, RestartIInv
  <1>5. CASE UNCHANGED vars
    BY <1>5 DEF vars, IInv, TypeOK, OneRunningTask, Running, GoneTasksWereAborted,
                RevokedPeersAreCleanedUp
  <1> QED BY <1>1, <1>2, <1>3, <1>4, <1>5 DEF Next

\* The inductive invariant of the peer tasks: every peer has exactly one task
\* that was not aborted.
THEOREM Invariant == Spec => []IInv
  BY InitIInv, NextIInv, PTL DEF Spec

\* Every state is one the daemons can hold, and no task's queue of inbound
\* connections exceeds INBOUND_QUEUE (PeerSet::route_inbound).
THEOREM TypeCorrect == Spec => []TypeOK
  <1>1. IInv => TypeOK
    BY DEF IInv
  <1> QED BY <1>1, Invariant, PTL

\* A removed peer is never left registered in the hub without a cleanup to
\* come, whatever its task did around its abort (PeerSet::sync).
THEOREM Revoked == Spec => []RevokedPeersAreCleanedUp
  <1>1. IInv => RevokedPeersAreCleanedUp
    BY DEF IInv
  <1> QED BY <1>1, Invariant, PTL
============================================================================
