--------------------------- MODULE PairingProofs ---------------------------
(***************************************************************************)
(* Pairing is safe for any number of machines, tickets, permits, strays    *)
(* and faults.  None of the properties is inductive: a ticket is redeemed  *)
(* once because it is outstanding at one host only and has registered      *)
(* nobody while it is, and what a side may save rests on what both sides   *)
(* have answered before, through every way an exchange can end early.      *)
(***************************************************************************)
EXTENDS Pairing, FiniteSetTheorems, TLAPS

TypeParts ==
    /\ peers \in [Machine -> SUBSET Machine]
    /\ hostOf \in [Ticket -> SUBSET Machine]
    /\ issued \in [Machine -> Issued]
    /\ hosting \in [Machine -> Nat]
    /\ exchange \in [Machine -> Exchanges]
    /\ registered \in [Ticket -> Nat]
    /\ scenario \in Scenario

PermitsBounded == \A h \in Machine : Cardinality(Permits(h)) <= MAX_EXCHANGES

\* An outstanding ticket is its host's alone and has registered nobody.
TicketsSound ==
    /\ \A h \in Machine :
        issued[h].ticket # NoTicket =>
            hostOf[issued[h].ticket] = {h} /\ registered[issued[h].ticket] = 0
    /\ \A t \in Ticket : registered[t] <= 1 /\ (hostOf[t] = {} => registered[t] = 0)

\* How far an exchange of j has come tells what both sides have answered.
ExchangeSound(j, x, reg, refused) ==
    /\ x.knowsHost \/ x.knowsJoiner => {<<x.host, j>>, <<j, x.host>>} \cap refused = {}
    /\ x.answer = "welcome" => <<x.host, j>> \notin refused
    /\ x.sent = "done" => <<j, x.host>> \notin refused /\ x.answer = "welcome"
    /\ x.server \in {"welcomed", "redeem"} => x.secret = x.ticket /\ x.answer = "welcome"
    /\ x.server = "redeem" => x.sent = "done"
    /\ x.server \in {"inbound", "hello"} => x.answer = "none"
    /\ x.joiner = "hello" => x.sent = "hello"
    /\ x.joiner \in {"done", "save"} => x.sent = "done"
    /\ x.close = "paired" => x.secret \in Ticket /\ reg[x.secret] = 1
    /\ x.joiner = "save" => x.secret \in Ticket /\ reg[x.secret] = 1

ExchangesSound ==
    \A j \in Machine : ExchangeSound(j, exchange[j], registered, scenario.refused)

IInv ==
    /\ TypeParts
    /\ PermitsBounded
    /\ TicketsSound
    /\ ExchangesSound
    /\ NoSidePersistsARefusal

----------------------------------------------------------------------------
\* Set changes one exchange, to x or to none.
LEMMA SetFacts ==
    ASSUME NEW j \in Machine, NEW x \in Exchanges, TypeParts, Set(j, x)
    PROVE  /\ exchange' \in [Machine -> Exchanges]
           /\ exchange'[j] = x \/ exchange'[j] = NoExchange(j)
           /\ \A k \in Machine \ {j} : exchange'[k] = exchange[k]
  BY DEF TypeParts, Set, Exchanges, NoExchange

\* An exchange that is over says nothing.
LEMMA NoExchangeSound ==
    ASSUME NEW j \in Machine, NEW reg, NEW refused
    PROVE  ExchangeSound(j, NoExchange(j), reg, refused)
  BY DEF ExchangeSound, NoExchange

\* The host of a step on exchange j that takes no permit keeps its bound.
LEMMA PermitsKept ==
    ASSUME NEW j \in Machine, NEW x \in Exchanges, TypeParts, PermitsBounded, Set(j, x),
           x.server \in {"idle", "inbound"}
             \/ (x.host = exchange[j].host /\ exchange[j].server \notin {"idle", "inbound"})
    PROVE  PermitsBounded'
  <1> SUFFICES ASSUME NEW h \in Machine PROVE Cardinality(Permits(h)') <= MAX_EXCHANGES
    BY DEF PermitsBounded
  <1>1. Permits(h)' \subseteq Permits(h)
    <2>1. /\ exchange'[j] = x \/ exchange'[j] = NoExchange(j)
          /\ \A k \in Machine \ {j} : exchange'[k] = exchange[k]
      BY SetFacts
    <2>2. SUFFICES ASSUME NEW k \in Machine, exchange'[k].host = h,
                          exchange'[k].server \notin {"idle", "inbound"}
                   PROVE  exchange[k].host = h /\ exchange[k].server \notin {"idle", "inbound"}
      BY DEF Permits
    <2>3. CASE k # j
      BY <2>1, <2>2, <2>3
    <2>4. CASE k = j
      <3>1. NoExchange(j).server = "idle"
        BY DEF NoExchange
      <3>2. exchange'[j] = x
        BY <2>1, <2>2, <2>4, <3>1
      <3> QED BY <3>2, <2>2, <2>4
    <2> QED BY <2>3, <2>4
  <1>2. IsFiniteSet(Permits(h))
    BY PairingAssumption, FS_Subset DEF Permits
  <1>3. Cardinality(Permits(h)') <= Cardinality(Permits(h))
    BY <1>1, <1>2, FS_Subset
  <1>4. IsFiniteSet(Permits(h)') /\ Cardinality(Permits(h)) \in Nat /\ Cardinality(Permits(h)') \in Nat
    BY <1>1, <1>2, FS_Subset, FS_CardinalityType
  <1> QED BY <1>3, <1>4, PairingAssumption DEF PermitsBounded

\* What the bounds of a scenario count does not change what it refuses.
LEMMA ScenarioTyped ==
    ASSUME TypeParts, UNCHANGED scenario \/ Fault \/ Stray
    PROVE  scenario' \in Scenario /\ scenario'.refused = scenario.refused
  <1>0. scenario \in Scenario
    BY DEF TypeParts
  <1>1. CASE Fault
    BY <1>0, <1>1 DEF Fault, Scenario
  <1>2. CASE Stray
    BY <1>0, <1>2 DEF Stray, Scenario
  <1> QED BY <1>0, <1>1, <1>2

\* One exchange of j moves on to x, soundly, and nothing else changes but
\* what the bounds of the scenario count.
LEMMA ExchangeStep ==
    ASSUME NEW j \in Machine, NEW x \in Exchanges, IInv, Set(j, x),
           x.server \in {"idle", "inbound"}
             \/ (x.host = exchange[j].host /\ exchange[j].server \notin {"idle", "inbound"}),
           ExchangeSound(j, x, registered, scenario.refused),
           UNCHANGED <<peers, hostOf, issued, hosting, registered>>,
           UNCHANGED scenario \/ Fault \/ Stray
    PROVE  IInv'
  <1> USE DEF IInv
  <1>1. scenario' \in Scenario /\ scenario'.refused = scenario.refused
    BY ScenarioTyped
  <1>2. TypeParts'
    BY <1>1, SetFacts DEF TypeParts
  <1>3. PermitsBounded'
    BY PermitsKept
  <1>4. TicketsSound'
    BY DEF TicketsSound
  <1>5. ExchangesSound'
    BY <1>1, SetFacts, NoExchangeSound DEF ExchangesSound
  <1>6. NoSidePersistsARefusal'
    BY <1>1 DEF NoSidePersistsARefusal
  <1> QED BY <1>2, <1>3, <1>4, <1>5, <1>6

----------------------------------------------------------------------------
\* The steps of one exchange, at the joiner and at the host.

LEMMA Known ==
    ASSUME IInv, NEW j \in Machine
    PROVE  exchange[j] \in Exchanges /\ ExchangeSound(j, exchange[j], registered, scenario.refused)
  BY DEF IInv, TypeParts, ExchangesSound

\* y is x with a side gone, or the connection closed otherwise than by the
\* confirmation.
Ends(x, y) ==
    /\ y.host = x.host /\ y.secret = x.secret /\ y.ticket = x.ticket
    /\ y.sent = x.sent /\ y.answer = x.answer
    /\ y.knowsHost = x.knowsHost /\ y.knowsJoiner = x.knowsJoiner
    /\ y.joiner \in {x.joiner, "idle"}
    /\ y.server \in {x.server, "idle"}
    /\ y.close = "paired" => x.close = "paired"

Reasons ==
    {"open", "busy", "timeout", "cancelled", "rejected", "failed", "paired", "lost"}

\* An exchange whose host's end is over and which is closed as c.
ServerOver(x, c) == [x EXCEPT !.server = "idle", !.close = c]

\* And one whose joiner's end is over.
JoinerOver(x, c) == [x EXCEPT !.joiner = "idle", !.close = c]

LEMMA ServerEnded ==
    ASSUME NEW x \in Exchanges, NEW c \in Reasons
    PROVE  /\ ServerOver(x, c) \in Exchanges
           /\ ServerOver(x, c).server = "idle" /\ ServerOver(x, c).close = c
           /\ (c = "paired" => x.close = "paired") => Ends(x, ServerOver(x, c))
  <1> DEFINE u == [x EXCEPT !.server = "idle"]
             y == [u EXCEPT !.close = c]
  <1>1. u \in Exchanges
    BY DEF Exchanges
  <1>2. u.server = "idle" /\ u.close = x.close /\ Ends(x, u)
    BY DEF Exchanges, Ends
  <1> HIDE DEF u
  <1>3. y \in Exchanges
    BY <1>1 DEF Exchanges, Reasons
  <1>4. y.close = c /\ y.server = "idle" /\ ((c = "paired" => x.close = "paired") => Ends(u, y))
    BY <1>1, <1>2 DEF Exchanges, Ends
  <1>5. y = ServerOver(x, c)
    BY DEF u, ServerOver
  <1> HIDE DEF y
  <1>6. (c = "paired" => x.close = "paired") => Ends(x, y)
    BY <1>2, <1>4 DEF Ends
  <1> QED BY <1>3, <1>4, <1>5, <1>6

LEMMA JoinerEnded ==
    ASSUME NEW x \in Exchanges, NEW c \in Reasons, c = "paired" => x.close = "paired"
    PROVE  JoinerOver(x, c) \in Exchanges /\ Ends(x, JoinerOver(x, c))
  <1> DEFINE u == [x EXCEPT !.joiner = "idle"]
             y == [u EXCEPT !.close = c]
  <1>1. u \in Exchanges
    BY DEF Exchanges
  <1>2. u.joiner = "idle" /\ u.close = x.close /\ Ends(x, u)
    BY DEF Exchanges, Ends
  <1> HIDE DEF u
  <1>3. y \in Exchanges
    BY <1>1 DEF Exchanges, Reasons
  <1>4. y.close = c /\ y.joiner = "idle" /\ Ends(u, y)
    BY <1>1, <1>2 DEF Exchanges, Ends
  <1>5. y = JoinerOver(x, c)
    BY DEF u, JoinerOver
  <1> HIDE DEF y
  <1>6. Ends(x, y)
    BY <1>2, <1>4 DEF Ends
  <1> QED BY <1>3, <1>5, <1>6

\* A close by one side does not undo the confirmation, and confirms nothing.
LEMMA ClosedAsFacts ==
    ASSUME NEW x \in Exchanges, NEW reason \in Reasons \ {"paired"}
    PROVE  /\ ClosedAs(x, reason) \in Reasons
           /\ ClosedAs(x, reason) = "paired" => x.close = "paired"
  <1>1. x.close \in Reasons
    BY DEF Exchanges, Reasons
  <1> QED BY <1>1 DEF ClosedAs

LEMMA EndStep ==
    ASSUME IInv, NEW j \in Machine, NEW y \in Exchanges, Ends(exchange[j], y), Set(j, y),
           UNCHANGED <<peers, hostOf, issued, hosting, registered>>,
           UNCHANGED scenario \/ Fault
    PROVE  IInv'
  <1>1. ExchangeSound(j, y, registered, scenario.refused)
    BY Known DEF ExchangeSound, Ends
  <1>2. \/ y.server \in {"idle", "inbound"}
        \/ y.host = exchange[j].host /\ exchange[j].server \notin {"idle", "inbound"}
    BY DEF Ends
  <1> QED BY <1>1, <1>2, ExchangeStep

LEMMA ConnectIInv ==
    ASSUME IInv, NEW j \in Machine, NEW h \in Machine, NEW t \in Ticket, Connect(j, h, t),
           UNCHANGED scenario \/ Stray
    PROVE  IInv'
  <1> DEFINE y(known) ==
                [NoExchange(h) EXCEPT !.secret = t, !.joiner = "hello", !.server = "inbound",
                                      !.close = "open", !.knowsHost = known]
             x == y(h \in peers[j])
  <1>1. x \in Exchanges /\ x.server = "inbound"
    <2>1. ASSUME NEW known \in BOOLEAN PROVE y(known) \in Exchanges /\ y(known).server = "inbound"
      BY DEF NoExchange, Exchanges
    <2>2. (h \in peers[j]) \in BOOLEAN
      OBVIOUS
    <2> HIDE DEF y
    <2> QED BY <2>1, <2>2, Zenon
  <1>2. x.knowsHost => {<<h, j>>, <<j, h>>} \cap scenario.refused = {}
    BY DEF IInv, NoSidePersistsARefusal, NoExchange
  <1>3. ExchangeSound(j, x, registered, scenario.refused)
    BY <1>2 DEF ExchangeSound, NoExchange
  <1> HIDE DEF x
  <1> QED BY <1>1, <1>3, ExchangeStep DEF Connect, x

LEMMA ReadAnswerIInv ==
    ASSUME IInv, NEW j \in Machine, ReadAnswer(j)
    PROVE  IInv'
  <1> DEFINE x == exchange[j]
             done == [x EXCEPT !.joiner = "done", !.sent = "done"]
             refuse == [x EXCEPT !.joiner = "idle", !.sent = "reject"]
             give == JoinerOver(x, ClosedAs(x, "rejected"))
  <1>1. x \in Exchanges /\ ExchangeSound(j, x, registered, scenario.refused)
    BY Known
  <1>2. x.joiner = "hello"
    BY DEF ReadAnswer
  <1>3. CASE x.answer = "welcome" /\ Accepts(j, x.knowsHost, x.host) /\ Set(j, done)
    <2>1. done \in Exchanges /\ done.host = x.host /\ done.server = x.server
      BY <1>1 DEF Exchanges
    <2>2. ExchangeSound(j, done, registered, scenario.refused)
      BY <1>1, <1>3 DEF ExchangeSound, Exchanges, Accepts
    <2> HIDE DEF done
    <2> QED BY <2>1, <2>2, <1>3, ExchangeStep DEF ReadAnswer
  <1>4. CASE Set(j, refuse) /\ x.answer = "welcome"
    <2>1. refuse \in Exchanges /\ refuse.host = x.host /\ refuse.server = x.server
      BY <1>1 DEF Exchanges
    <2>2. ExchangeSound(j, refuse, registered, scenario.refused)
      BY <1>1, <1>2 DEF ExchangeSound, Exchanges
    <2> HIDE DEF refuse
    <2> QED BY <2>1, <2>2, <1>4, ExchangeStep DEF ReadAnswer
  <1>5. CASE Set(j, give)
    <2>1. give \in Exchanges /\ Ends(x, give)
      BY <1>1, JoinerEnded, ClosedAsFacts DEF Reasons
    <2> HIDE DEF give
    <2> QED BY <2>1, <1>5, EndStep DEF ReadAnswer
  <1> QED BY <1>3, <1>4, <1>5 DEF ReadAnswer, JoinerOver, ClosedAs

LEMMA JoinerEnds ==
    ASSUME IInv, NEW j \in Machine, JoinEnds(j) \/ CancelJoin(j) \/ JoinerFails(j)
    PROVE  IInv'
  <1> DEFINE x == exchange[j]
             left == [x EXCEPT !.joiner = "idle"]
             dropped == JoinerOver(x, ClosedAs(x, "lost"))
  <1>1. left \in Exchanges /\ Ends(x, left)
    BY Known DEF Exchanges, Ends
  <1>2. dropped \in Exchanges /\ Ends(x, dropped)
    BY Known, JoinerEnded, ClosedAsFacts DEF Reasons
  <1>3. Set(j, left) \/ Set(j, dropped)
    BY DEF JoinEnds, CancelJoin, JoinerFails, ClosedAs, JoinerOver
  <1>4. /\ UNCHANGED <<peers, hostOf, issued, hosting, registered>>
        /\ UNCHANGED scenario \/ Fault
    BY DEF JoinEnds, CancelJoin, JoinerFails
  <1> HIDE DEF left, dropped
  <1> QED BY <1>1, <1>2, <1>3, <1>4, EndStep

LEMMA ServerEnds ==
    ASSUME IInv, NEW j \in Machine,
           RejectEnds(j) \/ ServeLost(j) \/ ServeTimeout(j) \/ Discard(j) \/ ConnectionLost(j)
    PROVE  IInv'
  <1> DEFINE x == exchange[j]
             left == [x EXCEPT !.server = "idle"]
             closed(reason) == ServerOver(x, ClosedAs(x, reason))
             lost == [x EXCEPT !.close = "lost"]
  <1>1. left \in Exchanges /\ Ends(x, left)
    BY Known DEF Exchanges, Ends
  <1>2. lost \in Exchanges /\ Ends(x, lost)
    BY Known DEF Exchanges, Ends
  <1>3. \A reason \in {"rejected", "timeout", "cancelled"} :
            closed(reason) \in Exchanges /\ Ends(x, closed(reason))
    BY Known, ServerEnded, ClosedAsFacts DEF Reasons
  <1>4. \/ Set(j, left) \/ Set(j, lost)
        \/ \E reason \in {"rejected", "timeout", "cancelled"} : Set(j, closed(reason))
    BY DEF RejectEnds, ServeLost, ServeTimeout, Discard, ConnectionLost, ServerOver
  <1>5. /\ UNCHANGED <<peers, hostOf, issued, hosting, registered>>
        /\ UNCHANGED scenario \/ Fault
    BY DEF RejectEnds, ServeLost, ServeTimeout, Discard, ConnectionLost
  <1> HIDE DEF left, lost, closed
  <1> QED BY <1>1, <1>2, <1>3, <1>4, <1>5, EndStep

LEMMA ConfirmedIInv ==
    ASSUME IInv, NEW j \in Machine, Confirmed(j)
    PROVE  IInv'
  <1> DEFINE y == [exchange[j] EXCEPT !.joiner = "save"]
  <1>1. y \in Exchanges /\ y.host = exchange[j].host /\ y.server = exchange[j].server
    BY Known DEF Exchanges
  <1>2. ExchangeSound(j, y, registered, scenario.refused)
    BY Known DEF ExchangeSound, Exchanges, Confirmed
  <1> HIDE DEF y
  <1> QED BY <1>1, <1>2, ExchangeStep DEF Confirmed, y

LEMMA ReadHelloIInv ==
    ASSUME IInv, NEW j \in Machine, ReadHello(j)
    PROVE  IInv'
  <1> DEFINE x == exchange[j]
             no == [x EXCEPT !.server = "reject", !.answer = "reject"]
             yes == [x EXCEPT !.server = "welcomed", !.answer = "welcome"]
  <1>1. x \in Exchanges /\ ExchangeSound(j, x, registered, scenario.refused)
    BY Known
  <1>2. x.server = "hello"
    BY DEF ReadHello
  <1>3. CASE Set(j, no)
    <2>1. no \in Exchanges /\ no.host = x.host
      BY <1>1 DEF Exchanges
    <2>2. ExchangeSound(j, no, registered, scenario.refused)
      BY <1>1, <1>2 DEF ExchangeSound, Exchanges
    <2> HIDE DEF no
    <2> QED BY <2>1, <2>2, <1>2, <1>3, ExchangeStep DEF ReadHello
  <1>4. CASE x.secret = x.ticket /\ Accepts(x.host, x.knowsJoiner, j) /\ Set(j, yes)
    <2>1. yes \in Exchanges /\ yes.host = x.host
      BY <1>1 DEF Exchanges
    <2>2. ExchangeSound(j, yes, registered, scenario.refused)
      BY <1>1, <1>2, <1>4 DEF ExchangeSound, Exchanges, Accepts
    <2> HIDE DEF yes
    <2> QED BY <2>1, <2>2, <1>2, <1>4, ExchangeStep DEF ReadHello
  <1> QED BY <1>3, <1>4 DEF ReadHello

LEMMA ReadDoneIInv ==
    ASSUME IInv, NEW j \in Machine, ReadDone(j)
    PROVE  IInv'
  <1> DEFINE x == exchange[j]
             done == [x EXCEPT !.server = "redeem"]
             gone == ServerOver(x, ClosedAs(x, "lost"))
  <1>1. x \in Exchanges /\ ExchangeSound(j, x, registered, scenario.refused)
    BY Known
  <1>2. CASE x.sent = "done" /\ Set(j, done)
    <2>1. done \in Exchanges /\ done.host = x.host /\ x.server = "welcomed"
      BY <1>1 DEF Exchanges, ReadDone
    <2>2. ExchangeSound(j, done, registered, scenario.refused)
      BY <1>1, <1>2, <2>1 DEF ExchangeSound, Exchanges
    <2> HIDE DEF done
    <2> QED BY <2>1, <2>2, <1>2, ExchangeStep DEF ReadDone
  <1>3. CASE Set(j, gone)
    <2>1. gone \in Exchanges /\ Ends(x, gone)
      BY <1>1, ServerEnded, ClosedAsFacts DEF Reasons
    <2> HIDE DEF gone
    <2> QED BY <2>1, <1>3, EndStep DEF ReadDone
  <1> QED BY <1>2, <1>3 DEF ReadDone, ServerOver

\* The three outcomes of serve_inbound's start.
LEMMA ServeInboundIInv ==
    ASSUME IInv, NEW j \in Machine, ServeInbound(j)
    PROVE  IInv'
  <1>0. PICK h \in Machine : h = exchange[j].host
    BY Known DEF Exchanges
  <1> DEFINE x == exchange[j]
             busy == ServerOver(x, ClosedAs(x, "busy"))
             no == [x EXCEPT !.server = "reject", !.answer = "reject"]
             y(known) == [x EXCEPT !.server = "hello", !.ticket = issued[h].ticket,
                                   !.knowsJoiner = known]
             go == y(j \in peers[h])
  <1>1. x \in Exchanges /\ ExchangeSound(j, x, registered, scenario.refused)
    BY Known
  <1>2. x.server = "inbound"
    BY DEF ServeInbound
  <1>3. CASE Set(j, busy) /\ UNCHANGED issued
    <2>1. busy \in Exchanges /\ Ends(x, busy)
      BY <1>1, ServerEnded, ClosedAsFacts DEF Reasons
    <2> HIDE DEF busy
    <2> QED BY <2>1, <1>3, EndStep DEF ServeInbound
  <1>4. ASSUME Cardinality(Permits(h)) < MAX_EXCHANGES, NEW z \in Exchanges, z.host = h,
               Set(j, z), ExchangeSound(j, z, registered, scenario.refused),
               UNCHANGED issued \/ issued' = [issued EXCEPT ![h] = NotIssued]
        PROVE  IInv'
    <2> USE DEF IInv
    <2>0. UNCHANGED <<peers, hostOf, hosting, registered, scenario>>
      BY DEF ServeInbound
    <2>1. TypeParts'
      <3>1. exchange' \in [Machine -> Exchanges]
        BY <1>4, SetFacts
      <3>2. issued' \in [Machine -> Issued]
        <4>1. NotIssued \in Issued
          BY DEF Issued, NotIssued
        <4> QED BY <1>4, <4>1 DEF TypeParts
      <3> QED BY <2>0, <3>1, <3>2 DEF TypeParts
    <2>2. PermitsBounded'
      <3> SUFFICES ASSUME NEW g \in Machine PROVE Cardinality(Permits(g)') <= MAX_EXCHANGES
        BY DEF PermitsBounded
      <3>1. \A k \in Machine \ {j} : exchange'[k] = exchange[k]
        BY <1>4, SetFacts
      <3>2. exchange'[j].host = h \/ exchange'[j].server = "idle"
        <4>1. exchange'[j] = z \/ exchange'[j] = NoExchange(j)
          BY <1>4, SetFacts
        <4> QED BY <4>1, <1>4 DEF NoExchange
      <3>3. IsFiniteSet(Permits(g)) /\ IsFiniteSet(Permits(h))
        BY PairingAssumption, FS_Subset DEF Permits
      <3>4. CASE g # h
        <4>1. Permits(g)' \subseteq Permits(g)
          BY <3>1, <3>2, <3>4 DEF Permits
        <4>2. Cardinality(Permits(g)') <= Cardinality(Permits(g)) /\ IsFiniteSet(Permits(g)')
          BY <4>1, <3>3, FS_Subset
        <4> QED BY <4>2, <3>3, FS_CardinalityType, PairingAssumption DEF PermitsBounded
      <3>5. CASE g = h
        <4>1. Permits(h)' \subseteq Permits(h) \cup {j}
          BY <3>1 DEF Permits
        <4>2. IsFiniteSet(Permits(h) \cup {j})
              /\ Cardinality(Permits(h) \cup {j}) <= Cardinality(Permits(h)) + 1
          <5>1. IsFiniteSet(Permits(h) \cup {j})
            BY <3>3, FS_AddElement
          <5>2. CASE j \in Permits(h)
            BY <3>3, <5>1, <5>2, FS_AddElement, FS_CardinalityType
          <5>3. CASE j \notin Permits(h)
            BY <3>3, <5>1, <5>3, FS_AddElement, FS_CardinalityType
          <5> QED BY <5>1, <5>2, <5>3
        <4>3. Cardinality(Permits(h)') <= Cardinality(Permits(h) \cup {j})
              /\ IsFiniteSet(Permits(h)')
          BY <4>1, <4>2, FS_Subset
        <4>4. /\ Cardinality(Permits(h)) \in Nat
              /\ Cardinality(Permits(h)') \in Nat
              /\ Cardinality(Permits(h) \cup {j}) \in Nat
          BY <3>3, <4>2, <4>3, FS_CardinalityType
        <4> QED BY <4>2, <4>3, <4>4, <1>4, <3>5, PairingAssumption
      <3> QED BY <3>4, <3>5
    <2>3. TicketsSound'
      BY <2>0, <1>1, <1>4 DEF TicketsSound, TypeParts, Issued, NotIssued
    <2>4. ExchangesSound'
      BY <2>0, <1>4, SetFacts, NoExchangeSound DEF ExchangesSound
    <2>5. NoSidePersistsARefusal'
      BY <2>0 DEF NoSidePersistsARefusal
    <2> QED BY <2>1, <2>2, <2>3, <2>4, <2>5
  <1>5. no \in Exchanges /\ no.host = h /\ ExchangeSound(j, no, registered, scenario.refused)
    <2>1. no \in Exchanges /\ no.host = h
      BY <1>0, <1>1 DEF Exchanges
    <2>2. ExchangeSound(j, no, registered, scenario.refused)
      BY <1>1, <1>2 DEF Exchanges, ExchangeSound
    <2> QED BY <2>1, <2>2
  <1>6. go \in Exchanges /\ go.host = h /\ ExchangeSound(j, go, registered, scenario.refused)
    <2>1. issued[h].ticket \in Ticket \cup {NoTicket}
      BY <1>1 DEF IInv, TypeParts, Issued
    <2>2. j \in peers[h] => {<<h, j>>, <<j, h>>} \cap scenario.refused = {}
      BY <1>1 DEF IInv, NoSidePersistsARefusal
    <2>3. ASSUME NEW known \in BOOLEAN,
                 known => {<<h, j>>, <<j, h>>} \cap scenario.refused = {}
          PROVE  y(known) \in Exchanges /\ y(known).host = h
                 /\ ExchangeSound(j, y(known), registered, scenario.refused)
      <3> DEFINE u == [x EXCEPT !.server = "hello", !.ticket = issued[h].ticket]
      <3>1. u \in Exchanges /\ u.server = "hello" /\ u.host = h
        BY <1>0, <1>1, <2>1 DEF Exchanges
      <3>2. ExchangeSound(j, u, registered, scenario.refused)
        BY <1>1, <1>2 DEF Exchanges, ExchangeSound
      <3>3. y(known) = [u EXCEPT !.knowsJoiner = known]
        OBVIOUS
      <3> HIDE DEF y, u
      <3>4. y(known) \in Exchanges /\ y(known).host = h
        BY <3>1, <3>3 DEF Exchanges
      <3>5. ExchangeSound(j, y(known), registered, scenario.refused)
        BY <3>1, <3>2, <3>3, <2>3 DEF Exchanges, ExchangeSound
      <3> QED BY <3>4, <3>5
    <2>4. (j \in peers[h]) \in BOOLEAN
      OBVIOUS
    <2> HIDE DEF y
    <2> QED BY <2>2, <2>3, <2>4, Zenon
  <1>7. \/ Set(j, busy) /\ UNCHANGED issued
        \/ /\ Cardinality(Permits(h)) < MAX_EXCHANGES
           /\ Set(j, no)
           /\ issued' = [issued EXCEPT ![h] = NotIssued]
        \/ Cardinality(Permits(h)) < MAX_EXCHANGES /\ Set(j, go) /\ UNCHANGED issued
    BY <1>0 DEF ServeInbound, ServerOver
  <1> HIDE DEF busy, no, go
  <1> QED BY <1>3, <1>4, <1>5, <1>6, <1>7

----------------------------------------------------------------------------
\* The steps that save a peer.

\* The joiner saves what both sides have accepted.
LEMMA JoinerSavesIInv ==
    ASSUME IInv, NEW j \in Machine, JoinerSaves(j)
    PROVE  IInv'
  <1> USE DEF IInv
  <1>0. PICK h \in Machine : h = exchange[j].host
    BY Known DEF Exchanges
  <1> DEFINE x == exchange[j]
             y == [x EXCEPT !.joiner = "idle"]
  <1>1. x \in Exchanges /\ ExchangeSound(j, x, registered, scenario.refused)
    BY Known
  <1>2. /\ Set(j, y)
        /\ peers' = [peers EXCEPT ![j] = @ \cup {h}]
        /\ UNCHANGED <<hostOf, issued, hosting, registered, scenario>>
    BY <1>0 DEF JoinerSaves, Saves
  <1>3. y \in Exchanges /\ Ends(x, y)
    BY <1>1 DEF Exchanges, Ends
  <1>4. ExchangeSound(j, y, registered, scenario.refused)
    BY <1>1, <1>3 DEF ExchangeSound, Ends
  <1>5. y.server \in {"idle", "inbound"}
          \/ (y.host = x.host /\ x.server \notin {"idle", "inbound"})
    BY <1>3 DEF Ends
  <1>6. {<<h, j>>, <<j, h>>} \cap scenario.refused = {}
    BY <1>0, <1>1 DEF ExchangeSound, JoinerSaves
  <1> HIDE DEF y
  <1>7. TypeParts'
    BY <1>2, <1>3, SetFacts DEF TypeParts
  <1>8. PermitsBounded'
    BY <1>2, <1>3, <1>5, PermitsKept
  <1>9. TicketsSound'
    BY <1>2 DEF TicketsSound
  <1>10. ExchangesSound'
    BY <1>2, <1>3, <1>4, SetFacts, NoExchangeSound DEF ExchangesSound
  <1>11. NoSidePersistsARefusal'
    BY <1>2, <1>6 DEF NoSidePersistsARefusal, TypeParts
  <1> QED BY <1>7, <1>8, <1>9, <1>10, <1>11

\* The host consumes the ticket, and saves the joiner or fails to.
LEMMA RedeemIInv ==
    ASSUME IInv, NEW j \in Machine, Redeem(j)
    PROVE  IInv'
  <1> USE DEF IInv
  <1>0. PICK h \in Machine, t \in Ticket :
            h = exchange[j].host /\ t = exchange[j].ticket /\ issued[h].ticket = t
    BY Known DEF Exchanges, Redeem, Live, Redeemable
  <1> DEFINE x == exchange[j]
             paired == ServerOver(x, ClosedAs(x, "paired"))
             failed == ServerOver(x, ClosedAs(x, "failed"))
  <1>1. x \in Exchanges /\ ExchangeSound(j, x, registered, scenario.refused)
    BY Known
  <1>2. x.server = "redeem" /\ x.secret = t
    BY <1>0, <1>1 DEF Redeem, ExchangeSound
  <1>3. {<<h, j>>, <<j, h>>} \cap scenario.refused = {}
    BY <1>0, <1>1, <1>2 DEF ExchangeSound
  <1>4. /\ issued' = [issued EXCEPT ![h] = NotIssued]
        /\ UNCHANGED <<hostOf, hosting>>
    BY <1>0 DEF Redeem
  <1>5. issued' \in [Machine -> Issued]
    BY <1>4 DEF TypeParts, Issued, NotIssued
  <1>6. hostOf[t] = {h} /\ registered[t] = 0 /\ t # NoTicket
    BY <1>0, PairingAssumption DEF TicketsSound
  <1>7. \A g \in Machine : issued'[g].ticket # NoTicket =>
            g # h /\ issued'[g] = issued[g] /\ issued[g].ticket # t
    BY <1>4, <1>6 DEF NotIssued, TypeParts, TicketsSound
  <1>8. CASE /\ peers' = [peers EXCEPT ![h] = @ \cup {j}]
             /\ registered' = [registered EXCEPT ![t] = @ + 1]
             /\ Set(j, paired)
             /\ UNCHANGED scenario
    <2>1. registered' \in [Ticket -> Nat] /\ registered'[t] = 1
          /\ \A u \in Ticket \ {t} : registered'[u] = registered[u]
      BY <1>6, <1>8 DEF TypeParts
    <2>2. paired \in Exchanges /\ paired.server = "idle"
      <3>1. ClosedAs(x, "paired") \in Reasons
        BY <1>1 DEF ClosedAs, Exchanges, Reasons
      <3> QED BY <1>1, <3>1, ServerEnded
    <2>3. ExchangeSound(j, paired, registered', scenario.refused)
      BY <1>1, <1>2, <2>1 DEF ServerOver, ExchangeSound, Exchanges, ClosedAs
    <2> HIDE DEF paired
    <2>5. TypeParts'
      BY <1>4, <1>5, <1>8, <2>1, <2>2, SetFacts DEF TypeParts
    <2>6. PermitsBounded'
      BY <1>8, <2>2, PermitsKept
    <2>7. TicketsSound'
      <3>1. hostOf' = hostOf
        BY <1>4
      <3>2. \A g \in Machine : issued'[g].ticket # NoTicket =>
                hostOf[issued'[g].ticket] = {g} /\ registered'[issued'[g].ticket] = 0
        BY <1>7, <2>1 DEF TicketsSound, TypeParts, Issued
      <3>3. \A u \in Ticket : registered'[u] <= 1 /\ (hostOf[u] = {} => registered'[u] = 0)
        BY <1>6, <2>1 DEF TicketsSound
      <3> QED BY <3>1, <3>2, <3>3 DEF TicketsSound
    <2>8. ExchangesSound'
      <3> SUFFICES ASSUME NEW k \in Machine
                   PROVE  ExchangeSound(k, exchange'[k], registered', scenario'.refused)
        BY DEF ExchangesSound
      <3>1. CASE k = j
        BY <1>8, <2>2, <2>3, <3>1, SetFacts, NoExchangeSound
      <3>2. CASE k # j
        <4>1. exchange'[k] = exchange[k]
          BY <1>8, <2>2, <3>2, SetFacts
        <4>2. ExchangeSound(k, exchange[k], registered, scenario.refused)
          BY Known
        <4>3. \A u \in Ticket : registered[u] = 1 => registered'[u] = 1
          BY <1>6, <2>1
        <4> QED BY <1>8, <4>1, <4>2, <4>3 DEF ExchangeSound
      <3> QED BY <3>1, <3>2
    <2>9. NoSidePersistsARefusal'
      BY <1>3, <1>8 DEF NoSidePersistsARefusal, TypeParts
    <2> QED BY <2>5, <2>6, <2>7, <2>8, <2>9
  <1>9. CASE Fault /\ Set(j, failed) /\ UNCHANGED <<peers, registered>>
    <2>1. failed \in Exchanges /\ Ends(x, failed) /\ failed.server = "idle"
      BY <1>1, ServerEnded, ClosedAsFacts DEF Reasons
    <2>2. ExchangeSound(j, failed, registered, scenario.refused)
      BY <1>1, <2>1 DEF ExchangeSound, Ends
    <2>3. scenario' \in Scenario /\ scenario'.refused = scenario.refused
      BY <1>9, ScenarioTyped
    <2> HIDE DEF failed
    <2>5. TypeParts'
      BY <1>4, <1>5, <1>9, <2>1, <2>3, SetFacts DEF TypeParts
    <2>6. PermitsBounded'
      BY <1>9, <2>1, PermitsKept
    <2>7. TicketsSound'
      <3>1. hostOf' = hostOf /\ registered' = registered
        BY <1>4, <1>9
      <3>2. \A g \in Machine : issued'[g].ticket # NoTicket =>
                hostOf[issued'[g].ticket] = {g} /\ registered[issued'[g].ticket] = 0
        BY <1>7 DEF TicketsSound
      <3> QED BY <3>1, <3>2 DEF TicketsSound
    <2>8. ExchangesSound'
      BY <1>9, <2>1, <2>2, <2>3, SetFacts, NoExchangeSound DEF ExchangesSound
    <2>9. NoSidePersistsARefusal'
      BY <1>9, <2>3 DEF NoSidePersistsARefusal
    <2> QED BY <2>5, <2>6, <2>7, <2>8, <2>9
  <1> QED BY <1>0, <1>8, <1>9 DEF Redeem, Saves, ServerOver

----------------------------------------------------------------------------
\* Hosting, expiry and the user.

\* Steps that leave the exchanges, what tickets registered and their hosts.
LEMMA TicketStep ==
    ASSUME IInv, UNCHANGED <<hostOf, exchange, registered>>,
           issued' \in [Machine -> Issued], hosting' \in [Machine -> Nat],
           \A h \in Machine : issued'[h].ticket \in {NoTicket, issued[h].ticket},
           peers' \in [Machine -> SUBSET Machine], \A h \in Machine : peers'[h] \subseteq peers[h],
           UNCHANGED scenario \/ Fault \/ Stray
    PROVE  IInv'
  <1> USE DEF IInv
  <1>1. scenario' \in Scenario /\ scenario'.refused = scenario.refused
    BY ScenarioTyped
  <1>2. TypeParts'
    BY <1>1 DEF TypeParts
  <1>3. PermitsBounded'
    BY DEF PermitsBounded, Permits
  <1>4. TicketsSound'
    BY DEF TicketsSound
  <1>5. ExchangesSound'
    BY <1>1 DEF ExchangesSound
  <1>6. NoSidePersistsARefusal'
    BY <1>1 DEF NoSidePersistsARefusal
  <1> QED BY <1>2, <1>3, <1>4, <1>5, <1>6

LEMMA HostIInv ==
    ASSUME IInv, NEW h \in Machine,
           HostWanted(h) \/ HostAgain(h) \/ HostFails(h) \/ Expire(h)
    PROVE  IInv'
  <1>1. issued' \in [Machine -> Issued] /\ hosting' \in [Machine -> Nat]
    <2>1. CASE HostWanted(h) \/ HostAgain(h)
      <3>1. NotIssued \in Issued
        BY DEF Issued, NotIssued
      <3> QED BY <2>1, <3>1 DEF IInv, TypeParts, HostWanted, HostAgain, Revoke
    <2>2. CASE HostFails(h)
      BY <2>2 DEF IInv, TypeParts, HostFails
    <2>3. CASE Expire(h)
      <3>1. [issued[h] EXCEPT !.expired = TRUE] \in Issued
        BY DEF IInv, TypeParts, Issued
      <3> QED BY <2>3, <3>1 DEF IInv, TypeParts, Expire
    <2> QED BY <2>1, <2>2, <2>3
  <1>2. \A g \in Machine : issued'[g].ticket \in {NoTicket, issued[g].ticket}
    BY DEF IInv, TypeParts, HostWanted, HostAgain, HostFails, Expire, Revoke, Issued, NotIssued
  <1>3. /\ UNCHANGED <<peers, hostOf, exchange, registered>>
        /\ UNCHANGED scenario \/ Fault \/ Stray
    BY DEF HostWanted, HostAgain, HostFails, Expire, Revoke
  <1>4. peers' \in [Machine -> SUBSET Machine] /\ \A g \in Machine : peers'[g] \subseteq peers[g]
    BY <1>3 DEF IInv, TypeParts
  <1> QED BY <1>1, <1>2, <1>3, <1>4, TicketStep

LEMMA RemovePeerIInv ==
    ASSUME IInv, NEW m \in Machine, NEW p \in Machine, RemovePeer(m, p)
    PROVE  IInv'
  <1>1. peers' \in [Machine -> SUBSET Machine] /\ \A g \in Machine : peers'[g] \subseteq peers[g]
    BY DEF IInv, TypeParts, RemovePeer
  <1> QED BY <1>1, TicketStep DEF RemovePeer, IInv, TypeParts

\* A ticket that is drawn is nobody else's and has registered nobody.
LEMMA IssueIInv ==
    ASSUME IInv, NEW h \in Machine, Issue(h)
    PROVE  IInv'
  <1> USE DEF IInv
  <1>1. PICK t \in Ticket :
            /\ Fresh(t)
            /\ hostOf' = [hostOf EXCEPT ![t] = {h}]
            /\ issued' = [issued EXCEPT ![h] = [ticket |-> t, expired |-> FALSE]]
    BY DEF Issue
  <1>2. /\ hosting' = [hosting EXCEPT ![h] = @ - 1]
        /\ hosting[h] > 0
        /\ UNCHANGED <<peers, exchange, registered, scenario>>
    BY DEF Issue
  <1>3. TypeParts'
    BY <1>1, <1>2 DEF TypeParts, Issued
  <1>4. registered[t] = 0 /\ \A g \in Machine : issued[g].ticket # t
    BY <1>1, PairingAssumption DEF Fresh, TicketsSound
  <1>5. TicketsSound'
    <2>1. ASSUME NEW g \in Machine, issued'[g].ticket # NoTicket
          PROVE  hostOf'[issued'[g].ticket] = {g} /\ registered[issued'[g].ticket] = 0
      <3>1. CASE g = h
        BY <1>1, <1>4, <3>1 DEF TypeParts
      <3>2. CASE g # h
        BY <1>1, <1>4, <2>1, <3>2 DEF TypeParts, TicketsSound, Issued
      <3> QED BY <3>1, <3>2
    <2>2. ASSUME NEW u \in Ticket
          PROVE  registered[u] <= 1 /\ (hostOf'[u] = {} => registered[u] = 0)
      BY <1>1 DEF TypeParts, TicketsSound
    <2> QED BY <2>1, <2>2, <1>2 DEF TicketsSound
  <1>6. PermitsBounded'
    BY <1>2 DEF PermitsBounded, Permits
  <1>7. ExchangesSound'
    BY <1>2 DEF ExchangesSound
  <1>8. NoSidePersistsARefusal'
    BY <1>2 DEF NoSidePersistsARefusal
  <1> QED BY <1>3, <1>5, <1>6, <1>7, <1>8

----------------------------------------------------------------------------
\* The invariant and the theorems.

LEMMA InitIInv == Init => IInv
  <1> SUFFICES ASSUME Init PROVE IInv
    OBVIOUS
  <1> USE DEF Init
  <1>1. TypeParts
    BY PairingAssumption DEF TypeParts, Issued, NotIssued, Exchanges, NoExchange
  <1>2. PermitsBounded
    <2> SUFFICES ASSUME NEW h \in Machine PROVE Cardinality(Permits(h)) <= MAX_EXCHANGES
      BY DEF PermitsBounded
    <2>1. Permits(h) = {}
      BY DEF Permits, NoExchange
    <2> QED BY <2>1, FS_EmptySet, PairingAssumption
  <1>3. TicketsSound
    BY DEF TicketsSound, NotIssued
  <1>4. ExchangesSound
    BY NoExchangeSound DEF ExchangesSound
  <1>5. NoSidePersistsARefusal
    BY DEF NoSidePersistsARefusal
  <1> QED BY <1>1, <1>2, <1>3, <1>4, <1>5 DEF IInv

LEMMA StutterIInv == IInv /\ UNCHANGED vars => IInv'
  BY DEF vars, IInv, TypeParts, PermitsBounded, Permits, TicketsSound, ExchangesSound,
         NoSidePersistsARefusal

LEMMA NextIInv == IInv /\ Next => IInv'
  <1> SUFFICES ASSUME IInv, Next PROVE IInv'
    OBVIOUS
  <1>1. PICK m \in Machine :
        \/ HostWanted(m) \/ HostAgain(m) \/ HostFails(m) \/ Expire(m)
        \/ Issue(m)
        \/ JoinWanted(m) \/ JoinAnyway(m)
        \/ ReadAnswer(m)
        \/ JoinEnds(m) \/ CancelJoin(m) \/ JoinerFails(m)
        \/ Confirmed(m) \/ JoinerSaves(m)
        \/ ServeInbound(m) \/ ReadHello(m) \/ ReadDone(m)
        \/ RejectEnds(m) \/ ServeLost(m) \/ ServeTimeout(m) \/ Discard(m) \/ ConnectionLost(m)
        \/ Redeem(m)
        \/ \E p \in Machine : RemovePeer(m, p)
    BY DEF Next
  <1>2. CASE HostWanted(m) \/ HostAgain(m) \/ HostFails(m) \/ Expire(m)
    BY <1>2, HostIInv
  <1>3. CASE Issue(m)
    BY <1>3, IssueIInv
  <1>4. CASE JoinWanted(m) \/ JoinAnyway(m)
    BY <1>4, ConnectIInv DEF JoinWanted, JoinAnyway
  <1>5. CASE ReadAnswer(m)
    BY <1>5, ReadAnswerIInv
  <1>6. CASE JoinEnds(m) \/ CancelJoin(m) \/ JoinerFails(m)
    BY <1>6, JoinerEnds
  <1>7. CASE Confirmed(m)
    BY <1>7, ConfirmedIInv
  <1>8. CASE JoinerSaves(m)
    BY <1>8, JoinerSavesIInv
  <1>9. CASE ServeInbound(m)
    BY <1>9, ServeInboundIInv
  <1>10. CASE ReadHello(m)
    BY <1>10, ReadHelloIInv
  <1>11. CASE ReadDone(m)
    BY <1>11, ReadDoneIInv
  <1>12. CASE RejectEnds(m) \/ ServeLost(m) \/ ServeTimeout(m) \/ Discard(m) \/ ConnectionLost(m)
    BY <1>12, ServerEnds
  <1>13. CASE Redeem(m)
    BY <1>13, RedeemIInv
  <1>14. CASE \E p \in Machine : RemovePeer(m, p)
    BY <1>14, RemovePeerIInv
  <1> QED
    BY <1>1, <1>2, <1>3, <1>4, <1>5, <1>6, <1>7, <1>8, <1>9, <1>10, <1>11, <1>12, <1>13, <1>14

\* The inductive invariant of pairing: tickets and exchanges are sound.
THEOREM Invariant == Spec => []IInv
  <1>1. IInv /\ [Next]_vars => IInv'
    BY NextIInv, StutterIInv
  <1> QED BY <1>1, InitIInv, PTL DEF Spec

\* Every state is one the daemons can hold, and no host runs more exchanges
\* than it has permits (Pairing::serve_inbound).
THEOREM TypeCorrect == Spec => []TypeOK
  <1>1. IInv => TypeOK
    BY DEF IInv, TypeParts, PermitsBounded, TypeOK
  <1> QED BY <1>1, Invariant, PTL

\* A ticket registers at most one machine (serve_inbound consumes it under
\* the lock), however many machines there are and whatever fails.
THEOREM OneTime == Spec => []TicketsAreOneTime
  <1>1. IInv => TicketsAreOneTime
    BY DEF IInv, TicketsSound, TicketsAreOneTime
  <1> QED BY <1>1, Invariant, PTL

\* A joiner about to save was registered by its host (confirm_paired is last).
THEOREM HostFirst == Spec => []HostSavesFirst
  <1>1. IInv => HostSavesFirst
    BY DEF IInv, ExchangesSound, ExchangeSound, HostSavesFirst
  <1> QED BY <1>1, Invariant, PTL

\* A refused machine is registered on neither side (net/pair.rs).
THEOREM RefusalsHold == Spec => []NoSidePersistsARefusal
  <1>1. IInv => NoSidePersistsARefusal
    BY DEF IInv
  <1> QED BY <1>1, Invariant, PTL

\* A ticket that was revoked, replaced, redeemed or has expired registers
\* nobody and does not come back (the check under serve_inbound's lock).
THEOREM DeadTickets == Spec => DeadTicketsRegisterNobody
  <1> DEFINE Dead(h, t) ==
                h \in hostOf[t] /\ ~ Redeemable(h, t) =>
                    registered'[t] = registered[t] /\ ~ Redeemable(h, t)'
  <1>1. ASSUME IInv, Next, NEW h \in Machine, NEW t \in Ticket, h \in hostOf[t],
               ~ Redeemable(h, t)
        PROVE  registered'[t] = registered[t] /\ ~ Redeemable(h, t)'
    <2>1. t # NoTicket /\ t \in Nat
      BY PairingAssumption
    <2>2. PICK m \in Machine :
            \/ Issue(m)
            \/ Redeem(m)
            \/ /\ UNCHANGED registered
               /\ \/ issued' = issued
                  \/ \E g \in Machine : issued' = [issued EXCEPT ![g] = NotIssued]
                  \/ \E g \in Machine : issued' = [issued EXCEPT ![g].expired = TRUE]
      <3>0. PICK m \in Machine :
                \/ HostWanted(m) \/ HostAgain(m) \/ Issue(m) \/ HostFails(m) \/ Expire(m)
                \/ JoinWanted(m) \/ JoinAnyway(m) \/ ReadAnswer(m) \/ JoinEnds(m) \/ CancelJoin(m)
                \/ Confirmed(m) \/ JoinerSaves(m) \/ JoinerFails(m)
                \/ ServeInbound(m) \/ ReadHello(m) \/ RejectEnds(m) \/ ReadDone(m)
                \/ ServeLost(m) \/ ServeTimeout(m) \/ Discard(m) \/ Redeem(m)
                \/ ConnectionLost(m) \/ \E p \in Machine : RemovePeer(m, p)
        BY <1>1 DEF Next
      <3>1. CASE HostWanted(m) \/ HostAgain(m) \/ HostFails(m) \/ Expire(m)
        BY <3>1 DEF HostWanted, HostAgain, HostFails, Expire, Revoke
      <3>2. CASE JoinWanted(m) \/ JoinAnyway(m) \/ ReadAnswer(m) \/ JoinEnds(m) \/ CancelJoin(m)
        BY <3>2 DEF JoinWanted, JoinAnyway, Connect, ReadAnswer, JoinEnds, CancelJoin
      <3>3. CASE Confirmed(m) \/ JoinerSaves(m) \/ JoinerFails(m)
        BY <3>3 DEF Confirmed, JoinerSaves, JoinerFails
      <3>4. CASE ServeInbound(m)
        <4>1. exchange[m].host \in Machine
          BY <1>1, Known DEF Exchanges
        <4> QED BY <3>4, <4>1 DEF ServeInbound
      <3>5. CASE ReadHello(m) \/ RejectEnds(m) \/ ReadDone(m) \/ ServeLost(m)
        BY <3>5 DEF ReadHello, RejectEnds, ReadDone, ServeLost
      <3>6. CASE \/ ServeTimeout(m) \/ Discard(m) \/ ConnectionLost(m)
                 \/ \E p \in Machine : RemovePeer(m, p)
        BY <3>6 DEF ServeTimeout, Discard, ConnectionLost, RemovePeer
      <3> QED BY <3>0, <3>1, <3>2, <3>3, <3>4, <3>5, <3>6
    <2>3. CASE Issue(m)
      <3>1. PICK u \in Ticket :
                Fresh(u) /\ issued' = [issued EXCEPT ![m] = [ticket |-> u, expired |-> FALSE]]
        BY <2>3 DEF Issue
      <3>2. u # t
        BY <1>1, <3>1 DEF Fresh
      <3> QED BY <1>1, <2>3, <3>1, <3>2 DEF Issue, Redeemable, IInv, TypeParts
    <2>4. CASE Redeem(m)
      <3>1. PICK g \in Machine, u \in Ticket :
                g = exchange[m].host /\ u = exchange[m].ticket /\ Redeemable(g, u)
        BY <1>1, <2>4, Known DEF Exchanges, Redeem, Live, Redeemable
      <3>2. hostOf[u] = {g}
        BY <1>1, <3>1 DEF Redeemable, IInv, TicketsSound
      <3>3. u # t
        BY <1>1, <3>1, <3>2
      <3>4. registered'[t] = registered[t]
        BY <1>1, <2>4, <3>1, <3>3 DEF Redeem, IInv, TypeParts
      <3>5. issued' = [issued EXCEPT ![g] = NotIssued]
        BY <2>4, <3>1 DEF Redeem
      <3> QED BY <1>1, <2>1, <3>4, <3>5 DEF Redeemable, NotIssued, IInv, TypeParts
    <2>5. CASE /\ UNCHANGED registered
               /\ \/ issued' = issued
                  \/ \E g \in Machine : issued' = [issued EXCEPT ![g] = NotIssued]
                  \/ \E g \in Machine : issued' = [issued EXCEPT ![g].expired = TRUE]
      BY <1>1, <2>1, <2>5 DEF Redeemable, NotIssued, IInv, TypeParts, Issued
    <2> QED BY <2>2, <2>3, <2>4, <2>5
  <1>2. IInv /\ [Next]_vars => [\A h \in Machine, t \in Ticket : Dead(h, t)]_vars
    BY <1>1
  <1> QED BY <1>2, Invariant, PTL DEF Spec, DeadTicketsRegisterNobody
============================================================================
