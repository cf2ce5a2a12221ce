---------------------------- MODULE SyncHubProofs ----------------------------
(***************************************************************************)
(* What the hub's operations keep true of it: every announcement is filed  *)
(* under its own repo, a slot only advances, and a peer's orphans stay     *)
(* below their cap.  Then what each operation tells the peers of a repo,   *)
(* and makes of what was heard of one.                                     *)
(***************************************************************************)
EXTENDS SyncHub, FiniteSetTheorems, TLAPS

\* What a repo publishes and is offered belongs to it, and a slot without
\* heads offers nothing.
EntrySound(e) ==
    /\ e.published \subseteq OpsOf(e.id)
    /\ \A p \in Machine :
          /\ e.inbox[p].heads \subseteq OpsOf(e.id)
          /\ e.inbox[p].heads = {} => e.inbox[p].drained

EntriesSound(repos) == \A n \in RepoName : EntrySound(repos[n])

\* What a peer offers for a clone belongs to the repo it names, and there is
\* not too much of it.
OrphansSound(orphans) ==
    \A p \in Machine :
        /\ \A n \in RepoName : orphans[n][p].heads \subseteq OpsOf(orphans[n][p].id)
        /\ Cardinality({n \in RepoName : orphans[n][p] # NoOrphan})
              <= MAX_ORPHAN_REPOS_PER_PEER

AnnounceSound(a) == a.heads \subseteq OpsOf(a.id)

OutboxSound(outbox) == \A p \in Machine, n \in RepoName : AnnounceSound(outbox[p][n])

HubSound(h) == EntriesSound(h.repos) /\ OrphansSound(h.orphans) /\ OutboxSound(h.outbox)

\* A slot advances to what is yet to be drained or to a retraction.
Advances(old, new) == new.seq > old.seq /\ (new.heads # {} => ~new.drained)

\* A slot is kept, advances, or is dropped with its connection or its repo's
\* registration.
SlotsAdvance(h, k) ==
    \A n \in RepoName, p \in Machine :
        LET old == h.repos[n].inbox[p]
            new == k.repos[n].inbox[p]
        IN  \/ new = old
            \/ Advances(old, new)
            \/ /\ new = NoSlot
               /\ k.conn[p] # h.conn[p] \/ k.conn[p] = 0 \/ ~Registered(h, n) \/ ~Registered(k, n)

\* What most operations make of a hub.
HubStep(h, k) ==
    /\ k \in HubState /\ HubSound(k) /\ SlotsAdvance(h, k)
    /\ \A n \in RepoName : k.repos[n].id = h.repos[n].id

-----------------------------------------------------------------------------
LEMMA HubTypes ==
    ASSUME NEW h \in HubState
    PROVE  /\ h.repos \in [RepoName -> RepoEntry]
           /\ h.orphans \in [RepoName -> [Machine -> Orphan]]
           /\ h.announceSeq \in Nat
           /\ h.conn \in [Machine -> Nat]
           /\ h.outbox \in [Machine -> [RepoName -> Announce]]
           /\ h.sending \in [Machine -> BOOLEAN]
  BY DEF HubState

LEMMA EntryTypes ==
    ASSUME NEW e \in RepoEntry
    PROVE  /\ e.id \in RepoId \cup {NoId} /\ e.seq \in Nat /\ e.published \in SUBSET Op
           /\ e.inbox \in [Machine -> Slot]
           /\ e.conflicts \in [Machine -> RepoId \cup {NoId}]
           /\ e.serving \in BOOLEAN
  BY DEF RepoEntry

LEMMA SlotTypes ==
    ASSUME NEW s \in Slot
    PROVE  s.seq \in Nat /\ s.heads \in SUBSET Op /\ s.drained \in BOOLEAN
  BY DEF Slot

LEMMA AnnounceTypes ==
    ASSUME NEW a \in Announce
    PROVE  a.id \in RepoId \cup {NoId} /\ a.seq \in Nat /\ a.heads \in SUBSET Op
  BY DEF Announce

LEMMA NoSlotFacts ==
    NoSlot \in Slot /\ NoSlot.seq = 0 /\ NoSlot.heads = {} /\ NoSlot.drained
  BY DEF NoSlot, Slot

LEMMA NoAnnounceFacts == NoAnnounce \in Announce /\ AnnounceSound(NoAnnounce)
  BY DEF NoAnnounce, Announce, AnnounceSound

LEMMA NoOrphanFacts ==
    NoOrphan \in Orphan /\ NoOrphan.heads = {} /\ NoOrphan.id = NoId
  BY DEF NoOrphan, Orphan

LEMMA NewEntryFacts ==
    ASSUME NEW id \in RepoId \cup {NoId}
    PROVE  /\ NewEntry(id) \in RepoEntry /\ EntrySound(NewEntry(id))
           /\ NewEntry(id).id = id
           /\ \A p \in Machine : NewEntry(id).inbox[p] = NoSlot
  <1> DEFINE e == NewEntry(id)
  <1>1. e \in RepoEntry
    BY NoSlotFacts DEF NewEntry, RepoEntry
  <1>2. e.id = id /\ e.published = {} /\ \A p \in Machine : e.inbox[p] = NoSlot
    BY DEF NewEntry
  <1> HIDE DEF e
  <1>3. EntrySound(e)
    BY <1>2, NoSlotFacts DEF EntrySound
  <1> QED BY <1>1, <1>2, <1>3 DEF e

\* A repo's entry is replaced.
LEMMA SetEntry ==
    ASSUME NEW repos \in [RepoName -> RepoEntry], EntriesSound(repos),
           NEW n \in RepoName, NEW e \in RepoEntry, EntrySound(e)
    PROVE  LET new == [repos EXCEPT ![n] = e]
           IN  /\ new \in [RepoName -> RepoEntry] /\ EntriesSound(new)
               /\ new[n] = e /\ \A k \in RepoName \ {n} : new[k] = repos[k]
  <1> DEFINE new == [repos EXCEPT ![n] = e]
  <1>1. new \in [RepoName -> RepoEntry]
    OBVIOUS
  <1>2. new[n] = e /\ \A k \in RepoName \ {n} : new[k] = repos[k]
    OBVIOUS
  <1> HIDE DEF new
  <1>3. EntriesSound(new)
    BY <1>2 DEF EntriesSound
  <1> QED BY <1>1, <1>2, <1>3 DEF new

\* The names a peer has orphans under change by one, which fits.
LEMMA OrphansBounded ==
    ASSUME NEW S \in SUBSET RepoName, NEW T \in SUBSET RepoName, NEW n \in RepoName,
           T \subseteq S \cup {n}, n \in T => n \in S \/ Cardinality(S) < MAX_ORPHAN_REPOS_PER_PEER,
           Cardinality(S) <= MAX_ORPHAN_REPOS_PER_PEER
    PROVE  Cardinality(T) <= MAX_ORPHAN_REPOS_PER_PEER
  <1>1. IsFiniteSet(S) /\ Cardinality(S) \in Nat
    BY HubAssumption, FS_Subset, FS_CardinalityType
  <1>2. IsFiniteSet(T) /\ Cardinality(T) \in Nat
    BY HubAssumption, FS_Subset, FS_CardinalityType
  <1>3. MAX_ORPHAN_REPOS_PER_PEER \in Nat
    BY HubAssumption
  <1>4. CASE n \notin T \/ n \in S
    <2>1. T \in SUBSET S
      BY <1>4
    <2>2. Cardinality(T) <= Cardinality(S)
      BY <1>1, <2>1, FS_Subset
    <2> QED BY <1>1, <1>2, <1>3, <2>2
  <1>5. CASE n \in T /\ n \notin S
    <2>1. IsFiniteSet(S \cup {n}) /\ Cardinality(S \cup {n}) = Cardinality(S) + 1
      BY <1>1, <1>5, FS_AddElement
    <2>2. Cardinality(T) <= Cardinality(S \cup {n})
      BY <2>1, FS_Subset
    <2> QED BY <1>1, <1>2, <1>3, <1>5, <2>1, <2>2
  <1> QED BY <1>4, <1>5

\* The orphans of one name are replaced by ones that fit.
LEMMA SetOrphans ==
    ASSUME NEW h \in HubState, OrphansSound(h.orphans), NEW n \in RepoName,
           NEW row \in [Machine -> Orphan],
           \A p \in Machine :
              /\ row[p].heads \subseteq OpsOf(row[p].id)
              /\ row[p] # NoOrphan => CanRemember(h, p, n)
    PROVE  LET new == [h.orphans EXCEPT ![n] = row]
           IN  new \in [RepoName -> [Machine -> Orphan]] /\ OrphansSound(new)
  <1> DEFINE new == [h.orphans EXCEPT ![n] = row]
  <1>1. h.orphans \in [RepoName -> [Machine -> Orphan]]
    BY HubTypes
  <1>2. /\ new \in [RepoName -> [Machine -> Orphan]] /\ new[n] = row
        /\ \A k \in RepoName \ {n} : new[k] = h.orphans[k]
    BY <1>1
  <1> HIDE DEF new
  <1>3. ASSUME NEW p \in Machine
        PROVE  /\ \A k \in RepoName : new[k][p].heads \subseteq OpsOf(new[k][p].id)
               /\ Cardinality({k \in RepoName : new[k][p] # NoOrphan})
                     <= MAX_ORPHAN_REPOS_PER_PEER
    <2> DEFINE S == {k \in RepoName : h.orphans[k][p] # NoOrphan}
               T == {k \in RepoName : new[k][p] # NoOrphan}
    <2>1. \A k \in RepoName : new[k][p].heads \subseteq OpsOf(new[k][p].id)
      BY <1>2 DEF OrphansSound
    <2>2. T \subseteq S \cup {n}
      BY <1>2
    <2>3. Cardinality(S) <= MAX_ORPHAN_REPOS_PER_PEER
      BY DEF OrphansSound
    <2>4. n \in T => n \in S \/ Cardinality(S) < MAX_ORPHAN_REPOS_PER_PEER
      BY <1>2 DEF CanRemember, OrphansHeldBy
    <2>5. S \in SUBSET RepoName /\ T \in SUBSET RepoName
      OBVIOUS
    <2> HIDE DEF S, T
    <2>6. Cardinality(T) <= MAX_ORPHAN_REPOS_PER_PEER
      BY <2>2, <2>3, <2>4, <2>5, OrphansBounded
    <2> QED BY <2>1, <2>6 DEF T
  <1>4. OrphansSound(new)
    BY <1>3 DEF OrphansSound
  <1> QED BY <1>2, <1>4 DEF new

\* An announcement for every connected peer.
LEMMA BroadcastFacts ==
    ASSUME NEW h \in HubState, OutboxSound(h.outbox), NEW n \in RepoName,
           NEW a \in Announce, AnnounceSound(a)
    PROVE  LET outbox == Broadcast(h, n, a)
           IN  outbox \in [Machine -> [RepoName -> Announce]] /\ OutboxSound(outbox)
  <1> DEFINE outbox == Broadcast(h, n, a)
  <1>1. h.outbox \in [Machine -> [RepoName -> Announce]]
    BY HubTypes
  <1>2. /\ outbox \in [Machine -> [RepoName -> Announce]]
        /\ \A p \in Machine, k \in RepoName : outbox[p][k] \in {a, h.outbox[p][k]}
    BY <1>1 DEF Broadcast
  <1> HIDE DEF outbox
  <1>3. OutboxSound(outbox)
    BY <1>2 DEF OutboxSound
  <1> QED BY <1>2, <1>3 DEF outbox

-----------------------------------------------------------------------------
\* The operations that change one repo's entry.

LEMMA SameHub ==
    ASSUME NEW h \in HubState, HubSound(h)
    PROVE  HubStep(h, h)
  BY DEF HubStep, SlotsAdvance

\* An operation follows one that leaves the slots alone.
LEMMA ThenStep ==
    ASSUME NEW h \in HubState, NEW f, HubStep(h, f), f.conn = h.conn,
           \A n \in RepoName : f.repos[n].inbox = h.repos[n].inbox,
           NEW k, HubStep(f, k)
    PROVE  HubStep(h, k)
  <1>1. SlotsAdvance(h, k)
    BY DEF HubStep, SlotsAdvance, Registered
  <1> QED BY <1>1 DEF HubStep

LEMMA EntryStep ==
    ASSUME NEW h \in HubState, HubSound(h), NEW k \in HubState, NEW n \in RepoName,
           NEW e \in RepoEntry, EntrySound(e), e.id = h.repos[n].id,
           \A p \in Machine :
              e.inbox[p] = h.repos[n].inbox[p] \/ Advances(h.repos[n].inbox[p], e.inbox[p]),
           k.repos = [h.repos EXCEPT ![n] = e], k.conn = h.conn,
           OrphansSound(k.orphans), OutboxSound(k.outbox)
    PROVE  HubStep(h, k)
  <1>1. /\ EntriesSound(k.repos)
        /\ k.repos[n] = e /\ \A j \in RepoName \ {n} : k.repos[j] = h.repos[j]
    <2>1. h.repos \in [RepoName -> RepoEntry] /\ EntriesSound(h.repos)
      BY HubTypes DEF HubSound
    <2> QED BY <2>1, SetEntry
  <1>2. HubSound(k)
    BY <1>1 DEF HubSound
  <1>3. SlotsAdvance(h, k)
    BY <1>1 DEF SlotsAdvance
  <1> QED BY <1>1, <1>2, <1>3 DEF HubStep

\* A task publishes heads of its repo.
LEMMA PublishStep ==
    ASSUME NEW h \in HubState, HubSound(h), NEW n \in RepoName, NEW id \in RepoId,
           NEW heads \in SUBSET Op, heads \subseteq OpsOf(id)
    PROVE  HubStep(h, Publish(h, n, id, heads))
  <1>1. CASE h.repos[n].id # id
    BY <1>1, SameHub DEF Publish
  <1>2. CASE h.repos[n].id = id
    <2> DEFINE seq == h.announceSeq + 1
               a == [id |-> id, seq |-> seq, heads |-> heads]
               e == [h.repos[n] EXCEPT !.seq = seq, !.published = heads]
               outbox == Broadcast(h, n, a)
               k == [h EXCEPT !.announceSeq = seq, !.repos[n] = e, !.outbox = outbox]
    <2>1. Publish(h, n, id, heads) = k
      BY <1>2 DEF Publish
    <2>2. h.repos \in [RepoName -> RepoEntry] /\ seq \in Nat /\ h.repos[n] \in RepoEntry
      BY HubTypes
    <2>3. a \in Announce /\ AnnounceSound(a)
      BY <2>2 DEF Announce, AnnounceSound
    <2> HIDE DEF seq, a
    <2>4. /\ e \in RepoEntry /\ e.id = id /\ e.published = heads
          /\ e.inbox = h.repos[n].inbox
      BY <1>2, <2>2 DEF RepoEntry
    <2>5. outbox \in [Machine -> [RepoName -> Announce]] /\ OutboxSound(outbox)
      BY <2>3, BroadcastFacts DEF HubSound
    <2> HIDE DEF e, outbox
    <2>6. EntrySound(e)
      BY <1>2, <2>4 DEF EntrySound, HubSound, EntriesSound
    <2>7. /\ k \in HubState /\ k.repos = [h.repos EXCEPT ![n] = e] /\ k.conn = h.conn
          /\ k.orphans = h.orphans /\ k.outbox = outbox
      BY <2>2, <2>4, <2>5 DEF HubState
    <2> HIDE DEF k
    <2> QED BY <1>2, <2>1, <2>4, <2>5, <2>6, <2>7, EntryStep DEF HubSound
  <1> QED BY <1>1, <1>2

\* A repo's serve handle is set or dropped.
LEMMA ServingStep ==
    ASSUME NEW h \in HubState, HubSound(h), NEW n \in RepoName, NEW id
    PROVE  /\ HubStep(h, RepoClosed(h, n, id))
           /\ LET k == RepoOpened(h, n, id)
              IN  /\ HubStep(h, k) /\ k.conn = h.conn
                  /\ \A j \in RepoName : k.repos[j].inbox = h.repos[j].inbox
  <1>1. ASSUME NEW b \in BOOLEAN
        PROVE  LET k == [h EXCEPT !.repos[n].serving = b]
               IN  /\ HubStep(h, k) /\ k.conn = h.conn
                   /\ \A j \in RepoName : k.repos[j].inbox = h.repos[j].inbox
    <2> DEFINE e == [h.repos[n] EXCEPT !.serving = b]
               k == [h EXCEPT !.repos[n] = e]
    <2>1. k = [h EXCEPT !.repos[n].serving = b]
      OBVIOUS
    <2>2. h.repos \in [RepoName -> RepoEntry] /\ h.repos[n] \in RepoEntry
      BY HubTypes
    <2>3. /\ e \in RepoEntry /\ e.id = h.repos[n].id /\ e.published = h.repos[n].published
          /\ e.inbox = h.repos[n].inbox
      BY <2>2 DEF RepoEntry
    <2> HIDE DEF e
    <2>4. EntrySound(e)
      BY <2>3 DEF EntrySound, HubSound, EntriesSound
    <2>5. /\ k \in HubState /\ k.repos = [h.repos EXCEPT ![n] = e] /\ k.conn = h.conn
          /\ k.orphans = h.orphans /\ k.outbox = h.outbox
      BY <2>2, <2>3 DEF HubState
    <2> HIDE DEF k
    <2>6. HubStep(h, k)
      BY <2>3, <2>4, <2>5, EntryStep DEF HubSound
    <2>7. \A j \in RepoName : k.repos[j].inbox = h.repos[j].inbox
      BY <2>2, <2>3, <2>5
    <2> QED BY <2>1, <2>5, <2>6, <2>7
  <1> QED BY <1>1, SameHub DEF RepoOpened, RepoClosed

\* A slot of one peer is replaced.
LEMMA SetSlot ==
    ASSUME NEW h \in HubState, HubSound(h), NEW n \in RepoName, NEW p \in Machine,
           NEW s \in Slot, s.heads \subseteq OpsOf(h.repos[n].id), s.heads = {} => s.drained
    PROVE  LET k == [h EXCEPT !.repos[n].inbox[p] = s]
           IN  /\ k \in HubState /\ HubSound(k) /\ k.conn = h.conn
               /\ k.orphans = h.orphans /\ k.outbox = h.outbox
               /\ \A j \in RepoName : k.repos[j].id = h.repos[j].id
               /\ k.repos[n].inbox[p] = s
               /\ \A j \in RepoName, q \in Machine :
                     j # n \/ q # p => k.repos[j].inbox[q] = h.repos[j].inbox[q]
  <1> DEFINE inbox == [h.repos[n].inbox EXCEPT ![p] = s]
             e == [h.repos[n] EXCEPT !.inbox = inbox]
             k == [h EXCEPT !.repos[n] = e]
  <1>1. k = [h EXCEPT !.repos[n].inbox[p] = s]
    OBVIOUS
  <1>2. h.repos \in [RepoName -> RepoEntry] /\ h.repos[n] \in RepoEntry
    BY HubTypes
  <1>3. /\ inbox \in [Machine -> Slot] /\ inbox[p] = s
        /\ \A q \in Machine \ {p} : inbox[q] = h.repos[n].inbox[q]
    BY <1>2, EntryTypes
  <1> HIDE DEF inbox
  <1>4. /\ e \in RepoEntry /\ e.id = h.repos[n].id /\ e.published = h.repos[n].published
        /\ e.inbox = inbox
    BY <1>2, <1>3 DEF RepoEntry
  <1> HIDE DEF e
  <1>5. EntrySound(h.repos[n])
    BY DEF HubSound, EntriesSound
  <1>6. EntrySound(e)
    <2> SUFFICES ASSUME NEW q \in Machine
                 PROVE  e.inbox[q].heads \subseteq OpsOf(e.id)
                        /\ (e.inbox[q].heads = {} => e.inbox[q].drained)
      BY <1>4, <1>5 DEF EntrySound
    <2>1. CASE q = p
      BY <1>3, <1>4, <2>1
    <2>2. CASE q # p
      BY <1>3, <1>4, <1>5, <2>2 DEF EntrySound
    <2> QED BY <2>1, <2>2
  <1>7. /\ k \in HubState /\ k.repos = [h.repos EXCEPT ![n] = e] /\ k.conn = h.conn
        /\ k.orphans = h.orphans /\ k.outbox = h.outbox
    BY <1>2, <1>4 DEF HubState
  <1> HIDE DEF k
  <1>8. /\ EntriesSound(k.repos)
        /\ k.repos[n] = e /\ \A j \in RepoName \ {n} : k.repos[j] = h.repos[j]
    BY <1>2, <1>4, <1>6, <1>7, SetEntry DEF HubSound
  <1>9. HubSound(k)
    BY <1>7, <1>8 DEF HubSound
  <1>10. \A j \in RepoName : k.repos[j].id = h.repos[j].id
    BY <1>4, <1>8
  <1>11. k.repos[n].inbox[p] = s
    BY <1>3, <1>4, <1>8
  <1>12. \A j \in RepoName, q \in Machine :
            j # n \/ q # p => k.repos[j].inbox[q] = h.repos[j].inbox[q]
    BY <1>3, <1>4, <1>8
  <1> QED BY <1>1, <1>7, <1>9, <1>10, <1>11, <1>12

LEMMA AdvanceStep ==
    ASSUME NEW h \in HubState, HubSound(h), NEW n \in RepoName, NEW p \in Machine,
           NEW s \in Slot, s.heads \subseteq OpsOf(h.repos[n].id), s.drained <=> s.heads = {}
    PROVE  HubStep(h, Advance(h, p, n, s))
  <1>1. CASE h.repos[n].inbox[p].seq >= s.seq
    BY <1>1, SameHub DEF Advance
  <1>2. CASE ~(h.repos[n].inbox[p].seq >= s.seq)
    <2> DEFINE k == [h EXCEPT !.repos[n].inbox[p] = s]
    <2>1. Advance(h, p, n, s) = k
      BY <1>2 DEF Advance
    <2>2. /\ k \in HubState /\ HubSound(k)
          /\ \A j \in RepoName : k.repos[j].id = h.repos[j].id
          /\ k.repos[n].inbox[p] = s
          /\ \A j \in RepoName, q \in Machine :
                j # n \/ q # p => k.repos[j].inbox[q] = h.repos[j].inbox[q]
      BY SetSlot
    <2> HIDE DEF k
    <2>3. Advances(h.repos[n].inbox[p], s)
      <3>1. h.repos[n].inbox[p].seq \in Nat /\ s.seq \in Nat
        BY HubTypes, EntryTypes, SlotTypes
      <3> QED BY <1>2, <3>1 DEF Advances
    <2>4. SlotsAdvance(h, k)
      BY <2>2, <2>3 DEF SlotsAdvance
    <2> QED BY <2>1, <2>2, <2>4 DEF HubStep
  <1> QED BY <1>1, <1>2

LEMMA DrainStep ==
    ASSUME NEW h \in HubState, HubSound(h), NEW n \in RepoName, NEW k, k = Drain(h, n)
    PROVE  /\ k \in HubState /\ HubSound(k) /\ k.conn = h.conn
           /\ \A j \in RepoName : k.repos[j].id = h.repos[j].id
           /\ \A j \in RepoName, p \in Machine :
                 /\ k.repos[j].inbox[p].seq = h.repos[j].inbox[p].seq
                 /\ k.repos[j].inbox[p].heads = h.repos[j].inbox[p].heads
                 /\ j # n => k.repos[j].inbox[p] = h.repos[j].inbox[p]
  <1> DEFINE inbox == [p \in Machine |-> [h.repos[n].inbox[p] EXCEPT !.drained = TRUE]]
             e == [h.repos[n] EXCEPT !.inbox = inbox]
             g == [h EXCEPT !.repos[n] = e]
  <1>1. k = g
    BY DEF Drain
  <1>2. h.repos \in [RepoName -> RepoEntry] /\ h.repos[n] \in RepoEntry
    BY HubTypes
  <1>3. \A p \in Machine : h.repos[n].inbox[p] \in Slot
    BY <1>2, EntryTypes
  <1>4. /\ inbox \in [Machine -> Slot]
        /\ \A p \in Machine : /\ inbox[p].heads = h.repos[n].inbox[p].heads
                              /\ inbox[p].seq = h.repos[n].inbox[p].seq
                              /\ inbox[p].drained
    BY <1>3 DEF Slot
  <1> HIDE DEF inbox
  <1>5. /\ e \in RepoEntry /\ e.id = h.repos[n].id /\ e.published = h.repos[n].published
        /\ e.inbox = inbox
    BY <1>2, <1>4 DEF RepoEntry
  <1> HIDE DEF e
  <1>6. EntrySound(h.repos[n])
    BY DEF HubSound, EntriesSound
  <1>7. EntrySound(e)
    BY <1>4, <1>5, <1>6 DEF EntrySound
  <1>8. /\ g \in HubState /\ g.repos = [h.repos EXCEPT ![n] = e] /\ g.conn = h.conn
        /\ g.orphans = h.orphans /\ g.outbox = h.outbox
    BY <1>2, <1>5 DEF HubState
  <1> HIDE DEF g
  <1>9. /\ EntriesSound(g.repos)
        /\ g.repos[n] = e /\ \A j \in RepoName \ {n} : g.repos[j] = h.repos[j]
    BY <1>2, <1>5, <1>7, <1>8, SetEntry DEF HubSound
  <1>10. HubSound(g)
    BY <1>8, <1>9 DEF HubSound
  <1>11. \A j \in RepoName : g.repos[j].id = h.repos[j].id
    BY <1>5, <1>9
  <1>12. \A j \in RepoName, p \in Machine :
            /\ g.repos[j].inbox[p].seq = h.repos[j].inbox[p].seq
            /\ g.repos[j].inbox[p].heads = h.repos[j].inbox[p].heads
            /\ j # n => g.repos[j].inbox[p] = h.repos[j].inbox[p]
    BY <1>4, <1>5, <1>9
  <1> QED BY <1>1, <1>8, <1>10, <1>11, <1>12

\* An announcement is queued again in the slot it was drained from, as far as
\* the sequence tells.
Requeued(old, new, x) ==
    \/ new = old
    \/ /\ old.seq = x.seq /\ old.drained
       /\ new.seq = x.seq /\ new.heads = x.heads /\ ~new.drained

LEMMA RequeueStep ==
    ASSUME NEW h \in HubState, HubSound(h), NEW n \in RepoName,
           NEW x \in [peer : Machine, seq : Nat, heads : SUBSET Op],
           x.heads # {}, x.heads \subseteq OpsOf(h.repos[n].id),
           NEW k, k = Requeue(h, n, x)
    PROVE  /\ k \in HubState /\ HubSound(k) /\ k.conn = h.conn
           /\ \A j \in RepoName : k.repos[j].id = h.repos[j].id
           /\ \A j \in RepoName, q \in Machine :
                 j # n \/ q # x.peer => k.repos[j].inbox[q] = h.repos[j].inbox[q]
           /\ Requeued(h.repos[n].inbox[x.peer], k.repos[n].inbox[x.peer], x)
  <1> DEFINE old == h.repos[n].inbox[x.peer]
             s == [old EXCEPT !.heads = x.heads, !.drained = FALSE]
  <1>1. CASE ~(old.seq = x.seq /\ old.drained)
    BY <1>1 DEF Requeue, Requeued
  <1>2. CASE old.seq = x.seq /\ old.drained
    <2>1. k = [h EXCEPT !.repos[n].inbox[x.peer] = s]
      BY <1>2 DEF Requeue
    <2>2. x.peer \in Machine /\ old \in Slot
      BY HubTypes, EntryTypes
    <2>3. s \in Slot /\ s.heads = x.heads /\ ~s.drained /\ s.seq = old.seq
      BY <2>2 DEF Slot
    <2> HIDE DEF s, old
    <2>4. s.heads \subseteq OpsOf(h.repos[n].id) /\ (s.heads = {} => s.drained)
      BY <2>3
    <2>5. PICK p \in Machine : p = x.peer
      BY <2>2
    <2>6. /\ k \in HubState /\ HubSound(k) /\ k.conn = h.conn
          /\ \A j \in RepoName : k.repos[j].id = h.repos[j].id
          /\ k.repos[n].inbox[x.peer] = s
          /\ \A j \in RepoName, q \in Machine :
                j # n \/ q # x.peer => k.repos[j].inbox[q] = h.repos[j].inbox[q]
      <3> DEFINE g == [h EXCEPT !.repos[n].inbox[p] = s]
      <3>1. /\ g \in HubState /\ HubSound(g) /\ g.conn = h.conn
            /\ \A j \in RepoName : g.repos[j].id = h.repos[j].id
            /\ g.repos[n].inbox[p] = s
            /\ \A j \in RepoName, q \in Machine :
                  j # n \/ q # p => g.repos[j].inbox[q] = h.repos[j].inbox[q]
        BY <2>3, <2>4, SetSlot
      <3>2. k = g
        BY <2>1, <2>5
      <3> HIDE DEF g
      <3> QED BY <2>5, <3>1, <3>2
    <2> QED BY <1>2, <2>1, <2>3, <2>6 DEF old, Requeued
  <1> QED BY <1>1, <1>2

-----------------------------------------------------------------------------
\* The operations that register repos and connections.

\* What registering and unregistering a repo makes of a hub.
Refiled(h, k, n, id) ==
    /\ k \in HubState /\ HubSound(k) /\ SlotsAdvance(h, k) /\ k.conn = h.conn
    /\ k.repos[n].id = id /\ k.repos[n].published = {}
    /\ \A p \in Machine : k.repos[n].inbox[p] = NoSlot
    /\ \A j \in RepoName \ {n} : k.repos[j] = h.repos[j]

LEMMA RefiledFacts ==
    ASSUME NEW h \in HubState, HubSound(h), NEW k \in HubState, NEW n \in RepoName,
           NEW e \in RepoEntry, e.published = {}, \A p \in Machine : e.inbox[p] = NoSlot,
           h.repos[n].id = NoId \/ e.id = NoId,
           k.repos = [h.repos EXCEPT ![n] = e], k.conn = h.conn,
           OrphansSound(k.orphans), OutboxSound(k.outbox)
    PROVE  Refiled(h, k, n, e.id)
  <1>1. EntrySound(e)
    BY NoSlotFacts DEF EntrySound
  <1>2. /\ EntriesSound(k.repos)
        /\ k.repos[n] = e /\ \A j \in RepoName \ {n} : k.repos[j] = h.repos[j]
    <2>1. h.repos \in [RepoName -> RepoEntry] /\ EntriesSound(h.repos)
      BY HubTypes DEF HubSound
    <2> QED BY <1>1, <2>1, SetEntry
  <1>3. HubSound(k)
    BY <1>2 DEF HubSound
  <1>4. SlotsAdvance(h, k)
    BY <1>2 DEF SlotsAdvance, Registered
  <1> QED BY <1>2, <1>3, <1>4 DEF Refiled

LEMMA RegisterStep ==
    ASSUME NEW h \in HubState, HubSound(h), NEW n \in RepoName, NEW id \in RepoId,
           ~Registered(h, n)
    PROVE  Refiled(h, RegisterRepo(h, n, id), n, id)
  <1> DEFINE conflicts == [p \in Machine |->
                 IF h.orphans[n][p].id # id THEN h.orphans[n][p].id ELSE NoId]
             e == [NewEntry(id) EXCEPT !.conflicts = conflicts]
             row == [p \in Machine |-> NoOrphan]
             orphans == [h.orphans EXCEPT ![n] = row]
             k == [h EXCEPT !.repos[n] = e, !.orphans = orphans]
  <1>1. k = RegisterRepo(h, n, id)
    BY DEF RegisterRepo
  <1>2. conflicts \in [Machine -> RepoId \cup {NoId}]
    BY HubTypes DEF Orphan
  <1> HIDE DEF conflicts
  <1>3. /\ e \in RepoEntry /\ e.id = id /\ e.published = {}
        /\ \A p \in Machine : e.inbox[p] = NoSlot
    BY <1>2, NoSlotFacts DEF NewEntry, RepoEntry
  <1>4. row \in [Machine -> Orphan] /\ \A p \in Machine : row[p] = NoOrphan
    BY NoOrphanFacts
  <1> HIDE DEF row
  <1>5. orphans \in [RepoName -> [Machine -> Orphan]] /\ OrphansSound(orphans)
    BY <1>4, NoOrphanFacts, SetOrphans DEF HubSound
  <1>6. h.repos \in [RepoName -> RepoEntry]
    BY HubTypes
  <1> HIDE DEF e, orphans
  <1>7. /\ k \in HubState /\ k.repos = [h.repos EXCEPT ![n] = e] /\ k.conn = h.conn
        /\ k.orphans = orphans /\ k.outbox = h.outbox
    BY <1>3, <1>5, <1>6 DEF HubState
  <1> HIDE DEF k
  <1>8. h.repos[n].id = NoId
    BY DEF Registered
  <1>9. Refiled(h, k, n, e.id)
    BY <1>3, <1>5, <1>7, <1>8, RefiledFacts DEF HubSound
  <1> QED BY <1>1, <1>3, <1>9

LEMMA UnregisterStep ==
    ASSUME NEW h \in HubState, HubSound(h), NEW n \in RepoName
    PROVE  Refiled(h, UnregisterRepo(h, n), n, NoId)
  <1> DEFINE entry == h.repos[n]
             row == [p \in Machine |->
                        IF entry.inbox[p].heads # {} /\ CanRemember(h, p, n)
                        THEN [id |-> entry.id, heads |-> entry.inbox[p].heads]
                        ELSE h.orphans[n][p]]
             orphans == [h.orphans EXCEPT ![n] = row]
             e == NewEntry(NoId)
             seq == h.announceSeq + 1
             a == [id |-> entry.id, seq |-> seq, heads |-> {}]
             outbox == Broadcast(h, n, a)
             gone == [h EXCEPT !.repos[n] = e, !.orphans = orphans]
             told == [gone EXCEPT !.announceSeq = seq, !.outbox = outbox]
  <1>1. UnregisterRepo(h, n) = IF entry.published = {} THEN gone ELSE told
    BY DEF UnregisterRepo, Broadcast
  <1>2. /\ h.repos \in [RepoName -> RepoEntry] /\ entry \in RepoEntry /\ seq \in Nat
        /\ entry.id \in RepoId \cup {NoId} /\ EntrySound(entry)
    BY HubTypes, EntryTypes DEF HubSound, EntriesSound
  <1>3. \A p \in Machine :
           /\ row[p] \in Orphan
           /\ row[p].heads \subseteq OpsOf(row[p].id)
           /\ row[p] # NoOrphan => CanRemember(h, p, n)
    <2> SUFFICES ASSUME NEW p \in Machine
                 PROVE  /\ row[p] \in Orphan
                        /\ row[p].heads \subseteq OpsOf(row[p].id)
                        /\ row[p] # NoOrphan => CanRemember(h, p, n)
      OBVIOUS
    <2>1. /\ h.orphans[n][p] \in Orphan
          /\ h.orphans[n][p].heads \subseteq OpsOf(h.orphans[n][p].id)
      BY HubTypes DEF HubSound, OrphansSound
    <2>2. entry.inbox[p].heads \in SUBSET Op /\ entry.inbox[p].heads \subseteq OpsOf(entry.id)
      BY <1>2, EntryTypes, SlotTypes DEF EntrySound
    <2>3. CASE entry.inbox[p].heads # {} /\ CanRemember(h, p, n)
      BY <1>2, <2>2, <2>3 DEF Orphan
    <2>4. CASE ~(entry.inbox[p].heads # {} /\ CanRemember(h, p, n))
      BY <2>1, <2>4 DEF CanRemember
    <2> QED BY <2>3, <2>4
  <1>4. row \in [Machine -> Orphan]
    BY <1>3
  <1> HIDE DEF row
  <1>5. orphans \in [RepoName -> [Machine -> Orphan]] /\ OrphansSound(orphans)
    BY <1>3, <1>4, SetOrphans DEF HubSound
  <1>6. a \in Announce /\ AnnounceSound(a)
    BY <1>2 DEF Announce, AnnounceSound
  <1> HIDE DEF a, orphans
  <1>7. outbox \in [Machine -> [RepoName -> Announce]] /\ OutboxSound(outbox)
    BY <1>6, BroadcastFacts DEF HubSound
  <1> HIDE DEF outbox
  <1>8. /\ e \in RepoEntry /\ e.id = NoId /\ e.published = {}
        /\ \A p \in Machine : e.inbox[p] = NoSlot
    BY NewEntryFacts DEF NewEntry
  <1> HIDE DEF e, seq
  <1>9. /\ gone \in HubState /\ gone.repos = [h.repos EXCEPT ![n] = e] /\ gone.conn = h.conn
        /\ gone.orphans = orphans /\ gone.outbox = h.outbox
    BY <1>2, <1>5, <1>8 DEF HubState
  <1> HIDE DEF gone
  <1>10. /\ told \in HubState /\ told.repos = gone.repos /\ told.conn = gone.conn
         /\ told.orphans = gone.orphans /\ told.outbox = outbox
    BY <1>2, <1>7, <1>9 DEF HubState
  <1> HIDE DEF told, entry
  <1>11. Refiled(h, gone, n, e.id)
    BY <1>5, <1>8, <1>9, RefiledFacts DEF HubSound
  <1>12. Refiled(h, told, n, e.id)
    BY <1>5, <1>7, <1>8, <1>9, <1>10, RefiledFacts DEF HubSound
  <1> QED BY <1>1, <1>8, <1>11, <1>12

-----------------------------------------------------------------------------
\* Connections come and go, and the sender takes what is pending.

\* An operation that leaves the repos alone.
LEMMA OtherStep ==
    ASSUME NEW h \in HubState, HubSound(h), NEW k \in HubState, k.repos = h.repos,
           OrphansSound(k.orphans), OutboxSound(k.outbox)
    PROVE  HubStep(h, k)
  BY DEF HubStep, HubSound, SlotsAdvance

LEMMA ForgetFacts ==
    ASSUME NEW h \in HubState, HubSound(h), NEW p \in Machine
    PROVE  LET f == ForgetPeer(h, p)
           IN  /\ f \in HubState /\ EntriesSound(f.repos) /\ OrphansSound(f.orphans)
               /\ f.announceSeq = h.announceSeq /\ f.conn = h.conn /\ f.outbox = h.outbox
               /\ f.sending = h.sending
               /\ \A n \in RepoName :
                     /\ f.repos[n].id = h.repos[n].id
                     /\ f.repos[n].inbox[p] = NoSlot
                     /\ \A q \in Machine \ {p} : f.repos[n].inbox[q] = h.repos[n].inbox[q]
  <1> DEFINE repos == [n \in RepoName |-> [h.repos[n] EXCEPT !.inbox[p] = NoSlot,
                                                             !.conflicts[p] = NoId]]
             orphans == [n \in RepoName |-> [h.orphans[n] EXCEPT ![p] = NoOrphan]]
             f == [h EXCEPT !.repos = repos, !.orphans = orphans]
  <1>1. f = ForgetPeer(h, p)
    BY DEF ForgetPeer
  <1>2. ASSUME NEW n \in RepoName
        PROVE  /\ repos[n] \in RepoEntry /\ EntrySound(repos[n])
               /\ repos[n].id = h.repos[n].id /\ repos[n].inbox[p] = NoSlot
               /\ \A q \in Machine \ {p} : repos[n].inbox[q] = h.repos[n].inbox[q]
    <2> DEFINE old == h.repos[n]
               inbox == [old.inbox EXCEPT ![p] = NoSlot]
               conflicts == [old.conflicts EXCEPT ![p] = NoId]
               e == [old EXCEPT !.inbox = inbox, !.conflicts = conflicts]
    <2>1. repos[n] = e
      OBVIOUS
    <2>2. old \in RepoEntry /\ EntrySound(old)
      BY HubTypes DEF HubSound, EntriesSound
    <2> HIDE DEF old
    <2>3. /\ inbox \in [Machine -> Slot] /\ inbox[p] = NoSlot
          /\ \A q \in Machine \ {p} : inbox[q] = old.inbox[q]
      BY <2>2, EntryTypes, NoSlotFacts
    <2>4. conflicts \in [Machine -> RepoId \cup {NoId}]
      BY <2>2, EntryTypes
    <2> HIDE DEF inbox, conflicts
    <2>5. /\ e \in RepoEntry /\ e.id = old.id /\ e.published = old.published
          /\ e.inbox = inbox
      BY <2>2, <2>3, <2>4 DEF RepoEntry
    <2> HIDE DEF e
    <2>6. EntrySound(e)
      <3> SUFFICES ASSUME NEW q \in Machine
                   PROVE  inbox[q].heads \subseteq OpsOf(old.id)
                          /\ (inbox[q].heads = {} => inbox[q].drained)
        BY <2>2, <2>5 DEF EntrySound
      <3>1. CASE q = p
        BY <2>3, <3>1, NoSlotFacts
      <3>2. CASE q # p
        BY <2>2, <2>3, <3>2 DEF EntrySound
      <3> QED BY <3>1, <3>2
    <2> HIDE DEF repos
    <2> QED BY <2>1, <2>3, <2>5, <2>6 DEF old
  <1>3. repos \in [RepoName -> RepoEntry] /\ EntriesSound(repos)
    BY <1>2 DEF EntriesSound
  <1>4. orphans \in [RepoName -> [Machine -> Orphan]]
    BY HubTypes, NoOrphanFacts
  <1>5. OrphansSound(orphans)
    <2> SUFFICES ASSUME NEW q \in Machine
                 PROVE  /\ \A n \in RepoName :
                              orphans[n][q].heads \subseteq OpsOf(orphans[n][q].id)
                        /\ Cardinality({n \in RepoName : orphans[n][q] # NoOrphan})
                              <= MAX_ORPHAN_REPOS_PER_PEER
      BY DEF OrphansSound
    <2>1. \A n \in RepoName : orphans[n][q] \in {NoOrphan, h.orphans[n][q]}
      BY HubTypes
    <2>2. /\ \A n \in RepoName : h.orphans[n][q].heads \subseteq OpsOf(h.orphans[n][q].id)
          /\ Cardinality({n \in RepoName : h.orphans[n][q] # NoOrphan})
                <= MAX_ORPHAN_REPOS_PER_PEER
      BY DEF HubSound, OrphansSound
    <2> HIDE DEF orphans
    <2>3. \A n \in RepoName : orphans[n][q].heads \subseteq OpsOf(orphans[n][q].id)
      BY <2>1, <2>2, NoOrphanFacts
    <2> DEFINE S == {n \in RepoName : h.orphans[n][q] # NoOrphan}
               T == {n \in RepoName : orphans[n][q] # NoOrphan}
    <2>4. S \in SUBSET RepoName /\ T \in SUBSET S
      BY <2>1
    <2>5. Cardinality(S) <= MAX_ORPHAN_REPOS_PER_PEER
      BY <2>2
    <2> HIDE DEF S, T
    <2>6. IsFiniteSet(S) /\ Cardinality(S) \in Nat
      BY <2>4, HubAssumption, FS_Subset, FS_CardinalityType
    <2>7. Cardinality(T) <= Cardinality(S) /\ Cardinality(T) \in Nat
      BY <2>4, <2>6, FS_Subset, FS_CardinalityType
    <2>8. Cardinality(T) <= MAX_ORPHAN_REPOS_PER_PEER
      BY <2>5, <2>6, <2>7, HubAssumption
    <2> QED BY <2>3, <2>8 DEF T
  <1> HIDE DEF repos, orphans
  <1>6. /\ f \in HubState /\ f.repos = repos /\ f.orphans = orphans
        /\ f.announceSeq = h.announceSeq /\ f.conn = h.conn /\ f.outbox = h.outbox
        /\ f.sending = h.sending
    BY <1>3, <1>4 DEF HubState
  <1> HIDE DEF f
  <1> QED BY <1>1, <1>2, <1>3, <1>5, <1>6

\* A peer's connection changes: what the hub knew of the peer is forgotten.
LEMMA PeerChanges ==
    ASSUME NEW h \in HubState, HubSound(h), NEW p \in Machine,
           NEW c \in Nat, c # h.conn[p] \/ c = 0, NEW row \in [RepoName -> Announce],
           \A n \in RepoName : AnnounceSound(row[n]), NEW b \in BOOLEAN
    PROVE  HubStep(h, [ForgetPeer(h, p) EXCEPT
                           !.conn[p] = c, !.outbox[p] = row, !.sending[p] = b])
  <1>1. PICK f : f = ForgetPeer(h, p)
    OBVIOUS
  <1>2. /\ f \in HubState /\ EntriesSound(f.repos) /\ OrphansSound(f.orphans)
        /\ f.announceSeq = h.announceSeq /\ f.conn = h.conn /\ f.outbox = h.outbox
        /\ f.sending = h.sending
        /\ \A n \in RepoName :
              /\ f.repos[n].id = h.repos[n].id
              /\ f.repos[n].inbox[p] = NoSlot
              /\ \A q \in Machine \ {p} : f.repos[n].inbox[q] = h.repos[n].inbox[q]
    BY <1>1, ForgetFacts
  <1> DEFINE conn == [f.conn EXCEPT ![p] = c]
             outbox == [f.outbox EXCEPT ![p] = row]
             sending == [f.sending EXCEPT ![p] = b]
             k == [f EXCEPT !.conn = conn, !.outbox = outbox, !.sending = sending]
  <1>3. k = [f EXCEPT !.conn[p] = c, !.outbox[p] = row, !.sending[p] = b]
    OBVIOUS
  <1>4. conn \in [Machine -> Nat] /\ conn[p] = c
    BY <1>2, HubTypes
  <1>5. /\ outbox \in [Machine -> [RepoName -> Announce]] /\ outbox[p] = row
        /\ \A q \in Machine \ {p} : outbox[q] = h.outbox[q]
    BY <1>2, HubTypes
  <1>6. sending \in [Machine -> BOOLEAN]
    BY <1>2, HubTypes
  <1> HIDE DEF conn, outbox, sending
  <1>7. /\ k \in HubState /\ k.repos = f.repos /\ k.orphans = f.orphans
        /\ k.conn = conn /\ k.outbox = outbox
    BY <1>2, <1>4, <1>5, <1>6 DEF HubState
  <1> HIDE DEF k
  <1>8. OutboxSound(outbox)
    BY <1>5 DEF OutboxSound, HubSound
  <1>9. HubSound(k)
    BY <1>2, <1>7, <1>8 DEF HubSound
  <1>10. SlotsAdvance(h, k)
    BY <1>2, <1>4, <1>7 DEF SlotsAdvance
  <1>11. HubStep(h, k)
    BY <1>2, <1>7, <1>9, <1>10 DEF HubStep
  <1> QED BY <1>1, <1>3, <1>11

LEMMA PeerConnectedStep ==
    ASSUME NEW h \in HubState, HubSound(h), NEW p \in Machine,
           NEW c \in Nat, c # h.conn[p]
    PROVE  HubStep(h, PeerConnected(h, p, c))
  <1> DEFINE row == Replay(h)
  <1>1. \A n \in RepoName : row[n] \in Announce /\ AnnounceSound(row[n])
    <2> SUFFICES ASSUME NEW n \in RepoName
                 PROVE  row[n] \in Announce /\ AnnounceSound(row[n])
      OBVIOUS
    <2>1. h.repos[n] \in RepoEntry /\ EntrySound(h.repos[n])
      BY HubTypes DEF HubSound, EntriesSound
    <2>2. CASE h.repos[n].published = {}
      BY <2>2, NoAnnounceFacts DEF Replay
    <2>3. CASE h.repos[n].published # {}
      BY <2>1, <2>3, EntryTypes DEF Replay, Announce, AnnounceSound, EntrySound
    <2> QED BY <2>2, <2>3
  <1>2. row \in [RepoName -> Announce]
    BY <1>1 DEF Replay
  <1>3. PeerConnected(h, p, c)
          = [ForgetPeer(h, p) EXCEPT !.conn[p] = c, !.outbox[p] = row, !.sending[p] = TRUE]
    BY DEF PeerConnected
  <1> HIDE DEF row
  <1>4. HubStep(h, [ForgetPeer(h, p) EXCEPT
                        !.conn[p] = c, !.outbox[p] = row, !.sending[p] = TRUE])
    BY <1>1, <1>2, PeerChanges
  <1> QED BY <1>3, <1>4

LEMMA PeerDisconnectedStep ==
    ASSUME NEW h \in HubState, HubSound(h), NEW p \in Machine
    PROVE  HubStep(h, PeerDisconnected(h, p))
  <1> DEFINE row == [n \in RepoName |-> NoAnnounce]
  <1>1. row \in [RepoName -> Announce] /\ \A n \in RepoName : AnnounceSound(row[n])
    BY NoAnnounceFacts
  <1>2. PeerDisconnected(h, p)
          = [ForgetPeer(h, p) EXCEPT !.conn[p] = 0, !.outbox[p] = row, !.sending[p] = FALSE]
    BY DEF PeerDisconnected
  <1> HIDE DEF row
  <1>3. HubStep(h, [ForgetPeer(h, p) EXCEPT
                        !.conn[p] = 0, !.outbox[p] = row, !.sending[p] = FALSE])
    BY <1>1, PeerChanges
  <1> QED BY <1>2, <1>3

\* A pending announcement is taken; the sender may stop over it.
LEMMA TakeStep ==
    ASSUME NEW h \in HubState, HubSound(h), NEW p \in Machine, NEW n \in RepoName
    PROVE  /\ HubStep(h, [h EXCEPT !.outbox[p][n] = NoAnnounce])
           /\ HubStep(h, [h EXCEPT !.sending[p] = FALSE, !.outbox[p][n] = NoAnnounce])
           /\ h.outbox[p][n] \in Announce /\ AnnounceSound(h.outbox[p][n])
  <1> DEFINE row == [h.outbox[p] EXCEPT ![n] = NoAnnounce]
             outbox == [h.outbox EXCEPT ![p] = row]
             sending == [h.sending EXCEPT ![p] = FALSE]
             k == [h EXCEPT !.outbox = outbox]
             stopped == [h EXCEPT !.outbox = outbox, !.sending = sending]
  <1>1. /\ k = [h EXCEPT !.outbox[p][n] = NoAnnounce]
        /\ stopped = [h EXCEPT !.sending[p] = FALSE, !.outbox[p][n] = NoAnnounce]
    OBVIOUS
  <1>2. h.outbox[p] \in [RepoName -> Announce]
    BY HubTypes
  <1>3. /\ row \in [RepoName -> Announce]
        /\ \A j \in RepoName : row[j] \in {NoAnnounce, h.outbox[p][j]}
    BY <1>2, NoAnnounceFacts
  <1> HIDE DEF row
  <1>4. /\ outbox \in [Machine -> [RepoName -> Announce]] /\ outbox[p] = row
        /\ \A q \in Machine \ {p} : outbox[q] = h.outbox[q]
    BY <1>3, HubTypes
  <1>5. sending \in [Machine -> BOOLEAN]
    BY HubTypes
  <1> HIDE DEF outbox, sending
  <1>6. \A q \in Machine, j \in RepoName : AnnounceSound(h.outbox[q][j])
    BY DEF HubSound, OutboxSound
  <1>7. OutboxSound(outbox)
    BY <1>3, <1>4, <1>6, NoAnnounceFacts DEF OutboxSound
  <1>8. k \in HubState /\ k.repos = h.repos /\ k.orphans = h.orphans /\ k.outbox = outbox
    BY <1>4 DEF HubState
  <1>9. /\ stopped \in HubState /\ stopped.repos = h.repos /\ stopped.orphans = h.orphans
        /\ stopped.outbox = outbox
    BY <1>4, <1>5 DEF HubState
  <1> HIDE DEF k, stopped
  <1>10. OrphansSound(h.orphans)
    BY DEF HubSound
  <1>11. HubStep(h, k) /\ HubStep(h, stopped)
    BY <1>7, <1>8, <1>9, <1>10, OtherStep
  <1> QED BY <1>1, <1>2, <1>6, <1>11

-----------------------------------------------------------------------------
\* Routing an announcement.

LEMMA UnregisteredStep ==
    ASSUME NEW h \in HubState, HubSound(h), NEW p \in Machine, NEW n \in RepoName,
           NEW a \in Announce, AnnounceSound(a)
    PROVE  HubStep(h, RouteUnregistered(h, p, n, a))
  <1>1. ASSUME NEW o \in Orphan, o.heads \subseteq OpsOf(o.id),
               o # NoOrphan => CanRemember(h, p, n)
        PROVE  HubStep(h, [h EXCEPT !.orphans[n][p] = o])
    <2> DEFINE row == [h.orphans[n] EXCEPT ![p] = o]
               orphans == [h.orphans EXCEPT ![n] = row]
               k == [h EXCEPT !.orphans = orphans]
    <2>1. k = [h EXCEPT !.orphans[n][p] = o]
      OBVIOUS
    <2>2. h.orphans[n] \in [Machine -> Orphan]
      BY HubTypes
    <2>3. /\ row \in [Machine -> Orphan] /\ row[p] = o
          /\ \A q \in Machine \ {p} : row[q] = h.orphans[n][q]
      BY <2>2, <1>1
    <2> HIDE DEF row
    <2>4. \A q \in Machine :
             /\ row[q].heads \subseteq OpsOf(row[q].id)
             /\ row[q] # NoOrphan => CanRemember(h, q, n)
      <3> SUFFICES ASSUME NEW q \in Machine
                   PROVE  /\ row[q].heads \subseteq OpsOf(row[q].id)
                          /\ row[q] # NoOrphan => CanRemember(h, q, n)
        OBVIOUS
      <3>1. CASE q = p
        BY <1>1, <2>3, <3>1
      <3>2. CASE q # p
        BY <2>3, <3>2 DEF HubSound, OrphansSound, CanRemember
      <3> QED BY <3>1, <3>2
    <2>5. orphans \in [RepoName -> [Machine -> Orphan]] /\ OrphansSound(orphans)
      BY <2>3, <2>4, SetOrphans DEF HubSound
    <2> HIDE DEF orphans
    <2>6. k \in HubState /\ k.repos = h.repos /\ k.orphans = orphans /\ k.outbox = h.outbox
      BY <2>5 DEF HubState
    <2> HIDE DEF k
    <2>7. OutboxSound(h.outbox)
      BY DEF HubSound
    <2>8. HubStep(h, k)
      BY <2>5, <2>6, <2>7, OtherStep
    <2> QED BY <2>1, <2>8
  <1>2. CASE a.heads = {}
    BY <1>1, <1>2, NoOrphanFacts DEF RouteUnregistered
  <1>3. CASE a.heads # {} /\ CanRemember(h, p, n)
    <2> DEFINE o == [id |-> a.id, heads |-> a.heads]
    <2>1. o \in Orphan /\ o.heads \subseteq OpsOf(o.id)
      BY AnnounceTypes DEF Orphan, AnnounceSound
    <2> HIDE DEF o
    <2>2. HubStep(h, [h EXCEPT !.orphans[n][p] = o])
      BY <1>1, <1>3, <2>1
    <2> QED BY <1>3, <2>2 DEF RouteUnregistered, RememberOrphan, o
  <1>4. CASE a.heads # {} /\ ~CanRemember(h, p, n)
    BY <1>4, SameHub DEF RouteUnregistered, RememberOrphan
  <1> QED BY <1>2, <1>3, <1>4

LEMMA ConflictStep ==
    ASSUME NEW h \in HubState, HubSound(h), NEW n \in RepoName, NEW p \in Machine,
           NEW id \in RepoId \cup {NoId}
    PROVE  LET k == [h EXCEPT !.repos[n].conflicts[p] = id]
           IN  /\ HubStep(h, k) /\ k.conn = h.conn
               /\ \A j \in RepoName : k.repos[j].inbox = h.repos[j].inbox
  <1> DEFINE conflicts == [h.repos[n].conflicts EXCEPT ![p] = id]
             e == [h.repos[n] EXCEPT !.conflicts = conflicts]
             k == [h EXCEPT !.repos[n] = e]
  <1>1. k = [h EXCEPT !.repos[n].conflicts[p] = id]
    OBVIOUS
  <1>2. h.repos \in [RepoName -> RepoEntry] /\ h.repos[n] \in RepoEntry
    BY HubTypes
  <1>3. conflicts \in [Machine -> RepoId \cup {NoId}]
    BY <1>2, EntryTypes
  <1> HIDE DEF conflicts
  <1>4. /\ e \in RepoEntry /\ e.id = h.repos[n].id /\ e.published = h.repos[n].published
        /\ e.inbox = h.repos[n].inbox
    BY <1>2, <1>3 DEF RepoEntry
  <1> HIDE DEF e
  <1>5. EntrySound(e)
    BY <1>4 DEF EntrySound, HubSound, EntriesSound
  <1>6. /\ k \in HubState /\ k.repos = [h.repos EXCEPT ![n] = e] /\ k.conn = h.conn
        /\ k.orphans = h.orphans /\ k.outbox = h.outbox
    BY <1>2, <1>4 DEF HubState
  <1> HIDE DEF k
  <1>7. HubStep(h, k)
    BY <1>4, <1>5, <1>6, EntryStep DEF HubSound
  <1>8. \A j \in RepoName : k.repos[j].inbox = h.repos[j].inbox
    BY <1>2, <1>4, <1>6
  <1> QED BY <1>1, <1>6, <1>7, <1>8

LEMMA RegisteredStep ==
    ASSUME NEW h \in HubState, HubSound(h), NEW p \in Machine, NEW n \in RepoName,
           NEW a \in Announce, AnnounceSound(a)
    PROVE  HubStep(h, RouteRegistered(h, p, n, a))
  <1>1. CASE a.heads # {} /\ a.id # h.repos[n].id
    <2>1. a.id \in RepoId \cup {NoId}
      BY AnnounceTypes
    <2>2. HubStep(h, [h EXCEPT !.repos[n].conflicts[p] = a.id])
      BY <2>1, ConflictStep
    <2> QED BY <1>1, <2>2 DEF RouteRegistered
  <1>2. CASE ~(a.heads # {} /\ a.id # h.repos[n].id)
    <2>1. PICK f : f = [h EXCEPT !.repos[n].conflicts[p] = NoId]
      OBVIOUS
    <2>2. /\ HubStep(h, f) /\ f.conn = h.conn
          /\ \A j \in RepoName : f.repos[j].inbox = h.repos[j].inbox
      BY <2>1, ConflictStep
    <2>3. /\ f \in HubState /\ HubSound(f)
          /\ \A j \in RepoName : f.repos[j].id = h.repos[j].id
      BY <2>2 DEF HubStep
    <2> DEFINE s == [seq |-> a.seq, heads |-> a.heads, drained |-> a.heads = {}]
    <2>4. /\ s \in Slot /\ s.heads = a.heads
          /\ s.drained <=> s.heads = {}
      BY AnnounceTypes DEF Slot
    <2>5. RouteRegistered(h, p, n, a) = Advance(f, p, n, s)
      BY <1>2, <2>1 DEF RouteRegistered
    <2> HIDE DEF s
    <2>6. s.heads \subseteq OpsOf(f.repos[n].id)
      BY <1>2, <2>3, <2>4 DEF AnnounceSound
    <2>7. PICK k : k = Advance(f, p, n, s)
      OBVIOUS
    <2>8. HubStep(f, k)
      BY <2>3, <2>4, <2>6, <2>7, AdvanceStep
    <2>9. HubStep(h, k)
      BY <2>2, <2>8, ThenStep
    <2> QED BY <2>5, <2>7, <2>9
  <1> QED BY <1>1, <1>2

LEMMA RouteStep ==
    ASSUME NEW h \in HubState, HubSound(h), NEW p \in Machine, NEW n \in RepoName,
           NEW a \in Announce, AnnounceSound(a)
    PROVE  HubStep(h, RouteAnnounce(h, p, n, a))
  BY RegisteredStep, UnregisteredStep DEF RouteAnnounce

-----------------------------------------------------------------------------
\* A daemon starts: its repos are registered, and nothing else.
LEMMA StartFacts ==
    ASSUME NEW id, \A n \in RepoName : id[n] \in RepoId \cup {NoId}
    PROVE  LET k == [EmptyHub EXCEPT !.repos = [n \in RepoName |-> NewEntry(id[n])]]
           IN  /\ k \in HubState /\ HubSound(k)
               /\ \A p \in Machine : k.conn[p] = 0
               /\ \A n \in RepoName : k.repos[n].id = id[n]
               /\ \A n \in RepoName, p \in Machine : k.repos[n].inbox[p] = NoSlot
  <1> DEFINE repos == [n \in RepoName |-> NewEntry(id[n])]
             k == [EmptyHub EXCEPT !.repos = repos]
             orphans == [n \in RepoName |-> [p \in Machine |-> NoOrphan]]
             outbox == [p \in Machine |-> [n \in RepoName |-> NoAnnounce]]
             conn == [p \in Machine |-> 0]
             sending == [p \in Machine |-> FALSE]
  <1>1. \A n \in RepoName :
           /\ repos[n] \in RepoEntry /\ EntrySound(repos[n]) /\ repos[n].id = id[n]
           /\ \A p \in Machine : repos[n].inbox[p] = NoSlot
    BY NewEntryFacts
  <1>2. repos \in [RepoName -> RepoEntry]
    BY <1>1
  <1> HIDE DEF repos
  <1>3. /\ k.repos = repos /\ k.orphans = orphans /\ k.announceSeq = 0 /\ k.conn = conn
        /\ k.outbox = outbox /\ k.sending = sending
    BY DEF EmptyHub
  <1>4. /\ orphans \in [RepoName -> [Machine -> Orphan]]
        /\ \A n \in RepoName, p \in Machine : orphans[n][p] = NoOrphan
    BY NoOrphanFacts
  <1>5. /\ outbox \in [Machine -> [RepoName -> Announce]]
        /\ \A p \in Machine, n \in RepoName : outbox[p][n] = NoAnnounce
    BY NoAnnounceFacts
  <1>6. conn \in [Machine -> Nat] /\ \A p \in Machine : conn[p] = 0
    OBVIOUS
  <1>7. sending \in [Machine -> BOOLEAN]
    OBVIOUS
  <1> DEFINE none == [n \in RepoName |-> NewEntry(NoId)]
  <1>8. EmptyHub = [repos |-> none, orphans |-> orphans, announceSeq |-> 0, conn |-> conn,
                    outbox |-> outbox, sending |-> sending]
    BY Zenon DEF EmptyHub
  <1> HIDE DEF none, orphans, outbox, conn, sending
  <1>9. k \in HubState
    BY <1>2, <1>4, <1>5, <1>6, <1>7, <1>8 DEF HubState
  <1>10. EntriesSound(repos) /\ OutboxSound(outbox)
    BY <1>1, <1>5, NoAnnounceFacts DEF EntriesSound, OutboxSound
  <1>11. OrphansSound(orphans)
    <2> SUFFICES ASSUME NEW p \in Machine
                 PROVE  /\ \A n \in RepoName :
                              orphans[n][p].heads \subseteq OpsOf(orphans[n][p].id)
                        /\ Cardinality({n \in RepoName : orphans[n][p] # NoOrphan})
                              <= MAX_ORPHAN_REPOS_PER_PEER
      BY DEF OrphansSound
    <2>1. \A n \in RepoName : orphans[n][p].heads \subseteq OpsOf(orphans[n][p].id)
      BY <1>4, NoOrphanFacts
    <2>2. {n \in RepoName : orphans[n][p] # NoOrphan} = {}
      BY <1>4
    <2>3. Cardinality({}) <= MAX_ORPHAN_REPOS_PER_PEER
      BY FS_EmptySet, HubAssumption
    <2> QED BY <2>1, <2>2, <2>3
  <1> HIDE DEF k
  <1>12. HubSound(k)
    BY <1>3, <1>10, <1>11 DEF HubSound
  <1> QED BY <1>1, <1>3, <1>6, <1>9, <1>12 DEF k, repos

-----------------------------------------------------------------------------
\* What the operations tell the peers.

\* Announcements are numbered by one count, and what is not registered is not
\* published.
Numbered(h) ==
    \A n \in RepoName :
        LET e == h.repos[n]
        IN  /\ e.seq <= h.announceSeq
            /\ e.published # {} => e.seq > 0
            /\ e.id = NoId => e.published = {}

\* p is told nothing new of n.
NothingTold(h, k, p, n) ==
    /\ k.conn[p] = h.conn[p] /\ k.outbox[p][n] = h.outbox[p][n]
    /\ k.announceSeq >= h.announceSeq
    /\ \/ k.repos[n].id = h.repos[n].id /\ k.repos[n].published = h.repos[n].published
       \/ k.repos[n].published = {} /\ h.repos[n].published = {}

\* p is told x, if it is connected, over anything pending.
Told(h, k, p, n, x) ==
    /\ k.conn[p] = h.conn[p]
    /\ k.outbox[p][n] = IF h.conn[p] # 0 THEN x ELSE h.outbox[p][n]
    /\ k.announceSeq = h.announceSeq + 1 /\ k.announceSeq = x.seq
    /\ k.repos[n].published = x.heads /\ x.id # NoId
    /\ k.repos[n].id = x.id \/ x.heads = {}

Tells(h, k) ==
    /\ Numbered(k)
    /\ \A p \in Machine, n \in RepoName :
          NothingTold(h, k, p, n) \/ \E x \in Announce : Told(h, k, p, n, x)

\* The hub holds what it held of p's announcements of n.
HearsNothing(h, k, p, n) ==
    /\ k.conn[p] = h.conn[p] /\ k.repos[n].id = h.repos[n].id
    /\ k.repos[n].inbox[p].seq = h.repos[n].inbox[p].seq
    /\ k.repos[n].inbox[p].heads = h.repos[n].inbox[p].heads

\* Nothing changes that peers are told of: of the repos, only what was heard
\* of them.
TellsNothing(h, k) ==
    /\ k.conn = h.conn /\ k.outbox = h.outbox /\ k.announceSeq = h.announceSeq
    /\ \A n \in RepoName : /\ k.repos[n].id = h.repos[n].id
                           /\ k.repos[n].published = h.repos[n].published
                           /\ k.repos[n].seq = h.repos[n].seq

\* Nor what was heard.
Same(h, k) == TellsNothing(h, k) /\ \A n \in RepoName : k.repos[n].inbox = h.repos[n].inbox

LEMMA QuietTells ==
    ASSUME NEW h \in HubState, Numbered(h), NEW k, TellsNothing(h, k)
    PROVE  Tells(h, k)
  <1>1. Numbered(k)
    BY DEF Numbered, TellsNothing
  <1>2. h.announceSeq \in Nat
    BY HubTypes
  <1>3. \A p \in Machine, n \in RepoName : NothingTold(h, k, p, n)
    BY <1>2 DEF NothingTold, TellsNothing
  <1> QED BY <1>1, <1>3 DEF Tells

LEMMA SameTells ==
    ASSUME NEW h \in HubState, Numbered(h), NEW k, Same(h, k)
    PROVE  Tells(h, k) /\ \A p \in Machine, n \in RepoName : HearsNothing(h, k, p, n)
  <1>1. Tells(h, k)
    BY QuietTells DEF Same
  <1> QED BY <1>1 DEF Same, TellsNothing, HearsNothing

LEMMA SameThenTells ==
    ASSUME NEW h \in HubState, NEW f, Same(h, f), NEW k, Tells(f, k),
           \A p \in Machine, n \in RepoName : HearsNothing(f, k, p, n)
    PROVE  Tells(h, k) /\ \A p \in Machine, n \in RepoName : HearsNothing(h, k, p, n)
  <1>1. \A p \in Machine, n \in RepoName :
           /\ NothingTold(f, k, p, n) => NothingTold(h, k, p, n)
           /\ \A x : Told(f, k, p, n, x) => Told(h, k, p, n, x)
    BY DEF Same, TellsNothing, NothingTold, Told
  <1>2. \A p \in Machine, n \in RepoName : HearsNothing(h, k, p, n)
    BY DEF Same, TellsNothing, HearsNothing
  <1> QED BY <1>1, <1>2 DEF Tells

LEMMA PublishTells ==
    ASSUME NEW h \in HubState, Numbered(h), NEW n \in RepoName, NEW id \in RepoId,
           NEW heads \in SUBSET Op, NEW k, k = Publish(h, n, id, heads)
    PROVE  Tells(h, k) /\ \A p \in Machine, j \in RepoName : HearsNothing(h, k, p, j)
  <1>1. CASE h.repos[n].id # id
    <2>1. Same(h, k)
      BY <1>1 DEF Publish, Same, TellsNothing
    <2> QED BY <2>1, SameTells
  <1>2. CASE h.repos[n].id = id
    <2> DEFINE seq == h.announceSeq + 1
               x == [id |-> id, seq |-> seq, heads |-> heads]
               e == [h.repos[n] EXCEPT !.seq = seq, !.published = heads]
               outbox == Broadcast(h, n, x)
    <2>1. k = [h EXCEPT !.announceSeq = seq, !.repos[n] = e, !.outbox = outbox]
      BY <1>2 DEF Publish
    <2>2. /\ h.repos \in [RepoName -> RepoEntry] /\ h.repos[n] \in RepoEntry
          /\ h.announceSeq \in Nat /\ h.outbox \in [Machine -> [RepoName -> Announce]]
      BY HubTypes
    <2>3. /\ x \in Announce /\ x.id = id /\ x.heads = heads /\ x.seq = seq /\ id # NoId
      BY <2>2, HubAssumption DEF Announce, NoId
    <2> HIDE DEF x
    <2>4. e.id = id /\ e.published = heads /\ e.seq = seq /\ e.inbox = h.repos[n].inbox
      BY <1>2, <2>2 DEF RepoEntry
    <2>5. \A p \in Machine, j \in RepoName :
             outbox[p][j] = IF h.conn[p] # 0 /\ j = n THEN x ELSE h.outbox[p][j]
      BY <2>2 DEF Broadcast
    <2> HIDE DEF e, outbox
    <2>6. /\ k.announceSeq = seq /\ k.conn = h.conn /\ k.outbox = outbox
          /\ k.repos = [h.repos EXCEPT ![n] = e]
      BY <2>1 DEF HubState
    <2>7. k.repos[n] = e /\ \A j \in RepoName \ {n} : k.repos[j] = h.repos[j]
      BY <2>2, <2>6
    <2>8. Numbered(k)
      <3> SUFFICES ASSUME NEW j \in RepoName
                   PROVE  /\ k.repos[j].seq <= seq
                          /\ k.repos[j].published # {} => k.repos[j].seq > 0
                          /\ k.repos[j].id = NoId => k.repos[j].published = {}
        BY <2>6 DEF Numbered
      <3>1. CASE j = n
        BY <2>2, <2>3, <2>4, <2>7, <3>1
      <3>2. CASE j # n
        <4>1. h.repos[j].seq \in Nat
          BY HubTypes, EntryTypes
        <4> QED BY <2>2, <2>7, <3>2, <4>1 DEF Numbered
      <3> QED BY <3>1, <3>2
    <2>9. ASSUME NEW p \in Machine, NEW j \in RepoName
          PROVE  /\ HearsNothing(h, k, p, j)
                 /\ NothingTold(h, k, p, j) \/ Told(h, k, p, j, x)
      <3>1. CASE j = n
        <4>1. k.outbox[p][n] = IF h.conn[p] # 0 THEN x ELSE h.outbox[p][n]
          BY <2>5, <2>6
        <4>2. Told(h, k, p, n, x)
          BY <2>3, <2>4, <2>6, <2>7, <4>1 DEF Told
        <4>3. HearsNothing(h, k, p, n)
          BY <1>2, <2>4, <2>6, <2>7 DEF HearsNothing
        <4> QED BY <3>1, <4>2, <4>3
      <3>2. CASE j # n
        BY <2>2, <2>5, <2>6, <2>7, <3>2 DEF HearsNothing, NothingTold
      <3> QED BY <3>1, <3>2
    <2> QED BY <2>3, <2>8, <2>9 DEF Tells
  <1> QED BY <1>1, <1>2

\* A repo's entry is replaced by one that has the same to tell.
LEMMA EntryQuiet ==
    ASSUME NEW h \in HubState, NEW n \in RepoName, NEW e \in RepoEntry,
           e.id = h.repos[n].id, e.published = h.repos[n].published, e.seq = h.repos[n].seq,
           NEW k, k.repos = [h.repos EXCEPT ![n] = e],
           k.announceSeq = h.announceSeq, k.conn = h.conn, k.outbox = h.outbox
    PROVE  TellsNothing(h, k)
  <1>1. k.repos[n] = e /\ \A j \in RepoName \ {n} : k.repos[j] = h.repos[j]
    BY HubTypes
  <1> QED BY <1>1 DEF TellsNothing

LEMMA ServingTells ==
    ASSUME NEW h \in HubState, NEW n \in RepoName, NEW id
    PROVE  Same(h, RepoOpened(h, n, id)) /\ Same(h, RepoClosed(h, n, id))
  <1>1. ASSUME NEW b \in BOOLEAN
        PROVE  Same(h, [h EXCEPT !.repos[n].serving = b])
    <2> DEFINE e == [h.repos[n] EXCEPT !.serving = b]
    <2>1. PICK k : k = [h EXCEPT !.repos[n].serving = b]
      OBVIOUS
    <2>2. h.repos[n] \in RepoEntry
      BY HubTypes
    <2>3. /\ e \in RepoEntry /\ e.id = h.repos[n].id /\ e.published = h.repos[n].published
          /\ e.inbox = h.repos[n].inbox /\ e.seq = h.repos[n].seq
      BY <2>2 DEF RepoEntry
    <2>4. /\ k.repos = [h.repos EXCEPT ![n] = e] /\ k.announceSeq = h.announceSeq
          /\ k.conn = h.conn /\ k.outbox = h.outbox
      BY <2>1 DEF HubState
    <2> HIDE DEF e
    <2>5. TellsNothing(h, k)
      BY <2>3, <2>4, EntryQuiet
    <2>7. k.repos[n] = e /\ \A j \in RepoName \ {n} : k.repos[j] = h.repos[j]
      BY <2>3, <2>4, HubTypes
    <2>6. Same(h, k)
      BY <2>3, <2>5, <2>7 DEF Same
    <2> QED BY <2>1, <2>6
  <1>2. Same(h, h)
    BY DEF Same, TellsNothing
  <1> QED BY <1>1, <1>2 DEF RepoOpened, RepoClosed

\* A repo is registered, or unregistered without having been published.
LEMMA QuietRefile ==
    ASSUME NEW h \in HubState, Numbered(h), NEW n \in RepoName, NEW k,
           k.conn = h.conn, k.outbox = h.outbox, k.announceSeq = h.announceSeq,
           h.repos[n].published = {}, k.repos[n].published = {}, k.repos[n].seq = 0,
           \A j \in RepoName \ {n} : k.repos[j] = h.repos[j]
    PROVE  Tells(h, k) /\ \A p \in Machine, j \in RepoName \ {n} : HearsNothing(h, k, p, j)
  <1>1. h.announceSeq \in Nat
    BY HubTypes
  <1>2. Numbered(k)
    BY <1>1 DEF Numbered
  <1>3. \A p \in Machine, j \in RepoName : NothingTold(h, k, p, j)
    BY <1>1 DEF NothingTold
  <1> QED BY <1>2, <1>3 DEF Tells, HearsNothing

LEMMA RegisterTells ==
    ASSUME NEW h \in HubState, Numbered(h), NEW n \in RepoName, ~Registered(h, n),
           NEW id, NEW k, k = RegisterRepo(h, n, id)
    PROVE  Tells(h, k) /\ \A p \in Machine, j \in RepoName \ {n} : HearsNothing(h, k, p, j)
  <1> DEFINE conflicts == [p \in Machine |->
                 IF h.orphans[n][p].id # id THEN h.orphans[n][p].id ELSE NoId]
             e == [NewEntry(id) EXCEPT !.conflicts = conflicts]
             row == [p \in Machine |-> NoOrphan]
  <1>1. k = [h EXCEPT !.repos[n] = e, !.orphans[n] = row]
    BY DEF RegisterRepo
  <1>2. e.published = {} /\ e.seq = 0
    BY DEF NewEntry
  <1> HIDE DEF e, row
  <1>3. /\ k.announceSeq = h.announceSeq /\ k.conn = h.conn /\ k.outbox = h.outbox
        /\ k.repos = [h.repos EXCEPT ![n] = e]
    BY <1>1 DEF HubState
  <1>4. k.repos[n] = e /\ \A j \in RepoName \ {n} : k.repos[j] = h.repos[j]
    BY <1>3, HubTypes
  <1>5. h.repos[n].published = {}
    BY DEF Numbered, Registered
  <1> QED BY <1>2, <1>3, <1>4, <1>5, QuietRefile

LEMMA UnregisterTells ==
    ASSUME NEW h \in HubState, Numbered(h), NEW n \in RepoName, Registered(h, n),
           NEW k, k = UnregisterRepo(h, n)
    PROVE  Tells(h, k) /\ \A p \in Machine, j \in RepoName \ {n} : HearsNothing(h, k, p, j)
  <1> DEFINE entry == h.repos[n]
             e == NewEntry(NoId)
             seq == h.announceSeq + 1
             x == [id |-> entry.id, seq |-> seq, heads |-> {}]
             outbox == Broadcast(h, n, x)
  <1>1. PICK orphans :
           k = IF entry.published = {} THEN [h EXCEPT !.repos[n] = e, !.orphans[n] = orphans]
               ELSE [h EXCEPT !.repos[n] = e, !.orphans[n] = orphans,
                              !.announceSeq = seq, !.outbox = outbox]
    <2> DEFINE demoted == [p \in Machine |->
            IF entry.inbox[p].heads # {} /\ CanRemember(h, p, n)
            THEN [id |-> entry.id, heads |-> entry.inbox[p].heads]
            ELSE h.orphans[n][p]]
               gone == [h EXCEPT !.repos[n] = e, !.orphans[n] = demoted]
    <2>1. /\ gone.announceSeq = h.announceSeq
          /\ Broadcast(gone, n, x) = outbox
      BY DEF HubState, Broadcast
    <2>2. k = IF entry.published = {} THEN gone
              ELSE [gone EXCEPT !.announceSeq = seq, !.outbox = Broadcast(h, n, x)]
      BY DEF UnregisterRepo
    <2> QED BY <2>1, <2>2
  <1>2. /\ h.repos \in [RepoName -> RepoEntry] /\ entry \in RepoEntry
        /\ h.announceSeq \in Nat /\ h.outbox \in [Machine -> [RepoName -> Announce]]
    BY HubTypes
  <1>3. e.published = {} /\ e.seq = 0 /\ e.id = NoId
    BY DEF NewEntry
  <1>4. entry.id # NoId /\ entry.id \in RepoId
    BY <1>2, EntryTypes DEF Registered
  <1> HIDE DEF e, entry
  <1>5. CASE entry.published = {}
    <2>1. /\ k.announceSeq = h.announceSeq /\ k.conn = h.conn /\ k.outbox = h.outbox
          /\ k.repos = [h.repos EXCEPT ![n] = e]
      BY <1>1, <1>5 DEF HubState
    <2>2. k.repos[n] = e /\ \A j \in RepoName \ {n} : k.repos[j] = h.repos[j]
      BY <1>2, <2>1
    <2> QED BY <1>3, <1>5, <2>1, <2>2, QuietRefile DEF entry
  <1>6. CASE entry.published # {}
    <2>1. x \in Announce /\ x.id = entry.id /\ x.heads = {} /\ x.seq = seq
      BY <1>2, <1>4 DEF Announce
    <2> HIDE DEF x
    <2>2. \A p \in Machine, j \in RepoName :
             outbox[p][j] = IF h.conn[p] # 0 /\ j = n THEN x ELSE h.outbox[p][j]
      BY <1>2 DEF Broadcast
    <2> HIDE DEF outbox
    <2>3. /\ k.announceSeq = seq /\ k.conn = h.conn /\ k.outbox = outbox
          /\ k.repos = [h.repos EXCEPT ![n] = e]
      BY <1>1, <1>6 DEF HubState
    <2>4. k.repos[n] = e /\ \A j \in RepoName \ {n} : k.repos[j] = h.repos[j]
      BY <1>2, <2>3
    <2>5. \A j \in RepoName : h.repos[j].seq \in Nat
      BY HubTypes, EntryTypes
    <2>6. Numbered(k)
      BY <1>2, <1>3, <2>3, <2>4, <2>5 DEF Numbered
    <2>7. ASSUME NEW p \in Machine, NEW j \in RepoName
          PROVE  /\ NothingTold(h, k, p, j) \/ Told(h, k, p, j, x)
                 /\ j # n => HearsNothing(h, k, p, j)
      <3>1. CASE j = n
        BY <1>3, <1>4, <2>1, <2>2, <2>3, <2>4, <3>1 DEF Told
      <3>2. CASE j # n
        BY <1>2, <2>2, <2>3, <2>4, <3>2 DEF NothingTold, HearsNothing
      <3> QED BY <3>1, <3>2
    <2> QED BY <2>1, <2>6, <2>7 DEF Tells
  <1> QED BY <1>5, <1>6

LEMMA DrainTells ==
    ASSUME NEW h \in HubState, HubSound(h), Numbered(h), NEW n \in RepoName,
           NEW k, k = Drain(h, n)
    PROVE  Tells(h, k) /\ \A p \in Machine, j \in RepoName : HearsNothing(h, k, p, j)
  <1> DEFINE inbox == [p \in Machine |-> [h.repos[n].inbox[p] EXCEPT !.drained = TRUE]]
             e == [h.repos[n] EXCEPT !.inbox = inbox]
  <1>1. /\ k.repos = [h.repos EXCEPT ![n] = e] /\ k.announceSeq = h.announceSeq
        /\ k.conn = h.conn /\ k.outbox = h.outbox
    BY DEF Drain, HubState
  <1>2. h.repos[n] \in RepoEntry
    BY HubTypes
  <1>7. \A p \in Machine : h.repos[n].inbox[p] \in Slot
    BY <1>2, EntryTypes
  <1>6. inbox \in [Machine -> Slot]
    BY <1>7 DEF Slot
  <1> HIDE DEF inbox
  <1>3. e \in RepoEntry /\ e.id = h.repos[n].id /\ e.published = h.repos[n].published
        /\ e.seq = h.repos[n].seq
    BY <1>2, <1>6 DEF RepoEntry
  <1> HIDE DEF e
  <1>4. TellsNothing(h, k)
    BY <1>1, <1>3, EntryQuiet
  <1>5. \A p \in Machine, j \in RepoName : HearsNothing(h, k, p, j)
    BY DrainStep DEF HearsNothing
  <1> QED BY <1>4, <1>5, QuietTells

\* A slot of one peer is replaced.
LEMMA SlotQuiet ==
    ASSUME NEW h \in HubState, NEW n \in RepoName, NEW p \in Machine, NEW s \in Slot
    PROVE  LET k == [h EXCEPT !.repos[n].inbox[p] = s]
           IN  /\ TellsNothing(h, k) /\ k.repos[n].inbox[p] = s
               /\ \A q \in Machine, j \in RepoName :
                     j # n \/ q # p => HearsNothing(h, k, q, j)
  <1> DEFINE inbox == [h.repos[n].inbox EXCEPT ![p] = s]
             e == [h.repos[n] EXCEPT !.inbox = inbox]
             k == [h EXCEPT !.repos[n] = e]
  <1>1. /\ k.repos = [h.repos EXCEPT ![n] = e] /\ k.announceSeq = h.announceSeq
        /\ k.conn = h.conn /\ k.outbox = h.outbox
    BY DEF HubState
  <1>7. k = [h EXCEPT !.repos[n].inbox[p] = s]
    OBVIOUS
  <1> HIDE DEF k
  <1>2. h.repos[n] \in RepoEntry /\ h.repos[n].inbox \in [Machine -> Slot]
    BY HubTypes, EntryTypes
  <1>3. inbox \in [Machine -> Slot] /\ inbox[p] = s
        /\ \A q \in Machine \ {p} : inbox[q] = h.repos[n].inbox[q]
    BY <1>2
  <1> HIDE DEF inbox
  <1>4. /\ e \in RepoEntry /\ e.id = h.repos[n].id /\ e.published = h.repos[n].published
        /\ e.seq = h.repos[n].seq /\ e.inbox = inbox
    BY <1>2, <1>3 DEF RepoEntry
  <1> HIDE DEF e
  <1>5. TellsNothing(h, k)
    BY <1>1, <1>4, EntryQuiet
  <1>8. k.repos[n] = e /\ \A j \in RepoName \ {n} : k.repos[j] = h.repos[j]
    BY <1>1, <1>4, HubTypes
  <1>6. ASSUME NEW q \in Machine, NEW j \in RepoName, j # n \/ q # p
        PROVE  HearsNothing(h, k, q, j)
    <2>1. k.repos[j].inbox[q] = h.repos[j].inbox[q]
      BY <1>3, <1>4, <1>6, <1>8
    <2>2. k.repos[j].id = h.repos[j].id /\ k.conn = h.conn
      BY <1>5 DEF TellsNothing
    <2> QED BY <2>1, <2>2 DEF HearsNothing, TellsNothing
  <1> QED BY <1>3, <1>4, <1>5, <1>6, <1>7, <1>8

LEMMA RequeueTells ==
    ASSUME NEW h \in HubState, Numbered(h), NEW n \in RepoName,
           NEW x, x.peer \in Machine, x.heads \in SUBSET Op, NEW k, k = Requeue(h, n, x)
    PROVE  /\ Tells(h, k)
           /\ \A p \in Machine, j \in RepoName :
                 (p = x.peer /\ j = n /\ h.repos[n].inbox[p].seq = x.seq
                     => h.repos[n].inbox[p].heads = x.heads)
                 => HearsNothing(h, k, p, j)
  <1> DEFINE old == h.repos[n].inbox[x.peer]
             s == [old EXCEPT !.heads = x.heads, !.drained = FALSE]
  <1>1. CASE ~(old.seq = x.seq /\ old.drained)
    <2>1. Same(h, k)
      BY <1>1 DEF Requeue, Same, TellsNothing
    <2> QED BY <2>1, SameTells
  <1>2. CASE old.seq = x.seq /\ old.drained
    <2>1. PICK p \in Machine : p = x.peer
      OBVIOUS
    <2>2. old \in Slot
      BY HubTypes, EntryTypes
    <2>3. s \in Slot /\ s.heads = x.heads /\ s.seq = x.seq
      BY <1>2, <2>2 DEF Slot
    <2> DEFINE g == [h EXCEPT !.repos[n].inbox[p] = s]
    <2>4. k = g
      BY <1>2, <2>1 DEF Requeue
    <2> HIDE DEF s
    <2>5. /\ TellsNothing(h, g) /\ g.repos[n].inbox[p] = s
          /\ \A q \in Machine, j \in RepoName : j # n \/ q # p => HearsNothing(h, g, q, j)
      BY <2>3, SlotQuiet
    <2> HIDE DEF g
    <2>6. old.heads = x.heads => HearsNothing(h, k, p, n)
      BY <1>2, <2>1, <2>3, <2>4, <2>5 DEF HearsNothing, TellsNothing
    <2>7. \A q \in Machine, j \in RepoName : j # n \/ q # p => HearsNothing(h, k, q, j)
      BY <2>4, <2>5
    <2>8. Tells(h, k)
      BY <2>4, <2>5, QuietTells
    <2> QED BY <1>2, <2>1, <2>6, <2>7, <2>8
  <1> QED BY <1>1, <1>2

\* An announcement of the repo, or a retraction.
Counts(x, id) == x.heads = {} \/ x.id = id

\* What a registered repo's slot becomes of x.
Hears(h, k, p, n, x) ==
    LET old == h.repos[n].inbox[p]
        new == k.repos[n].inbox[p]
    IN  IF Counts(x, h.repos[n].id) /\ old.seq < x.seq
        THEN new.seq = x.seq /\ new.heads = x.heads
        ELSE new.seq = old.seq /\ new.heads = old.heads

LEMMA AdvanceHears ==
    ASSUME NEW h \in HubState, NEW n \in RepoName, NEW p \in Machine, NEW s \in Slot,
           NEW k, k = Advance(h, p, n, s)
    PROVE  /\ TellsNothing(h, k)
           /\ k.repos[n].inbox[p] = IF h.repos[n].inbox[p].seq < s.seq THEN s
                                    ELSE h.repos[n].inbox[p]
           /\ \A q \in Machine, j \in RepoName : j # n \/ q # p => HearsNothing(h, k, q, j)
  <1>1. h.repos[n].inbox[p].seq \in Nat
    BY HubTypes, EntryTypes, SlotTypes
  <1>4. s.seq \in Nat
    BY SlotTypes
  <1>2. CASE h.repos[n].inbox[p].seq >= s.seq
    BY <1>1, <1>2, <1>4 DEF Advance, TellsNothing, HearsNothing
  <1>3. CASE h.repos[n].inbox[p].seq < s.seq
    <2>1. k = [h EXCEPT !.repos[n].inbox[p] = s]
      BY <1>1, <1>3, <1>4 DEF Advance
    <2> QED BY <1>3, <2>1, SlotQuiet
  <1> QED BY <1>1, <1>2, <1>3, <1>4

LEMMA ConflictSame ==
    ASSUME NEW h \in HubState, NEW n \in RepoName, NEW p \in Machine,
           NEW id \in RepoId \cup {NoId}
    PROVE  Same(h, [h EXCEPT !.repos[n].conflicts[p] = id])
  <1> DEFINE conflicts == [h.repos[n].conflicts EXCEPT ![p] = id]
             e == [h.repos[n] EXCEPT !.conflicts = conflicts]
             k == [h EXCEPT !.repos[n] = e]
  <1>7. k = [h EXCEPT !.repos[n].conflicts[p] = id]
    OBVIOUS
  <1>1. /\ k.repos = [h.repos EXCEPT ![n] = e] /\ k.announceSeq = h.announceSeq
        /\ k.conn = h.conn /\ k.outbox = h.outbox
    BY DEF HubState
  <1> HIDE DEF k
  <1>2. h.repos[n] \in RepoEntry
    BY HubTypes
  <1>5. conflicts \in [Machine -> RepoId \cup {NoId}]
    BY <1>2, EntryTypes
  <1> HIDE DEF conflicts
  <1>3. /\ e \in RepoEntry /\ e.id = h.repos[n].id /\ e.published = h.repos[n].published
        /\ e.seq = h.repos[n].seq /\ e.inbox = h.repos[n].inbox
    BY <1>2, <1>5 DEF RepoEntry
  <1> HIDE DEF e
  <1>4. TellsNothing(h, k)
    BY <1>1, <1>3, EntryQuiet
  <1>6. k.repos[n] = e /\ \A j \in RepoName \ {n} : k.repos[j] = h.repos[j]
    BY <1>1, <1>3, HubTypes
  <1> QED BY <1>3, <1>4, <1>6, <1>7 DEF Same

LEMMA RouteHears ==
    ASSUME NEW h \in HubState, HubSound(h), NEW p \in Machine, NEW n \in RepoName,
           NEW x \in Announce, AnnounceSound(x), NEW k, k = RouteAnnounce(h, p, n, x)
    PROVE  /\ TellsNothing(h, k)
           /\ Registered(h, n) => Hears(h, k, p, n, x)
           /\ \A q \in Machine, j \in RepoName : j # n \/ q # p => HearsNothing(h, k, q, j)
  <1>1. CASE ~Registered(h, n)
    <2>1. k = h \/ \E o : k = [h EXCEPT !.orphans[n][p] = o]
      BY <1>1 DEF RouteAnnounce, RouteUnregistered, RememberOrphan
    <2>2. /\ k.announceSeq = h.announceSeq /\ k.conn = h.conn /\ k.outbox = h.outbox
          /\ k.repos = h.repos
      BY <2>1 DEF HubState
    <2> QED BY <1>1, <2>2 DEF TellsNothing, HearsNothing
  <1>2. CASE Registered(h, n) /\ ~Counts(x, h.repos[n].id)
    <2>1. k = [h EXCEPT !.repos[n].conflicts[p] = x.id]
      BY <1>2 DEF RouteAnnounce, RouteRegistered, Counts
    <2>2. Same(h, k)
      BY <2>1, AnnounceTypes, ConflictSame
    <2> QED BY <1>2, <2>2 DEF Same, TellsNothing, HearsNothing, Hears
  <1>3. CASE Registered(h, n) /\ Counts(x, h.repos[n].id)
    <2> DEFINE s == [seq |-> x.seq, heads |-> x.heads, drained |-> x.heads = {}]
    <2>1. PICK f : f = [h EXCEPT !.repos[n].conflicts[p] = NoId]
      OBVIOUS
    <2>2. Same(h, f)
      BY <2>1, ConflictSame
    <2>3. f \in HubState
      BY <2>1, ConflictStep DEF HubStep
    <2>4. k = Advance(f, p, n, s)
      BY <1>3, <2>1 DEF RouteAnnounce, RouteRegistered, Counts
    <2>5. s \in Slot /\ s.seq = x.seq /\ s.heads = x.heads
      BY AnnounceTypes DEF Slot
    <2> HIDE DEF s
    <2>6. /\ TellsNothing(f, k)
          /\ k.repos[n].inbox[p] = IF f.repos[n].inbox[p].seq < s.seq THEN s
                                   ELSE f.repos[n].inbox[p]
          /\ \A q \in Machine, j \in RepoName : j # n \/ q # p => HearsNothing(f, k, q, j)
      BY <2>3, <2>4, <2>5, AdvanceHears
    <2>7. TellsNothing(h, k)
      BY <2>2, <2>6 DEF Same, TellsNothing
    <2>8. Hears(h, k, p, n, x)
      BY <1>3, <2>2, <2>5, <2>6 DEF Same, TellsNothing, Hears
    <2>9. ASSUME NEW q \in Machine, NEW j \in RepoName, HearsNothing(f, k, q, j)
          PROVE  HearsNothing(h, k, q, j)
      BY <2>2, <2>9 DEF Same, TellsNothing, HearsNothing
    <2> QED BY <2>6, <2>7, <2>8, <2>9
  <1> QED BY <1>1, <1>2, <1>3

\* A peer's connection changes: nothing else is told, or forgotten.
PeerReplaced(h, k, p, c, row) ==
    /\ Numbered(k) /\ k.announceSeq = h.announceSeq
    /\ k.conn[p] = c /\ k.outbox[p] = row
    /\ \A n \in RepoName : /\ k.repos[n].id = h.repos[n].id
                           /\ k.repos[n].published = h.repos[n].published
                           /\ k.repos[n].inbox[p] = NoSlot
    /\ \A q \in Machine \ {p}, n \in RepoName :
          NothingTold(h, k, q, n) /\ HearsNothing(h, k, q, n)

LEMMA ForgetTells ==
    ASSUME NEW h \in HubState, NEW p \in Machine, NEW f, f = ForgetPeer(h, p), NEW n \in RepoName
    PROVE  f.repos[n].published = h.repos[n].published /\ f.repos[n].seq = h.repos[n].seq
  <1> DEFINE e == [h.repos[n] EXCEPT !.inbox[p] = NoSlot, !.conflicts[p] = NoId]
  <1>1. f.repos[n] = e
    BY DEF ForgetPeer, HubState
  <1>2. h.repos[n] \in RepoEntry
    BY HubTypes
  <1>3. e.published = h.repos[n].published /\ e.seq = h.repos[n].seq
    BY <1>2 DEF RepoEntry
  <1> HIDE DEF e
  <1> QED BY <1>1, <1>3

LEMMA PeerReplacedFacts ==
    ASSUME NEW h \in HubState, HubSound(h), Numbered(h), NEW p \in Machine, NEW c, NEW row, NEW b
    PROVE  PeerReplaced(h, [ForgetPeer(h, p) EXCEPT
                                !.conn[p] = c, !.outbox[p] = row, !.sending[p] = b], p, c, row)
  <1>1. PICK f : f = ForgetPeer(h, p)
    OBVIOUS
  <1>2. /\ f \in HubState /\ f.announceSeq = h.announceSeq /\ f.conn = h.conn
        /\ f.outbox = h.outbox
        /\ \A n \in RepoName :
              /\ f.repos[n].id = h.repos[n].id
              /\ f.repos[n].inbox[p] = NoSlot
              /\ \A q \in Machine \ {p} : f.repos[n].inbox[q] = h.repos[n].inbox[q]
    BY <1>1, ForgetFacts
  <1>3. \A n \in RepoName : /\ f.repos[n].published = h.repos[n].published
                            /\ f.repos[n].seq = h.repos[n].seq
    BY <1>1, ForgetTells
  <1> DEFINE conn == [f.conn EXCEPT ![p] = c]
             outbox == [f.outbox EXCEPT ![p] = row]
             sending == [f.sending EXCEPT ![p] = b]
             k == [f EXCEPT !.conn = conn, !.outbox = outbox, !.sending = sending]
  <1>4. k = [f EXCEPT !.conn[p] = c, !.outbox[p] = row, !.sending[p] = b]
    OBVIOUS
  <1>5. conn[p] = c /\ \A q \in Machine \ {p} : conn[q] = h.conn[q]
    BY <1>2, HubTypes
  <1>6. outbox[p] = row /\ \A q \in Machine \ {p} : outbox[q] = h.outbox[q]
    BY <1>2, HubTypes
  <1> HIDE DEF conn, outbox, sending
  <1>7. /\ k.repos = f.repos /\ k.announceSeq = f.announceSeq
        /\ k.conn = conn /\ k.outbox = outbox
    BY <1>2 DEF HubState
  <1> HIDE DEF k
  <1>8. Numbered(k)
    BY <1>2, <1>3, <1>7 DEF Numbered
  <1>9. h.announceSeq \in Nat
    BY HubTypes
  <1>10. \A q \in Machine \ {p}, n \in RepoName :
            NothingTold(h, k, q, n) /\ HearsNothing(h, k, q, n)
    BY <1>2, <1>3, <1>5, <1>6, <1>7, <1>9 DEF NothingTold, HearsNothing
  <1>11. PeerReplaced(h, k, p, c, row)
    BY <1>2, <1>3, <1>5, <1>6, <1>7, <1>8, <1>10 DEF PeerReplaced
  <1> QED BY <1>1, <1>4, <1>11

LEMMA ConnectedTells ==
    ASSUME NEW h \in HubState, HubSound(h), Numbered(h), NEW p \in Machine
    PROVE  /\ \A c : PeerReplaced(h, PeerConnected(h, p, c), p, c, Replay(h))
           /\ PeerReplaced(h, PeerDisconnected(h, p), p, 0, [n \in RepoName |-> NoAnnounce])
  BY PeerReplacedFacts DEF PeerConnected, PeerDisconnected

\* A pending announcement is taken.
LEMMA TakeTells ==
    ASSUME NEW h \in HubState, NEW p \in Machine, NEW n \in RepoName
    PROVE  LET k == [h EXCEPT !.outbox[p][n] = NoAnnounce]
           IN  /\ k.repos = h.repos /\ k.announceSeq = h.announceSeq /\ k.conn = h.conn
               /\ k.outbox[p][n] = NoAnnounce
               /\ \A q \in Machine, j \in RepoName :
                     q # p \/ j # n => k.outbox[q][j] = h.outbox[q][j]
  <1> DEFINE row == [h.outbox[p] EXCEPT ![n] = NoAnnounce]
             outbox == [h.outbox EXCEPT ![p] = row]
             k == [h EXCEPT !.outbox = outbox]
  <1>1. k = [h EXCEPT !.outbox[p][n] = NoAnnounce]
    OBVIOUS
  <1>2. h.outbox[p] \in [RepoName -> Announce]
    BY HubTypes
  <1>3. row[n] = NoAnnounce /\ \A j \in RepoName \ {n} : row[j] = h.outbox[p][j]
    BY <1>2
  <1> HIDE DEF row
  <1>4. outbox[p] = row /\ \A q \in Machine \ {p} : outbox[q] = h.outbox[q]
    BY HubTypes
  <1> HIDE DEF outbox
  <1>5. /\ k.repos = h.repos /\ k.announceSeq = h.announceSeq /\ k.conn = h.conn
        /\ k.outbox = outbox
    BY DEF HubState
  <1> HIDE DEF k
  <1> QED BY <1>1, <1>3, <1>4, <1>5

LEMMA StartTells ==
    ASSUME NEW id
    PROVE  LET k == [EmptyHub EXCEPT !.repos = [n \in RepoName |-> NewEntry(id[n])]]
           IN  /\ Numbered(k) /\ k.announceSeq = 0
               /\ \A p \in Machine : k.conn[p] = 0
               /\ \A p \in Machine, n \in RepoName : k.outbox[p][n] = NoAnnounce
  <1> DEFINE repos == [n \in RepoName |-> NewEntry(id[n])]
             k == [EmptyHub EXCEPT !.repos = repos]
  <1>1. /\ k.repos = repos /\ k.announceSeq = 0
        /\ k.conn = [p \in Machine |-> 0]
        /\ k.outbox = [p \in Machine |-> [n \in RepoName |-> NoAnnounce]]
    BY DEF EmptyHub
  <1>2. \A n \in RepoName : repos[n].published = {} /\ repos[n].seq = 0
    BY DEF NewEntry
  <1> HIDE DEF repos, k
  <1>3. Numbered(k)
    BY <1>1, <1>2 DEF Numbered
  <1>4. /\ \A p \in Machine : k.conn[p] = 0
        /\ \A p \in Machine, n \in RepoName : k.outbox[p][n] = NoAnnounce
    BY <1>1
  <1> QED BY <1>1, <1>3, <1>4 DEF k, repos
=============================================================================
