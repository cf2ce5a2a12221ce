------------------------------- MODULE SyncHub -------------------------------
(***************************************************************************)
(* One daemon's hub (daemon/hub): the router between peer connections and  *)
(* repo tasks, as a state and what each operation makes of it.  The hub is *)
(* behind one mutex, so each operation is atomic.                          *)
(*                                                                         *)
(* A repo's op heads are represented by the set of operations they reach;  *)
(* an operation is a pair of the repo it belongs to and a number.  A held  *)
(* repo always has operations, so the empty set stands for "not published" *)
(* and, in an announcement, for a retraction, as in the code.              *)
(*                                                                         *)
(* Abstracted: the names of peers, the membership and status slots of the  *)
(* outbox (they share nothing with announcements but the sender task), and *)
(* the repo stores behind a serve handle.                                  *)
(***************************************************************************)
EXTENDS Naturals, FiniteSets

CONSTANTS
    Machine,                   \* endpoint ids
    RepoName,
    RepoId,
    MAX_ORPHAN_REPOS_PER_PEER

ASSUME HubAssumption ==
    /\ Machine \subseteq Nat /\ IsFiniteSet(Machine)
    /\ RepoName \subseteq Nat /\ IsFiniteSet(RepoName)
    /\ RepoId \subseteq Nat \ {0}
    /\ MAX_ORPHAN_REPOS_PER_PEER \in Nat

NoId == 0
Op == RepoId \X Nat
OpsOf(id) == {id} \X Nat

\* Sequence numbers start at 1, so 0 marks what a map does not hold.
Slot == [seq : Nat, heads : SUBSET Op, drained : BOOLEAN]
NoSlot == [seq |-> 0, heads |-> {}, drained |-> TRUE]

Announce == [id : RepoId \cup {NoId}, seq : Nat, heads : SUBSET Op]
NoAnnounce == [id |-> NoId, seq |-> 0, heads |-> {}]

Orphan == [id : RepoId \cup {NoId}, heads : SUBSET Op]
NoOrphan == [id |-> NoId, heads |-> {}]

RepoEntry ==
    [id : RepoId \cup {NoId},
     seq : Nat,
     published : SUBSET Op,
     inbox : [Machine -> Slot],
     conflicts : [Machine -> RepoId \cup {NoId}],
     serving : BOOLEAN]

\* A repo just registered, and (under NoId) one that is not.
NewEntry(id) ==
    [id |-> id, seq |-> 0, published |-> {},
     inbox |-> [p \in Machine |-> NoSlot],
     conflicts |-> [p \in Machine |-> NoId],
     serving |-> FALSE]

HubState ==
    [repos : [RepoName -> RepoEntry],
     orphans : [RepoName -> [Machine -> Orphan]],
     announceSeq : Nat,
     conn : [Machine -> Nat],                     \* 0: no sender registered
     outbox : [Machine -> [RepoName -> Announce]],
     sending : [Machine -> BOOLEAN]]              \* the sender task runs

EmptyHub ==
    [repos |-> [n \in RepoName |-> NewEntry(NoId)],
     orphans |-> [n \in RepoName |-> [p \in Machine |-> NoOrphan]],
     announceSeq |-> 0,
     conn |-> [p \in Machine |-> 0],
     outbox |-> [p \in Machine |-> [n \in RepoName |-> NoAnnounce]],
     sending |-> [p \in Machine |-> FALSE]]

Registered(h, n) == h.repos[n].id # NoId

-----------------------------------------------------------------------------
(***************************************************************************)
(* Orphans                                                                 *)
(***************************************************************************)

OrphansHeldBy(h, p) == Cardinality({n \in RepoName : h.orphans[n][p] # NoOrphan})

\* Mutant of CanRemember: a name that was registered needs no room.
CanRememberRegistered(h, p, n) ==
    \/ h.orphans[n][p] # NoOrphan
    \/ OrphansHeldBy(h, p) < MAX_ORPHAN_REPOS_PER_PEER
    \/ Registered(h, n)

\* A name already known always updates; a new one must fit the cap.
CanRemember(h, p, n) ==
    h.orphans[n][p] # NoOrphan \/ OrphansHeldBy(h, p) < MAX_ORPHAN_REPOS_PER_PEER

RememberOrphan(h, p, n, orphan) ==
    IF CanRemember(h, p, n) THEN [h EXCEPT !.orphans[n][p] = orphan] ELSE h

\* The peers a clone of n may pull from.
CloneSources(h, n) == {p \in Machine : h.conn[p] # 0 /\ h.orphans[n][p] # NoOrphan}

\* They must agree on the repo's id.
SourcesAgree(h, n, id) == \A p \in CloneSources(h, n) : h.orphans[n][p].id = id

-----------------------------------------------------------------------------
(***************************************************************************)
(* Inbox                                                                   *)
(***************************************************************************)

\* Installs a slot unless one at or past its sequence is held.
Advance(h, p, n, slot) ==
    IF h.repos[n].inbox[p].seq >= slot.seq THEN h
    ELSE [h EXCEPT !.repos[n].inbox[p] = slot]

Undrained(h, n) == {p \in Machine : ~h.repos[n].inbox[p].drained}

Drained(h, n) ==
    {[peer |-> p, seq |-> h.repos[n].inbox[p].seq, heads |-> h.repos[n].inbox[p].heads] :
        p \in Undrained(h, n)}

Drain(h, n) ==
    [h EXCEPT !.repos[n].inbox =
        [p \in Machine |-> [h.repos[n].inbox[p] EXCEPT !.drained = TRUE]]]

\* Mutant of Requeue: a newer slot does not supersede the retry.
RequeueAlways(h, n, x) ==
    [h EXCEPT !.repos[n].inbox[x.peer] = [@ EXCEPT !.heads = x.heads, !.drained = FALSE]]

\* Mutant of Requeue: the announcement stays consumed.
RequeueNever(h, n, x) == h

\* Restores heads a fetch failed to apply, unless superseded.
Requeue(h, n, x) ==
    LET slot == h.repos[n].inbox[x.peer]
    IN  IF slot.seq = x.seq /\ slot.drained
        THEN [h EXCEPT !.repos[n].inbox[x.peer] =
                  [slot EXCEPT !.heads = x.heads, !.drained = FALSE]]
        ELSE h

-----------------------------------------------------------------------------
(***************************************************************************)
(* Repos                                                                   *)
(***************************************************************************)

\* Orphans of the name that disagree on the id become conflicts; the others
\* are dropped.
RegisterRepo(h, n, id) ==
    [h EXCEPT
        !.repos[n] = [NewEntry(id) EXCEPT !.conflicts =
            [p \in Machine |-> IF h.orphans[n][p].id # id THEN h.orphans[n][p].id ELSE NoId]],
        !.orphans[n] = [p \in Machine |-> NoOrphan]]

\* Queues an announcement to every connected peer, over any pending one.
Broadcast(h, n, announce) ==
    [p \in Machine |-> IF h.conn[p] # 0 THEN [h.outbox[p] EXCEPT ![n] = announce]
                                        ELSE h.outbox[p]]

\* The peers' last heads move to the orphans; a published repo is retracted.
UnregisterRepo(h, n) ==
    LET entry == h.repos[n]
        demoted == [p \in Machine |->
            IF entry.inbox[p].heads # {} /\ CanRemember(h, p, n)
            THEN [id |-> entry.id, heads |-> entry.inbox[p].heads]
            ELSE h.orphans[n][p]]
        gone == [h EXCEPT !.repos[n] = NewEntry(NoId), !.orphans[n] = demoted]
        seq == h.announceSeq + 1
    IN  IF entry.published = {} THEN gone
        ELSE [gone EXCEPT
                 !.announceSeq = seq,
                 !.outbox = Broadcast(h, n, [id |-> entry.id, seq |-> seq, heads |-> {}])]

\* Mutant of Publish: the id is not checked.
PublishAnyTask(h, n, id, heads) ==
    LET seq == h.announceSeq + 1
    IN  IF ~Registered(h, n) THEN h
        ELSE [h EXCEPT
                 !.announceSeq = seq,
                 !.repos[n] = [h.repos[n] EXCEPT !.seq = seq, !.published = heads],
                 !.outbox = Broadcast(h, n, [id |-> h.repos[n].id, seq |-> seq, heads |-> heads])]

\* Mutant of Publish: sequences are counted per registration.
PublishOwnSeq(h, n, id, heads) ==
    LET seq == h.repos[n].seq + 1
    IN  IF h.repos[n].id # id THEN h
        ELSE [h EXCEPT
                 !.repos[n] = [h.repos[n] EXCEPT !.seq = seq, !.published = heads],
                 !.outbox = Broadcast(h, n, [id |-> id, seq |-> seq, heads |-> heads])]

\* The id guards against a task whose repo was replaced.
Publish(h, n, id, heads) ==
    LET seq == h.announceSeq + 1
    IN  IF h.repos[n].id # id THEN h
        ELSE [h EXCEPT
                 !.announceSeq = seq,
                 !.repos[n] = [h.repos[n] EXCEPT !.seq = seq, !.published = heads],
                 !.outbox = Broadcast(h, n, [id |-> id, seq |-> seq, heads |-> heads])]

RepoOpened(h, n, id) ==
    IF h.repos[n].id = id THEN [h EXCEPT !.repos[n].serving = TRUE] ELSE h

RepoClosed(h, n, id) ==
    IF h.repos[n].id = id THEN [h EXCEPT !.repos[n].serving = FALSE] ELSE h

\* lookup_serving: a fetch is served only under the id it asks for.
Serves(h, n, id) == h.repos[n].id = id /\ h.repos[n].serving

-----------------------------------------------------------------------------
(***************************************************************************)
(* Peers                                                                   *)
(***************************************************************************)

ForgetPeer(h, p) ==
    [h EXCEPT
        !.repos = [n \in RepoName |-> [h.repos[n] EXCEPT !.inbox[p] = NoSlot,
                                                         !.conflicts[p] = NoId]],
        !.orphans = [n \in RepoName |-> [h.orphans[n] EXCEPT ![p] = NoOrphan]]]

\* Every published repo, as replayed to a peer that connects.
Replay(h) ==
    [n \in RepoName |->
        IF h.repos[n].published = {} THEN NoAnnounce
        ELSE [id |-> h.repos[n].id, seq |-> h.repos[n].seq, heads |-> h.repos[n].published]]

\* Mutant of PeerConnected: nothing is replayed.
PeerConnectedSilently(h, p, c) ==
    [ForgetPeer(h, p) EXCEPT
        !.conn[p] = c,
        !.outbox[p] = [n \in RepoName |-> NoAnnounce],
        !.sending[p] = TRUE]

PeerConnected(h, p, c) ==
    [ForgetPeer(h, p) EXCEPT !.conn[p] = c, !.outbox[p] = Replay(h), !.sending[p] = TRUE]

PeerDisconnected(h, p) ==
    [ForgetPeer(h, p) EXCEPT
        !.conn[p] = 0,
        !.outbox[p] = [n \in RepoName |-> NoAnnounce],
        !.sending[p] = FALSE]

-----------------------------------------------------------------------------
(***************************************************************************)
(* Routing an announcement of p                                            *)
(***************************************************************************)

RouteUnregistered(h, p, n, announce) ==
    IF announce.heads = {} THEN [h EXCEPT !.orphans[n][p] = NoOrphan]
    ELSE RememberOrphan(h, p, n, [id |-> announce.id, heads |-> announce.heads])

\* Mutant of RouteRegistered: a retraction is offered like an announcement.
RouteRetractionOffered(h, p, n, announce) ==
    IF announce.id # h.repos[n].id THEN [h EXCEPT !.repos[n].conflicts[p] = announce.id]
    ELSE Advance([h EXCEPT !.repos[n].conflicts[p] = NoId], p, n,
                 [seq |-> announce.seq, heads |-> announce.heads, drained |-> FALSE])

\* A retraction clears the slot's heads and advances its watermark.
RouteRegistered(h, p, n, announce) ==
    IF announce.heads # {} /\ announce.id # h.repos[n].id
    THEN [h EXCEPT !.repos[n].conflicts[p] = announce.id]
    ELSE Advance([h EXCEPT !.repos[n].conflicts[p] = NoId], p, n,
                 [seq |-> announce.seq, heads |-> announce.heads,
                  drained |-> announce.heads = {}])

RouteAnnounce(h, p, n, announce) ==
    IF Registered(h, n) THEN RouteRegistered(h, p, n, announce)
    ELSE RouteUnregistered(h, p, n, announce)
=============================================================================
