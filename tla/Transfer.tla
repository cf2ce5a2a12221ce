------------------------------ MODULE Transfer ------------------------------
(***************************************************************************)
(* The transfer engine (repo/transfer) on the op logs of one repo: fetches *)
(* of announced op heads, the server's answers, and the crash-safe apply,  *)
(* while users run jj on every machine.                                    *)
(*                                                                         *)
(* An operation has a view of its own, which references one git commit of  *)
(* its own with a tree of its own; the commit's ancestry follows the       *)
(* operation's.  Operations are numbered as they are written, so ancestors *)
(* have lower numbers and "parents first" is the order of the numbers.     *)
(*                                                                         *)
(* A fetch is cut where the code awaits and where it can be interrupted:   *)
(* each object, view and operation lands on disk in a step of its own.     *)
(* The files outlive a crash of the daemon; a power loss, which may also   *)
(* lose directory entries, is not modelled.                                *)
(*                                                                         *)
(* Abstracted: frames, compression and structural validation of bytes; the *)
(* walk budgets, id counts and frame counts (far above any real log); keep *)
(* refs and the commit index (they change when git and jj do work, not     *)
(* what is visible); the ref mirror, which moves git refs (see Mirror).     *)
(***************************************************************************)
EXTENDS Naturals, FiniteSets

CONSTANTS
    Machine,
    Op,            \* operation ids
    First,         \* First[m]: the operation machine m's repo starts with
    Slot,          \* fetches of a machine that can be under way: one is
                   \* awaited, the others were abandoned in their apply
    MAX_SERVES,
    Scenarios      \* what happens in an execution

NoOp == 0

\* In a scenario, machine m hears of p for each <<m, p>> of `links`; `packs`
\* are the git transfer formats; `writes` bounds the operations each user is
\* yet to write, and `faults` the crashes, failures, abandoned fetches and
\* killed commands.
Scenario ==
    [links : SUBSET (Machine \X Machine), packs : SUBSET BOOLEAN,
     writes : [Machine -> Nat], faults : Nat]

\* The operations the repos start with come before those that are written.
ASSUME TransferAssumption ==
    /\ Machine \subseteq Nat /\ IsFiniteSet(Machine)
    /\ Op \subseteq Nat \ {NoOp}
    /\ First \in [Machine -> Op]
    /\ \A m \in Machine, o \in Op : First[m] < o \/ \E n \in Machine : o = First[n]
    /\ Slot \subseteq Nat /\ IsFiniteSet(Slot)
    /\ MAX_SERVES \in Nat
    /\ Scenarios \subseteq Scenario

VARIABLES
    anc,           \* anc[o]: o and its ancestors; empty until o is written
    store,         \* store[m]: the objects on m's disk
    heads,         \* heads[m]: the op heads directory
    user,          \* user[m]: the jj command m's user runs
    offer,         \* offer[m][p]: the heads p last announced to m
    fetch,         \* fetch[m][s]: a fetch, from its request to its apply
    lingering,     \* lingering[p]: serves whose fetcher went away
    scenario       \* the scenario, as far as it has not happened yet

vars == <<anc, store, heads, user, offer, fetch, lingering, scenario>>

Stores == [trees : SUBSET Op, commits : SUBSET Op, views : SUBSET Op, ops : SUBSET Op]

Users ==
    [phase : {"idle", "read", "written", "listed"}, base : SUBSET Op, op : Op \cup {NoOp}]

NoUser == [phase |-> "idle", base |-> {}, op |-> NoOp]

Offers ==
    [heads : SUBSET Op,
     drained : BOOLEAN,
     dropped : BOOLEAN]   \* the registration that held it was replaced

NoOffer == [heads |-> {}, drained |-> TRUE, dropped |-> FALSE]

Fetches ==
    [phase : {"idle", "missing", "requested", "received", "objects", "views", "ops", "publish",
              "unlist", "broken", "invalid"},
     orphaned : BOOLEAN,            \* no task awaits it any more
     peer : Machine,
     wants : SUBSET Op,
     localHeads : SUBSET Op,        \* read when its stream is open
     batch : SUBSET Op,
     range : SUBSET Op,             \* the commits the server sends
     pack : BOOLEAN,                \* the git transfer format
     toPublish : SUBSET Op]

NoFetch(m) ==
    [phase |-> "idle", orphaned |-> FALSE, peer |-> m, wants |-> {}, localHeads |-> {},
     batch |-> {}, range |-> {}, pack |-> FALSE, toPublish |-> {}]

\* The variables have their types.
TypeOK ==
    /\ anc \in [Op -> SUBSET Op]
    /\ store \in [Machine -> Stores]
    /\ heads \in [Machine -> SUBSET Op]
    /\ user \in [Machine -> Users]
    /\ offer \in [Machine -> [Machine -> Offers]]
    /\ fetch \in [Machine -> [Slot -> Fetches]]
    /\ lingering \in [Machine -> Nat]
    /\ scenario \in Scenario

AncestorsOf(ops) == UNION {anc[o] : o \in ops}

\* What a jj command at m sees.
Reach(m) == AncestorsOf(heads[m])

\* The first of some operations, parents before children.
Earliest(ops) == CHOOSE o \in ops : \A other \in ops : o <= other

Only(m) ==
    [trees |-> {First[m]}, commits |-> {First[m]}, views |-> {First[m]}, ops |-> {First[m]}]

Init ==
    /\ anc = [o \in Op |-> IF \E m \in Machine : o = First[m] THEN {o} ELSE {}]
    /\ store = [m \in Machine |-> Only(m)]
    /\ heads = [m \in Machine |-> {First[m]}]
    /\ user = [m \in Machine |-> NoUser]
    /\ offer = [m \in Machine |-> [p \in Machine |-> NoOffer]]
    /\ fetch = [m \in Machine |-> [s \in Slot |-> NoFetch(m)]]
    /\ lingering = [m \in Machine |-> 0]
    /\ scenario \in Scenarios

Faults == scenario.faults > 0 /\ scenario' = [scenario EXCEPT !.faults = @ - 1]

-----------------------------------------------------------------------------
(***************************************************************************)
(* Users' jj commands (external).  A command reads the op heads, writes an *)
(* operation on top of them, lists it as a head and unlists the ones it    *)
(* read.                                                                   *)
(***************************************************************************)

UserReads(m) ==
    /\ user[m].phase = "idle"
    /\ scenario.writes[m] > 0
    /\ scenario' = [scenario EXCEPT !.writes[m] = @ - 1]
    /\ user' = [user EXCEPT ![m] = [phase |-> "read", base |-> heads[m], op |-> NoOp]]
    /\ UNCHANGED <<anc, store, heads, offer, fetch, lingering>>

UserWrites(m) ==
    LET unwritten == {o \in Op : anc[o] = {}}
        o == Earliest(unwritten)
    IN  /\ user[m].phase = "read"
        /\ unwritten # {}
        /\ anc' = [anc EXCEPT ![o] = {o} \cup AncestorsOf(user[m].base)]
        /\ store' = [store EXCEPT ![m] =
                        [trees |-> @.trees \cup {o}, commits |-> @.commits \cup {o},
                         views |-> @.views \cup {o}, ops |-> @.ops \cup {o}]]
        /\ user' = [user EXCEPT ![m] = [@ EXCEPT !.phase = "written", !.op = o]]
        /\ UNCHANGED <<heads, offer, fetch, lingering, scenario>>

UserLists(m) ==
    /\ user[m].phase = "written"
    /\ heads' = [heads EXCEPT ![m] = @ \cup {user[m].op}]
    /\ user' = [user EXCEPT ![m] = [@ EXCEPT !.phase = "listed"]]
    /\ UNCHANGED <<anc, store, offer, fetch, lingering, scenario>>

UserUnlists(m) ==
    /\ user[m].phase = "listed"
    /\ heads' = [heads EXCEPT ![m] = @ \ user[m].base]
    /\ user' = [user EXCEPT ![m] = NoUser]
    /\ UNCHANGED <<anc, store, offer, fetch, lingering, scenario>>

UserKilled(m) ==
    /\ user[m].phase # "idle"
    /\ Faults
    /\ user' = [user EXCEPT ![m] = NoUser]
    /\ UNCHANGED <<anc, store, heads, offer, fetch, lingering>>

-----------------------------------------------------------------------------
(***************************************************************************)
(* Announcements (see Sync) and the start of a fetch                       *)
(***************************************************************************)

NewOffer(announced) == [heads |-> announced, drained |-> FALSE, dropped |-> FALSE]

\* p announces its heads to m: they changed, or a new connection replays
\* them.
Announce(p, m) ==
    /\ <<m, p>> \in scenario.links
    /\ offer[m][p].heads # heads[p]
    /\ offer' = [offer EXCEPT ![m][p] = NewOffer(heads[p])]
    /\ UNCHANGED <<anc, store, heads, user, fetch, lingering, scenario>>

\* Mutant of MissingHeads: an operation that is stored counts as published.
MissingIfNotStored(m, announced) == announced \ store[m].ops

\* The announced heads that are not stored or not published.
MissingHeads(m, announced) == {h \in announced : h \notin store[m].ops \/ h \notin Reach(m)}

\* handle_announce: nothing is missing.
InSync(m, p) ==
    /\ ~offer[m][p].drained
    /\ MissingHeads(m, offer[m][p].heads) = {}
    /\ offer' = [offer EXCEPT ![m][p].drained = TRUE]
    /\ UNCHANGED <<anc, store, heads, user, fetch, lingering, scenario>>

\* p serves the fetches under way in their network phases, and those whose
\* fetcher went away until it notices.
Networked(f) == f.phase \in {"requested", "received", "objects"} /\ ~f.orphaned

Served(p) == {x \in Machine \X Slot : LET f == fetch[x[1]][x[2]] IN Networked(f) /\ f.peer = p}

HasPermit(p) == Cardinality(Served(p)) + lingering[p] < MAX_SERVES

\* handle_announce: the missing heads are to be fetched.  The task handles
\* one announcement at a time.
StartFetch(m, s, p, pack) ==
    LET missing == MissingHeads(m, offer[m][p].heads)
    IN  /\ ~offer[m][p].drained
        /\ missing # {}
        /\ fetch[m][s].phase = "idle"
        /\ \A r \in Slot : fetch[m][r].orphaned \/ (fetch[m][r].phase = "idle" /\ s <= r)
        /\ offer' = [offer EXCEPT ![m][p].drained = TRUE]
        /\ fetch' = [fetch EXCEPT ![m][s] =
              [NoFetch(m) EXCEPT !.phase = "missing", !.peer = p, !.wants = missing,
                                 !.pack = pack]]
        /\ UNCHANGED <<anc, store, heads, user, lingering, scenario>>

\* The announcement is queued again, unless a newer one arrived or no task
\* is left to do it.
Requeued(m, f) ==
    IF f.orphaned THEN offer
    ELSE [offer EXCEPT ![m][f.peer].drained = FALSE]

\* fetch: the stream is open, and the local heads are read for the request,
\* which the server refuses unless it has a permit for it.  A refused fetch
\* is retried later.
OpenFetch(m, s) ==
    LET f == fetch[m][s]
    IN  /\ f.phase = "missing"
        /\ \/ /\ HasPermit(f.peer)
              /\ fetch' = [fetch EXCEPT ![m][s] =
                    [f EXCEPT !.phase = "requested", !.localHeads = heads[m]]]
              /\ UNCHANGED offer
           \/ /\ ~HasPermit(f.peer)
              /\ fetch' = [fetch EXCEPT ![m][s] = NoFetch(m)]
              /\ offer' = Requeued(m, f)
        /\ UNCHANGED <<anc, store, heads, user, lingering, scenario>>

-----------------------------------------------------------------------------
(***************************************************************************)
(* The op phase and the git phase                                          *)
(***************************************************************************)

\* The server's delta: the wants' ancestry without that of the known
\* operations, of which it ignores the ones it lacks.
AncestorsUntil(p, wants, known) == AncestorsOf(wants) \ AncestorsOf(known \cap store[p].ops)

\* Mutant of ValidBatch: a parent must be in the batch.
ValidAlone(m, wants, batch) ==
    /\ \A o \in batch : anc[o] \subseteq batch
    /\ wants \subseteq batch \cup store[m].ops
    /\ batch \subseteq AncestorsOf(wants)

\* receive_ops: every parent is in the batch or stored, every want is
\* covered, and nothing else was sent.
ValidBatch(m, wants, batch) ==
    /\ \A o \in batch : anc[o] \subseteq batch \cup store[m].ops
    /\ wants \subseteq batch \cup store[m].ops
    /\ batch \subseteq AncestorsOf(wants)

\* The haves a request can have: the local heads and a sample of their
\* ancestors.
SampledHaves(localHeads) ==
    {haves \in SUBSET AncestorsOf(localHeads) : localHeads \subseteq haves}

\* The server answers for operations it stores.
Serves(p, wants) == wants \subseteq store[p].ops

ReceiveOps(m, s) ==
    LET f == fetch[m][s]
    IN  /\ f.phase = "requested"
        /\ \E haves \in SampledHaves(f.localHeads) :
              LET batch == AncestorsUntil(f.peer, f.wants, haves)
                  ok == Serves(f.peer, f.wants) /\ ValidBatch(m, f.wants, batch)
              IN  fetch' = [fetch EXCEPT ![m][s] =
                        [f EXCEPT !.batch = batch,
                                  !.phase = IF ok THEN "received" ELSE "invalid"]]
        /\ UNCHANGED <<anc, store, heads, user, offer, lingering, scenario>>

\* The `haves..wants` range of the commit index at the server's op heads.
CommitRange(p, haves, wants) == AncestorsOf(wants) \ AncestorsOf(haves \cap Reach(p))

\* The server sends commits its op log has.
ServesGit(p, commits) == commits \subseteq Reach(p)

\* The git request: the commits the batch references and the git store lacks.
RequestGit(m, s) ==
    LET f == fetch[m][s]
        missing == f.batch \ store[m].commits
        gitHaves == f.localHeads \cup (f.batch \cap store[m].commits)
    IN  /\ f.phase = "received"
        /\ fetch' = [fetch EXCEPT ![m][s] =
              [f EXCEPT !.range = CommitRange(f.peer, gitHaves, missing),
                        !.phase = IF ServesGit(f.peer, missing) THEN "objects" ELSE "invalid"]]
        /\ UNCHANGED <<anc, store, heads, user, offer, lingering, scenario>>

\* Objects already present are skipped.
Unwritten(m, f) == f.range \ store[m].commits

\* Parents first, each commit's tree before the commit itself.
NextObject(m, c) ==
    IF c \notin store[m].trees
    THEN [store EXCEPT ![m].trees = @ \cup {c}]
    ELSE [store EXCEPT ![m].commits = @ \cup {c}]

\* The loose format: objects are written as they arrive.
WriteObject(m, s) ==
    LET f == fetch[m][s]
    IN  /\ f.phase = "objects" /\ ~f.pack
        /\ Unwritten(m, f) # {}
        /\ store' = NextObject(m, Earliest(Unwritten(m, f)))
        /\ UNCHANGED <<anc, heads, user, offer, fetch, lingering, scenario>>

\* A pack becomes visible whole.
Ingested(m, range) == [store EXCEPT ![m].trees = @ \cup range, ![m].commits = @ \cup range]

\* The pack format.
IngestPack(m, s) ==
    LET f == fetch[m][s]
    IN  /\ f.phase = "objects" /\ f.pack
        /\ Unwritten(m, f) # {}
        /\ store' = Ingested(m, f.range)
        /\ UNCHANGED <<anc, heads, user, offer, fetch, lingering, scenario>>

-----------------------------------------------------------------------------
(***************************************************************************)
(* The apply                                                               *)
(***************************************************************************)

\* Mutant of StartApply: the heads are published before the batch is staged.
StartApplyUnstaged(m, s) ==
    LET f == fetch[m][s]
    IN  /\ f.phase = "objects" /\ ~f.orphaned
        /\ Unwritten(m, f) = {}
        /\ fetch' = [fetch EXCEPT ![m][s] =
              [f EXCEPT !.phase = "publish", !.toPublish = f.wants \ f.localHeads]]
        /\ UNCHANGED <<anc, store, heads, user, offer, lingering, scenario>>

\* ensure_git_wants_arrived, then one blocking task from here to the end.
StartApply(m, s) ==
    LET f == fetch[m][s]
    IN  /\ f.phase = "objects" /\ ~f.orphaned
        /\ Unwritten(m, f) = {}
        /\ fetch' = [fetch EXCEPT ![m][s] =
              [f EXCEPT !.phase =
                  IF f.batch \subseteq store[m].commits THEN "views" ELSE "invalid"]]
        /\ UNCHANGED <<anc, store, heads, user, offer, lingering, scenario>>

\* Every view is renamed into place, then every operation, parents first.
PersistView(m, s) ==
    LET f == fetch[m][s]
        unwritten == f.batch \ store[m].views
    IN  /\ f.phase = "views"
        /\ IF unwritten # {}
           THEN /\ store' = [store EXCEPT ![m].views = @ \cup {Earliest(unwritten)}]
                /\ UNCHANGED fetch
           ELSE /\ fetch' = [fetch EXCEPT ![m][s] = [f EXCEPT !.phase = "ops"]]
                /\ UNCHANGED store
        /\ UNCHANGED <<anc, heads, user, offer, lingering, scenario>>

\* Mutant of NextOp: children first.
LatestOp(ops) == CHOOSE o \in ops : \A other \in ops : o >= other

NextOp(ops) == Earliest(ops)

\* The wants that were no local heads are to be published.
PersistOp(m, s) ==
    LET f == fetch[m][s]
        unwritten == f.batch \ store[m].ops
    IN  /\ f.phase = "ops"
        /\ IF unwritten # {}
           THEN /\ store' = [store EXCEPT ![m].ops = @ \cup {NextOp(unwritten)}]
                /\ UNCHANGED fetch
           ELSE /\ fetch' = [fetch EXCEPT ![m][s] =
                      [f EXCEPT !.phase = "publish", !.toPublish = f.wants \ f.localHeads]]
                /\ UNCHANGED store
        /\ UNCHANGED <<anc, heads, user, offer, lingering, scenario>>

\* update_op_heads: the want is listed first.
PublishHead(m, s) ==
    LET f == fetch[m][s]
    IN  /\ f.phase = "publish" /\ f.toPublish # {}
        /\ heads' = [heads EXCEPT ![m] = @ \cup {Earliest(f.toPublish)}]
        /\ fetch' = [fetch EXCEPT ![m][s] = [f EXCEPT !.phase = "unlist"]]
        /\ UNCHANGED <<anc, store, user, offer, lingering, scenario>>

\* Mutant of SupersededBy: every head there was when the fetch started.
SupersededAll(want, localHeads) == localHeads \ {want}

\* The local heads that are ancestors of the want.
SupersededBy(want, localHeads) == localHeads \cap (anc[want] \ {want})

\* Then the heads it covers are unlisted, or some of them: the walk that
\* finds them has a budget.
UnlistCovered(m, s) ==
    LET f == fetch[m][s]
        want == Earliest(f.toPublish)
    IN  /\ f.phase = "unlist"
        /\ \E covered \in SUBSET SupersededBy(want, f.localHeads) :
              heads' = [heads EXCEPT ![m] = @ \ covered]
        /\ fetch' = [fetch EXCEPT ![m][s] =
              [f EXCEPT !.phase = "publish", !.toPublish = @ \ {want}]]
        /\ UNCHANGED <<anc, store, user, offer, lingering, scenario>>

EndFetch(m, s) ==
    LET f == fetch[m][s]
    IN  /\ \/ f.phase = "publish" /\ f.toPublish = {}
           \/ f.phase = "objects" /\ f.orphaned
        /\ fetch' = [fetch EXCEPT ![m][s] = NoFetch(m)]
        /\ UNCHANGED <<anc, store, heads, user, offer, lingering, scenario>>

-----------------------------------------------------------------------------
(***************************************************************************)
(* Failures                                                                *)
(***************************************************************************)

\* A serve whose fetcher goes away keeps its permit for a while.
Lingers(f) == IF Networked(f) THEN [lingering EXCEPT ![f.peer] = @ + 1] ELSE lingering

\* The fetch fails: a lost connection, the deadline, or an I/O error in the
\* apply.
FetchFails(m, s) ==
    LET f == fetch[m][s]
    IN  /\ \/ f.phase = "broken" /\ UNCHANGED scenario
           \/ f.phase \notin {"idle", "broken", "invalid"} /\ Faults
        /\ fetch' = [fetch EXCEPT ![m][s] = NoFetch(m)]
        /\ offer' = Requeued(m, f)
        /\ lingering' = Lingers(f)
        /\ UNCHANGED <<anc, store, heads, user>>

\* The offer goes with the registration it was made to, if it is not done
\* with: p announces nothing again until its heads change or it connects.
Dropped(m, p, f) ==
    LET o == offer[m][p]
    IN  [o EXCEPT !.drained = TRUE, !.dropped = @ \/ ~o.drained \/ p = f.peer]

\* The repo is removed from the mesh, which aborts its task, and added to it
\* again.  A started apply runs on, and so does the write of a chunk of
\* objects.
AbandonFetch(m, s) ==
    LET f == fetch[m][s]
    IN  /\ f.phase \notin {"idle", "broken", "invalid"} /\ ~f.orphaned
        /\ Faults
        /\ fetch' = [fetch EXCEPT ![m][s] =
              IF f.phase \in {"missing", "requested", "received"} THEN NoFetch(m)
              ELSE [f EXCEPT !.orphaned = TRUE]]
        /\ offer' = [offer EXCEPT ![m] = [p \in Machine |-> Dropped(m, p, f)]]
        /\ lingering' = Lingers(f)
        /\ UNCHANGED <<anc, store, heads, user>>

\* The daemon crashes and restarts: its fetches end where they are and its
\* peers' fetches from it break.  The new connections replay what both ends
\* announce.
Crash(m) ==
    /\ Faults
    /\ fetch' = [n \in Machine |-> [s \in Slot |->
                    IF n = m THEN NoFetch(m)
                    ELSE IF Networked(fetch[n][s]) /\ fetch[n][s].peer = m
                    THEN [fetch[n][s] EXCEPT !.phase = "broken"]
                    ELSE fetch[n][s]]]
    /\ offer' = [n \in Machine |-> [p \in Machine |->
                    IF n = m \/ p = m THEN NoOffer ELSE offer[n][p]]]
    /\ lingering' = [p \in Machine |->
                        IF p = m THEN 0
                        ELSE lingering[p] + Cardinality({x \in Served(p) : x[1] = m})]
    /\ UNCHANGED <<anc, store, heads, user>>

\* Mutant of ServeEnds: a permit is released again.
ServeEndsTwice(p) ==
    /\ lingering' = [lingering EXCEPT ![p] = @ - 1]
    /\ UNCHANGED <<anc, store, heads, user, offer, fetch, scenario>>

\* A serve notices that its fetcher went away, or exceeds SERVE_TIMEOUT.
ServeEnds(p) ==
    /\ lingering[p] > 0
    /\ lingering' = [lingering EXCEPT ![p] = @ - 1]
    /\ UNCHANGED <<anc, store, heads, user, offer, fetch, scenario>>

-----------------------------------------------------------------------------
UserStep(m) == UserReads(m) \/ UserWrites(m) \/ UserLists(m) \/ UserUnlists(m) \/ UserKilled(m)

FetchStep(m, s) ==
    \/ OpenFetch(m, s)
    \/ ReceiveOps(m, s)
    \/ RequestGit(m, s)
    \/ WriteObject(m, s)
    \/ IngestPack(m, s)
    \/ StartApply(m, s)
    \/ PersistView(m, s)
    \/ PersistOp(m, s)
    \/ PublishHead(m, s)
    \/ UnlistCovered(m, s)
    \/ EndFetch(m, s)

StartsFetch(m) ==
    \E s \in Slot, p \in Machine, pack \in scenario.packs : StartFetch(m, s, p, pack)

Next ==
    \/ \E m \in Machine : UserStep(m)
    \/ \E p, m \in Machine : Announce(p, m)
    \/ \E m, p \in Machine : InSync(m, p)
    \/ \E m \in Machine : StartsFetch(m)
    \/ \E m \in Machine, s \in Slot : FetchStep(m, s)
    \/ \E m \in Machine, s \in Slot : FetchFails(m, s)
    \/ \E m \in Machine, s \in Slot : AbandonFetch(m, s)
    \/ \E m \in Machine : Crash(m)
    \/ \E p \in Machine : ServeEnds(p)

Spec == Init /\ [][Next]_vars

\* The daemons' tasks and timers run.  Nothing is assumed of the users.
Fairness ==
    /\ \A p, m \in Machine : WF_vars(Announce(p, m)) /\ WF_vars(InSync(m, p))
    /\ \A m \in Machine : WF_vars(StartsFetch(m)) /\ WF_vars(ServeEnds(m))
    /\ \A m \in Machine, s \in Slot :
          WF_vars(FetchStep(m, s)) /\ WF_vars(fetch[m][s].phase = "broken" /\ FetchFails(m, s))

FairSpec == Spec /\ Fairness

-----------------------------------------------------------------------------
(***************************************************************************)
(* Properties                                                              *)
(***************************************************************************)

\* transfer/mod.rs: no op head is published before what it exposes is
\* readable.  Every operation a jj command can see is stored, with its view
\* and its commit, whatever crashed, failed or ran at the same time.
HeadsAreReadable ==
    \A m \in Machine :
        Reach(m) \subseteq store[m].ops \cap store[m].views \cap store[m].commits

\* A stored commit implies its tree and ancestry are stored, and a stored
\* operation its ancestry and views: what a fetch, and its retry after a
\* crash, takes for granted when it asks only for what is missing.
StoresAreClosed ==
    \A m \in Machine :
        /\ \A c \in store[m].commits : anc[c] \subseteq store[m].commits \cap store[m].trees
        /\ \A o \in store[m].ops : anc[o] \subseteq store[m].ops \cap store[m].views

\* A server with an honest op log has everything a fetch of its announced
\* heads needs, and a fetcher is sent what it lacks: no fetch is refused or
\* fails its validation, however the stores move during it.
HonestFetchIsValid ==
    \A m \in Machine, s \in Slot : fetch[m][s].phase # "invalid"

\* The promise of OpLog: nothing visible is ever lost, and what becomes
\* visible is a user's own operation or the whole history of one that
\* another machine shows.
Log == INSTANCE OpLog WITH
    log <- anc,
    visible <- [m \in Machine |-> Reach(m)],
    writing <- [m \in Machine |-> IF user[m].phase = "written" THEN user[m].op ELSE NoOp]

ImplementsOpLog == Log!LogSpec

\* Once the users stop, a machine sees all the operations of those it hears
\* of: a crash, an interrupted sync or a refused serve delays an announced
\* head and never strands it.  It is stranded, until its peer announces
\* again, if it was announced to a registration that has been replaced
\* since: what Sync's sync_clone shows of a clone.
EventuallyReplicated ==
    <>[](\A link \in scenario.links :
            Reach(link[2]) \subseteq Reach(link[1]) \/ offer[link[1]][link[2]].dropped)
=============================================================================
