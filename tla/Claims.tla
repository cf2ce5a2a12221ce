------------------------------- MODULE Claims -------------------------------
(***************************************************************************)
(* Workspace claims on one repo (daemon/repos/task.rs: track_workspaces;   *)
(* daemon/mod.rs: claim_loop): which machine automates which workspace.    *)
(*                                                                         *)
(* The repo task scans the workspaces it finds on disk and that the view   *)
(* names, decides what to claim, sends a changed claim to the store's      *)
(* loop, and runs a task for a workspace once the store has recorded the   *)
(* claim and while no peer is known to claim it.                           *)
(*                                                                         *)
(* Abstracted: the registers that carry claims between machines, which are *)
(* in Mesh (here a machine sees a peer's claims some time later); the      *)
(* validity of names; divergent op heads (a working copy is fresh or not). *)
(***************************************************************************)
EXTENDS Naturals, Sequences, FiniteSets

CONSTANTS
    Machine,
    Workspace,       \* workspace names, as numbers in their order
    MainOf,          \* MainOf[m]: the name of m's main workspace
    MAX_CLAIMS       \* the names a machine may claim on the repo

ASSUME ClaimsAssumption ==
    /\ Workspace \subseteq Nat
    /\ MainOf \in [Machine -> Workspace]
    /\ MAX_CLAIMS \in Nat

VARIABLES
    log,             \* the workspaces the latest operations name
    view,            \* view[m]: those that m's op heads name
    disk,            \* disk[m]: the workspaces with a directory on m
    fresh,           \* fresh[m]: working copies that are not stale
    claims,          \* claims[m]: what m's store has recorded
    others,          \* others[m][p]: the claims of p that m knows of
    sent,            \* sent[m]: the claims last sent, until recorded; {} of sets if none
    updates,         \* updates[m]: claim updates on their way to the store
    tasks,           \* tasks[m]: workspaces with a task
    refused,         \* refused[m]: the store of m could not save an update
    events           \* what is yet to happen

claimVars ==
    <<log, view, disk, fresh, claims, others, sent, updates, tasks, refused, events>>

\* `holders` have a directory of the workspaces named; `adds`, `forgets`,
\* `stales` and `refusals` bound what users and stores do.
Events ==
    [holders : [Machine -> SUBSET Workspace], adds : Nat, forgets : Nat, stales : Nat,
     refusals : Nat]

InitClaims(e) ==
    /\ events = e
    /\ log = UNION {e.holders[m] : m \in Machine}
    /\ view = [m \in Machine |-> log]
    /\ disk = e.holders
    /\ fresh = e.holders
    /\ claims = [m \in Machine |-> {}]
    /\ others = [m \in Machine |-> [p \in Machine |-> {}]]
    /\ sent = [m \in Machine |-> {}]
    /\ updates = [m \in Machine |-> <<>>]
    /\ tasks = [m \in Machine |-> {}]
    /\ refused = [m \in Machine |-> FALSE]

----------------------------------------------------------------------------
\* The scan.

\* OpenRepo::workspaces: directories of this repo whose name the view has.
Found(m) == disk[m] \cap view[m]

KnownForeign(m, n) == \E p \in Machine \ {m} : n \in others[m][p]

\* The main workspace is listed first, the others by name.
Before(m, a, b) == a # b /\ (a = MainOf[m] \/ (b # MainOf[m] /\ a < b))

\* `sent` is forgotten once recorded, and until then counts as held.
StillSent(m) == IF sent[m] = {claims[m]} THEN {} ELSE sent[m]

Held(m) == (claims[m] \cup UNION StillSent(m)) \cap view[m]

\* Mutant of Claimable: a stale main workspace is not claimed either.
ClaimableIfFresh(m, n) ==
    n \in (Found(m) \ Held(m)) \cap fresh[m] /\ ~ KnownForeign(m, n)

\* Names this machine may claim: nobody is known to claim them, and the
\* working copy is the main one or is fresh.
Claimable(m, n) ==
    /\ n \in Found(m) \ Held(m)
    /\ ~ KnownForeign(m, n)
    /\ n = MainOf[m] \/ n \in fresh[m]

\* find_workspaces: what is held stays, and more is claimed up to the limit.
\* What is held may exceed it: a workspace that is forgotten, and restored
\* before the claims without it are recorded, is held besides its successor.
Claimed(m) ==
    Held(m) \cup
    {n \in Workspace :
        /\ Claimable(m, n)
        /\ Cardinality(Held(m))
             + Cardinality({k \in Workspace : Claimable(m, k) /\ Before(m, k, n)}) < MAX_CLAIMS}

\* Mutant of Automated: a contested claim counts all the same.
AutomatedAnyway(m, n) == n \in Found(m) \cap Claimed(m) \cap claims[m]

\* Only workspaces whose claim is recorded and not contested get a task.
Automated(m, n) ==
    /\ n \in Found(m) \cap Claimed(m) \cap claims[m]
    /\ ~ KnownForeign(m, n)

\* track_workspaces: sends the claims if they changed and were not just sent,
\* stops tasks (those that have ended too) and spawns others.
Scan(m) ==
    /\ IF Claimed(m) # claims[m] /\ StillSent(m) # {Claimed(m)}
       THEN /\ updates' = [updates EXCEPT ![m] = Append(@, Claimed(m))]
            /\ sent' = [sent EXCEPT ![m] = {Claimed(m)}]
       ELSE /\ sent' = [sent EXCEPT ![m] = StillSent(m)]
            /\ UNCHANGED updates
    /\ tasks' = [tasks EXCEPT ![m] = {n \in Workspace : Automated(m, n)}]
    /\ UNCHANGED <<log, view, disk, fresh, claims, others, refused, events>>

----------------------------------------------------------------------------
\* Mutant of Recorded: the scan's word is taken for the limit.
RecordedUnchecked(m, names) == names

\* WorkspaceClaims::set: names beyond what the machine may claim are refused.
Recorded(m, names) == IF Cardinality(names) <= MAX_CLAIMS THEN names ELSE claims[m]

\* claim_loop: the store records the update; one that is refused is dropped.
RecordClaim(m) ==
    /\ updates[m] # <<>>
    /\ claims' = [claims EXCEPT ![m] = Recorded(m, Head(updates[m]))]
    /\ updates' = [updates EXCEPT ![m] = Tail(@)]
    /\ UNCHANGED <<log, view, disk, fresh, others, sent, tasks, refused, events>>

\* Saving the store fails: the update is logged and dropped.
RefuseClaim(m) ==
    /\ updates[m] # <<>>
    /\ events.refusals > 0
    /\ events' = [events EXCEPT !.refusals = @ - 1]
    /\ updates' = [updates EXCEPT ![m] = Tail(@)]
    /\ refused' = [refused EXCEPT ![m] = TRUE]
    /\ UNCHANGED <<log, view, disk, fresh, claims, others, sent, tasks>>

----------------------------------------------------------------------------
\* The world around: external to the component.

\* The membership of p reaches m.
Gossip(m, p) ==
    /\ others[m][p] # claims[p]
    /\ others' = [others EXCEPT ![m][p] = claims[p]]
    /\ UNCHANGED <<log, view, disk, fresh, claims, sent, updates, tasks, refused, events>>

\* The latest operations reach m.
ViewSync(m) ==
    /\ view[m] # log
    /\ view' = [view EXCEPT ![m] = log]
    /\ UNCHANGED <<log, disk, fresh, claims, others, sent, updates, tasks, refused, events>>

\* jj workspace add, of a name m does not know to be taken.
AddWorkspace(m, n) ==
    /\ n \notin view[m] \cup disk[m]
    /\ events.adds > 0
    /\ events' = [events EXCEPT !.adds = @ - 1]
    /\ log' = log \cup {n}
    /\ view' = [view EXCEPT ![m] = @ \cup {n}]
    /\ disk' = [disk EXCEPT ![m] = @ \cup {n}]
    /\ fresh' = [fresh EXCEPT ![m] = @ \cup {n}]
    /\ UNCHANGED <<claims, others, sent, updates, tasks, refused>>

\* jj workspace forget, and undoing it: the directory stays.
ForgetWorkspace(m, n) ==
    /\ n \in view[m]
    /\ events.forgets > 0
    /\ events' = [events EXCEPT !.forgets = @ - 1]
    /\ log' = log \ {n}
    /\ view' = [view EXCEPT ![m] = @ \ {n}]
    /\ UNCHANGED <<disk, fresh, claims, others, sent, updates, tasks, refused>>

RestoreWorkspace(m, n) ==
    /\ n \in disk[m] \ view[m]
    /\ events.adds > 0
    /\ events' = [events EXCEPT !.adds = @ - 1]
    /\ log' = log \cup {n}
    /\ view' = [view EXCEPT ![m] = @ \cup {n}]
    /\ UNCHANGED <<disk, fresh, claims, others, sent, updates, tasks, refused>>

\* Operations of another machine move the workspace's commit.
GoStale(m, n) ==
    /\ n \in fresh[m]
    /\ events.stales > 0
    /\ events' = [events EXCEPT !.stales = @ - 1]
    /\ fresh' = [fresh EXCEPT ![m] = @ \ {n}]
    /\ UNCHANGED <<log, view, disk, claims, others, sent, updates, tasks, refused>>

----------------------------------------------------------------------------
\* Properties.

\* The state is what stores and tasks can hold; no machine's recorded claims
\* exceed what it may claim, whatever its scans ask for.
ClaimsTypeOK ==
    /\ log \subseteq Workspace
    /\ view \in [Machine -> SUBSET Workspace]
    /\ disk \in [Machine -> SUBSET Workspace]
    /\ fresh \in [Machine -> SUBSET Workspace]
    /\ claims \in [Machine -> SUBSET Workspace]
    /\ others \in [Machine -> [Machine -> SUBSET Workspace]]
    /\ sent \in [Machine -> SUBSET SUBSET Workspace]
    /\ \A m \in Machine : Cardinality(claims[m]) <= MAX_CLAIMS
    /\ updates \in [Machine -> Seq(SUBSET Workspace)]
    /\ tasks \in [Machine -> SUBSET Workspace]
    /\ refused \in [Machine -> BOOLEAN]
    /\ events \in Events

\* A workspace of one name on several machines ends up automated by at most
\* one, even if they claimed it before they heard of each other: two daemons
\* snapshotting under one name would diverge the op log for ever.
EventuallyExclusive ==
    <>[](\A m, p \in Machine : m # p => tasks[m] \cap tasks[p] = {})

\* A main or fresh workspace that no other machine claims ends up automated,
\* within the machine's limit, unless the store could not save a claim of its
\* machine, which is not sent again (task.rs: `sent`).
EventuallyAutomated ==
    <>[](\A m \in Machine, n \in Workspace :
            /\ n \in Found(m)
            /\ n = MainOf[m] \/ n \in fresh[m]
            /\ \A p \in Machine \ {m} : n \notin claims[p]
            /\ Cardinality(Found(m)) <= MAX_CLAIMS
            /\ ~ refused[m]
            => n \in tasks[m])
============================================================================
