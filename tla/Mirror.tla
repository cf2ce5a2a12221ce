------------------------------- MODULE Mirror -------------------------------
(***************************************************************************)
(* The git ref mirror (repo/transfer/mirror.rs) of one repo: before the    *)
(* op heads of a fetch are published, the repo's git refs are moved to     *)
(* what jj's merged view of the new heads carries, so that jj's next       *)
(* import finds nothing to undo.                                           *)
(*                                                                         *)
(* The fetch itself is Transfer's: here it is its wants, staged, and the   *)
(* steps from there to the publication, which the user's jj and git        *)
(* commands interleave with.  A jj command is one step: it merges the op   *)
(* heads, imports the git refs (every command does in a colocated          *)
(* workspace, `jj git import` does anywhere) or not, moves a bookmark and  *)
(* exports it.  A ref is what it peels to, and the refs are those jj       *)
(* imports.  jj_lib's merge of conflicted targets is a conflict unless one *)
(* side did not move.                                                      *)
(***************************************************************************)
EXTENDS Integers, FiniteSets

CONSTANTS
    Commit,
    Ancestors,     \* Ancestors[c]: c and the commits it descends from
    Ref,           \* the git refs jj imports
    Op,            \* operation ids, numbered as they are written
    Scenarios      \* where an execution starts, and what happens in it

Root == 0          \* jj's root operation, whose view is empty
Absent == 0        \* the target of a ref that does not exist
Conflict == -1     \* a target jj could not merge
Detached == 0      \* a HEAD on no ref

\* In a scenario, the git repo is `inside` .jj, or colocated or external;
\* the repo starts with the mesh's first operation or as a `fresh` pull
\* target; HEAD starts on `head`.  The other fields bound what is yet to
\* happen: peers' operations, jj commands and git commands of the user, git
\* worktrees added and removed, and failures.
Scenario ==
    [inside : BOOLEAN, fresh : BOOLEAN, head : Ref \cup {Detached},
     writes : Nat, commands : Nat, gits : Nat, worktrees : Nat, faults : Nat]

ASSUME MirrorAssumption ==
    /\ Commit \subseteq Nat \ {Absent} /\ Commit # {}
    /\ Ancestors \in [Commit -> SUBSET Commit]
    /\ Ref \subseteq Nat \ {Detached}
    /\ Op \subseteq Nat \ {Root} /\ {1, 2} \subseteq Op /\ IsFiniteSet(Op)
    /\ Scenarios \subseteq Scenario

VARIABLES
    anc,           \* anc[o]: o and its ancestors; empty until o is written
    view,          \* view[o]: the git refs its view records
    heads,         \* the op heads directory
    theirs,        \* the op heads the peers announce
    git,           \* git[r]: the commit the ref is at
    head,          \* HEAD: on a ref, or detached at a commit
    worktree,      \* a git worktree is attached to the git repo
    apply,         \* the fetch, from staging to publication, or the heal
    touched,       \* refs moved by the user and not imported by jj yet, or
                   \* in conflict: left to jj's import
    skipped,       \* refs whose swap failed: left to jj's import too
    raced,         \* a jj command or a failure came between mirror and publication
    scenario       \* the scenario, as far as it has not happened yet

vars == <<anc, view, heads, theirs, git, head, worktree, apply, touched, skipped, raced,
          scenario>>

Stored == Commit \cup {Absent}
GitRefs == [Ref -> Stored \cup {Conflict}]
NoRefs == [r \in Ref |-> Absent]
Known == {Root} \cup Op

Applies ==
    [phase : {"idle", "heal", "staged", "merged", "swap"},
     wants : SUBSET Op, localHeads : SUBSET Known,
     before : GitRefs, after : GitRefs,
     todo : SUBSET Ref,
     owns : BOOLEAN,    \* the refs are moved from where the repo holds them
     raced : BOOLEAN]   \* a jj command ran since the views were merged, or,
                        \* when healing, what `raced` is if nothing is healed

NoApply ==
    [phase |-> "idle", wants |-> {}, localHeads |-> {}, before |-> NoRefs, after |-> NoRefs,
     todo |-> {}, owns |-> FALSE, raced |-> FALSE]

\* The variables have their types; in particular no conflict, which git
\* cannot represent, is ever written to a ref.
TypeOK ==
    /\ anc \in [Known -> SUBSET Known]
    /\ view \in [Known -> GitRefs]
    /\ heads \subseteq Known /\ heads # {}
    /\ theirs \subseteq Op
    /\ git \in [Ref -> Stored]
    /\ head \in [ref : Ref \cup {Detached}, commit : Stored]
    /\ worktree \in BOOLEAN
    /\ apply \in Applies
    /\ touched \subseteq Ref /\ skipped \subseteq Ref
    /\ raced \in BOOLEAN
    /\ scenario \in Scenario

-----------------------------------------------------------------------------
(***************************************************************************)
(* The merged view                                                         *)
(***************************************************************************)

AncestorsOf(ops) == UNION {anc[o] : o \in ops}

\* jj_lib's merge_ref_targets: the side that moved; the descendant, when
\* both moved along one line from the base; a conflict otherwise.
MergeRefTargets(left, base, right) ==
    LET Along(lower, upper) ==
            /\ lower \in Commit /\ upper \in Commit
            /\ lower \in Ancestors[upper]
            /\ base = Absent \/ (base \in Commit /\ base \in Ancestors[lower])
    IN  CASE left = base -> right
          [] right = base \/ left = right -> left
          [] Along(left, right) -> right
          [] Along(right, left) -> left
          [] OTHER -> Conflict

ClosestCommonAncestors(ops, others) ==
    LET common == AncestorsOf(ops) \cap AncestorsOf(others)
    IN  {o \in common : \A p \in common \ {o} : o \notin anc[p]}

\* Merger::merge: the operations fold pairwise, each merged against the
\* closest common ancestors of those folded so far and itself.
MergedRefs[ops \in SUBSET Known] ==
    LET last == CHOOSE o \in ops : \A p \in ops : p <= o
        folded == ops \ {last}
        base == ClosestCommonAncestors(folded, {last})
    IN  IF folded = {} THEN view[last]
        ELSE [r \in Ref |->
                MergeRefTargets(MergedRefs[folded][r], MergedRefs[base][r], view[last][r])]

-----------------------------------------------------------------------------
(***************************************************************************)
(* The initial states                                                      *)
(***************************************************************************)

FirstRefs == [r \in Ref |-> CHOOSE c \in Commit : \A d \in Commit : c <= d]

\* The mesh's first operation records every ref at the first commit; a pull
\* target has one of its own, with no ref.
Init ==
    /\ scenario \in Scenarios
    /\ anc = [o \in Known |-> IF o \in {Root, 1, 2} THEN {Root, o} ELSE {}]
    /\ view = [o \in Known |-> IF o = 1 THEN FirstRefs ELSE NoRefs]
    /\ heads = IF scenario.fresh THEN {2} ELSE {1}
    /\ theirs = {1}
    /\ git = IF scenario.fresh THEN NoRefs ELSE FirstRefs
    /\ head = [ref |-> scenario.head, commit |-> Absent]
    /\ worktree = FALSE
    /\ apply = NoApply
    /\ touched = {} /\ skipped = {}
    /\ raced = FALSE

Fault == scenario.faults > 0 /\ scenario' = [scenario EXCEPT !.faults = @ - 1]

-----------------------------------------------------------------------------
(***************************************************************************)
(* Peers and the user (external)                                           *)
(***************************************************************************)

Unwritten == {o \in Op : anc[o] = {}}

Written(o, base, refs) ==
    /\ anc' = [anc EXCEPT ![o] = {o} \cup AncestorsOf(base)]
    /\ view' = [view EXCEPT ![o] = refs]

NextOp == CHOOSE o \in Unwritten : \A p \in Unwritten : o <= p

\* A peer moves or deletes a ref: on top of what the peers have, on top of
\* what this repo has too, or concurrently with the rest.
PeerWrites(r, target) ==
    /\ scenario.writes > 0 /\ Unwritten # {}
    /\ scenario' = [scenario EXCEPT !.writes = @ - 1]
    /\ \E base \in {theirs, theirs \cup heads, {1}} :
          /\ Written(NextOp, base, [MergedRefs[base] EXCEPT ![r] = target])
          /\ theirs' = (theirs \ AncestorsOf(base)) \cup {NextOp}
    /\ UNCHANGED <<heads, git, head, worktree, apply, touched, skipped, raced>>

Publishing == apply.phase \in {"merged", "swap"}

\* What a jj command starts from: a ref that differs from the view was moved
\* in git, if the command imports.
Imported(imports, refs) == IF imports THEN git ELSE refs

\* A jj command moves a ref, or none, and exports it unless the ref is not
\* where jj thinks.
JjCommand(imports, moves, r, target) ==
    LET refs == Imported(imports, MergedRefs[heads])
        exports == moves /\ git[r] = refs[r]
    IN  /\ scenario.commands > 0 /\ Unwritten # {}
        /\ scenario' = [scenario EXCEPT !.commands = @ - 1]
        /\ Written(NextOp, heads, IF exports THEN [refs EXCEPT ![r] = target] ELSE refs)
        /\ heads' = {NextOp}
        /\ git' = IF exports THEN [git EXCEPT ![r] = target] ELSE git
        /\ head' = IF exports /\ head.ref = r
                   THEN [ref |-> Detached, commit |-> git[r]] ELSE head
        /\ touched' = IF imports THEN {} ELSE touched
        /\ skipped' = IF imports THEN {} ELSE skipped
        /\ raced' = (raced /\ ~imports)
        /\ apply' = [apply EXCEPT !.raced = Publishing \/ (@ /\ ~imports)]
        /\ UNCHANGED <<theirs, worktree>>

\* owns_git_refs: the git repo is inside .jj and has no worktree, so that
\* only jj writes its refs.
Owned == scenario.inside /\ ~worktree

\* A git command of the user moves a ref, and a HEAD on it with it.
GitCommand(r, target) ==
    /\ ~Owned
    /\ scenario.gits > 0
    /\ scenario' = [scenario EXCEPT !.gits = @ - 1]
    /\ git' = [git EXCEPT ![r] = target]
    /\ touched' = touched \cup {r}
    /\ UNCHANGED <<anc, view, heads, theirs, head, worktree, apply, skipped, raced>>

\* A colocated workspace, which is a git worktree, is added or forgotten.
WorktreeChanges ==
    /\ scenario.inside
    /\ scenario.worktrees > 0
    /\ scenario' = [scenario EXCEPT !.worktrees = @ - 1]
    /\ worktree' = ~worktree
    /\ UNCHANGED <<anc, view, heads, theirs, git, head, apply, touched, skipped, raced>>

-----------------------------------------------------------------------------
(***************************************************************************)
(* The mirror and the publication                                          *)
(***************************************************************************)

SupersededBy(want, localHeads) == localHeads \cap (anc[want] \ {want})

\* The fetch of the peers' heads has staged them; local_heads are the heads
\* when it started.
Stage ==
    LET wants == theirs \ AncestorsOf(heads)
    IN  /\ apply.phase = "idle"
        /\ wants # {}
        /\ apply' = [NoApply EXCEPT !.phase = "staged", !.wants = wants, !.localHeads = heads]
        /\ UNCHANGED <<anc, view, heads, theirs, git, head, worktree, touched, skipped, raced,
                       scenario>>

\* The op heads there will be, from the ones there are now.
HeadsAfter(f) ==
    (heads \ UNION {SupersededBy(w, f.localHeads) : w \in f.wants}) \cup f.wants

\* Mutant of Differing: a conflict is a value like another.
DifferingAtAll(before, after) == {r \in Ref : before[r] # after[r]}

\* The refs to move: unchanged ones and conflicts on either side are left.
Differing(before, after) ==
    {r \in Ref : before[r] # after[r] /\ before[r] # Conflict /\ after[r] # Conflict}

\* The heads are read and merged: as they are, and as they will be.  A watch
\* start does the same for the heads it finds (heal).  What jj has in
\* conflict is not moved, whatever comes of it.
MergeViews ==
    /\ apply.phase \in {"staged", "heal"}
    /\ apply' = [apply EXCEPT !.phase = "merged", !.raced = FALSE,
                              !.after = MergedRefs[HeadsAfter(apply)],
                              !.before = MergedRefs[heads]]
    /\ touched' = touched \cup {r \in Ref : MergedRefs[heads][r] = Conflict}
    /\ UNCHANGED <<anc, view, heads, theirs, git, head, worktree, skipped, raced, scenario>>

\* Mutant of Before: what the repo holds, whoever writes it.
BeforeStored(owns, recorded) == git

\* Where a ref is moved from: what the repo holds, if only jj writes it, or
\* else what jj recorded.
Before(owns, recorded) == IF owns THEN git ELSE recorded

\* The refs the repo holds are read once the views are merged.  If only jj
\* writes them, and in a heal, which has checked that before, every one that
\* is not where it should be is stale and to be moved.
StoredRefs ==
    LET owns == Owned \/ apply.wants = {}
        before == Before(owns, apply.before)
    IN  /\ apply.phase = "merged"
        /\ apply' = [apply EXCEPT !.phase = "swap", !.owns = owns, !.before = before,
                                  !.todo = Differing(before, apply.after)]
        /\ touched' = IF owns THEN {} ELSE touched
        /\ skipped' = IF owns THEN {} ELSE skipped
        /\ raced' = (raced /\ ~owns)
        /\ UNCHANGED <<anc, view, heads, theirs, git, head, worktree, scenario>>

\* Mutant of Unpinned: HEAD stays on the ref.
HeadKept(r) == head

\* unpin_heads: a HEAD on the ref is detached where it is, unborn if the
\* ref does not exist.
Unpinned(r) == IF head.ref = r THEN [ref |-> Detached, commit |-> git[r]] ELSE head

\* The ref is where it was before.  Git compares what the ref stores, which
\* may be a tag or a symbolic ref: the swap expects the one that peels to
\* that commit.
Matches(r) == git[r] = apply.before[r]

\* A ref moves, with HEAD, in a transaction of its own.  One that is not
\* where it was before was moved by the user and is skipped; so is one whose
\* transaction fails for another reason: a lock that is held, a name that is
\* a directory of another ref, I/O.
Swap ==
    LET r == CHOOSE r \in apply.todo : \A q \in apply.todo : r <= q
    IN  /\ apply.phase = "swap" /\ apply.todo # {}
        /\ \/ /\ Matches(r)
              /\ git' = [git EXCEPT ![r] = apply.after[r]]
              /\ head' = Unpinned(r)
              /\ UNCHANGED <<skipped, scenario>>
           \/ ~Matches(r) /\ UNCHANGED <<git, head, skipped, scenario>>
           \/ Fault /\ skipped' = skipped \cup {r} /\ UNCHANGED <<git, head>>
        /\ apply' = [apply EXCEPT !.todo = @ \ {r}]
        /\ UNCHANGED <<anc, view, heads, theirs, worktree, touched, raced>>

\* The wants are published one at a time, each unlisting the heads its
\* ancestry covers (see Transfer).
PublishHead ==
    LET want == CHOOSE w \in apply.wants : \A v \in apply.wants : w <= v
    IN  /\ apply.phase = "swap" /\ apply.todo = {} /\ apply.wants # {}
        /\ heads' = (heads \ SupersededBy(want, apply.localHeads)) \cup {want}
        /\ apply' = [apply EXCEPT !.wants = @ \ {want}]
        /\ UNCHANGED <<anc, view, theirs, git, head, worktree, touched, skipped, raced,
                       scenario>>

\* The fetch, or the heal, is done.
Finish ==
    /\ apply.phase = "swap" /\ apply.todo = {} /\ apply.wants = {}
    /\ apply' = NoApply
    /\ raced' = (raced \/ apply.raced)
    /\ UNCHANGED <<anc, view, heads, theirs, git, head, worktree, touched, skipped, scenario>>

\* What `raced` is if the fetch, or the heal, stops here.
RacedIfStopped == raced \/ apply.raced \/ Publishing

\* The apply fails, and the fetch is retried later; or the heal fails, which
\* only warns.
PublishFails ==
    /\ apply.phase # "idle"
    /\ Fault
    /\ apply' = NoApply
    /\ raced' = RacedIfStopped
    /\ UNCHANGED <<anc, view, heads, theirs, git, head, worktree, touched, skipped>>

\* A worktree came before the heal checked.
HealSkips ==
    /\ apply.phase = "heal" /\ ~Owned
    /\ apply' = NoApply
    /\ raced' = RacedIfStopped
    /\ UNCHANGED <<anc, view, heads, theirs, git, head, worktree, touched, skipped, scenario>>

\* Mutant of OnWatchStart: nothing is healed.
NothingOnWatchStart == NoApply

\* A repo whose refs only jj writes is healed on watch start.
OnWatchStart ==
    IF Owned THEN [NoApply EXCEPT !.phase = "heal", !.raced = RacedIfStopped] ELSE NoApply

\* The daemon crashes and watches the repo again.
Crash ==
    /\ Fault
    /\ apply' = OnWatchStart
    /\ raced' = IF Owned THEN raced ELSE RacedIfStopped
    /\ UNCHANGED <<anc, view, heads, theirs, git, head, worktree, touched, skipped>>

-----------------------------------------------------------------------------
MirrorStep == MergeViews \/ StoredRefs \/ Swap \/ PublishHead \/ Finish

Next ==
    \/ \E r \in Ref, target \in Stored : PeerWrites(r, target)
    \/ \E imports \in BOOLEAN, moves \in BOOLEAN, r \in Ref, target \in Stored :
          JjCommand(imports, moves, r, target)
    \/ \E r \in Ref, target \in Stored : GitCommand(r, target)
    \/ WorktreeChanges
    \/ Stage
    \/ MirrorStep
    \/ PublishFails
    \/ HealSkips
    \/ Crash

Spec == Init /\ [][Next]_vars

-----------------------------------------------------------------------------
(***************************************************************************)
(* Properties                                                              *)
(***************************************************************************)

\* "so jj's next import finds nothing to undo": between fetches every ref
\* is where the merged view of the op heads has it, unless the user moved
\* it, it conflicts or its swap failed ("logged and left to jj's import").
\* That is after any divergence and any user's operation during the
\* transfer, with the other refs of a failed swap, and, in a repo only jj
\* writes, after a crash as well.  What ran or failed between the mirror and
\* the publication, or kept a heal from running, is excepted until jj
\* imports, or the mirror of a repo only jj writes runs, next.
GitIsInLine ==
    apply.phase = "idle" /\ ~raced
    => \A r \in Ref \ (touched \cup skipped) : MergedRefs[heads][r] \in {git[r], Conflict}

\* "a ref moved by the user fails its swap and stays for jj to import":
\* the mirror moves a ref the user moved only if jj has it there too.  Where
\* only jj writes there are no such moves but those made in a worktree that
\* is gone, which are taken for stale.
UserMovesSurvive ==
    [][MirrorStep /\ ~apply.raced /\ ~apply.owns
       => \A r \in touched : git'[r] # git[r] => git[r] = MergedRefs[heads][r]]_vars

HeadCommit == IF head.ref = Detached THEN head.commit ELSE git[head.ref]

\* The mirror never changes what HEAD resolves to, which jj's import would
\* read as a checkout.
HeadStaysPut == [][MirrorStep => HeadCommit' = HeadCommit]_vars
=============================================================================
