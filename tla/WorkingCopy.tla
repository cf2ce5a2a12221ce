---------------------------- MODULE WorkingCopy ----------------------------
(***************************************************************************)
(* One working copy and its workspace task (daemon/repos/workspace.rs): an *)
(* ignore-aware watch on its files (watch/tree) schedules snapshots, and   *)
(* syncs schedule update-stale.                                            *)
(*                                                                         *)
(* The tree is a root and one directory in it, which may be absent or      *)
(* ignored; a nested repo is a directory that is ignored.  Events wait in  *)
(* the watcher's bounded queue until the task polls it.  The walk that     *)
(* derives the directories to watch runs off the task, so files move on    *)
(* between the walk and the watches, and a select! can cut it short.       *)
(*                                                                         *)
(* Abstracted: time (a deadline fires some time after it was armed, the    *)
(* duty floor only delays it); what ignore rules say and how they are      *)
(* cached per directory; the cap on watched directories; the lock that     *)
(* makes the workspaces of a repo take turns.                              *)
(***************************************************************************)
EXTENDS Naturals, Sequences, FiniteSets

CONSTANT SIGNAL_QUEUE

ASSUME CopyAssumption == SIGNAL_QUEUE \in Nat \ {0}

VARIABLES
    tree,            \* the files
    watcher,         \* the TreeWatcher
    copy,            \* the workspace task
    jj,              \* the jj command it runs, and what jj has recorded
    plan             \* what is yet to happen

copyVars == <<tree, watcher, copy, jj, plan>>

Dir == {"root", "sub"}

\* `version` counts the changes a snapshot would record.  `owed` is the last
\* one the kernel reported while the task was waiting for changes.
Trees == [version : Nat, owed : Nat, sub : BOOLEAN, ignored : BOOLEAN]

\* What an event is about: a file in a directory, the directory itself, or
\* the ignore rules.
Signal == {"root", "sub", "dir", "rules"}

Watchers ==
    [kernel : SUBSET Dir,             \* directories with a kernel watch
     watched : SUBSET Dir,            \* those the watcher believes have one
     queue : Seq(Signal),
     overflowed : BOOLEAN,
     storing : BOOLEAN,               \* the callback is about to set overflowed
     ignores : BOOLEAN,               \* the rules as cached
     stale : BOOLEAN,
     pending : BOOLEAN]

NoWatcher ==
    [kernel |-> {}, watched |-> {}, queue |-> <<>>, overflowed |-> FALSE, storing |-> FALSE,
     ignores |-> FALSE, stale |-> FALSE, pending |-> FALSE]

\* The task builds its watcher, waits, settles the watched set while it waits
\* or after a command, or runs jj.  `walked` is what a walk under way found.
Copies ==
    [phase : {"off", "build", "wait", "settle", "jj", "discard", "failed"},
     walked : SUBSET SUBSET Dir,
     armed : BOOLEAN,
     synced : BOOLEAN]                \* a sync it has not looked at

NoCopy == [phase |-> "off", walked |-> {}, armed |-> FALSE, synced |-> FALSE]

\* `stale`: the working copy is; `run`: the command under way ("catch-up" is
\* the update-stale of the task's start), and `taken` whether it has
\* snapshotted the files yet.
Commands ==
    [snapped : Nat, stale : BOOLEAN, run : {"none", "snapshot", "update-stale", "catch-up"},
     taken : BOOLEAN]

\* Bounds on edits in either directory, directory creations and removals,
\* changes of the rules, syncs that make the copy stale, and failed commands.
Plans ==
    [edits : Nat, creates : Nat, removes : Nat, rules : Nat, syncs : Nat, faults : Nat,
     sub : BOOLEAN]

InitCopy(p) ==
    /\ plan = p
    /\ tree = [version |-> 0, owed |-> 0, sub |-> p.sub, ignored |-> FALSE]
    /\ watcher = NoWatcher
    /\ copy = NoCopy
    /\ jj = [snapped |-> 0, stale |-> FALSE, run |-> "none", taken |-> FALSE]

----------------------------------------------------------------------------
\* The TreeWatcher.

\* The notify callback, on its thread: an event of a watched directory is
\* queued, or found that the queue is full, which a flag is to say.  One call
\* follows the other.
Notify(w, signal) ==
    LET after == [w EXCEPT !.overflowed = @ \/ w.storing, !.storing = FALSE] IN
    IF Len(w.queue) < SIGNAL_QUEUE
    THEN [after EXCEPT !.queue = Append(@, signal)]
    ELSE [after EXCEPT !.storing = TRUE]

\* The flag is set; the task may have drained the queue by then.
StoreFlag ==
    /\ watcher.storing
    /\ watcher' = [watcher EXCEPT !.overflowed = TRUE, !.storing = FALSE]
    /\ UNCHANGED <<tree, copy, jj, plan>>

\* walk_dirs, with the rules as cached.
WalkDirs(w) == {"root"} \cup {d \in {"sub"} : tree.sub /\ ~ w.ignores}

\* handle_path for one event: <<is it a change, must the watched set be
\* derived again>>.  What the path is now decides, not what the event says.
Handled(w, signal) ==
    CASE signal = "rules" -> <<TRUE, TRUE>>
      [] signal = "root" -> <<TRUE, FALSE>>
      [] signal = "sub" -> <<~ w.ignores, FALSE>>
      [] signal = "dir" /\ tree.sub ->
            LET seen == "sub" \in w.watched \/ w.ignores IN <<~ seen, ~ seen>>
      [] signal = "dir" /\ ~ tree.sub ->
            IF "sub" \in w.watched THEN <<TRUE, TRUE>> ELSE <<~ w.ignores, FALSE>>

\* Rules: the rules as cached after the first i queued events.  An event about
\* them drops the cached ones, and they are read again.
RulesAfter(w, i) ==
    IF \E k \in 1 .. i : w.queue[k] = "rules" THEN tree.ignored ELSE w.ignores

\* drain_queued: every queued event, and the overflow flag.
Drain(w) ==
    LET Result(i) == Handled([w EXCEPT !.ignores = RulesAfter(w, i)], w.queue[i]) IN
    [w EXCEPT
        !.queue = <<>>,
        !.overflowed = FALSE,
        !.ignores = RulesAfter(w, Len(w.queue)),
        !.stale = @ \/ w.overflowed \/ \E i \in 1 .. Len(w.queue) : Result(i)[2],
        !.pending = @ \/ w.overflowed \/ \E i \in 1 .. Len(w.queue) : Result(i)[1]]

\* apply: watches move onto the directories walked; one that is gone by then
\* cannot be watched.
Apply(w, dirs) ==
    [w EXCEPT
        !.watched = dirs,
        !.stale = FALSE,
        !.kernel = (@ \cap (dirs \cup (Dir \ w.watched)))
                     \cup {d \in dirs \ w.watched : d = "root" \/ tree.sub}]

----------------------------------------------------------------------------
\* The workspace task.

\* spawn_workspace: settings are read and the watcher's walk begins.
Spawn ==
    /\ copy' = [NoCopy EXCEPT !.phase = "build"]
    /\ watcher' = [NoWatcher EXCEPT !.ignores = tree.ignored]

\* The handle is dropped: the task is aborted, and the command it runs killed.
Abort ==
    /\ copy' = NoCopy
    /\ watcher' = NoWatcher
    /\ jj' = [jj EXCEPT !.run = "none", !.taken = FALSE]

\* TreeWatcher::build and settle: the walk, on a blocking thread.
Walk ==
    /\ \/ copy.phase = "build"
       \/ copy.phase \in {"settle", "discard"} /\ watcher.stale
    /\ copy.walked = {}
    /\ copy' = [copy EXCEPT !.walked = {WalkDirs(watcher)}]
    /\ UNCHANGED <<tree, watcher, jj, plan>>

\* The watcher is built, or it cannot be and the task goes on without one.  It
\* catches up if the working copy is stale.  Then, as edits made while there
\* was no watcher produced no event, a snapshot is armed.
Built ==
    /\ copy.phase = "build"
    /\ \/ /\ \E dirs \in copy.walked : watcher' = Apply(watcher, dirs)
          /\ UNCHANGED plan
       \/ /\ plan.faults > 0
          /\ plan' = [plan EXCEPT !.faults = @ - 1]
          /\ watcher' = NoWatcher
    /\ IF jj.stale
       THEN /\ copy' = [copy EXCEPT !.phase = "jj", !.walked = {}]
            /\ jj' = [jj EXCEPT !.run = "catch-up"]
       ELSE /\ copy' = [copy EXCEPT !.phase = "wait", !.walked = {}, !.armed = TRUE]
            /\ UNCHANGED jj
    /\ UNCHANGED tree

\* changed: a signal, or a change consumed earlier and not reported.
Poll ==
    /\ copy.phase = "wait"
    /\ watcher.pending \/ watcher.queue # <<>>
    /\ watcher' = Drain(watcher)
    /\ copy' = [copy EXCEPT !.phase = "settle"]
    /\ UNCHANGED <<tree, jj, plan>>

\* changed returns, or waits for the next signal: a change arms a snapshot
\* unless one is armed already.
Report ==
    /\ copy.phase = "settle"
    /\ \/ /\ ~ watcher.stale
          /\ watcher' = [watcher EXCEPT !.pending = FALSE]
       \/ \E dirs \in copy.walked :
            watcher' = [Apply(watcher, dirs) EXCEPT !.pending = FALSE]
    /\ copy' = [copy EXCEPT !.phase = "wait", !.walked = {}, !.armed = @ \/ watcher.pending]
    /\ UNCHANGED <<tree, jj, plan>>

\* The select! of keep_fresh takes another branch: changed is dropped where it
\* is, and what it consumed stays pending.
Runs(command) ==
    /\ copy' = [copy EXCEPT !.phase = "jj", !.walked = {}, !.synced = FALSE]
    /\ jj' = [jj EXCEPT !.run = command, !.taken = FALSE]

\* Mutant of Synced: the change under way is forgotten with the dropped future.
SyncedForgetting ==
    /\ copy.phase \in {"wait", "settle"}
    /\ copy.synced
    /\ IF jj.stale
       THEN Runs("update-stale")
       ELSE copy' = [copy EXCEPT !.phase = "wait", !.walked = {}, !.synced = FALSE] /\ UNCHANGED jj
    /\ watcher' = [watcher EXCEPT !.pending = FALSE]
    /\ UNCHANGED <<tree, plan>>

\* A sync made the working copy stale: update-stale runs.
Synced ==
    /\ copy.phase \in {"wait", "settle"}
    /\ copy.synced
    /\ IF jj.stale
       THEN Runs("update-stale")
       ELSE copy' = [copy EXCEPT !.phase = "wait", !.walked = {}, !.synced = FALSE] /\ UNCHANGED jj
    /\ UNCHANGED <<tree, watcher, plan>>

\* The deadline of the armed snapshot passes.
Deadline ==
    /\ copy.phase \in {"wait", "settle"}
    /\ copy.armed
    /\ copy' = [copy EXCEPT !.phase = "jj", !.walked = {}]
    /\ jj' = [jj EXCEPT !.run = "snapshot", !.taken = FALSE]
    /\ UNCHANGED <<tree, watcher, plan>>

\* discard_queued after a command: what is queued is not a change.
Discarded(w) == [Drain([w EXCEPT !.pending = FALSE]) EXCEPT !.pending = FALSE]

\* The command ends, well or not; its own events are drained.
JjEnds ==
    /\ copy.phase = "jj"
    /\ \/ jj.taken /\ UNCHANGED plan
       \/ /\ plan.faults > 0
          /\ plan' = [plan EXCEPT !.faults = @ - 1]
    /\ watcher' = Discarded(watcher)
    /\ copy' = [copy EXCEPT !.phase = "discard"]
    /\ tree' = IF jj.taken THEN tree ELSE [tree EXCEPT !.owed = 0]
    /\ UNCHANGED jj

\* The watched set is settled.  The pending snapshot is cleared, as the command
\* has just snapshotted; at the task's start one is armed.
JjDone ==
    /\ copy.phase = "discard"
    /\ \/ ~ watcher.stale /\ UNCHANGED watcher
       \/ \E dirs \in copy.walked : watcher' = Apply(watcher, dirs)
    /\ copy' = [copy EXCEPT !.phase = "wait", !.walked = {},
                            !.armed = jj.run = "catch-up"]
    /\ jj' = [jj EXCEPT !.run = "none", !.taken = FALSE]
    /\ UNCHANGED <<tree, plan>>

\* The watch dies (a backend error): the task ends, to be spawned again.
WatchDies ==
    /\ copy.phase \in {"wait", "settle", "discard"}
    /\ watcher.watched # {}
    /\ plan.faults > 0
    /\ plan' = [plan EXCEPT !.faults = @ - 1]
    /\ copy' = [NoCopy EXCEPT !.phase = "failed"]
    /\ watcher' = NoWatcher
    /\ jj' = [jj EXCEPT !.run = "none", !.taken = FALSE]
    /\ UNCHANGED tree

----------------------------------------------------------------------------
\* jj and the user: external to the component.

\* jj takes its snapshot of the files; update-stale then checks out the new
\* commit, which writes files.
JjSnapshots ==
    /\ copy.phase = "jj"
    /\ ~ jj.taken
    /\ jj' = [jj EXCEPT !.snapped = tree.version, !.taken = TRUE,
                        !.stale = @ /\ jj.run = "snapshot"]
    /\ watcher' = IF jj.run # "snapshot" /\ "root" \in watcher.kernel
                  THEN Notify(watcher, "root") ELSE watcher
    /\ UNCHANGED <<tree, copy, plan>>

\* What a change of the files does: the kernel reports it where it watches,
\* and jj will record it unless the file is ignored.
Changes(dir, signal, counted, t) ==
    /\ tree' = [t EXCEPT
                  !.version = IF counted THEN @ + 1 ELSE @,
                  !.owed = IF counted /\ dir \in watcher.kernel
                              /\ copy.phase \in {"wait", "settle"}
                           THEN tree.version + 1 ELSE @]
    /\ watcher' = IF dir \in watcher.kernel THEN Notify(watcher, signal) ELSE watcher
    /\ UNCHANGED <<copy, jj>>

EditRoot ==
    /\ plan.edits > 0
    /\ plan' = [plan EXCEPT !.edits = @ - 1]
    /\ Changes("root", "root", TRUE, tree)

EditSub ==
    /\ tree.sub
    /\ plan.edits > 0
    /\ plan' = [plan EXCEPT !.edits = @ - 1]
    /\ Changes("sub", "sub", ~ tree.ignored, tree)

\* The directory appears with files in it, by mkdir or a rename.
CreateSub ==
    /\ ~ tree.sub
    /\ plan.creates > 0
    /\ plan' = [plan EXCEPT !.creates = @ - 1]
    /\ Changes("root", "dir", ~ tree.ignored, [tree EXCEPT !.sub = TRUE])

\* It disappears, and the kernel's watch on it too.
RemoveSub ==
    /\ tree.sub
    /\ plan.removes > 0
    /\ plan' = [plan EXCEPT !.removes = @ - 1]
    /\ tree' = [tree EXCEPT !.sub = FALSE, !.version = IF tree.ignored THEN @ ELSE @ + 1]
    /\ watcher' = LET w == [watcher EXCEPT !.kernel = @ \ {"sub"}]
                  IN IF "root" \in w.kernel THEN Notify(w, "dir") ELSE w
    /\ UNCHANGED <<copy, jj>>

\* A line for the directory is added to or removed from .gitignore.
EditRules ==
    /\ plan.rules > 0
    /\ plan' = [plan EXCEPT !.rules = @ - 1]
    /\ Changes("root", "rules", TRUE, [tree EXCEPT !.ignored = ~ @])

\* The repo task applied operations that make the working copy stale.
SyncApplied ==
    /\ plan.syncs > 0
    /\ plan' = [plan EXCEPT !.syncs = @ - 1]
    /\ jj' = [jj EXCEPT !.stale = TRUE]
    /\ copy' = [copy EXCEPT !.synced = copy.phase \notin {"off", "failed"}]
    /\ UNCHANGED <<tree, watcher>>

----------------------------------------------------------------------------
TaskSteps ==
    \/ Walk \/ Built \/ Poll \/ Report \/ Synced \/ Deadline \/ JjEnds \/ JjDone

CopySteps ==
    \/ TaskSteps \/ WatchDies \/ StoreFlag \/ JjSnapshots
    \/ EditRoot \/ EditSub \/ CreateSub \/ RemoveSub \/ EditRules \/ SyncApplied

\* The state is what the task can hold, and the event queue is bounded.
CopyTypeOK ==
    /\ tree \in Trees
    /\ watcher \in Watchers
    /\ copy \in Copies
    /\ jj \in Commands
    /\ plan \in Plans
    /\ Len(watcher.queue) <= SIGNAL_QUEUE

\* A change the kernel reports while the task waits for changes is in a
\* snapshot in the end, unless jj fails: no dropped future, re-walk or
\* update-stale loses it (TreeWatcher::changed, keep_fresh).  An overflow may
\* delay it until the next event ("a missed one is absorbed by the next edit",
\* tree/mod.rs), if its flag was set too late for the task that drained the
\* queue: it is up then, and the task sees it with that event.
AwaitsNextEvent ==
    copy.phase = "wait" /\ watcher.overflowed /\ watcher.queue = <<>> /\ ~ copy.armed

SeenEditsAreSnapshotted ==
    []<>(\/ tree.owed <= jj.snapped
         \/ copy.phase \in {"off", "failed"}
         \/ AwaitsNextEvent)

\* A directory that exists and counts as watched has a kernel watch, however it
\* appeared: the watch of one that is removed goes with it, and "a recreation
\* must be seen as new" (handle_path).
RecreatedDirsAreWatched ==
    <>[](copy.phase = "wait" /\ tree.sub /\ "sub" \in watcher.watched
            => "sub" \in watcher.kernel)
============================================================================
