--------------------------- MODULE WorkspacesProofs ---------------------------
(***************************************************************************)
(* Workspaces: what stores, tasks and watchers hold is what they may hold, *)
(* for any number of machines, workspaces, claims and events, any limit on *)
(* the claims and any length of the event queue.                           *)
(***************************************************************************)
EXTENDS Workspaces, FiniteSetTheorems, TLAPS

-----------------------------------------------------------------------------
\* Claims.

LEMMA InitClaimsType ==
    ASSUME NEW e \in Events, InitClaims(e)
    PROVE  ClaimsTypeOK
  <1>1. Cardinality({}) = 0
    BY FS_EmptySet
  <1>2. MAX_CLAIMS \in Nat
    BY ClaimsAssumption
  <1> QED BY <1>1, <1>2 DEF ClaimsTypeOK, InitClaims, Events

\* Users and stores do what is left to happen.
LEMMA EventsSpent ==
    ASSUME NEW e \in Events
    PROVE  /\ e.adds > 0 => [e EXCEPT !.adds = @ - 1] \in Events
           /\ e.forgets > 0 => [e EXCEPT !.forgets = @ - 1] \in Events
           /\ e.stales > 0 => [e EXCEPT !.stales = @ - 1] \in Events
           /\ e.refusals > 0 => [e EXCEPT !.refusals = @ - 1] \in Events
  <1>1. \A k \in Nat : k > 0 => k - 1 \in Nat
    OBVIOUS
  <1>2. /\ e.adds > 0 => [e EXCEPT !.adds = @ - 1] \in Events
        /\ e.forgets > 0 => [e EXCEPT !.forgets = @ - 1] \in Events
    BY <1>1 DEF Events
  <1>3. /\ e.stales > 0 => [e EXCEPT !.stales = @ - 1] \in Events
        /\ e.refusals > 0 => [e EXCEPT !.refusals = @ - 1] \in Events
    BY <1>1 DEF Events
  <1> QED BY <1>2, <1>3

\* A scan asks for claims on workspaces, however many.
LEMMA ClaimedTyped ==
    ASSUME ClaimsTypeOK, NEW m \in Machine
    PROVE  Claimed(m) \in SUBSET Workspace
  <1>1. Held(m) \in SUBSET Workspace
    BY DEF ClaimsTypeOK, Held
  <1> QED BY <1>1 DEF Claimed

LEMMA ScanType ==
    ASSUME ClaimsTypeOK, NEW m \in Machine, Scan(m)
    PROVE  ClaimsTypeOK'
  <1>1. Claimed(m) \in SUBSET Workspace
    BY ClaimedTyped
  <1>2. {n \in Workspace : Automated(m, n)} \in SUBSET Workspace
    OBVIOUS
  <1>3. StillSent(m) \in SUBSET SUBSET Workspace
    BY DEF ClaimsTypeOK, StillSent
  <1>4. updates[m] \in Seq(SUBSET Workspace)
    BY DEF ClaimsTypeOK
  <1>5. Append(updates[m], Claimed(m)) \in Seq(SUBSET Workspace)
    BY <1>1, <1>4
  <1>6. updates' \in [Machine -> Seq(SUBSET Workspace)]
    BY <1>5 DEF ClaimsTypeOK, Scan
  <1>7. sent' \in [Machine -> SUBSET SUBSET Workspace]
    BY <1>1, <1>3 DEF ClaimsTypeOK, Scan
  <1>8. tasks' \in [Machine -> SUBSET Workspace]
    BY <1>2 DEF ClaimsTypeOK, Scan
  <1> QED BY <1>6, <1>7, <1>8 DEF ClaimsTypeOK, Scan

\* The store checks the limit itself, whatever the scan held.
LEMMA StoreType ==
    ASSUME ClaimsTypeOK, NEW m \in Machine, RecordClaim(m) \/ RefuseClaim(m)
    PROVE  ClaimsTypeOK'
  <1>1. updates[m] \in Seq(SUBSET Workspace) /\ updates[m] # <<>>
    BY DEF ClaimsTypeOK, RecordClaim, RefuseClaim
  <1>2. Tail(updates[m]) \in Seq(SUBSET Workspace) /\ Head(updates[m]) \in SUBSET Workspace
    BY <1>1
  <1>3. updates' \in [Machine -> Seq(SUBSET Workspace)]
    BY <1>2 DEF ClaimsTypeOK, RecordClaim, RefuseClaim
  <1>4. CASE RecordClaim(m)
    <2>1. claims' \in [Machine -> SUBSET Workspace]
      BY <1>2, <1>4 DEF ClaimsTypeOK, RecordClaim, Recorded
    <2>2. \A p \in Machine : Cardinality(claims'[p]) <= MAX_CLAIMS
      BY <1>4 DEF ClaimsTypeOK, RecordClaim, Recorded
    <2> QED BY <1>3, <1>4, <2>1, <2>2 DEF ClaimsTypeOK, RecordClaim
  <1>5. CASE RefuseClaim(m)
    <2>1. events' \in Events
      BY <1>5, EventsSpent DEF ClaimsTypeOK, RefuseClaim
    <2>2. refused' \in [Machine -> BOOLEAN]
      BY <1>5 DEF ClaimsTypeOK, RefuseClaim
    <2> QED BY <1>3, <1>5, <2>1, <2>2 DEF ClaimsTypeOK, RefuseClaim
  <1> QED BY <1>4, <1>5

LEMMA NewsType ==
    ASSUME ClaimsTypeOK, NEW m \in Machine, NEW p \in Machine, Gossip(m, p) \/ ViewSync(m)
    PROVE  ClaimsTypeOK'
  <1>1. CASE Gossip(m, p)
    BY <1>1 DEF ClaimsTypeOK, Gossip
  <1>2. CASE ViewSync(m)
    BY <1>2 DEF ClaimsTypeOK, ViewSync
  <1> QED BY <1>1, <1>2

LEMMA UserType ==
    ASSUME ClaimsTypeOK, NEW m \in Machine, NEW n \in Workspace,
           AddWorkspace(m, n) \/ ForgetWorkspace(m, n) \/ RestoreWorkspace(m, n) \/ GoStale(m, n)
    PROVE  ClaimsTypeOK'
  <1>1. events' \in Events
    BY EventsSpent DEF ClaimsTypeOK, AddWorkspace, ForgetWorkspace, RestoreWorkspace, GoStale
  <1>2. log' \in SUBSET Workspace
    BY DEF ClaimsTypeOK, AddWorkspace, ForgetWorkspace, RestoreWorkspace, GoStale
  <1>3. \A f \in [Machine -> SUBSET Workspace] :
            /\ [f EXCEPT ![m] = @ \cup {n}] \in [Machine -> SUBSET Workspace]
            /\ [f EXCEPT ![m] = @ \ {n}] \in [Machine -> SUBSET Workspace]
    OBVIOUS
  <1>4. view' \in [Machine -> SUBSET Workspace]
    BY <1>3 DEF ClaimsTypeOK, AddWorkspace, ForgetWorkspace, RestoreWorkspace, GoStale
  <1>5. disk' \in [Machine -> SUBSET Workspace]
    <2>1. CASE AddWorkspace(m, n)
      BY <1>3, <2>1 DEF ClaimsTypeOK, AddWorkspace
    <2>2. CASE ~ AddWorkspace(m, n)
      BY <2>2 DEF ClaimsTypeOK, ForgetWorkspace, RestoreWorkspace, GoStale
    <2> QED BY <2>1, <2>2
  <1>6. fresh' \in [Machine -> SUBSET Workspace]
    BY <1>3 DEF ClaimsTypeOK, AddWorkspace, ForgetWorkspace, RestoreWorkspace, GoStale
  <1>7. UNCHANGED <<claims, others, sent, updates, tasks, refused>>
    BY DEF AddWorkspace, ForgetWorkspace, RestoreWorkspace, GoStale
  <1> QED BY <1>1, <1>2, <1>4, <1>5, <1>6, <1>7 DEF ClaimsTypeOK

LEMMA ClaimStepsType ==
    ASSUME ClaimsTypeOK, NEW m \in Machine, ClaimSteps(m)
    PROVE  ClaimsTypeOK' /\ tasks' = tasks
  <1>1. ClaimsTypeOK'
    BY StoreType, NewsType, UserType DEF ClaimSteps
  <1>2. tasks' = tasks
    BY DEF ClaimSteps, RecordClaim, RefuseClaim, ViewSync, Gossip, AddWorkspace,
           ForgetWorkspace, RestoreWorkspace, GoStale
  <1> QED BY <1>1, <1>2

-----------------------------------------------------------------------------
\* The watcher's operations return watchers with a bounded queue.

WatcherOK(w) == w \in Watchers /\ Len(w.queue) <= SIGNAL_QUEUE

LEMMA NoWatcherOK ==
    /\ WatcherOK(NoWatcher)
    /\ \A b \in BOOLEAN : WatcherOK([NoWatcher EXCEPT !.ignores = b])
  <1>1. SIGNAL_QUEUE \in Nat /\ <<>> \in Seq(Signal) /\ Len(<<>>) = 0
    BY CopyAssumption
  <1>2. /\ NoWatcher.queue = <<>>
        /\ \A b \in BOOLEAN : [NoWatcher EXCEPT !.ignores = b].queue = <<>>
    BY DEF NoWatcher
  <1>3. NoWatcher \in Watchers
    BY <1>1 DEF NoWatcher, Watchers
  <1>4. \A b \in BOOLEAN : [NoWatcher EXCEPT !.ignores = b] \in Watchers
    BY <1>3 DEF Watchers
  <1>5. Len(<<>>) <= SIGNAL_QUEUE
    BY <1>1
  <1> QED BY <1>2, <1>3, <1>4, <1>5 DEF WatcherOK

\* The callback sets the flag it is about to set.
LEMMA FlagOK ==
    ASSUME NEW w, WatcherOK(w), NEW a \in BOOLEAN, NEW b \in BOOLEAN
    PROVE  LET v == [w EXCEPT !.overflowed = a, !.storing = b]
           IN  WatcherOK(v) /\ v.queue = w.queue
  BY DEF WatcherOK, Watchers

LEMMA NotifyOK ==
    ASSUME NEW w, WatcherOK(w), NEW signal \in Signal
    PROVE  WatcherOK(Notify(w, signal))
  <1> DEFINE after == [w EXCEPT !.overflowed = w.overflowed \/ w.storing, !.storing = FALSE]
  <1>1. WatcherOK(after) /\ after.queue = w.queue
    <2>1. (w.overflowed \/ w.storing) \in BOOLEAN /\ FALSE \in BOOLEAN
      OBVIOUS
    <2> QED BY <2>1, FlagOK
  <1>2. Notify(w, signal) = IF Len(w.queue) < SIGNAL_QUEUE
                            THEN [after EXCEPT !.queue = Append(w.queue, signal)]
                            ELSE [after EXCEPT !.storing = TRUE]
    BY <1>1 DEF Notify
  <1> HIDE DEF after
  <1>3. w.queue \in Seq(Signal) /\ Len(w.queue) \in Nat /\ SIGNAL_QUEUE \in Nat
    BY CopyAssumption DEF WatcherOK, Watchers
  <1>4. CASE Len(w.queue) < SIGNAL_QUEUE
    <2>1. /\ Append(w.queue, signal) \in Seq(Signal)
          /\ Len(Append(w.queue, signal)) = Len(w.queue) + 1
      BY <1>3
    <2> DEFINE longer == Append(w.queue, signal)
    <2> HIDE DEF longer
    <2>2. Notify(w, signal) = [after EXCEPT !.queue = longer]
      BY <1>2, <1>4 DEF longer
    <2>3. longer \in Seq(Signal) /\ Len(longer) <= SIGNAL_QUEUE
      BY <1>3, <1>4, <2>1 DEF longer
    <2> QED BY <1>1, <2>2, <2>3 DEF WatcherOK, Watchers
  <1>5. CASE ~ (Len(w.queue) < SIGNAL_QUEUE)
    BY <1>1, <1>2, <1>5 DEF WatcherOK, Watchers
  <1> QED BY <1>4, <1>5

LEMMA DrainOK ==
    ASSUME NEW w, WatcherOK(w), tree \in Trees
    PROVE  WatcherOK(Drain(w))
  <1> DEFINE n == Len(w.queue)
             Result(i) == Handled([w EXCEPT !.ignores = RulesAfter(w, i)], w.queue[i])
             rules == RulesAfter(w, n)
             again == w.stale \/ w.overflowed \/ \E i \in 1 .. n : Result(i)[2]
             changed == w.pending \/ w.overflowed \/ \E i \in 1 .. n : Result(i)[1]
  <1>1. Drain(w) = [w EXCEPT !.queue = <<>>, !.overflowed = FALSE, !.ignores = rules,
                             !.stale = again, !.pending = changed]
    BY DEF Drain
  <1>2. rules \in BOOLEAN
    BY DEF RulesAfter, WatcherOK, Watchers, Trees
  <1>3. again \in BOOLEAN /\ changed \in BOOLEAN
    OBVIOUS
  <1>4. <<>> \in Seq(Signal) /\ Len(<<>>) = 0 /\ SIGNAL_QUEUE \in Nat
    BY CopyAssumption
  <1> HIDE DEF rules, again, changed
  <1>5. Drain(w) \in Watchers
    BY <1>1, <1>2, <1>3, <1>4 DEF WatcherOK, Watchers
  <1>6. Drain(w).queue = <<>>
    BY <1>1 DEF WatcherOK, Watchers
  <1>7. Len(<<>>) <= SIGNAL_QUEUE
    BY <1>4
  <1> QED BY <1>5, <1>6, <1>7 DEF WatcherOK

LEMMA ApplyOK ==
    ASSUME NEW w, WatcherOK(w), NEW dirs \in SUBSET Dir
    PROVE  WatcherOK(Apply(w, dirs))
  <1> DEFINE left == (w.kernel \cap (dirs \cup (Dir \ w.watched)))
                       \cup {d \in dirs \ w.watched : d = "root" \/ tree.sub}
  <1>1. left \in SUBSET Dir
    BY DEF WatcherOK, Watchers
  <1>2. Apply(w, dirs) = [w EXCEPT !.watched = dirs, !.stale = FALSE, !.kernel = left]
    BY DEF Apply
  <1> HIDE DEF left
  <1> QED BY <1>1, <1>2 DEF WatcherOK, Watchers

LEMMA WalkTyped ==
    ASSUME NEW w
    PROVE  WalkDirs(w) \in SUBSET Dir
  BY DEF WalkDirs, Dir

-----------------------------------------------------------------------------
\* The workspace task.

\* CopyTypeOK, the watcher's part under the name its lemmas use.
LEMMA CopyParts ==
    CopyTypeOK <=> /\ tree \in Trees /\ copy \in Copies /\ jj \in Commands /\ plan \in Plans
                   /\ WatcherOK(watcher)
  BY DEF CopyTypeOK, WatcherOK

LEMMA CopyPartsNext ==
    CopyTypeOK' <=> /\ tree' \in Trees /\ copy' \in Copies /\ jj' \in Commands
                    /\ plan' \in Plans /\ WatcherOK(watcher')
  BY DEF CopyTypeOK, WatcherOK

\* The task runs after a step of its own or of its surroundings iff it ran before.
StillOn == copy'.phase # "off" <=> copy.phase # "off"

\* The files, the task and the plan as their records change.
LEMMA PlanSpent ==
    ASSUME NEW p \in Plans
    PROVE  /\ p.edits > 0 => [p EXCEPT !.edits = @ - 1] \in Plans
           /\ p.creates > 0 => [p EXCEPT !.creates = @ - 1] \in Plans
           /\ p.removes > 0 => [p EXCEPT !.removes = @ - 1] \in Plans
           /\ p.rules > 0 => [p EXCEPT !.rules = @ - 1] \in Plans
           /\ p.syncs > 0 => [p EXCEPT !.syncs = @ - 1] \in Plans
           /\ p.faults > 0 => [p EXCEPT !.faults = @ - 1] \in Plans
  <1>1. \A k \in Nat : k > 0 => k - 1 \in Nat
    OBVIOUS
  <1>2. /\ p.edits > 0 => [p EXCEPT !.edits = @ - 1] \in Plans
        /\ p.creates > 0 => [p EXCEPT !.creates = @ - 1] \in Plans
    BY <1>1 DEF Plans
  <1>3. /\ p.removes > 0 => [p EXCEPT !.removes = @ - 1] \in Plans
        /\ p.rules > 0 => [p EXCEPT !.rules = @ - 1] \in Plans
    BY <1>1 DEF Plans
  <1>4. /\ p.syncs > 0 => [p EXCEPT !.syncs = @ - 1] \in Plans
        /\ p.faults > 0 => [p EXCEPT !.faults = @ - 1] \in Plans
    BY <1>1 DEF Plans
  <1> QED BY <1>2, <1>3, <1>4

\* What the task's steps make of it.
LEMMA CopyMoves ==
    ASSUME NEW c \in Copies,
           NEW phase \in {"off", "build", "wait", "settle", "jj", "discard", "failed"}
    PROVE  /\ [c EXCEPT !.phase = phase, !.walked = {}] \in Copies
           /\ [c EXCEPT !.phase = phase, !.walked = {}].phase = phase
           /\ \A b \in BOOLEAN :
                /\ [c EXCEPT !.phase = phase, !.walked = {}, !.armed = b] \in Copies
                /\ [c EXCEPT !.phase = phase, !.walked = {}, !.armed = b].phase = phase
                /\ [c EXCEPT !.phase = phase, !.walked = {}, !.synced = b] \in Copies
                /\ [c EXCEPT !.phase = phase, !.walked = {}, !.synced = b].phase = phase
  BY DEF Copies

LEMMA InitCopyType ==
    ASSUME NEW p \in Plans, InitCopy(p)
    PROVE  CopyTypeOK /\ copy.phase = "off"
  BY NoWatcherOK, CopyParts DEF InitCopy, Plans, Trees, NoCopy, Copies, Commands

LEMMA SpawnType ==
    ASSUME CopyTypeOK, Spawn, UNCHANGED <<tree, jj, plan>>
    PROVE  CopyTypeOK' /\ copy'.phase # "off"
  <1>1. tree.ignored \in BOOLEAN
    BY DEF CopyTypeOK, Trees
  <1>2. WatcherOK(watcher')
    BY <1>1, NoWatcherOK DEF Spawn
  <1>3. copy' \in Copies /\ copy'.phase # "off"
    BY DEF Spawn, NoCopy, Copies
  <1> QED BY <1>2, <1>3, CopyParts, CopyPartsNext

LEMMA AbortType ==
    ASSUME CopyTypeOK, Abort, UNCHANGED <<tree, plan>>
    PROVE  CopyTypeOK' /\ copy'.phase = "off"
  <1>1. copy' \in Copies /\ copy'.phase = "off"
    BY DEF Abort, NoCopy, Copies
  <1>2. jj' \in Commands
    BY DEF CopyTypeOK, Abort, Commands
  <1> QED BY <1>1, <1>2, NoWatcherOK, CopyParts, CopyPartsNext DEF Abort

LEMMA WalkType ==
    ASSUME CopyTypeOK, Walk \/ Built \/ Report
    PROVE  CopyTypeOK' /\ StillOn
  <1> USE CopyParts, CopyPartsNext
  <1>1. \A dirs \in copy.walked : WatcherOK(Apply(watcher, dirs))
    BY ApplyOK DEF Copies
  <1>2. CASE Walk
    <2>1. WalkDirs(watcher) \in SUBSET Dir
      BY WalkTyped
    <2>2. copy' \in Copies /\ StillOn
      BY <1>2, <2>1 DEF Walk, Copies, StillOn
    <2> QED BY <1>2, <2>2 DEF Walk
  <1>3. CASE Built
    <2>1. WatcherOK(watcher')
      BY <1>1, <1>3, NoWatcherOK DEF Built
    <2>2. copy' \in Copies /\ copy'.phase \in {"jj", "wait"}
      <3>1. CASE jj.stale
        <4>1. copy' = [copy EXCEPT !.phase = "jj", !.walked = {}]
          BY <1>3, <3>1 DEF Built
        <4>2. copy' \in Copies
          BY <4>1, CopyMoves
        <4>3. copy'.phase = "jj"
          BY <4>1, CopyMoves
        <4> QED BY <4>2, <4>3
      <3>2. CASE ~ jj.stale
        <4>1. copy' = [copy EXCEPT !.phase = "wait", !.walked = {}, !.armed = TRUE]
          BY <1>3, <3>2 DEF Built
        <4>2. copy' \in Copies
          BY <4>1, CopyMoves
        <4>3. copy'.phase = "wait"
          BY <4>1, CopyMoves
        <4> QED BY <4>2, <4>3
      <3> QED BY <3>1, <3>2
    <2>3. jj' \in Commands
      BY <1>3 DEF Built, Commands
    <2>4. plan' \in Plans
      BY <1>3, PlanSpent DEF Built
    <2> QED BY <1>3, <2>1, <2>2, <2>3, <2>4 DEF Built, StillOn
  <1>4. CASE Report
    <2>1. \A w : WatcherOK(w) => WatcherOK([w EXCEPT !.pending = FALSE])
      BY DEF WatcherOK, Watchers
    <2>2. WatcherOK(watcher')
      BY <1>1, <1>4, <2>1 DEF Report
    <2>3. copy' \in Copies /\ StillOn
      BY <1>4 DEF Report, Copies, StillOn, WatcherOK, Watchers
    <2> QED BY <1>4, <2>2, <2>3 DEF Report
  <1> QED BY <1>2, <1>3, <1>4

LEMMA PollType ==
    ASSUME CopyTypeOK, Poll \/ Synced \/ Deadline
    PROVE  CopyTypeOK' /\ StillOn
  <1> USE CopyParts, CopyPartsNext
  <1>1. CASE Poll
    <2>1. WatcherOK(watcher')
      BY <1>1, DrainOK DEF Poll
    <2>2. copy' \in Copies /\ StillOn
      BY <1>1 DEF Poll, Copies, StillOn
    <2> QED BY <1>1, <2>1, <2>2 DEF Poll
  <1>2. CASE Synced
    <2>1. copy' \in Copies /\ copy'.phase \in {"jj", "wait"}
      <3>1. CASE jj.stale
        <4>1. copy' = [copy EXCEPT !.phase = "jj", !.walked = {}, !.synced = FALSE]
          BY <1>2, <3>1 DEF Synced, Runs
        <4>2. copy' \in Copies
          BY <4>1, CopyMoves
        <4>3. copy'.phase = "jj"
          BY <4>1, CopyMoves
        <4> QED BY <4>2, <4>3
      <3>2. CASE ~ jj.stale
        <4>1. copy' = [copy EXCEPT !.phase = "wait", !.walked = {}, !.synced = FALSE]
          BY <1>2, <3>2 DEF Synced
        <4>2. copy' \in Copies
          BY <4>1, CopyMoves
        <4>3. copy'.phase = "wait"
          BY <4>1, CopyMoves
        <4> QED BY <4>2, <4>3
      <3> QED BY <3>1, <3>2
    <2>2. jj' \in Commands
      BY <1>2 DEF Synced, Runs, Commands
    <2> QED BY <1>2, <2>1, <2>2 DEF Synced, StillOn
  <1>3. CASE Deadline
    <2>1. copy' \in Copies /\ StillOn
      BY <1>3 DEF Deadline, Copies, StillOn
    <2>2. jj' \in Commands
      BY <1>3 DEF Deadline, Commands
    <2> QED BY <1>3, <2>1, <2>2 DEF Deadline
  <1> QED BY <1>1, <1>2, <1>3

\* A command ends, and the watched set is settled after it.
LEMMA JjType ==
    ASSUME CopyTypeOK, JjEnds \/ JjDone \/ JjSnapshots
    PROVE  CopyTypeOK' /\ StillOn
  <1> USE CopyParts, CopyPartsNext
  <1>1. CASE JjEnds
    <2>1. \A w : WatcherOK(w) => WatcherOK([w EXCEPT !.pending = FALSE])
      BY DEF WatcherOK, Watchers
    <2>2. WatcherOK(watcher')
      BY <1>1, <2>1, DrainOK DEF JjEnds, Discarded
    <2>3. copy' \in Copies /\ StillOn
      BY <1>1 DEF JjEnds, Copies, StillOn
    <2>4. tree' \in Trees
      BY <1>1 DEF JjEnds, Trees
    <2>5. plan' \in Plans
      BY <1>1 DEF JjEnds, Plans
    <2> QED BY <1>1, <2>2, <2>3, <2>4, <2>5 DEF JjEnds
  <1>2. CASE JjDone
    <2>1. \A dirs \in copy.walked : WatcherOK(Apply(watcher, dirs))
      BY ApplyOK DEF Copies
    <2>2. WatcherOK(watcher')
      BY <1>2, <2>1 DEF JjDone
    <2>3. copy' \in Copies /\ StillOn
      BY <1>2 DEF JjDone, Copies, StillOn
    <2>4. jj' \in Commands
      BY <1>2 DEF JjDone, Commands
    <2> QED BY <1>2, <2>2, <2>3, <2>4 DEF JjDone
  <1>3. CASE JjSnapshots
    <2>1. WatcherOK(watcher')
      BY <1>3, NotifyOK DEF JjSnapshots, Signal
    <2>2. jj' \in Commands
      BY <1>3 DEF JjSnapshots, Commands, Trees
    <2> QED BY <1>3, <2>1, <2>2 DEF JjSnapshots, StillOn
  <1> QED BY <1>1, <1>2, <1>3

LEMMA FlagType ==
    ASSUME CopyTypeOK, StoreFlag
    PROVE  CopyTypeOK' /\ StillOn
  <1>1. TRUE \in BOOLEAN /\ FALSE \in BOOLEAN
    OBVIOUS
  <1>2. WatcherOK(watcher')
    BY <1>1, FlagOK, CopyParts DEF StoreFlag
  <1> QED BY <1>2, CopyParts, CopyPartsNext DEF StoreFlag, StillOn

LEMMA DiesType ==
    ASSUME CopyTypeOK, WatchDies
    PROVE  CopyTypeOK' /\ StillOn
  <1>1. copy' \in Copies /\ StillOn
    BY DEF WatchDies, NoCopy, Copies, StillOn
  <1>2. jj' \in Commands /\ plan' \in Plans
    <2>1. jj' \in Commands
      BY CopyParts DEF WatchDies, Commands
    <2> QED BY <2>1, PlanSpent, CopyParts DEF WatchDies
  <1> QED BY <1>1, <1>2, NoWatcherOK, CopyParts, CopyPartsNext DEF WatchDies

\* The files change.
LEMMA ChangesType ==
    ASSUME CopyTypeOK, NEW dir \in Dir, NEW signal \in Signal, NEW counted \in BOOLEAN,
           NEW t \in Trees, Changes(dir, signal, counted, t), plan' \in Plans
    PROVE  CopyTypeOK' /\ StillOn
  <1>1. tree' \in Trees
    <2> DEFINE next == IF counted THEN t.version + 1 ELSE t.version
               due == IF counted /\ dir \in watcher.kernel /\ copy.phase \in {"wait", "settle"}
                      THEN tree.version + 1 ELSE t.owed
    <2>1. next \in Nat /\ due \in Nat
      BY CopyParts DEF Trees
    <2>2. tree' = [t EXCEPT !.version = next, !.owed = due]
      BY DEF Changes, Trees
    <2> HIDE DEF next, due
    <2> QED BY <2>1, <2>2 DEF Trees
  <1>2. WatcherOK(watcher')
    BY CopyParts, NotifyOK DEF Changes
  <1> QED BY <1>1, <1>2, CopyParts, CopyPartsNext DEF Changes, StillOn

LEMMA FilesType ==
    ASSUME CopyTypeOK, EditRoot \/ EditSub \/ CreateSub \/ RemoveSub \/ EditRules
    PROVE  CopyTypeOK' /\ StillOn
  <1> DEFINE made == [tree EXCEPT !.sub = TRUE]
             ruled == [tree EXCEPT !.ignored = ~ @]
             left == [watcher EXCEPT !.kernel = @ \ {"sub"}]
  <1>1. /\ tree \in Trees /\ made \in Trees /\ ruled \in Trees
        /\ (~ tree.ignored) \in BOOLEAN /\ "root" \in Dir /\ "sub" \in Dir
        /\ {"root", "sub", "dir", "rules"} \subseteq Signal
    BY CopyParts DEF Trees, Dir, Signal
  <1>2. plan' \in Plans
    BY PlanSpent, CopyParts DEF EditRoot, EditSub, CreateSub, RemoveSub, EditRules
  <1>3. CASE EditRoot
    BY <1>1, <1>2, <1>3, ChangesType DEF EditRoot
  <1>4. CASE EditSub
    BY <1>1, <1>2, <1>4, ChangesType DEF EditSub
  <1>5. CASE CreateSub
    BY <1>1, <1>2, <1>5, ChangesType DEF CreateSub
  <1>6. CASE EditRules
    BY <1>1, <1>2, <1>6, ChangesType DEF EditRules
  <1>7. CASE RemoveSub
    <2>1. WatcherOK(left)
      BY CopyParts DEF WatcherOK, Watchers
    <2>2. WatcherOK(watcher')
      BY <1>1, <1>7, <2>1, NotifyOK DEF RemoveSub
    <2>3. tree' \in Trees
      <3> DEFINE next == IF tree.ignored THEN tree.version ELSE tree.version + 1
      <3>1. next \in Nat
        BY <1>1 DEF Trees
      <3>2. tree' = [tree EXCEPT !.sub = FALSE, !.version = next]
        BY <1>7 DEF RemoveSub
      <3> HIDE DEF next
      <3> QED BY <1>1, <3>1, <3>2 DEF Trees
    <2> QED BY <1>2, <1>7, <2>2, <2>3, CopyParts, CopyPartsNext DEF RemoveSub, StillOn
  <1> QED BY <1>3, <1>4, <1>5, <1>6, <1>7

LEMMA SyncAppliedType ==
    ASSUME CopyTypeOK, SyncApplied
    PROVE  CopyTypeOK' /\ StillOn
  <1>1. copy' \in Copies /\ StillOn
    BY CopyParts DEF SyncApplied, Copies, StillOn
  <1>2. jj' \in Commands /\ plan' \in Plans
    <2>1. jj' \in Commands
      BY CopyParts DEF SyncApplied, Commands
    <2> QED BY <2>1, PlanSpent, CopyParts DEF SyncApplied
  <1> QED BY <1>1, <1>2, CopyParts, CopyPartsNext DEF SyncApplied

-----------------------------------------------------------------------------
\* The composition.

\* Whether the working copy's task runs is decided by the scans alone.
LEMMA NextType ==
    ASSUME TypeOK, [Next]_vars
    PROVE  TypeOK'
  <1> USE WorkspacesAssumption
  <1>1. ASSUME NEW m \in Machine, TrackWorkspaces(m)
        PROVE  TypeOK'
    <2> DEFINE wanted == HomeWorkspace \in tasks'[HomeMachine]
               running == copy.phase \notin {"off", "failed"}
    <2>1. ClaimsTypeOK'
      BY <1>1, ScanType DEF TrackWorkspaces, TypeOK
    <2>2. CASE wanted /\ ~ running /\ Spawn /\ UNCHANGED <<tree, jj, plan>>
      BY <2>1, <2>2, SpawnType DEF TypeOK
    <2>3. CASE ~ wanted /\ Abort /\ UNCHANGED <<tree, plan>>
      BY <2>1, <2>3, AbortType DEF TypeOK
    <2>4. CASE /\ m # HomeMachine \/ (wanted /\ running) \/ (~ wanted /\ copy.phase = "off")
               /\ UNCHANGED copyVars
      <3>1. CopyTypeOK' /\ copy' = copy
        BY <2>4 DEF TypeOK, CopyTypeOK, copyVars
      <3>2. m # HomeMachine => tasks'[HomeMachine] = tasks[HomeMachine]
        BY <1>1 DEF TrackWorkspaces, Scan, TypeOK, ClaimsTypeOK
      <3>3. copy.phase # "off" <=> wanted
        BY <2>4, <3>2 DEF TypeOK
      <3> QED BY <2>1, <3>1, <3>3 DEF TypeOK
    <2> QED BY <1>1, <2>2, <2>3, <2>4 DEF TrackWorkspaces
  <1>2. ASSUME NEW m \in Machine, ClaimSteps(m), UNCHANGED copyVars
        PROVE  TypeOK'
    <2>1. ClaimsTypeOK' /\ tasks' = tasks
      BY <1>2, ClaimStepsType DEF TypeOK
    <2>2. CopyTypeOK' /\ copy' = copy
      BY <1>2 DEF TypeOK, CopyTypeOK, copyVars
    <2> QED BY <2>1, <2>2 DEF TypeOK
  <1>3. ASSUME CopySteps, UNCHANGED claimVars
        PROVE  TypeOK'
    <2>1. CopyTypeOK' /\ StillOn
      BY <1>3, WalkType, PollType, JjType, FlagType, DiesType, FilesType,
         SyncAppliedType
         DEF CopySteps, TaskSteps, TypeOK
    <2>2. ClaimsTypeOK' /\ tasks' = tasks
      BY <1>3 DEF TypeOK, ClaimsTypeOK, claimVars
    <2> QED BY <2>1, <2>2 DEF TypeOK, StillOn
  <1>4. CASE UNCHANGED vars
    BY <1>4 DEF vars, claimVars, copyVars, TypeOK, ClaimsTypeOK, CopyTypeOK
  <1> QED BY <1>1, <1>2, <1>3, <1>4 DEF Next

LEMMA InitType ==
    ASSUME Init
    PROVE  TypeOK
  <1>1. PICK s \in Scenarios : InitClaims(s.events) /\ InitCopy(s.plan)
    BY DEF Init
  <1>2. s.events \in Events /\ s.plan \in Plans
    BY WorkspacesAssumption DEF Scenario
  <1>3. ClaimsTypeOK
    BY <1>1, <1>2, InitClaimsType
  <1>4. CopyTypeOK /\ copy.phase = "off"
    BY <1>1, <1>2, InitCopyType
  <1>5. tasks[HomeMachine] = {}
    BY <1>1, WorkspacesAssumption DEF InitClaims
  <1> QED BY <1>3, <1>4, <1>5 DEF TypeOK

\* Stores and tasks hold what they may: in particular a machine's recorded
\* claims are within its limit though its scan may ask for more, the event
\* queue is within its bound, and the task of the working copy runs for
\* exactly as long as the scan wants it automated.
THEOREM TypeCorrect == Spec => []TypeOK
  BY InitType, NextType, PTL DEF Spec

=============================================================================
