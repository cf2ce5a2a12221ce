----------------------------- MODULE Workspaces -----------------------------
(***************************************************************************)
(* Workspace automation: the claims of every machine on a repo's           *)
(* workspaces, and one working copy of one machine with its task, which    *)
(* the scan of that machine starts, stops and starts again.                *)
(***************************************************************************)
EXTENDS Claims, WorkingCopy

CONSTANTS
    HomeMachine,     \* the machine and the workspace whose files are modelled
    HomeWorkspace,
    Scenarios        \* what happens in an execution

Scenario == [events : Events, plan : Plans]

ASSUME WorkspacesAssumption ==
    /\ HomeMachine \in Machine
    /\ HomeWorkspace \in Workspace
    /\ Scenarios \subseteq Scenario

vars == <<claimVars, copyVars>>

Init == \E s \in Scenarios : InitClaims(s.events) /\ InitCopy(s.plan)

\* A scan of m, and what becomes of the working copy's task: one that ended is
\* dropped and spawned again.
TrackWorkspaces(m) ==
    /\ Scan(m)
    /\ LET wanted == HomeWorkspace \in tasks'[HomeMachine]
           running == copy.phase \notin {"off", "failed"}
       IN \/ m = HomeMachine /\ wanted /\ ~ running /\ Spawn /\ UNCHANGED <<tree, jj, plan>>
          \/ m = HomeMachine /\ ~ wanted /\ copy.phase # "off" /\ Abort /\ UNCHANGED <<tree, plan>>
          \/ /\ m # HomeMachine \/ (wanted /\ running) \/ (~ wanted /\ copy.phase = "off")
             /\ UNCHANGED copyVars

ClaimSteps(m) ==
    \/ RecordClaim(m) \/ RefuseClaim(m) \/ ViewSync(m)
    \/ \E p \in Machine \ {m} : Gossip(m, p)
    \/ \E n \in Workspace :
        AddWorkspace(m, n) \/ ForgetWorkspace(m, n) \/ RestoreWorkspace(m, n) \/ GoStale(m, n)

Next ==
    \/ \E m \in Machine : TrackWorkspaces(m) \/ (ClaimSteps(m) /\ UNCHANGED copyVars)
    \/ CopySteps /\ UNCHANGED claimVars

Spec == Init /\ [][Next]_vars

\* Scans come with every idle check, loops, tasks and threads run on,
\* operations and memberships arrive, and jj runs to its end.
Fairness ==
    /\ \A m \in Machine :
        /\ WF_vars(TrackWorkspaces(m))
        /\ WF_vars(RecordClaim(m) /\ UNCHANGED copyVars)
        /\ WF_vars(ViewSync(m) /\ UNCHANGED copyVars)
        /\ \A p \in Machine \ {m} : WF_vars(Gossip(m, p) /\ UNCHANGED copyVars)
    /\ WF_vars(TaskSteps /\ UNCHANGED claimVars)
    /\ WF_vars(StoreFlag /\ UNCHANGED claimVars)
    /\ WF_vars(JjSnapshots /\ UNCHANGED claimVars)
    /\ SF_vars(Deadline /\ UNCHANGED claimVars)

FairSpec == Spec /\ Fairness

\* The type invariants of the two parts, and the task runs only for a
\* workspace the scan wants automated.
TypeOK ==
    /\ ClaimsTypeOK
    /\ CopyTypeOK
    /\ copy.phase # "off" <=> HomeWorkspace \in tasks[HomeMachine]
============================================================================
