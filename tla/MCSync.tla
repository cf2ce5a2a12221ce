------------------------------- MODULE MCSync -------------------------------
(***************************************************************************)
(* Small instances of Sync for TLC, two machines each.                     *)
(***************************************************************************)
EXTENDS Sync

Nothing ==
    [held |-> Machine \X {1}, moved |-> {}, ops |-> 0, regs |-> 0, conns |-> 1,
     restarts |-> 0, faults |-> 0, losses |-> 0]

\* One repo that machine 1 forgets and clones again, with a user's operation or
\* a retry meanwhile; a retry on an operation of the user's; and two names
\* whose ids may clash, with a restart and a lost message.
SafetyScenarios ==
    {[Nothing EXCEPT !.moved = {<<1, 1>>}, !.ops = 1, !.regs = 2],
     [Nothing EXCEPT !.moved = {<<1, 1>>}, !.regs = 2, !.faults = 1],
     [Nothing EXCEPT !.moved = {<<1, 1>>}, !.ops = 1, !.regs = 1, !.faults = 1],
     [Nothing EXCEPT !.held = {1} \X RepoName, !.moved = Machine \X RepoName, !.regs = 2,
                     !.restarts = 1, !.losses = 1]}

\* A failed fetch; and a connection made again.
LiveScenarios ==
    {[Nothing EXCEPT !.ops = 1, !.faults = 1], [Nothing EXCEPT !.ops = 1, !.conns = 2]}

\* Machine 2 clones machine 1's repo.
CloneScenario ==
    {[Nothing EXCEPT !.held = {<<1, 1>>}, !.moved = Machine \X {1}, !.ops = 1, !.regs = 1]}

RestartScenario == {[Nothing EXCEPT !.ops = 1, !.conns = 2, !.restarts = 1]}
=============================================================================
