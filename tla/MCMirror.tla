------------------------------ MODULE MCMirror ------------------------------
(***************************************************************************)
(* Small instances of Mirror for TLC.                                      *)
(***************************************************************************)
EXTENDS Mirror

\* 2 descends from 1, and 3 from neither.
TwoLines == [c \in Commit |-> IF c = 2 THEN {1, 2} ELSE {c}]

Nothing ==
    [inside |-> FALSE, fresh |-> FALSE, head |-> 1, writes |-> 0, commands |-> 0, gits |-> 0,
     worktrees |-> 0, faults |-> 0]

\* The peers move refs concurrently; the user runs jj during the fetch; the
\* user runs git; a pull target fetches the mesh's history; the daemon
\* crashes, or a swap or a heal fails, in a repo only jj writes and in a
\* colocated one; a worktree comes and goes.
MCScenarios ==
    {[Nothing EXCEPT !.writes = 3],
     [Nothing EXCEPT !.writes = 1, !.commands = 1, !.gits = 2],
     [Nothing EXCEPT !.writes = 2, !.commands = 1, !.faults = 1],
     [Nothing EXCEPT !.fresh = TRUE, !.writes = 1, !.commands = 1, !.gits = 1],
     [Nothing EXCEPT !.inside = TRUE, !.head = 0, !.writes = 2, !.faults = 2],
     [Nothing EXCEPT !.inside = TRUE, !.writes = 2, !.gits = 1, !.worktrees = 2, !.faults = 1],
     [Nothing EXCEPT !.inside = TRUE, !.head = 0, !.writes = 1, !.commands = 1, !.faults = 1]}
=============================================================================
