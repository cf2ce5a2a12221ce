---------------------------- MODULE MCWorkspaces ----------------------------
(***************************************************************************)
(* Small instances of Workspaces for TLC: two machines, three workspaces.  *)
(***************************************************************************)
EXTENDS Workspaces

MainOne == [m \in Machine |-> 1]

NoEvents ==
    [holders |-> [m \in Machine |-> IF m = 1 THEN {1} ELSE {}], adds |-> 0, forgets |-> 0,
     stales |-> 0, refusals |-> 0]

NoPlan ==
    [edits |-> 0, creates |-> 0, removes |-> 0, rules |-> 0, syncs |-> 0, faults |-> 0,
     sub |-> TRUE]

BothMain == [m \in Machine |-> {1}]

Two(k) == [m \in Machine |-> IF m = 1 THEN {1, k} ELSE {}]

\* Claims: workspaces come and go, at the limit too, a save fails, machines
\* share a name.
\* Files: edits, directories, ignore rules, syncs and failures.
MCScenarios ==
    {[events |-> e, plan |-> NoPlan] : e \in
        {[NoEvents EXCEPT !.holders = Two(2), !.adds = 2, !.forgets = 1],
         [NoEvents EXCEPT !.holders = BothMain, !.adds = 1],
         [NoEvents EXCEPT !.holders = BothMain, !.forgets = 1, !.refusals = 1, !.stales = 1]}}
    \cup
    {[events |-> NoEvents, plan |-> p] : p \in
        {[NoPlan EXCEPT !.edits = 3, !.syncs = 1],
         [NoPlan EXCEPT !.edits = 2, !.faults = 1, !.removes = 1],
         [NoPlan EXCEPT !.sub = FALSE, !.edits = 2, !.creates = 1],
         [NoPlan EXCEPT !.edits = 1, !.rules = 2],
         [NoPlan EXCEPT !.edits = 2, !.rules = 1, !.removes = 1]}}

RecreateScenario ==
    {[events |-> NoEvents, plan |-> [NoPlan EXCEPT !.creates = 1, !.removes = 1]]}

============================================================================
