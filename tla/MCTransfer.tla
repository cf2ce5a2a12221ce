----------------------------- MODULE MCTransfer -----------------------------
(***************************************************************************)
(* Small instances of Transfer for TLC: three machines whose repos start   *)
(* with histories that have nothing in common, as a clone's does with the  *)
(* repo it pulls.                                                          *)
(***************************************************************************)
EXTENDS Transfer

OwnFirst == [m \in Machine |-> m]

WritesAt(where) == [m \in Machine |-> IF m \in where THEN 1 ELSE 0]

\* Users work on both ends of a fetch that is interrupted.
Interrupted ==
    [links |-> {<<1, 2>>}, packs |-> {FALSE}, writes |-> WritesAt({1, 2}), faults |-> 1]

\* It is interrupted twice.
Retried == [Interrupted EXCEPT !.writes = WritesAt({1}), !.faults = 2]

\* Two machines fetch from each other, and one supersedes what it fetched.
Mutual ==
    [links |-> {<<1, 2>>, <<2, 1>>}, packs |-> {TRUE}, writes |-> WritesAt({1}), faults |-> 0]

\* Operations that were fetched are fetched on.
Relayed ==
    [links |-> {<<2, 1>>, <<3, 2>>}, packs |-> {FALSE}, writes |-> WritesAt({2}), faults |-> 0]

\* Two machines fetch from a third, which serves one at a time.
Contended ==
    [links |-> {<<1, 3>>, <<2, 3>>}, packs |-> BOOLEAN, writes |-> WritesAt({}), faults |-> 1]

AllScenarios == {Interrupted, Retried, Mutual, Relayed, Contended}
=============================================================================
