----------------------------- MODULE MCPairing -----------------------------
(***************************************************************************)
(* Small instances of Pairing for TLC, one scenario for each kind of race. *)
(***************************************************************************)
EXTENDS Pairing

Quiet == [users |-> {1, 2}, wanted |-> {<<1, 2>>}, refused |-> {}, strays |-> 0, faults |-> 0]

\* One machine pairs with a host through failures; two machines redeem the
\* tickets of one host; two machines host for each other; more machines than
\* exchanges; the host, then the joiner, refuses the other's name.
MCScenarios ==
    {[Quiet EXCEPT !.strays = 1, !.faults = 3],
     [Quiet EXCEPT !.users = {1, 2, 3}, !.wanted = {<<1, 2>>, <<1, 3>>}, !.strays = 1,
                    !.faults = 1],
     [Quiet EXCEPT !.wanted = {<<1, 2>>, <<2, 1>>}, !.faults = 1],
     [Quiet EXCEPT !.users = {1, 2, 3, 4}, !.wanted = {<<1, 2>>, <<1, 3>>, <<1, 4>>}],
     [Quiet EXCEPT !.users = {1, 2, 3}, !.wanted = {<<1, 3>>}, !.refused = {<<1, 2>>}, !.strays = 2],
     [Quiet EXCEPT !.refused = {<<2, 1>>}, !.strays = 1]}
============================================================================
