------------------------------- MODULE MCMesh -------------------------------
(***************************************************************************)
(* Small instances of Mesh for TLC.                                        *)
(***************************************************************************)
EXTENDS Mesh

CONSTANT p1

OnePath == {p1}

\* Every machine starts under the larger of two names, so that a rename
\* goes to the name that wins a tie.
SameHostName == [m \in Machine |-> 2]

\* Every machine starts under the name that wins a tie.
LowHostName == [m \in Machine |-> 1]
=============================================================================
