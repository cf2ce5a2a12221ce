------------------------------ MODULE MCPeers ------------------------------
(***************************************************************************)
(* Small instances of PeerConnections for TLC: connections fail, a peer is *)
(* removed and added again, and two machines are just being paired.        *)
(***************************************************************************)
EXTENDS PeerConnections

Both == [m \in Machine |-> Machine \ {m}]

MCScenarios ==
    {[paired |-> Both, changes |-> 0, faults |-> 2],
     [paired |-> Both, changes |-> 2, faults |-> 0],
     [paired |-> [m \in Machine |-> {}], changes |-> 2, faults |-> 1]}
============================================================================
