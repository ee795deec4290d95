------------------------------- MODULE MCMesh -------------------------------
(***************************************************************************)
(* Instances of Mesh for TLC.                                              *)
(***************************************************************************)
EXTENDS Mesh

Letter(from, to, ty, t) == [sender |-> from, recipient |-> to, type |-> ty, ttl |-> t]

\* A chat with a TTL that outlasts the network, one that reaches across the tree.
ChatOneToThree == [m \in Msg |-> Letter(1, 3, "chat", 3)]
ChatOneToSeven == [m \in Msg |-> Letter(1, 7, "chat", 4)]

Budget3  == [n \in Node |-> 3]
\* A network in which only node 2 runs in spray mode.
Mixed    == [n \in Node |-> IF n = 2 THEN 2 ELSE 0]

Triangle == {{1, 2}, {2, 3}, {1, 3}}
\* Disjoint neighbourhoods: no two carriers spray the same peer.
Tree     == {{1, 2}, {1, 3}, {1, 4}, {2, 5}, {2, 6}, {5, 7}}
=============================================================================
