------------------------------- MODULE MCKeys -------------------------------
(***************************************************************************)
(* Keys for TLC: the daemons are interchangeable.                          *)
(***************************************************************************)
EXTENDS Keys, TLC

NodeSymmetry == Permutations(Node)
=============================================================================
