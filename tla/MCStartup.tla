----------------------------- MODULE MCStartup -----------------------------
(***************************************************************************)
(* Startup on small instances: which process is which does not matter.     *)
(***************************************************************************)
EXTENDS Startup, TLC

Symmetry == Permutations(Proc)
=============================================================================
