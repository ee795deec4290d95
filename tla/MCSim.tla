------------------------------- MODULE MCSim -------------------------------
(***************************************************************************)
(* An instance of Sim for TLC: the sources and destinations that are drawn.*)
(***************************************************************************)
EXTENDS Sim

FarAndBack == {<<1, 4>>, <<3, 2>>}
=============================================================================
