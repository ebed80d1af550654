-------------------------- MODULE MCGatewaySessions --------------------------
(***************************************************************************)
(* Instances of GatewaySessions for TLC: threads are interchangeable, ids  *)
(* are not, since applications name some of them.                          *)
(***************************************************************************)
EXTENDS GatewaySessions, TLC

Symmetry == Permutations(Workers)
=============================================================================
