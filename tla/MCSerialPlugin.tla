--------------------------- MODULE MCSerialPlugin ---------------------------
(***************************************************************************)
(* Instances of SerialPlugin for TLC: handles and gateway threads are      *)
(* interchangeable, so that safety runs may use their symmetries.          *)
(***************************************************************************)
EXTENDS SerialPluginService, TLC

Symmetry == Permutations(Handles) \cup Permutations(Callers)
=============================================================================
