--------------------------- MODULE MCPowerManager ---------------------------
(***************************************************************************)
(* Instances of PowerManager for TLC.  The clients are interchangeable.    *)
(***************************************************************************)
EXTENDS PowerManager, TLC

Symmetry == Permutations(Clients)
=============================================================================
