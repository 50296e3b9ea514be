--------------------------- MODULE MCHeadsetPower ---------------------------
(***************************************************************************)
(* Instances of HeadsetPower for TLC.                                      *)
(***************************************************************************)
EXTENDS HeadsetPower
=============================================================================
