---- MODULE MCStereoTopology ----
(***************************************************************************)
(* The instances of StereoTopology: two handsets, and the calls and link   *)
(* events that each configuration names.                                   *)
(***************************************************************************)
EXTENDS StereoTopology
====
