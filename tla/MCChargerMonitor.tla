-------------------------- MODULE MCChargerMonitor --------------------------
(***************************************************************************)
(* Chargers for model checking ChargerMonitor.                             *)
(***************************************************************************)
EXTENDS ChargerMonitor

Detection(attached) ==
    [attached_status |-> attached, cc_status |-> "CC_CURRENT_DEFAULT",
     lines |-> "no_match"]

\* A USB host, and a message without a result.
Host == {Detection("HOST_OR_HUB"), Detection("UNKNOWN_STATUS")}

\* Two kinds of wall charger, and one that is not probed.
Wall ==
    {Detection("DEDICATED_CHARGER"), Detection("HOST_OR_HUB_CHARGER"),
     Detection("FLOATING_CHARGER")}

=============================================================================
