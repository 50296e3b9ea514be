--------------------------- MODULE MCBatteryRegion ---------------------------
(***************************************************************************)
(* BatteryRegion with the headset's tables and a charger that is neither a *)
(* USB host nor probed.                                                    *)
(***************************************************************************)
EXTENDS BatteryRegion, HeadsetRegionConfig

PlainCharger ==
    {[attached_status |-> "FLOATING_CHARGER", cc_status |-> "CC_CURRENT_DEFAULT",
      lines |-> "no_match"]}

=============================================================================
