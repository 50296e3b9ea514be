--------------------------- MODULE ChargerMonitor ---------------------------
(***************************************************************************)
(* The charger monitor as a task: the messages it handles, in the order    *)
(* in which firmware, the USB device and its own timers can send them.     *)
(* Every handler runs to completion.                                       *)
(*                                                                         *)
(* The environment is the charger socket (plugged, and whether its         *)
(* detection has been reported), the USB host, the battery region and the  *)
(* battery monitor.  The firmware reports changes of the socket in order   *)
(* and reports what it detected before it reports the next change.         *)
(***************************************************************************)
EXTENDS Charger

CONSTANTS
    Chargers,       \* what may be plugged in, as MESSAGE_CHARGER_DETECTED tells it
    StatusReports,  \* the charger statuses that MESSAGE_CHARGER_STATUS reports
    UsbEvents,      \* the USB_DEVICE_ messages the USB host causes
    RegionCurrents, \* the currents in the battery region tables
    OthersReasons,  \* reasons that other components set and clear
    MaxQueue        \* bound: messages from the firmware and from the USB
                    \* device that wait to be handled

ASSUME MonitorAssumption ==
    /\ Chargers \subseteq DetectedMessages
    /\ \A c \in Chargers : c.attached_status # "DETACHED"
    /\ StatusReports \subseteq Statuses
    /\ UsbEvents \subseteq {"ENUMERATED", "DECONFIGURED", "SUSPEND", "RESUME"}
    /\ RegionCurrents \subseteq Nat
    /\ OthersReasons \subseteq {"TIMEOUT", "REQUEST"}
    /\ MaxQueue \in Nat \ {0}

VARIABLES ch, env

vars == <<ch, env>>

Detached ==
    [attached_status |-> "DETACHED", cc_status |-> "CC_CURRENT_DEFAULT",
     lines |-> "no_match"]

FirmwareMessages ==
    [id : {"CHANGED"}, connected : BOOLEAN]
      \cup [id : {"DETECTED"}, msg : Chargers \cup {Detached}]

Environment ==
    [plugged   : BOOLEAN,
     detected  : BOOLEAN,
     firmware  : Seq(FirmwareMessages),
     usb       : Seq(UsbEvents),
     suspended : BOOLEAN,
     region    : RegionCurrents \cup {0}]

\* What a handler reads; BatteryMonitor_IsGood is asked each time.
Seen(good) == [region |-> env.region, suspended |-> env.suspended, good |-> good]

\* The end of a handler: the notes to the clients are on their way.
Handled(c) == [c EXCEPT !.notes = <<>>]

(***************************************************************************)
(* BatteryRegion_Init runs after Charger_Init: no region yet.              *)
(***************************************************************************)
Init ==
    \E plugged \in BOOLEAN :
        /\ env = [plugged |-> plugged, detected |-> FALSE, firmware |-> <<>>,
                  usb |-> <<>>, suspended |-> FALSE, region |-> 0]
        /\ ch = Handled(Charger_Init(plugged, Seen(TRUE)))

(***************************************************************************)
(* The environment.                                                        *)
(***************************************************************************)
PlugChanges ==
    /\ Len(env.firmware) < MaxQueue
    /\ env' = [env EXCEPT !.plugged = ~@, !.detected = FALSE,
                          !.firmware = Append(@, [id |-> "CHANGED",
                                                  connected |-> ~env.plugged])]
    /\ UNCHANGED ch

ChargerIsDetected ==
    /\ Len(env.firmware) < MaxQueue
    /\ ~env.detected
    /\ \E msg \in (IF env.plugged THEN Chargers ELSE {Detached}) :
           env' = [env EXCEPT !.detected = TRUE,
                              !.firmware = Append(@, [id |-> "DETECTED", msg |-> msg])]
    /\ UNCHANGED ch

UsbHostActs ==
    /\ Len(env.usb) < MaxQueue
    /\ \E id \in UsbEvents :
           env' = [env EXCEPT !.usb = Append(@, id),
                              !.suspended = CASE id = "SUSPEND"    -> TRUE
                                              [] id = "ENUMERATED" -> @
                                              [] OTHER             -> FALSE]
    /\ UNCHANGED ch

(***************************************************************************)
(* The handlers.                                                           *)
(***************************************************************************)
HandleFirmwareMessage ==
    /\ env.firmware # <<>>
    /\ \E good \in BOOLEAN :
           LET m == Head(env.firmware)
           IN  ch' = Handled(IF m.id = "CHANGED"
                             THEN ChargerDetect_Changed(ch, m.connected, Seen(good))
                             ELSE ChargerDetect_Detected(ch, m.msg, Seen(good)))
    /\ env' = [env EXCEPT !.firmware = Tail(@)]

HandleUsbMessage ==
    /\ env.usb # <<>>
    /\ \E good \in BOOLEAN :
           ch' = Handled(ChargerDetect_UpdateUsbStatus(ch, Head(env.usb), Seen(good)))
    /\ env' = [env EXCEPT !.usb = Tail(@)]

HandleStatus ==
    /\ \E status \in StatusReports :
           ch' = Handled(Charger_StatusChanged(ch, status, Seen(TRUE)))
    /\ UNCHANGED env

\* CHARGER_INTERNAL_RE_ENABLE_TIMEOUT.
ReEnableTimeout ==
    /\ ch.re_enable
    /\ ch' = DisableReasonClear([ch EXCEPT !.re_enable = FALSE], "ERROR")
    /\ UNCHANGED env

\* The battery region chooses another row of its table and tells the monitor
\* in the same handler.
RegionChanges ==
    \E current \in RegionCurrents :
        /\ current # env.region
        /\ env' = [env EXCEPT !.region = current]
        /\ ch' = Charger_UpdateCurrent(ch, [Seen(TRUE) EXCEPT !.region = current])

\* The battery region's charging timer expires; Charger_ForceDisable.
OthersDisable ==
    /\ \E reason \in OthersReasons : ch' = DisableReasonAdd(ch, reason)
    /\ UNCHANGED env

\* The battery region forgets its timer; Charger_RestoreState.
OthersRestore ==
    /\ \E reason \in OthersReasons : ch' = DisableReasonClear(ch, reason)
    /\ UNCHANGED env

\* headset_sm writes the external charger's PIO too.
HeadsetSwitchesPio ==
    /\ \E on \in BOOLEAN : ch' = [ch EXCEPT !.external_charging = on]
    /\ UNCHANGED env

MeasurementRefused ==
    /\ ch.measurement > 0
    /\ ch' = Charger_VchgMonitorPeriodic(ch, FALSE)
    /\ UNCHANGED env

MeasurementAccepted ==
    /\ ch.measurement > 0
    /\ ch' = Charger_VchgMonitorPeriodic(ch, TRUE)
    /\ UNCHANGED env

\* The charge current read back is what was asked for, or clearly less.
AdcResult ==
    /\ ch.read # "none"
    /\ \E drawn \in {ch.fast_current, (ch.fast_current * 3) \div 4},
          vchg \in {"low", "fair", "good"} :
           ch' = Charger_VChgMonitorReading(ch, drawn, vchg, Seen(TRUE))
    /\ UNCHANGED env

Next ==
    \/ PlugChanges \/ ChargerIsDetected \/ UsbHostActs
    \/ HandleFirmwareMessage \/ HandleUsbMessage \/ HandleStatus
    \/ ReEnableTimeout \/ RegionChanges
    \/ OthersDisable \/ OthersRestore \/ HeadsetSwitchesPio
    \/ MeasurementRefused \/ MeasurementAccepted \/ AdcResult

Spec == Init /\ [][Next]_vars

-----------------------------------------------------------------------------
\* The types of the charger data and of its environment.
TypeOK ==
    /\ ch \in ChargerData
    /\ env \in Environment

(***************************************************************************)
(* The reasons say exactly why charging is off: the charger is enabled if  *)
(* and only if no reason is left; the reasons for a zero current and for   *)
(* an unconnected charger are there exactly when they apply; the error     *)
(* reason is there exactly while the timer that removes it runs            *)
(* (Charger_Error, CHARGER_INTERNAL_RE_ENABLE_TIMEOUT), so that no error   *)
(* disables charging for ever; the internal reason used around a change of *)
(* mode never outlives a handler; and the hardware is never reconfigured   *)
(* while it is enabled, as ChargerConfigure requires.                      *)
(***************************************************************************)
ReasonsMatchState ==
    /\ TypeOK
    /\ ch.is_enabled <=> ch.disable_reason = {}
    /\ "ZERO_CURRENT" \in ch.disable_reason <=> ch.fast_current = 0
    /\ "NOT_CONNECTED" \in ch.disable_reason <=> ch.is_connected # 1
    /\ "ERROR" \in ch.disable_reason <=> ch.re_enable
    /\ "INTERNAL" \notin ch.disable_reason
    /\ ~ch.misconfigured

(***************************************************************************)
(* Between two messages the configured current is the smallest of what the *)
(* charger, the battery region and the hardware allow, whichever of them   *)
(* changed last and in whatever order the changes were reported.           *)
(***************************************************************************)
CurrentIsAllowed == ch.fast_current = AllowedCurrent(ch, env.region)

(***************************************************************************)
(* When the firmware's messages have been handled the monitor knows        *)
(* whether a charger is plugged in, and with what it should be charged     *)
(* from is at most the safe current until the charger has been detected.   *)
(***************************************************************************)
FollowsSocket ==
    env.firmware = <<>> =>
        /\ ch.is_connected = 1 <=> env.plugged
        /\ ~env.plugged => ch.charger_config = "detached"
        /\ env.plugged /\ ~env.detected => ch.fast_current <= Configs["safe"].current

(***************************************************************************)
(* A suspended USB host is not drawn from, whether the suspension came     *)
(* before or after the host was detected.  Once the USB messages have been *)
(* handled the monitor knows whether the host is suspended; an SDP that is *)
(* gives no current; and with a charger connected the code asks the power  *)
(* supply for the battery (power_source_vbat, given to PsuConfigure) and   *)
(* sets usb_leds_forced_off for such a host only: both end with the        *)
(* suspension.  Whether PsuConfigure succeeds is not modelled, and nothing *)
(* is claimed of the LEDs: LedManager_ForceLeds(0) is compiled out.        *)
(***************************************************************************)
SuspendIsHonoured ==
    LET suspended == ch.charger_config = "sdp" /\ ch.usb_suspend
    IN  /\ ch.charger_config = "sdp" /\ env.usb = <<>> => ch.usb_suspend = env.suspended
        /\ suspended => ch.fast_current = 0 /\ ch.usb_leds_forced_off
        /\ ch.is_connected = 1 /\ (ch.usb_leds_forced_off \/ ch.power_source_vbat) => suspended

(***************************************************************************)
(* While the VCHG monitor is enabled a measurement is scheduled or being   *)
(* made, whatever was stopped and started while a reading was under way;   *)
(* at most two chains of measurements run at once; and the monitor runs    *)
(* only for a charger whose limit is still to be found.                    *)
(***************************************************************************)
ProbeAlive ==
    LET chains == ch.measurement + (IF ch.read = "none" THEN 0 ELSE 1)
    IN  /\ ch.vchg_monitor_enabled =>
               /\ chains > 0
               /\ Configs[ch.charger_config].current_limiting
               /\ ~ch.current_limit_detected
        /\ chains <= 2

(***************************************************************************)
(* Probing that stopped because the monitor itself allowed less than the   *)
(* limit reached resumes when the current comes back to the limit.         *)
(***************************************************************************)
ProbingResumes ==
    /\ Configs[ch.charger_config].current_limiting
    /\ ~ch.current_limit_detected
    /\ ch.fast_current = ch.current_limit
    => ch.vchg_monitor_enabled

(***************************************************************************)
(* The limit used for a wall charger never leaves what every such charger  *)
(* can deliver and what this one offers: the 12 bit field is not taken     *)
(* below IDCP_min by steps that miss it.                                   *)
(***************************************************************************)
LimitInRange ==
    Configs[ch.charger_config].current_limiting =>
        /\ ch.current_limit >= DCPMinCurrent
        /\ ch.current_limit <= Configs[ch.charger_config].current

-----------------------------------------------------------------------------
=============================================================================
