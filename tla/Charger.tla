------------------------------ MODULE Charger ------------------------------
(***************************************************************************)
(* The data of the charger monitor and the operations on it:               *)
(* adk/src/domains/power/charger_monitor/charger_monitor.c (the reasons    *)
(* for which charging is disabled, the charge current, the connection),    *)
(* charger_detect.c (what the attached charger may be asked for) and       *)
(* charger_vchg_monitor.c (probing what a wall charger can deliver).       *)
(*                                                                         *)
(* An operation is a function from the record before to the record after   *)
(* it.  What the monitor reads from other components is the record e:      *)
(* region, the result of BatteryRegion_GetCurrent; good, the result of     *)
(* BatteryMonitor_IsGood; suspended, UsbDeviceState being suspended.       *)
(* Currents are in mA.  The build modelled is the headset's: charger       *)
(* detection and an external resistor, no hysteresis in software, charge   *)
(* timeouts of zero (CHARGER_INTERNAL_CHARGE_TIMEOUT is never sent).       *)
(***************************************************************************)
EXTENDS Integers, Sequences

CONSTANTS
    FastCurrent,         \* FAST_CHARGE_CURRENT
    InternalMaxCurrent,  \* appConfigChargerInternalMaxCurrent()
    UnconfiguredCurrent, \* appConfigChargerUsbUnconfiguredCurrent()
    DCPMinCurrent,       \* appConfigChargerDCPMinCurrent()
    VchgStep             \* appConfigChargerVchgStep()

ASSUME ChargerAssumption ==
    /\ FastCurrent \in Nat \ {0}
    /\ InternalMaxCurrent \in Nat /\ InternalMaxCurrent >= 50
    /\ UnconfiguredCurrent \in Nat
    /\ DCPMinCurrent \in Nat /\ DCPMinCurrent <= 1500
    /\ VchgStep \in Nat \ {0}

DisableReasons ==
    {"TIMEOUT", "REQUEST", "ERROR", "ZERO_CURRENT", "NOT_CONNECTED", "INTERNAL"}

Statuses ==
    {"TRICKLE_CHARGE", "PRE_CHARGE", "FAST_CHARGE", "STANDBY", "DISABLED_ERROR",
     "NO_POWER", "VBAT_OVERVOLT_ERROR", "HEADROOM_ERROR",
     "CONFIG_FAIL_VALUES_OUT_OF_RANGE", "ENABLE_FAIL_UNKNOWN"}

Notifications ==
    {"ATTACHED", "DETACHED", "CHARGING_LOW", "CHARGING_OK", "COMPLETED",
     "ERROR", "DISABLED"}

CHARGER_CONNECTION_UNKNOWN == 2
CHG_MON_REQUEST_READING == 65535

Min2(a, b) == IF a <= b THEN a ELSE b
Max2(a, b) == IF a >= b THEN a ELSE b

Config(usb, limiting, current) ==
    [usb_events_apply |-> usb, current_limiting |-> limiting, current |-> current]

\* The const charger_config_t objects; "none" is the null pointer.
Configs ==
    [none     |-> Config(FALSE, FALSE, 0),
     sdp      |-> Config(TRUE,  FALSE, 500),
     dcp      |-> Config(FALSE, TRUE,  1500),
     cdp      |-> Config(FALSE, TRUE,  1500),
     usbc_15  |-> Config(FALSE, FALSE, 1500),
     usbc_30  |-> Config(FALSE, FALSE, 1800),
     floating |-> Config(FALSE, FALSE, 500),
     non_usb  |-> Config(FALSE, FALSE, 500),
     safe     |-> Config(FALSE, FALSE, 100),
     detached |-> Config(FALSE, FALSE, 0),
     apple_24 |-> Config(FALSE, FALSE, 1800),
     apple_21 |-> Config(FALSE, FALSE, 1800),
     apple_10 |-> Config(FALSE, FALSE, 1000),
     apple_05 |-> Config(FALSE, FALSE, 500),
     samsung  |-> Config(FALSE, FALSE, 1800),
     htc      |-> Config(FALSE, FALSE, 1000)]

ConfigNames == DOMAIN Configs

AttachedStatuses ==
    {"DETACHED", "NON_USB_CHARGER", "UNKNOWN_STATUS", "CHARGING_PORT", "HOST_OR_HUB",
     "DEDICATED_CHARGER", "HOST_OR_HUB_CHARGER", "FLOATING_CHARGER",
     "NON_COMPLIANT_CHARGER"}

\* lines is the row of proprietary_chargers whose D+ and D- voltages the
\* message matches first, or "no_match".
Lines == {"apple_24", "apple_21", "apple_10", "apple_05", "samsung", "htc", "no_match"}

DetectedMessages ==
    [attached_status : AttachedStatuses,
     cc_status       : {"CC_CURRENT_DEFAULT", "CC_CURRENT_1500", "CC_CURRENT_3000"},
     lines           : Lines]

ChargerDetect_GetConfig(msg) ==
    CASE msg.attached_status = "DETACHED"                          -> "detached"
      [] msg.attached_status = "NON_USB_CHARGER"                   -> "non_usb"
      [] msg.attached_status \in {"UNKNOWN_STATUS", "CHARGING_PORT"} -> "none"
      [] OTHER ->
         CASE msg.cc_status = "CC_CURRENT_1500"                    -> "usbc_15"
           [] msg.cc_status = "CC_CURRENT_3000"                    -> "usbc_30"
           [] OTHER ->
              CASE msg.attached_status = "HOST_OR_HUB"             -> "sdp"
                [] msg.attached_status = "DEDICATED_CHARGER"       -> "dcp"
                [] msg.attached_status = "HOST_OR_HUB_CHARGER"     -> "cdp"
                [] msg.attached_status = "FLOATING_CHARGER"        -> "floating"
                [] OTHER -> IF msg.lines = "no_match" THEN "floating" ELSE msg.lines

(***************************************************************************)
(* re_enable: CHARGER_INTERNAL_RE_ENABLE_TIMEOUT is pending.  measurement: *)
(* the number of CHARGER_INTERNAL_VCHG_MEASUREMENT messages pending.       *)
(* read: the ADC source with a request under way; the source's             *)
(* vchg_monitor_read_pending is read # "none".  external_charging: the PIO *)
(* that enables the external charger.  notes: what the last handler sent   *)
(* to the clients.  misconfigured is a history variable: a parameter that  *)
(* may only be written while the charger is disabled was written while it  *)
(* was enabled.                                                            *)
(***************************************************************************)
ChargerData ==
    [is_connected           : {0, 1, CHARGER_CONNECTION_UNKNOWN},
     is_enabled             : BOOLEAN,
     ext_mode_enabled       : BOOLEAN,
     fast_current           : Nat,
     max_supported_current  : Nat,
     power_source_vbat      : BOOLEAN,
     usb_enumerated         : BOOLEAN,
     usb_suspend            : BOOLEAN,
     usb_leds_forced_off    : BOOLEAN,
     vchg_monitor_enabled   : BOOLEAN,
     read                   : {"none", "vref", "chg_mon", "vchg"},
     measurement            : Nat,
     current_limit_detected : BOOLEAN,
     current_increasing     : BOOLEAN,
     current_limit          : Nat,
     vref_known             : BOOLEAN,
     chg_mon_reading        : Nat,
     status                 : Statuses,
     disable_reason         : SUBSET DisableReasons,
     charger_config         : ConfigNames,
     re_enable              : BOOLEAN,
     external_charging      : BOOLEAN,
     notes                  : Seq(Notifications),
     misconfigured          : BOOLEAN]

\* The record as the loader leaves it, with what Charger_Init first assigns.
ZeroedCharger ==
    [is_connected           |-> CHARGER_CONNECTION_UNKNOWN,
     is_enabled             |-> FALSE,
     ext_mode_enabled       |-> FALSE,
     fast_current           |-> 0,
     max_supported_current  |-> FastCurrent,
     power_source_vbat      |-> TRUE,
     usb_enumerated         |-> FALSE,
     usb_suspend            |-> FALSE,
     usb_leds_forced_off    |-> FALSE,
     vchg_monitor_enabled   |-> FALSE,
     read                   |-> "none",
     measurement            |-> 0,
     current_limit_detected |-> FALSE,
     current_increasing     |-> FALSE,
     current_limit          |-> 0,
     vref_known             |-> FALSE,
     chg_mon_reading        |-> 0,
     status                 |-> "ENABLE_FAIL_UNKNOWN",
     disable_reason         |-> {},
     charger_config         |-> "none",
     re_enable              |-> FALSE,
     external_charging      |-> FALSE,
     notes                  |-> <<>>,
     misconfigured          |-> FALSE]

Charger_IsConnected(c) == c.is_connected # 0

Charger_IsCharging(c) ==
    /\ Charger_IsConnected(c)
    /\ c.is_enabled
    /\ c.status \in {"TRICKLE_CHARGE", "FAST_CHARGE", "PRE_CHARGE"}

Charger_StatusMessageId(status) ==
    CASE status \in {"TRICKLE_CHARGE", "PRE_CHARGE"}            -> "CHARGING_LOW"
      [] status = "FAST_CHARGE"                                 -> "CHARGING_OK"
      [] status = "STANDBY"                                     -> "COMPLETED"
      [] status \in {"VBAT_OVERVOLT_ERROR", "HEADROOM_ERROR"}   -> "ERROR"
      [] OTHER                                                  -> "DISABLED"

NotifyClients(c, id) == [c EXCEPT !.notes = Append(@, id)]

(***************************************************************************)
(* Reasons to disable charging.                                            *)
(***************************************************************************)
Enable(c) == [c EXCEPT !.is_enabled = TRUE]

Disable(c) == [c EXCEPT !.is_enabled = FALSE]

DisableReasonAdd(c, reason) ==
    [(IF c.disable_reason = {} THEN Disable(c) ELSE c)
        EXCEPT !.disable_reason = @ \cup {reason}]

DisableReasonClear(c, reason) ==
    LET left == c.disable_reason \ {reason}
        d    == [c EXCEPT !.disable_reason = left]
    IN  IF c.disable_reason # {} /\ left = {} THEN Enable(d) ELSE d

\* Variant: the timer that ends the error is not started.
ErrorWithoutTimer(c) == DisableReasonAdd(c, "ERROR")

\* A second error restarts the timer that is already running.
Error(c) == [DisableReasonAdd(c, "ERROR") EXCEPT !.re_enable = TRUE]

(***************************************************************************)
(* The charge current.                                                     *)
(***************************************************************************)
\* ChargerConfigure of the resistor mode and of the fast current.
ConfigureExternalMode(c, on) ==
    [c EXCEPT !.ext_mode_enabled = on, !.misconfigured = @ \/ c.is_enabled]

ConfigureFastCurrent(c, current) ==
    [c EXCEPT !.fast_current = current,
              !.misconfigured = @ \/ (current = 0 /\ c.is_enabled)]

SetFastCurrent(c, current) ==
    LET external == current > InternalMaxCurrent
        a == IF current = 0 THEN DisableReasonAdd(c, "ZERO_CURRENT") ELSE c
        b == IF external # a.ext_mode_enabled
             THEN ConfigureExternalMode(DisableReasonAdd(a, "INTERNAL"), external)
             ELSE a
        d == DisableReasonClear(ConfigureFastCurrent(b, current), "INTERNAL")
        f == IF current # 0 THEN DisableReasonClear(d, "ZERO_CURRENT") ELSE d
    IN  IF Charger_IsConnected(f)
        THEN [f EXCEPT !.external_charging = (current = FastCurrent)]
        ELSE f

ChargerDetect_Current(c) ==
    LET config == Configs[c.charger_config]
        usb    == IF ~config.usb_events_apply THEN config.current
                  ELSE IF c.usb_suspend THEN 0
                  ELSE IF ~c.usb_enumerated THEN Min2(config.current, UnconfiguredCurrent)
                  ELSE config.current
    IN  IF config.current_limiting THEN Min2(usb, c.current_limit) ELSE usb

AllowedCurrent(c, region) ==
    Min2(region, Min2(ChargerDetect_Current(c), c.max_supported_current))

Charger_VChgMonitorStart(c) ==
    IF c.vchg_monitor_enabled THEN c
    ELSE [c EXCEPT !.vchg_monitor_enabled = TRUE,
                   !.chg_mon_reading = CHG_MON_REQUEST_READING,
                   !.measurement = @ + 1]

Charger_VChgMonitorStop(c) ==
    IF c.vchg_monitor_enabled
    THEN [c EXCEPT !.vchg_monitor_enabled = FALSE, !.measurement = 0]
    ELSE c

\* Variant: waits for the current to pass the limit.
NotifyCurrentChangedLate(c) ==
    IF /\ ~c.vchg_monitor_enabled
       /\ Configs[c.charger_config].current_limiting
       /\ ~c.current_limit_detected
       /\ c.current_limit < c.fast_current
    THEN Charger_VChgMonitorStart([c EXCEPT !.current_increasing = TRUE])
    ELSE c

ChargerDetect_NotifyCurrentChanged(c) ==
    IF /\ ~c.vchg_monitor_enabled
       /\ Configs[c.charger_config].current_limiting
       /\ ~c.current_limit_detected
       /\ c.current_limit = c.fast_current
    THEN Charger_VChgMonitorStart([c EXCEPT !.current_increasing = TRUE])
    ELSE c

Charger_UpdateCurrent(c, e) ==
    LET allowed == AllowedCurrent(c, e.region)
    IN  IF c.fast_current = allowed THEN c
        ELSE ChargerDetect_NotifyCurrentChanged(SetFastCurrent(c, allowed))

(***************************************************************************)
(* Attaching and detaching.                                                *)
(***************************************************************************)
ChargerDetect_UsbIsSuspend(c) ==
    Configs[c.charger_config].usb_events_apply /\ c.usb_suspend

Charger_HandleChange(c, e) ==
    IF ~Charger_IsConnected(c) THEN [c EXCEPT !.power_source_vbat = TRUE]
    ELSE [c EXCEPT !.power_source_vbat   = ChargerDetect_UsbIsSuspend(c) /\ e.good,
                   !.usb_leds_forced_off = ChargerDetect_UsbIsSuspend(c)]

Charger_UpdateConnected(c, connected, e) ==
    LET d == [c EXCEPT !.is_connected = IF connected THEN 1 ELSE 0]
    IN  IF c.is_connected = d.is_connected THEN c
        ELSE IF connected
        THEN NotifyClients(
                Charger_HandleChange(
                    DisableReasonClear(Charger_UpdateCurrent(d, e), "NOT_CONNECTED"), e),
                "ATTACHED")
        ELSE NotifyClients(
                Charger_HandleChange(
                    DisableReasonClear(DisableReasonAdd(d, "NOT_CONNECTED"), "TIMEOUT"), e),
                "DETACHED")

\* Variant: the current is left to Charger_UpdateConnected.
ResolvedWithoutUpdate(c, connected, e) ==
    LET a == [c EXCEPT !.usb_enumerated = FALSE, !.usb_suspend = e.suspended]
    IN  Charger_HandleChange(Charger_UpdateConnected(a, connected, e), e)

\* Variant: USB is taken to be awake when a charger is detected.
ResolvedAssumingAwake(c, connected, e) ==
    LET a == [c EXCEPT !.usb_enumerated = FALSE, !.usb_suspend = FALSE]
        d == Charger_UpdateConnected(a, connected, e)
    IN  Charger_HandleChange(Charger_UpdateCurrent(d, e), e)

ChargerDetect_Resolved(c, connected, e) ==
    LET a == IF Configs[c.charger_config].current_limiting
             THEN Charger_VChgMonitorStart(
                    [c EXCEPT !.current_limit = DCPMinCurrent,
                              !.current_increasing = TRUE,
                              !.current_limit_detected = FALSE])
             ELSE Charger_VChgMonitorStop(c)
        b == [a EXCEPT !.usb_enumerated = FALSE, !.usb_suspend = e.suspended]
        d == Charger_UpdateConnected(b, connected, e)
    IN  Charger_HandleChange(Charger_UpdateCurrent(d, e), e)

ChangeConfig(c, config, connected, e) ==
    IF config \in {"none", c.charger_config} THEN c
    ELSE ChargerDetect_Resolved([c EXCEPT !.charger_config = config], connected, e)

ChargerDetect_Detected(c, msg, e) ==
    ChangeConfig(c, ChargerDetect_GetConfig(msg), msg.attached_status # "DETACHED", e)

\* Variant: an undetected charger is asked for what a floating one gives.
ChangedToFloating(c, connected, e) ==
    ChangeConfig(c, IF connected THEN "floating" ELSE "detached", connected, e)

ChargerDetect_Changed(c, connected, e) ==
    ChangeConfig(c, IF connected THEN "safe" ELSE "detached", connected, e)

ChargerDetect_UpdateUsbStatus(c, id, e) ==
    LET a == [c EXCEPT !.usb_enumerated = CASE id = "ENUMERATED"   -> TRUE
                                            [] id = "DECONFIGURED" -> FALSE
                                            [] OTHER               -> @,
                       !.usb_suspend    = CASE id = "SUSPEND"      -> TRUE
                                            [] id = "ENUMERATED"   -> @
                                            [] OTHER               -> FALSE]
        b == Charger_UpdateCurrent(a, e)
    IN  IF Configs[b.charger_config].usb_events_apply /\ c.usb_suspend # b.usb_suspend
        THEN Charger_HandleChange(b, e)
        ELSE b

\* Charger_Init with ChargerDetect_Init; connected is ChargerStatus() # NO_POWER.
Charger_Init(connected, e) ==
    LET disabled   == DisableReasonAdd(ZeroedCharger, "NOT_CONNECTED")
        configured == SetFastCurrent(disabled, 0)
    IN  [ChargerDetect_Changed(configured, connected, e) EXCEPT !.notes = <<>>]

(***************************************************************************)
(* MESSAGE_CHARGER_STATUS.                                                 *)
(***************************************************************************)
\* The current could not be configured: try again with less.
ReduceCurrent(c, e) ==
    DisableReasonClear(
        DisableReasonAdd(
            Charger_UpdateCurrent(
                [c EXCEPT !.max_supported_current = c.fast_current - 50], e),
            "INTERNAL"),
        "INTERNAL")

Charger_StatusChanged(c, status, e) ==
    LET a == [c EXCEPT !.status = status]
        b == CASE status \in {"HEADROOM_ERROR", "VBAT_OVERVOLT_ERROR"} -> Error(a)
               [] status = "CONFIG_FAIL_VALUES_OUT_OF_RANGE" ->
                    IF a.fast_current > InternalMaxCurrent
                    THEN ReduceCurrent(a, e) ELSE Error(a)
               [] OTHER -> a
    IN  IF c.status # status THEN NotifyClients(b, Charger_StatusMessageId(status)) ELSE b

(***************************************************************************)
(* Probing the limit of a wall charger.                                    *)
(***************************************************************************)
\* Variant: a refused request is not tried again.
PeriodicWithoutRetry(c, accepted) ==
    LET taken == [c EXCEPT !.measurement = @ - 1]
    IN  IF ~c.vchg_monitor_enabled \/ c.read # "none" \/ ~accepted THEN taken
        ELSE [taken EXCEPT !.read =
                 IF ~c.vref_known THEN "vref"
                 ELSE IF c.chg_mon_reading = CHG_MON_REQUEST_READING THEN "chg_mon"
                 ELSE "vchg"]

\* CHARGER_INTERNAL_VCHG_MEASUREMENT; accepted is AdcReadRequest's result.
Charger_VchgMonitorPeriodic(c, accepted) ==
    LET source == IF ~c.vref_known THEN "vref"
                  ELSE IF c.chg_mon_reading = CHG_MON_REQUEST_READING THEN "chg_mon"
                  ELSE "vchg"
        taken  == [c EXCEPT !.measurement = @ - 1]
    IN  IF ~c.vchg_monitor_enabled \/ c.read # "none" THEN taken
        ELSE IF accepted THEN [taken EXCEPT !.read = source] ELSE c

LimitFound(c) ==
    Charger_VChgMonitorStop([c EXCEPT !.current_limit_detected = TRUE])

\* vchg: "low" is at most appConfigChargerVchgLowThreshold(), "fair" at most
\* appConfigChargerVchgRecoveryThreshold(), "good" above it.
IncreaseLimit(c, e) ==
    IF c.current_limit > c.fast_current THEN Charger_VChgMonitorStop(c)
    ELSE IF c.current_limit + VchgStep > Configs[c.charger_config].current
    THEN LimitFound(c)
    ELSE Charger_UpdateCurrent([c EXCEPT !.current_limit = @ + VchgStep], e)

\* Variant: no floor.
DecreaseLimitFreely(c, vchg, e) ==
    IF vchg = "good" THEN LimitFound(c)
    ELSE Charger_UpdateCurrent([c EXCEPT !.current_limit = @ - VchgStep], e)

DecreaseLimit(c, vchg, e) ==
    IF vchg = "good" \/ c.current_limit = DCPMinCurrent THEN LimitFound(c)
    ELSE Charger_UpdateCurrent([c EXCEPT !.current_limit = @ - VchgStep], e)

ChargerDetect_VchgReading(c, vchg, current, e) ==
    IF current < (c.fast_current * 9) \div 10
    THEN Charger_UpdateCurrent(
            LimitFound([c EXCEPT !.current_limit = Max2(current, DCPMinCurrent)]), e)
    ELSE IF c.current_increasing /\ vchg # "low" THEN IncreaseLimit(c, e)
    ELSE DecreaseLimit([c EXCEPT !.current_increasing = FALSE], vchg, e)

\* MESSAGE_ADC_RESULT.  drawn is the charge current and vchg the voltage that
\* the reading stands for.
Charger_VChgMonitorReading(c, drawn, vchg, e) ==
    LET a == [c EXCEPT !.read = "none"]
    IN  CASE c.read = "vref" ->
               [a EXCEPT !.vref_known = TRUE, !.measurement = @ + 1]
          [] c.read = "chg_mon" ->
               IF ~c.vchg_monitor_enabled THEN a
               ELSE [a EXCEPT !.chg_mon_reading = drawn, !.measurement = @ + 1]
          [] c.read = "vchg" ->
               IF ~c.vchg_monitor_enabled THEN a
               ELSE [ChargerDetect_VchgReading(a, vchg, a.chg_mon_reading, e)
                        EXCEPT !.chg_mon_reading = CHG_MON_REQUEST_READING,
                               !.measurement = @ + 1]

=============================================================================
