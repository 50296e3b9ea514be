---------------------------- MODULE BatteryRegion ----------------------------
(***************************************************************************)
(* The battery region task of adk/src/domains/power/battery_region, which  *)
(* chooses the charge current from voltage and temperature and guards      *)
(* charging with a timer, composed with the charger monitor it drives and  *)
(* with the part of headset/src/headset_sm.c that switches the external    *)
(* charger.                                                                *)
(*                                                                         *)
(* The charger monitor is the module ChargerMonitor, whose environment     *)
(* variable env.region becomes what BatteryRegion_GetCurrent returns.  The *)
(* messages about the charger that both clients get are queued one by one  *)
(* and handled late or early.                                              *)
(***************************************************************************)
EXTENDS ChargerMonitor

CONSTANTS
    ChargeTable,     \* the rows of the charge mode table
    DischargeTable,  \* the rows of the discharge mode table
    Voltages,        \* averages that appBatteryGetVoltageAverage returns
    Temperatures,    \* averages that appTemperatureGetAverage returns
    MaxInbox         \* bound: messages about the charger a client has not read

\* The rows of a table, charge_region_t.
Rows ==
    [current            : RegionCurrents,
     voltage_min        : Int,
     voltage_max        : Int,
     voltage_hysteresis : Nat,
     temp_min           : Int,
     temp_max           : Int,
     temp_hysteresis    : Nat,
     region_type        : {"NORMAL", "CRITICAL", "SAFETY"},
     charging_timer     : Nat]

\* The rows for discharging desire no current, the battery region is one of
\* the components that disable charging, and some row is without a current.
ASSUME RegionAssumption ==
    /\ ChargeTable \in Seq(Rows)
    /\ DischargeTable \in Seq(Rows)
    /\ \A i \in DOMAIN DischargeTable : DischargeTable[i].current = 0
    /\ 0 \in RegionCurrents
    /\ "TIMEOUT" \in OthersReasons
    /\ Voltages \subseteq Int
    /\ Temperatures \subseteq Int
    /\ MaxInbox \in Nat \ {0}

VARIABLES
    br,     \* battery_region_data_t and charging_timer_timeout
    hs,     \* the timed messages by which headset_sm reports a full battery
    inbox   \* messages from the charger monitor to its two clients

regionVars == <<ch, env, br, hs, inbox>>

BATTERY_REGION_UNDEFINED == 0

APP_CHARGING_REGION_ID   == 3

\* The tables by mode; before the first update there is none.
Tables == [none |-> <<>>, charge |-> ChargeTable, discharge |-> DischargeTable]

(***************************************************************************)
(* region is the row in use, counted from 1.  timer: the charging timer's  *)
(* message is pending.  voltage and temperature are the averages of the    *)
(* last update.                                                            *)
(***************************************************************************)
RegionData ==
    [table       : DOMAIN Tables,
     region      : Nat,
     state       : {"unknown", "unsafe", "critical", "ok"},
     timer       : BOOLEAN,
     timed_out   : BOOLEAN,
     voltage     : Voltages \cup {0},
     temperature : Temperatures \cup {0}]

(***************************************************************************)
(* check: SM_INTERNAL_CHARGER_COMPLETED_HANDLE is pending; complete:       *)
(* SM_INTERNAL_NTC_CHARGER_COMPLETED_HANDLE is.                            *)
(***************************************************************************)
CompletionTimers == [check : BOOLEAN, complete : BOOLEAN]

InitialRegion ==
    [table |-> "none", region |-> BATTERY_REGION_UNDEFINED, state |-> "unknown",
     timer |-> FALSE, timed_out |-> FALSE, voltage |-> 0, temperature |-> 0]

VolTempInRegion(row, voltage, temperature, hysteresis) ==
    LET dv == IF hysteresis THEN row.voltage_hysteresis ELSE 0
        dt == IF hysteresis THEN row.temp_hysteresis ELSE 0
    IN  /\ voltage >= row.voltage_min - dv /\ voltage <= row.voltage_max + dv
        /\ temperature >= row.temp_min - dt /\ temperature <= row.temp_max + dt

\* The rows that hold the readings; the first one is taken.
Matching(table, voltage, temperature) ==
    {i \in DOMAIN Tables[table] :
        VolTempInRegion(Tables[table][i], voltage, temperature, FALSE)}

BatteryRegion_GetCurrent(b) ==
    IF b.region = BATTERY_REGION_UNDEFINED \/ b.state = "unknown" THEN 0
    ELSE Tables[b.table][b.region].current

\* The table for the way the battery is used; another one has other rows.
ChooseTable(b, c) ==
    LET mode == IF Charger_IsConnected(c) THEN "charge" ELSE "discharge"
    IN  IF b.table = mode THEN b
        ELSE [b EXCEPT !.table = mode, !.region = BATTERY_REGION_UNDEFINED]

\* Variant: the temperature is not looked at again.
StillInVoltageRange(b) ==
    /\ b.region # BATTERY_REGION_UNDEFINED
    /\ VolTempInRegion(Tables[b.table][b.region], b.voltage,
                       Tables[b.table][b.region].temp_min, TRUE)

StillInRegion(b) ==
    /\ b.region # BATTERY_REGION_UNDEFINED
    /\ VolTempInRegion(Tables[b.table][b.region], b.voltage, b.temperature, TRUE)

EnterRegion(b, i) ==
    LET row == Tables[b.table][i]
    IN  [b EXCEPT !.region = i,
                  !.state  = CASE row.region_type = "CRITICAL" -> "critical"
                               [] row.region_type = "SAFETY"   -> "unsafe"
                               [] OTHER                        -> "ok",
                  !.timer  = row.current # 0 /\ row.charging_timer # 0]

\* batteryRegion_UpdateRegion up to the row it chooses.
UpdateRegion(b, c) ==
    LET a    == ChooseTable(b, c)
        rows == Matching(a.table, a.voltage, a.temperature)
    IN  IF StillInRegion(a) \/ rows = {} THEN a
        ELSE EnterRegion(a, CHOOSE i \in rows : \A j \in rows : i <= j)

\* Variant: the monitor is told only of a row of another type.
RowOfAnotherType(b, c) ==
    LET a == ChooseTable(b, c)
    IN  UpdateRegion(b, c).state # a.state

\* Charger_UpdateCurrent is called only when a row is entered.
RowEntered(b, c) ==
    LET a == ChooseTable(b, c)
    IN  ~StillInRegion(a) /\ Matching(a.table, a.voltage, a.temperature) # {}

Clients == {"battery_region", "headset_sm"}

ChargerNote(c) == IF Charger_IsConnected(c) THEN "ATTACHED" ELSE "DETACHED"

-----------------------------------------------------------------------------
\* Both clients register when the charger monitor is up and are sent its state.
RegionInit ==
    /\ Init
    /\ br = InitialRegion
    /\ hs = [check |-> FALSE, complete |-> FALSE]
    /\ inbox = [k \in Clients |-> <<ChargerNote(ch)>>]

\* The notes of this step that client k acts on.
Delivered(k) ==
    inbox[k]
      \o (IF ch'.is_connected # ch.is_connected THEN <<ChargerNote(ch')>> ELSE <<>>)
      \o (IF k = "headset_sm" /\ ch.status # "STANDBY" /\ ch'.status = "STANDBY"
          THEN <<Charger_StatusMessageId(ch'.status)>> ELSE <<>>)

\* The charger monitor's own steps; it tells its clients about them.
MonitorHandles ==
    /\ \A k \in Clients : Len(inbox[k]) < MaxInbox
    /\ HandleFirmwareMessage \/ HandleStatus
    /\ inbox' = [k \in Clients |-> Delivered(k)]
    /\ UNCHANGED <<br, hs>>

Elsewhere ==
    /\ PlugChanges \/ ChargerIsDetected \/ ReEnableTimeout
    /\ UNCHANGED <<br, hs, inbox>>

\* MESSAGE_BATTERY_REGION_INTERNAL_UPDATE_TRIGGER, sent again every period.
HandleUpdateTrigger ==
    \E voltage \in Voltages, temperature \in Temperatures :
        LET b == [br EXCEPT !.voltage = voltage, !.temperature = temperature]
            e == [Seen(TRUE) EXCEPT !.region = BatteryRegion_GetCurrent(br')]
        IN  /\ br' = UpdateRegion(b, ch)
            /\ ch' = IF RowEntered(b, ch) THEN Charger_UpdateCurrent(ch, e) ELSE ch
            /\ env' = [env EXCEPT !.region = BatteryRegion_GetCurrent(br')]
            /\ hs' = [hs EXCEPT !.complete =
                         @ \/ /\ RowEntered(b, ch)
                              /\ Charger_IsConnected(ch)
                              /\ br'.region <= APP_CHARGING_REGION_ID]
            /\ UNCHANGED inbox

\* Variant: only the flag is set.
ChargingTimerFlags ==
    /\ br.timer
    /\ br' = [br EXCEPT !.timer = FALSE, !.timed_out = TRUE]
    /\ UNCHANGED <<ch, env, hs, inbox>>

\* MESSAGE_BATTERY_REGION_INTERNAL_CHARGING_TIMER.
HandleChargingTimer ==
    /\ br.timer
    /\ br' = [br EXCEPT !.timer = FALSE, !.timed_out = TRUE]
    /\ ch' = DisableReasonAdd(ch, "TIMEOUT")
    /\ UNCHANGED <<env, hs, inbox>>

RegionHandlesCharger ==
    /\ inbox["battery_region"] # <<>>
    /\ IF Head(inbox["battery_region"]) = "DETACHED"
       THEN /\ br' = [br EXCEPT !.timer = FALSE, !.timed_out = FALSE]
            /\ ch' = DisableReasonClear(ch, "TIMEOUT")
       ELSE UNCHANGED <<br, ch>>
    /\ inbox' = [inbox EXCEPT !["battery_region"] = Tail(@)]
    /\ UNCHANGED <<env, hs>>

\* Variant: the check goes on after the charger has been detached.
HeadsetAfterStillChecking(note) ==
    /\ hs' = CASE note = "ATTACHED" -> [hs EXCEPT !.check = TRUE]
               [] note = "DETACHED" -> [hs EXCEPT !.complete = FALSE]
               [] OTHER -> [hs EXCEPT !.complete = @ \/ BatteryRegion_GetCurrent(br) = 70]
    /\ ch' = IF note = "COMPLETED" THEN ch
             ELSE [ch EXCEPT !.external_charging = (note = "ATTACHED")]

\* CHARGER_MESSAGE_ATTACHED, _DETACHED and _COMPLETED in headset_sm: the
\* external charger is switched whatever the current is.
HeadsetAfter(note) ==
    /\ hs' = CASE note = "ATTACHED" -> [hs EXCEPT !.check = TRUE]
               [] note = "DETACHED" -> [check |-> FALSE, complete |-> FALSE]
               [] OTHER -> [hs EXCEPT !.complete = @ \/ BatteryRegion_GetCurrent(br) = 70]
    /\ ch' = IF note = "COMPLETED" THEN ch
             ELSE [ch EXCEPT !.external_charging = (note = "ATTACHED")]

HeadsetHandlesCharger ==
    /\ inbox["headset_sm"] # <<>>
    /\ HeadsetAfter(Head(inbox["headset_sm"]))
    /\ inbox' = [inbox EXCEPT !["headset_sm"] = Tail(@)]
    /\ UNCHANGED <<env, br>>

\* SM_INTERNAL_CHARGER_COMPLETED_HANDLE, sent again until the external charger's
\* pin says that the battery is full.
HandleCompletedCheck ==
    /\ hs.check
    /\ \E full \in BOOLEAN :
           hs' = [hs EXCEPT !.check = ~(Charger_IsConnected(ch) /\ full)]
    /\ UNCHANGED <<ch, env, br, inbox>>

\* SM_INTERNAL_NTC_CHARGER_COMPLETED_HANDLE.
HandleNtcCompleted ==
    /\ hs.complete
    /\ hs' = [hs EXCEPT !.complete = FALSE]
    /\ UNCHANGED <<ch, env, br, inbox>>

RegionNext ==
    \/ MonitorHandles
    \/ Elsewhere
    \/ HandleUpdateTrigger
    \/ HandleChargingTimer
    \/ RegionHandlesCharger
    \/ HeadsetHandlesCharger
    \/ HandleCompletedCheck
    \/ HandleNtcCompleted

RegionSpec == RegionInit /\ [][RegionNext]_regionVars

-----------------------------------------------------------------------------
\* The types of the region's data and of the queues.
RegionTypeOK ==
    /\ TypeOK
    /\ br \in RegionData
    /\ br.region <= Len(Tables[br.table])
    /\ hs \in CompletionTimers
    /\ inbox \in [Clients -> Seq({"ATTACHED", "DETACHED", "COMPLETED"})]

(***************************************************************************)
(* The charger monitor with the battery region in the place of its         *)
(* environment behaves as ChargerMonitor says: whenever the region's       *)
(* current changes, the monitor is told in the same handler, so that its   *)
(* own invariants hold in the composed system.                             *)
(***************************************************************************)
ImplementsMonitor == Spec

(***************************************************************************)
(* The battery is not charged with more than the row for its last readings *)
(* desires: in charge mode the row in use holds the readings (with         *)
(* hysteresis) whenever some row does; and with a charger attached but     *)
(* still in discharge mode nothing is drawn.                               *)
(***************************************************************************)
CurrentFitsBattery ==
    /\ RegionTypeOK
    /\ ch.fast_current <= BatteryRegion_GetCurrent(br)
    /\ br.table # "charge" => ch.fast_current = 0
    /\ br.table # "none" /\ Matching(br.table, br.voltage, br.temperature) # {}
          => /\ br.region # BATTERY_REGION_UNDEFINED
             /\ VolTempInRegion(Tables[br.table][br.region],
                                br.voltage, br.temperature, TRUE)

DetachPending(k) == \E i \in DOMAIN inbox[k] : inbox[k][i] = "DETACHED"

(***************************************************************************)
(* A charging timer that has expired keeps charging disabled until the     *)
(* charger is unplugged ("Can only be re-enabled by disconnect and connect *)
(* again", battery_region.c), however late the messages about unplugging   *)
(* are read; and the reason never stays behind without the flag.           *)
(***************************************************************************)
TimeoutHoldsUntilDetached ==
    /\ "TIMEOUT" \in ch.disable_reason => br.timed_out
    /\ br.timed_out /\ "TIMEOUT" \notin ch.disable_reason
          => DetachPending("battery_region")

(***************************************************************************)
(* The check for a full battery runs only while a charger is attached:     *)
(* however the messages to headset_sm are delayed, none is left over from  *)
(* a charger that has gone, to report a full battery at the next plug.     *)
(***************************************************************************)
CheckEndsWithCharger ==
    hs.check /\ ~Charger_IsConnected(ch) => DetachPending("headset_sm")
=============================================================================
