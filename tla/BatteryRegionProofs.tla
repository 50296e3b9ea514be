------------------------ MODULE BatteryRegionProofs ------------------------
(***************************************************************************)
(* The charger monitor alone, for every charger, table of currents, status *)
(* that the hardware may report and bound on the queues; then the battery  *)
(* region and the charger monitor together, for every pair of tables and   *)
(* all readings: the composition implements ChargerMonitor, and the three  *)
(* invariants of BatteryRegion hold.                                       *)
(***************************************************************************)
EXTENDS BatteryRegion, SequenceTheorems, NaturalsInduction, WellFoundedInduction, TLAPS

-----------------------------------------------------------------------------
(***************************************************************************)
(* The charger monitor                                                     *)
(***************************************************************************)

(***************************************************************************)
(* Parts of the charger data that an operation leaves alone: what the      *)
(* allowed current depends on, the probing of a wall charger, and the      *)
(* connection.                                                             *)
(***************************************************************************)
SameSource(r, c) ==
    /\ r.charger_config = c.charger_config
    /\ r.usb_enumerated = c.usb_enumerated /\ r.usb_suspend = c.usb_suspend
    /\ r.current_limit = c.current_limit
    /\ r.max_supported_current = c.max_supported_current

SameProbe(r, c) ==
    /\ r.vchg_monitor_enabled = c.vchg_monitor_enabled
    /\ r.measurement = c.measurement /\ r.read = c.read
    /\ r.current_limit_detected = c.current_limit_detected

SameLink(r, c) ==
    /\ r.is_connected = c.is_connected
    /\ r.usb_leds_forced_off = c.usb_leds_forced_off
    /\ r.power_source_vbat = c.power_source_vbat

\* All of these, the error timer and the history of misconfigurations.
Alike(r, c) ==
    /\ SameSource(r, c) /\ SameProbe(r, c) /\ SameLink(r, c)
    /\ r.re_enable = c.re_enable /\ r.misconfigured = c.misconfigured

\* Operations in sequence.
LEMMA AlikeTrans ==
    ASSUME NEW a, NEW b, NEW c, Alike(a, b), Alike(b, c)
    PROVE  Alike(a, c)
  BY DEF Alike, SameSource, SameProbe, SameLink

-----------------------------------------------------------------------------
(* The configurations *)

\* What the objects of type charger_config_t say: USB events matter for a
\* standard downstream port only, and only dedicated and charging downstream
\* ports are probed.
LEMMA ConfigFacts ==
    ASSUME NEW n \in ConfigNames
    PROVE  /\ Configs[n].current \in Nat
           /\ (Configs[n].usb_events_apply <=> n = "sdp")
           /\ (Configs[n].current_limiting <=> n \in {"dcp", "cdp"})
           /\ n \in {"dcp", "cdp"} => Configs[n].current = 1500
           /\ n = "safe" => Configs[n].current = 100
           /\ n = "detached" => Configs[n].current = 0
<1>1. n \in {"none", "sdp", "dcp", "cdp", "usbc_15", "usbc_30", "floating", "non_usb",
            "safe", "detached", "apple_24", "apple_21", "apple_10", "apple_05",
            "samsung", "htc"}
  BY DEF ConfigNames, Configs
<1>2. PICK k : k = Configs[n]
  OBVIOUS
<1>3. CASE n = "sdp"
  <2>1. k.current = 500 /\ k.usb_events_apply = TRUE /\ k.current_limiting = FALSE
    BY <1>2, <1>3 DEF Configs, Config
  <2> QED  BY <1>2, <1>3, <2>1
<1>4. CASE n \in {"dcp", "cdp"}
  <2>1. k.current = 1500 /\ k.usb_events_apply = FALSE /\ k.current_limiting = TRUE
    BY <1>2, <1>4 DEF Configs, Config
  <2> QED  BY <1>2, <1>4, <2>1
<1>5. CASE n \notin {"sdp", "dcp", "cdp"}
  <2>1. k.usb_events_apply = FALSE /\ k.current_limiting = FALSE
    BY <1>1, <1>2, <1>5 DEF Configs, Config
  <2>2. /\ k.current \in Nat
        /\ n = "safe" => k.current = 100
        /\ n = "detached" => k.current = 0
    BY <1>1, <1>2, <1>5 DEF Configs, Config
  <2> QED  BY <1>2, <1>5, <2>1, <2>2
<1> QED  BY <1>3, <1>4, <1>5

\* The configurations that messages choose.
LEMMA ChosenFacts ==
    /\ "safe" \in ConfigNames /\ "detached" \in ConfigNames /\ "none" \in ConfigNames
    /\ \A msg \in DetectedMessages :
          /\ ChargerDetect_GetConfig(msg) \in ConfigNames
          /\ ChargerDetect_GetConfig(msg) = "detached" <=> msg.attached_status = "DETACHED"
<1>1. {"none", "sdp", "dcp", "cdp", "usbc_15", "usbc_30", "floating", "non_usb",
       "safe", "detached", "apple_24", "apple_21", "apple_10", "apple_05",
       "samsung", "htc"} \subseteq ConfigNames
  BY DEF ConfigNames, Configs
<1>2. ASSUME NEW msg \in DetectedMessages
      PROVE  /\ ChargerDetect_GetConfig(msg) \in ConfigNames
             /\ ChargerDetect_GetConfig(msg) = "detached" <=> msg.attached_status = "DETACHED"
  <2>1. PICK a, k, l : a = msg.attached_status /\ k = msg.cc_status /\ l = msg.lines
    OBVIOUS
  <2>2. a \in AttachedStatuses /\ l \in Lines
    BY <2>1 DEF DetectedMessages
  <2>3. ChargerDetect_GetConfig(msg) =
          IF a = "DETACHED" THEN "detached"
          ELSE IF a = "NON_USB_CHARGER" THEN "non_usb"
          ELSE IF a \in {"UNKNOWN_STATUS", "CHARGING_PORT"} THEN "none"
          ELSE IF k = "CC_CURRENT_1500" THEN "usbc_15"
          ELSE IF k = "CC_CURRENT_3000" THEN "usbc_30"
          ELSE IF a = "HOST_OR_HUB" THEN "sdp"
          ELSE IF a = "DEDICATED_CHARGER" THEN "dcp"
          ELSE IF a = "HOST_OR_HUB_CHARGER" THEN "cdp"
          ELSE IF a = "FLOATING_CHARGER" THEN "floating"
          ELSE IF l = "no_match" THEN "floating" ELSE l
    BY <2>1 DEF ChargerDetect_GetConfig
  <2> QED  BY <1>1, <2>1, <2>2, <2>3 DEF AttachedStatuses, Lines
<1> QED  BY <1>1, <1>2

-----------------------------------------------------------------------------
(* Reasons to disable charging *)

\* Charging is enabled when and only when there is no reason against it.
EnabledMatches(c) == c.is_enabled <=> c.disable_reason = {}

\* One more reason (charger_monitor.c, chargerDisableReasonAdd).
LEMMA AddFacts ==
    ASSUME NEW c \in ChargerData, NEW reason \in DisableReasons, EnabledMatches(c)
    PROVE  LET r == DisableReasonAdd(c, reason)
           IN  /\ r \in ChargerData /\ Alike(r, c) /\ EnabledMatches(r)
               /\ r.disable_reason = c.disable_reason \cup {reason}
               /\ r.is_enabled = FALSE /\ r.fast_current = c.fast_current
               /\ r.ext_mode_enabled = c.ext_mode_enabled
<1>1. PICK s : s = c.disable_reason \cup {reason}
  OBVIOUS
<1>2. s \in SUBSET DisableReasons
  BY <1>1 DEF ChargerData
<1>3. PICK r : r = [c EXCEPT !.is_enabled = FALSE, !.disable_reason = s]
  OBVIOUS
<1>4. /\ r \in ChargerData /\ SameSource(r, c) /\ SameProbe(r, c) /\ SameLink(r, c)
      /\ r.disable_reason = s /\ r.is_enabled = FALSE
      /\ r.fast_current = c.fast_current /\ r.re_enable = c.re_enable
      /\ r.misconfigured = c.misconfigured
      /\ r.ext_mode_enabled = c.ext_mode_enabled
  BY <1>2, <1>3 DEF ChargerData, SameSource, SameProbe, SameLink
<1>5. DisableReasonAdd(c, reason) = r
  <2>1. CASE c.disable_reason = {}
    BY <1>1, <1>3, <2>1 DEF DisableReasonAdd, Disable, ChargerData
  <2>2. CASE c.disable_reason # {}
    <3>1. c.is_enabled = FALSE
      BY <2>2 DEF EnabledMatches, ChargerData
    <3>2. DisableReasonAdd(c, reason) = [c EXCEPT !.disable_reason = s]
      BY <1>1, <2>2 DEF DisableReasonAdd
    <3>3. c = [c EXCEPT !.is_enabled = FALSE]
      BY <3>1 DEF ChargerData
    <3> QED  BY <1>3, <3>2, <3>3 DEF ChargerData
  <2> QED  BY <2>1, <2>2
<1>6. EnabledMatches(r)
  BY <1>1, <1>4 DEF EnabledMatches
<1> QED  BY <1>1, <1>4, <1>5, <1>6 DEF Alike

\* One reason less (chargerDisableReasonClear).
LEMMA ClearFacts ==
    ASSUME NEW c \in ChargerData, NEW reason, EnabledMatches(c)
    PROVE  LET r == DisableReasonClear(c, reason)
           IN  /\ r \in ChargerData /\ Alike(r, c) /\ EnabledMatches(r)
               /\ r.disable_reason = c.disable_reason \ {reason}
               /\ r.fast_current = c.fast_current
               /\ r.ext_mode_enabled = c.ext_mode_enabled
<1>1. PICK s : s = c.disable_reason \ {reason}
  OBVIOUS
<1>2. s \in SUBSET DisableReasons
  BY <1>1 DEF ChargerData
<1>3. PICK d, r : d = [c EXCEPT !.disable_reason = s] /\ r = DisableReasonClear(c, reason)
  OBVIOUS
<1>4. /\ d \in ChargerData /\ Alike(d, c)
      /\ d.disable_reason = s /\ d.is_enabled = c.is_enabled
      /\ d.fast_current = c.fast_current
      /\ d.ext_mode_enabled = c.ext_mode_enabled
  BY <1>2, <1>3 DEF ChargerData, Alike, SameSource, SameProbe, SameLink
<1>5. CASE c.disable_reason # {} /\ s = {}
  <2>1. r = [d EXCEPT !.is_enabled = TRUE]
    BY <1>1, <1>3, <1>5 DEF DisableReasonClear, Enable
  <2>2. /\ r \in ChargerData /\ Alike(r, d)
        /\ r.disable_reason = d.disable_reason /\ r.is_enabled = TRUE
        /\ r.fast_current = d.fast_current
        /\ r.ext_mode_enabled = d.ext_mode_enabled
    BY <1>4, <2>1 DEF ChargerData, Alike, SameSource, SameProbe, SameLink
  <2>3. Alike(r, c)
    BY <1>4, <2>2, AlikeTrans
  <2> QED  BY <1>1, <1>3, <1>4, <1>5, <2>2, <2>3 DEF EnabledMatches
<1>6. CASE ~(c.disable_reason # {} /\ s = {})
  <2>1. r = d
    BY <1>1, <1>3, <1>6 DEF DisableReasonClear
  <2>2. EnabledMatches(d)
    BY <1>1, <1>4, <1>6 DEF EnabledMatches
  <2> QED  BY <1>1, <1>3, <1>4, <2>1, <2>2
<1> QED  BY <1>5, <1>6

-----------------------------------------------------------------------------
(* The charge current *)

(***************************************************************************)
(* The current is set (charger_monitor.c, chargerSetFastCurrent), by way   *)
(* of the internal reason when the mode changes with it: the hardware is   *)
(* never reconfigured while it is enabled.                                 *)
(***************************************************************************)
LEMMA SetFastCurrentFacts ==
    ASSUME NEW c \in ChargerData, NEW current \in Nat, EnabledMatches(c),
           "INTERNAL" \notin c.disable_reason
    PROVE  LET r == SetFastCurrent(c, current)
           IN  /\ r \in ChargerData /\ Alike(r, c)
               /\ EnabledMatches(r) /\ r.fast_current = current
               /\ r.disable_reason = IF current = 0 THEN c.disable_reason \cup {"ZERO_CURRENT"}
                                     ELSE c.disable_reason \ {"ZERO_CURRENT"}
<1>0. /\ "INTERNAL" \in DisableReasons /\ "ZERO_CURRENT" \in DisableReasons
      /\ c.misconfigured \in BOOLEAN
  BY DEF DisableReasons, ChargerData
<1>1. PICK x : x = (current > InternalMaxCurrent)
  OBVIOUS
<1>2. x \in BOOLEAN
  BY <1>1
<1>3. PICK a : a = IF current = 0 THEN DisableReasonAdd(c, "ZERO_CURRENT") ELSE c
  OBVIOUS
<1>4. /\ a \in ChargerData /\ Alike(a, c) /\ EnabledMatches(a)
      /\ a.disable_reason = IF current = 0 THEN c.disable_reason \cup {"ZERO_CURRENT"}
                            ELSE c.disable_reason
  <2>1. CASE current = 0
    <3>1. a = DisableReasonAdd(c, "ZERO_CURRENT")
      BY <1>3, <2>1
    <3> QED  BY <1>0, <2>1, <3>1, AddFacts
  <2>2. CASE current # 0
    BY <1>3, <2>2 DEF Alike, SameSource, SameProbe, SameLink
  <2> QED  BY <2>1, <2>2
<1>5. PICK b : b = IF x # a.ext_mode_enabled
                   THEN ConfigureExternalMode(DisableReasonAdd(a, "INTERNAL"), x)
                   ELSE a
  OBVIOUS
<1>6. /\ b \in ChargerData /\ Alike(b, a) /\ EnabledMatches(b)
      /\ b.disable_reason \in {a.disable_reason, a.disable_reason \cup {"INTERNAL"}}
  <2>1. CASE x # a.ext_mode_enabled
    <3>1. PICK i : i = DisableReasonAdd(a, "INTERNAL")
      OBVIOUS
    <3>2. /\ i \in ChargerData /\ Alike(i, a) /\ i.is_enabled = FALSE
          /\ i.disable_reason = a.disable_reason \cup {"INTERNAL"}
      BY <1>0, <1>4, <3>1, AddFacts
    <3>3. b = [i EXCEPT !.ext_mode_enabled = x, !.misconfigured = @ \/ i.is_enabled]
      BY <1>5, <2>1, <3>1 DEF ConfigureExternalMode
    <3>4. i.misconfigured \in BOOLEAN
      BY <3>2 DEF ChargerData
    <3>5. (i.misconfigured \/ i.is_enabled) = i.misconfigured
      BY <3>2, <3>4
    <3>6. b = [i EXCEPT !.ext_mode_enabled = x, !.misconfigured = i.misconfigured]
      BY <3>2, <3>3, <3>5 DEF ChargerData
    <3>7. /\ b \in ChargerData /\ Alike(b, i) /\ b.is_enabled = FALSE
          /\ b.disable_reason = i.disable_reason
      BY <1>2, <3>2, <3>4, <3>6, ZenonT(30) DEF ChargerData, Alike, SameSource, SameProbe, SameLink
    <3>8. Alike(b, a)
      BY <3>2, <3>7, AlikeTrans
    <3>9. EnabledMatches(b)
      BY <3>2, <3>7 DEF EnabledMatches
    <3> QED  BY <3>2, <3>7, <3>8, <3>9
  <2>2. CASE ~(x # a.ext_mode_enabled)
    BY <1>4, <1>5, <2>2 DEF Alike, SameSource, SameProbe, SameLink
  <2> QED  BY <2>1, <2>2
<1>7. PICK k : k = ConfigureFastCurrent(b, current)
  OBVIOUS
<1>8. /\ k \in ChargerData /\ Alike(k, b) /\ EnabledMatches(k)
      /\ k.disable_reason = b.disable_reason /\ k.fast_current = current
  <2>1. b.misconfigured \in BOOLEAN /\ b.is_enabled \in BOOLEAN
    BY <1>6 DEF ChargerData
  <2>2. current = 0 => b.is_enabled = FALSE
    BY <1>4, <1>6, <2>1 DEF EnabledMatches
  <2>3. (b.misconfigured \/ (current = 0 /\ b.is_enabled)) = b.misconfigured
    BY <2>1, <2>2
  <2>4. k = [b EXCEPT !.fast_current = current, !.misconfigured = b.misconfigured]
    BY <1>6, <1>7, <2>3 DEF ConfigureFastCurrent, ChargerData
  <2>5. /\ k \in ChargerData /\ Alike(k, b) /\ k.is_enabled = b.is_enabled
        /\ k.disable_reason = b.disable_reason /\ k.fast_current = current
    BY <1>6, <2>1, <2>4 DEF ChargerData, Alike, SameSource, SameProbe, SameLink
  <2>6. EnabledMatches(k)
    BY <1>6, <2>5 DEF EnabledMatches
  <2> QED  BY <2>5, <2>6
<1>9. PICK d : d = DisableReasonClear(k, "INTERNAL")
  OBVIOUS
<1>10. /\ d \in ChargerData /\ Alike(d, k) /\ EnabledMatches(d)
       /\ d.disable_reason = k.disable_reason \ {"INTERNAL"} /\ d.fast_current = current
  BY <1>8, <1>9, ClearFacts
<1>11. d.disable_reason = a.disable_reason
  BY <1>4, <1>6, <1>8, <1>10
<1>12. PICK f : f = IF current # 0 THEN DisableReasonClear(d, "ZERO_CURRENT") ELSE d
  OBVIOUS
<1>13. /\ f \in ChargerData /\ Alike(f, d) /\ EnabledMatches(f) /\ f.fast_current = current
       /\ f.disable_reason = IF current = 0 THEN a.disable_reason
                             ELSE a.disable_reason \ {"ZERO_CURRENT"}
  <2>1. CASE current # 0
    <3>1. f = DisableReasonClear(d, "ZERO_CURRENT")
      BY <1>12, <2>1
    <3> QED  BY <1>10, <1>11, <2>1, <3>1, ClearFacts
  <2>2. CASE current = 0
    BY <1>10, <1>11, <1>12, <2>2 DEF Alike, SameSource, SameProbe, SameLink
  <2> QED  BY <2>1, <2>2
<1>14. PICK r : r = SetFastCurrent(c, current)
  OBVIOUS
<1>15. r = IF Charger_IsConnected(f)
           THEN [f EXCEPT !.external_charging = (current = FastCurrent)] ELSE f
  BY <1>1, <1>3, <1>5, <1>7, <1>9, <1>12, <1>14 DEF SetFastCurrent
<1>16. /\ r \in ChargerData /\ Alike(r, f) /\ EnabledMatches(r) /\ r.fast_current = current
       /\ r.disable_reason = f.disable_reason
  <2>1. CASE Charger_IsConnected(f)
    <3>1. PICK y : y = (current = FastCurrent)
      OBVIOUS
    <3>2. y \in BOOLEAN /\ r = [f EXCEPT !.external_charging = y]
      BY <1>15, <2>1, <3>1
    <3>3. /\ r \in ChargerData /\ Alike(r, f) /\ r.fast_current = f.fast_current
          /\ r.disable_reason = f.disable_reason /\ r.is_enabled = f.is_enabled
      BY <1>13, <3>2 DEF ChargerData, Alike, SameSource, SameProbe, SameLink
    <3> QED  BY <1>13, <3>3 DEF EnabledMatches
  <2>2. CASE ~Charger_IsConnected(f)
    BY <1>13, <1>15, <2>2 DEF Alike, SameSource, SameProbe, SameLink
  <2> QED  BY <2>1, <2>2
<1>17. Alike(r, c)
  BY <1>4, <1>6, <1>8, <1>10, <1>13, <1>16, AlikeTrans
<1>18. r.disable_reason = IF current = 0 THEN c.disable_reason \cup {"ZERO_CURRENT"}
                          ELSE c.disable_reason \ {"ZERO_CURRENT"}
  BY <1>4, <1>13, <1>16
<1> QED  BY <1>14, <1>16, <1>17, <1>18

\* The allowed current is a bound for everybody who has a say.
LEMMA AllowedFacts ==
    ASSUME NEW c \in ChargerData, NEW region \in Nat
    PROVE  /\ AllowedCurrent(c, region) \in Nat
           /\ AllowedCurrent(c, region) <= region
           /\ AllowedCurrent(c, region) <= Configs[c.charger_config].current
           /\ c.charger_config = "sdp" /\ c.usb_suspend => AllowedCurrent(c, region) = 0
<1>1. PICK k : k = Configs[c.charger_config]
  OBVIOUS
<1>2. /\ c.charger_config \in ConfigNames /\ c.current_limit \in Nat
      /\ c.max_supported_current \in Nat /\ UnconfiguredCurrent \in Nat
  BY ChargerAssumption DEF ChargerData
<1>3. /\ k.current \in Nat
      /\ k.usb_events_apply <=> c.charger_config = "sdp"
      /\ k.current_limiting <=> c.charger_config \in {"dcp", "cdp"}
  BY <1>1, <1>2, ConfigFacts
<1>4. PICK u : u = IF ~k.usb_events_apply THEN k.current
                   ELSE IF c.usb_suspend THEN 0
                   ELSE IF ~c.usb_enumerated THEN Min2(k.current, UnconfiguredCurrent)
                   ELSE k.current
  OBVIOUS
<1>5. PICK i : i = ChargerDetect_Current(c)
  OBVIOUS
<1>6. i = IF k.current_limiting THEN Min2(u, c.current_limit) ELSE u
  BY <1>1, <1>4, <1>5 DEF ChargerDetect_Current
<1>7. /\ u \in Nat /\ u <= k.current
      /\ c.charger_config = "sdp" /\ c.usb_suspend => u = 0
  BY <1>2, <1>3, <1>4 DEF Min2
<1>8. /\ i \in Nat /\ i <= k.current
      /\ c.charger_config = "sdp" /\ c.usb_suspend => i = 0
  BY <1>2, <1>3, <1>6, <1>7 DEF Min2
<1>9. AllowedCurrent(c, region) = Min2(region, Min2(i, c.max_supported_current))
  BY <1>5 DEF AllowedCurrent
<1> QED  BY <1>1, <1>2, <1>3, <1>8, <1>9 DEF Min2

\* It depends on the charger, the USB host and the limits only.
LEMMA AllowedSame ==
    ASSUME NEW c, NEW r, NEW region, SameSource(r, c)
    PROVE  AllowedCurrent(r, region) = AllowedCurrent(c, region)
  BY DEF SameSource, AllowedCurrent, ChargerDetect_Current

-----------------------------------------------------------------------------
(* The parts of the inductive invariant *)

\* The reasons but for the connection.
Sound(c) ==
    /\ c \in ChargerData /\ EnabledMatches(c)
    /\ "INTERNAL" \notin c.disable_reason
    /\ "ZERO_CURRENT" \in c.disable_reason <=> c.fast_current = 0
    /\ "ERROR" \in c.disable_reason <=> c.re_enable
    /\ ~c.misconfigured

ConnectionKnown(c) == "NOT_CONNECTED" \in c.disable_reason <=> c.is_connected # 1

Allowed(c, region) == c.fast_current = AllowedCurrent(c, region)

Limiting(c) == Configs[c.charger_config].current_limiting

Chains(c) == c.measurement + (IF c.read = "none" THEN 0 ELSE 1)

(***************************************************************************)
(* A reading that comes back after the monitor was stopped may start one   *)
(* chain of measurements, and the monitor another when it is enabled.      *)
(***************************************************************************)
ChainsOk(c) ==
    /\ c.vchg_monitor_enabled => Chains(c) > 0
    /\ Chains(c) <= IF c.vchg_monitor_enabled THEN 2 ELSE 1

ProbeOk(c) ==
    /\ ChainsOk(c)
    /\ c.vchg_monitor_enabled => Limiting(c) /\ ~c.current_limit_detected
    /\ Limiting(c) /\ ~c.current_limit_detected /\ c.fast_current = c.current_limit
          => c.vchg_monitor_enabled

\* While the limit is being looked for it is some steps above the least one,
\* so that steps down do not miss the least one.
OnTheGrid(limit) == \E k \in Nat : limit = DCPMinCurrent + k * VchgStep

LimitOk(c) ==
    Limiting(c) =>
        /\ c.current_limit >= DCPMinCurrent
        /\ c.current_limit <= Configs[c.charger_config].current
        /\ ~c.current_limit_detected => OnTheGrid(c.current_limit)

\* The configuration follows the connection.
LinkOk(c) ==
    /\ c.charger_config # "none" /\ c.is_connected \in {0, 1}
    /\ c.charger_config = "detached" <=> c.is_connected = 0

\* With a charger the flag of the LEDs and the supply follow the suspension.
LedsOk(c) ==
    c.is_connected = 1 =>
        /\ c.usb_leds_forced_off <=> c.charger_config = "sdp" /\ c.usb_suspend
        /\ c.power_source_vbat => c.charger_config = "sdp" /\ c.usb_suspend

\* What operations on the probing leave alone.
Unprobed(r, c) ==
    /\ SameSource(r, c) /\ SameLink(r, c)
    /\ r.re_enable = c.re_enable /\ r.misconfigured = c.misconfigured
    /\ r.is_enabled = c.is_enabled /\ r.disable_reason = c.disable_reason
    /\ r.fast_current = c.fast_current
    /\ r.current_limit_detected = c.current_limit_detected

(***************************************************************************)
(* The reason that the battery region's charging timer adds: most          *)
(* operations leave it alone, and the monitor takes it away when the       *)
(* charger goes and at no other time.                                      *)
(***************************************************************************)
SameTimeout(r, c) == "TIMEOUT" \in r.disable_reason <=> "TIMEOUT" \in c.disable_reason

TimeoutKept(r, c) ==
    "TIMEOUT" \in r.disable_reason <=>
        /\ "TIMEOUT" \in c.disable_reason
        /\ r.is_connected = c.is_connected \/ r.is_connected # 0

\* The reasons do not depend on the probing.
LEMMA UnprobedSound ==
    ASSUME NEW c, NEW r \in ChargerData, Sound(c), Unprobed(r, c)
    PROVE  Sound(r)
  BY DEF Sound, Unprobed, EnabledMatches

-----------------------------------------------------------------------------
(* Probing *)

\* Charger_VChgMonitorStart.
LEMMA StartFacts ==
    ASSUME NEW c \in ChargerData, ChainsOk(c)
    PROVE  LET r == Charger_VChgMonitorStart(c)
           IN  /\ r \in ChargerData /\ Unprobed(r, c) /\ ChainsOk(r)
               /\ r.vchg_monitor_enabled = TRUE
<1>1. PICK r : r = Charger_VChgMonitorStart(c)
  OBVIOUS
<1>2. CASE c.vchg_monitor_enabled
  <2>1. r = c
    BY <1>1, <1>2 DEF Charger_VChgMonitorStart
  <2>2. c.vchg_monitor_enabled = TRUE
    BY <1>2 DEF ChargerData
  <2> QED  BY <1>1, <2>1, <2>2 DEF Unprobed, SameSource, SameLink
<1>3. CASE ~c.vchg_monitor_enabled
  <2>1. r = [c EXCEPT !.vchg_monitor_enabled = TRUE,
                      !.chg_mon_reading = CHG_MON_REQUEST_READING,
                      !.measurement = @ + 1]
    BY <1>1, <1>3 DEF Charger_VChgMonitorStart
  <2>2. PICK n, m : n = CHG_MON_REQUEST_READING /\ m = c.measurement + 1
    OBVIOUS
  <2>3. n \in Nat /\ m \in Nat /\ c.measurement \in Nat
    BY <2>2 DEF CHG_MON_REQUEST_READING, ChargerData
  <2>4. r = [c EXCEPT !.vchg_monitor_enabled = TRUE, !.chg_mon_reading = n, !.measurement = m]
    BY <2>1, <2>2 DEF ChargerData
  <2>5. /\ r \in ChargerData /\ Unprobed(r, c) /\ r.vchg_monitor_enabled = TRUE
        /\ r.measurement = m /\ r.read = c.read
    BY <2>3, <2>4 DEF ChargerData, Unprobed, SameSource, SameLink
  <2>6. ChainsOk(r)
    BY <1>3, <2>2, <2>3, <2>5 DEF ChainsOk, Chains
  <2> QED  BY <1>1, <2>5, <2>6
<1> QED  BY <1>2, <1>3

\* Charger_VChgMonitorStop.
LEMMA StopFacts ==
    ASSUME NEW c \in ChargerData, ChainsOk(c)
    PROVE  LET r == Charger_VChgMonitorStop(c)
           IN  /\ r \in ChargerData /\ Unprobed(r, c) /\ ChainsOk(r)
               /\ r.vchg_monitor_enabled = FALSE
               /\ c.vchg_monitor_enabled => r.measurement = 0
               /\ r.read = c.read
<1>1. PICK r : r = Charger_VChgMonitorStop(c)
  OBVIOUS
<1>2. CASE ~c.vchg_monitor_enabled
  <2>1. r = c
    BY <1>1, <1>2 DEF Charger_VChgMonitorStop
  <2>2. c.vchg_monitor_enabled = FALSE
    BY <1>2 DEF ChargerData
  <2> QED  BY <1>1, <2>1, <2>2 DEF Unprobed, SameSource, SameLink
<1>3. CASE c.vchg_monitor_enabled
  <2>1. r = [c EXCEPT !.vchg_monitor_enabled = FALSE, !.measurement = 0]
    BY <1>1, <1>3 DEF Charger_VChgMonitorStop
  <2>2. /\ r \in ChargerData /\ Unprobed(r, c) /\ r.vchg_monitor_enabled = FALSE
        /\ r.measurement = 0 /\ r.read = c.read
    BY <2>1 DEF ChargerData, Unprobed, SameSource, SameLink
  <2>3. ChainsOk(r)
    BY <1>3, <2>2 DEF ChainsOk, Chains
  <2> QED  BY <1>1, <2>2, <2>3
<1> QED  BY <1>2, <1>3

(***************************************************************************)
(* Charger_UpdateCurrent, with the probing it resumes                      *)
(* (ChargerDetect_NotifyCurrentChanged).                                   *)
(***************************************************************************)
LEMMA UpdateFacts ==
    ASSUME NEW c, NEW e, Sound(c), ProbeOk(c), e.region \in Nat
    PROVE  LET r == Charger_UpdateCurrent(c, e)
           IN  /\ Sound(r) /\ ProbeOk(r) /\ Allowed(r, e.region)
               /\ SameSource(r, c) /\ SameLink(r, c)
               /\ r.current_limit_detected = c.current_limit_detected
               /\ "NOT_CONNECTED" \in r.disable_reason
                     <=> "NOT_CONNECTED" \in c.disable_reason
               /\ SameTimeout(r, c)
<1>1. PICK r, i : r = Charger_UpdateCurrent(c, e) /\ i = AllowedCurrent(c, e.region)
  OBVIOUS
<1>2. c \in ChargerData /\ i \in Nat
  BY <1>1, AllowedFacts DEF Sound
<1>3. CASE c.fast_current = i
  <2>1. r = c
    BY <1>1, <1>3 DEF Charger_UpdateCurrent
  <2> QED  BY <1>1, <1>3, <2>1 DEF SameSource, SameLink, Allowed, SameTimeout
<1>4. CASE c.fast_current # i
  <2>1. PICK s : s = SetFastCurrent(c, i)
    OBVIOUS
  <2>2. r = ChargerDetect_NotifyCurrentChanged(s)
    BY <1>1, <1>4, <2>1 DEF Charger_UpdateCurrent
  <2>3. /\ s \in ChargerData /\ Alike(s, c) /\ EnabledMatches(s) /\ s.fast_current = i
        /\ s.disable_reason = IF i = 0 THEN c.disable_reason \cup {"ZERO_CURRENT"}
                              ELSE c.disable_reason \ {"ZERO_CURRENT"}
    BY <1>2, <2>1, SetFastCurrentFacts DEF Sound
  <2>4. Sound(s)
    BY <2>3 DEF Sound, Alike
  <2>5. ChainsOk(s) /\ (s.vchg_monitor_enabled => Limiting(s) /\ ~s.current_limit_detected)
    BY <2>3 DEF ProbeOk, ChainsOk, Chains, Limiting, Alike, SameProbe, SameSource
  <2>6. /\ SameSource(s, c) /\ SameLink(s, c)
        /\ s.current_limit_detected = c.current_limit_detected
        /\ "NOT_CONNECTED" \in s.disable_reason <=> "NOT_CONNECTED" \in c.disable_reason
        /\ SameTimeout(s, c)
    BY <2>3 DEF Alike, SameProbe, SameTimeout
  <2>7. CASE /\ ~s.vchg_monitor_enabled /\ Limiting(s) /\ ~s.current_limit_detected
             /\ s.current_limit = s.fast_current
    <3>1. PICK t : t = [s EXCEPT !.current_increasing = TRUE]
      OBVIOUS
    <3>2. r = Charger_VChgMonitorStart(t)
      BY <2>2, <2>7, <3>1 DEF ChargerDetect_NotifyCurrentChanged, Limiting
    <3>3. /\ t \in ChargerData /\ Unprobed(t, s) /\ SameProbe(t, s)
      BY <2>3, <3>1 DEF ChargerData, Unprobed, SameSource, SameLink, SameProbe
    <3>4. ChainsOk(t)
      BY <2>5, <3>3 DEF ChainsOk, Chains, SameProbe
    <3>5. r \in ChargerData /\ Unprobed(r, t) /\ ChainsOk(r) /\ r.vchg_monitor_enabled = TRUE
      BY <3>2, <3>3, <3>4, StartFacts
    <3>6. Unprobed(r, s)
      BY <3>3, <3>5 DEF Unprobed, SameSource, SameLink
    <3>7. Sound(r)
      BY <2>4, <3>5, <3>6, UnprobedSound
    <3>8. ProbeOk(r)
      BY <2>7, <3>5, <3>6 DEF ProbeOk, Unprobed, SameSource, Limiting
    <3>9. SameSource(r, c) /\ SameLink(r, c)
      BY <2>6, <3>6 DEF Unprobed, SameSource, SameLink
    <3>10. Allowed(r, e.region)
      BY <1>1, <2>3, <3>6, <3>9, AllowedSame DEF Allowed, Unprobed
    <3> QED  BY <1>1, <2>6, <3>6, <3>7, <3>8, <3>9, <3>10 DEF Unprobed, SameTimeout
  <2>8. CASE ~(/\ ~s.vchg_monitor_enabled /\ Limiting(s) /\ ~s.current_limit_detected
               /\ s.current_limit = s.fast_current)
    <3>1. r = s
      BY <2>2, <2>8 DEF ChargerDetect_NotifyCurrentChanged, Limiting
    <3>2. ProbeOk(s)
      BY <2>5, <2>8 DEF ProbeOk
    <3>3. Allowed(s, e.region)
      BY <1>1, <2>3, <2>6, AllowedSame DEF Allowed
    <3> QED  BY <1>1, <2>4, <2>6, <3>1, <3>2, <3>3
  <2> QED  BY <2>7, <2>8
<1> QED  BY <1>3, <1>4

-----------------------------------------------------------------------------
(* Attaching and detaching *)

\* What is left alone by operations that tell the power supply, the LEDs and
\* the clients.
Kept(r, c) ==
    /\ SameSource(r, c) /\ SameProbe(r, c) /\ r.is_connected = c.is_connected
    /\ r.re_enable = c.re_enable /\ r.misconfigured = c.misconfigured
    /\ r.is_enabled = c.is_enabled /\ r.disable_reason = c.disable_reason
    /\ r.fast_current = c.fast_current

\* They keep all parts of the invariant but the one about the LEDs.
LEMMA KeptFacts ==
    ASSUME NEW c, NEW r \in ChargerData, Kept(r, c)
    PROVE  /\ Sound(c) => Sound(r)
           /\ ProbeOk(c) => ProbeOk(r)
           /\ LimitOk(c) => LimitOk(r)
           /\ LinkOk(c) => LinkOk(r)
           /\ ConnectionKnown(c) => ConnectionKnown(r)
           /\ \A region : Allowed(c, region) => Allowed(r, region)
<1>1. Sound(c) => Sound(r)
  BY DEF Kept, Sound, EnabledMatches
<1>2. ProbeOk(c) => ProbeOk(r)
  BY DEF Kept, ProbeOk, ChainsOk, Chains, Limiting, SameSource, SameProbe
<1>3. LimitOk(c) => LimitOk(r)
  BY DEF Kept, LimitOk, Limiting, SameSource, SameProbe
<1>4. LinkOk(c) => LinkOk(r)
  BY DEF Kept, LinkOk, SameSource
<1>5. ConnectionKnown(c) => ConnectionKnown(r)
  BY DEF Kept, ConnectionKnown
<1>6. ASSUME NEW region, Allowed(c, region)
      PROVE  Allowed(r, region)
  BY <1>6, AllowedSame DEF Kept, Allowed
<1> QED  BY <1>1, <1>2, <1>3, <1>4, <1>5, <1>6

\* Charger_HandleChange.
LEMMA HandleChangeFacts ==
    ASSUME NEW c \in ChargerData, NEW e
    PROVE  LET r == Charger_HandleChange(c, e)
           IN  r \in ChargerData /\ Kept(r, c) /\ LedsOk(r) /\ r.notes = c.notes
<1>1. PICK r : r = Charger_HandleChange(c, e)
  OBVIOUS
<1>2. CASE c.is_connected = 0
  <2>1. r = [c EXCEPT !.power_source_vbat = TRUE]
    BY <1>1, <1>2 DEF Charger_HandleChange, Charger_IsConnected
  <2>2. r \in ChargerData /\ Kept(r, c) /\ r.notes = c.notes
    BY <2>1 DEF ChargerData, Kept, SameSource, SameProbe
  <2>3. r.is_connected # 1
    BY <1>2, <2>2 DEF Kept
  <2> QED  BY <1>1, <2>2, <2>3 DEF LedsOk
<1>3. CASE c.is_connected # 0
  <2>1. PICK v, l : /\ v = (Configs[c.charger_config].usb_events_apply /\ c.usb_suspend /\ e.good)
                    /\ l = (Configs[c.charger_config].usb_events_apply /\ c.usb_suspend)
    OBVIOUS
  <2>2. v \in BOOLEAN /\ l \in BOOLEAN
    BY <2>1
  <2>3. r = [c EXCEPT !.power_source_vbat = v, !.usb_leds_forced_off = l]
    BY <1>1, <1>3, <2>1
    DEF Charger_HandleChange, Charger_IsConnected, ChargerDetect_UsbIsSuspend
  <2>4. /\ r \in ChargerData /\ Kept(r, c) /\ r.notes = c.notes
        /\ r.usb_leds_forced_off = l /\ r.power_source_vbat = v
    BY <2>2, <2>3, ZenonT(30) DEF ChargerData, Kept, SameSource, SameProbe
  <2>5. c.charger_config \in ConfigNames
    BY DEF ChargerData
  <2>6. /\ l <=> c.charger_config = "sdp" /\ c.usb_suspend
        /\ v => l
    BY <2>1, <2>5, ConfigFacts
  <2>7. r.charger_config = c.charger_config /\ r.usb_suspend = c.usb_suspend
    BY <2>4 DEF Kept, SameSource
  <2>8. LedsOk(r)
    BY <2>4, <2>6, <2>7 DEF LedsOk
  <2> QED  BY <1>1, <2>4, <2>8
<1> QED  BY <1>2, <1>3

\* The messages to the clients have no bearing on the rest.
LEMMA NotesFacts ==
    ASSUME NEW c \in ChargerData, NEW s \in Seq(Notifications)
    PROVE  LET r == [c EXCEPT !.notes = s]
           IN  /\ r \in ChargerData /\ Kept(r, c)
               /\ r.usb_leds_forced_off = c.usb_leds_forced_off
               /\ r.power_source_vbat = c.power_source_vbat
  BY DEF ChargerData, Kept, SameSource, SameProbe

\* chargerNotifyClients.
LEMMA NotifyFacts ==
    ASSUME NEW c \in ChargerData, NEW id \in Notifications
    PROVE  LET r == NotifyClients(c, id)
           IN  /\ r \in ChargerData /\ Kept(r, c)
               /\ r.usb_leds_forced_off = c.usb_leds_forced_off
               /\ r.power_source_vbat = c.power_source_vbat
<1>1. PICK s : s = Append(c.notes, id)
  OBVIOUS
<1>2. s \in Seq(Notifications)
  BY <1>1 DEF ChargerData
<1>3. NotifyClients(c, id) = [c EXCEPT !.notes = s]
  BY <1>1 DEF NotifyClients, ChargerData
<1> QED  BY <1>2, <1>3, NotesFacts

\* What follows when only the reasons change.
LEMMA AlikeFacts ==
    ASSUME NEW c, NEW r, Alike(r, c), r.fast_current = c.fast_current
    PROVE  /\ ProbeOk(c) => ProbeOk(r)
           /\ LimitOk(c) => LimitOk(r)
           /\ LinkOk(c) => LinkOk(r)
           /\ LedsOk(c) => LedsOk(r)
           /\ \A region : Allowed(c, region) => Allowed(r, region)
<1>1. ProbeOk(c) => ProbeOk(r)
  BY DEF Alike, ProbeOk, ChainsOk, Chains, Limiting, SameSource, SameProbe
<1>2. LimitOk(c) => LimitOk(r)
  BY DEF Alike, LimitOk, Limiting, SameSource, SameProbe
<1>3. LinkOk(c) => LinkOk(r)
  BY DEF Alike, LinkOk, SameSource, SameLink
<1>4. LedsOk(c) => LedsOk(r)
  BY DEF Alike, LedsOk, SameSource, SameLink
<1>5. ASSUME NEW region, Allowed(c, region)
      PROVE  Allowed(r, region)
  BY <1>5, AllowedSame DEF Alike, Allowed
<1> QED  BY <1>1, <1>2, <1>3, <1>4, <1>5

\* A reason that no other state goes with comes and goes.
LEMMA ReasonSound ==
    ASSUME NEW c, NEW reason \in {"TIMEOUT", "REQUEST", "NOT_CONNECTED"}, Sound(c)
    PROVE  Sound(DisableReasonAdd(c, reason)) /\ Sound(DisableReasonClear(c, reason))
<1>1. reason \in DisableReasons /\ c \in ChargerData /\ EnabledMatches(c)
  BY DEF DisableReasons, Sound
<1>2. PICK a, d : a = DisableReasonAdd(c, reason) /\ d = DisableReasonClear(c, reason)
  OBVIOUS
<1>3. /\ a \in ChargerData /\ Alike(a, c) /\ EnabledMatches(a)
      /\ a.disable_reason = c.disable_reason \cup {reason} /\ a.fast_current = c.fast_current
  BY <1>1, <1>2, AddFacts
<1>4. /\ d \in ChargerData /\ Alike(d, c) /\ EnabledMatches(d)
      /\ d.disable_reason = c.disable_reason \ {reason} /\ d.fast_current = c.fast_current
  BY <1>1, <1>2, ClearFacts
<1>5. Sound(a)
  BY <1>3 DEF Sound, Alike
<1>6. Sound(d)
  BY <1>4 DEF Sound, Alike
<1> QED  BY <1>2, <1>5, <1>6

\* Charger_UpdateConnected.
LEMMA ConnectFacts ==
    ASSUME NEW c, NEW connected \in BOOLEAN, NEW e,
           Sound(c), ProbeOk(c), ConnectionKnown(c), e.region \in Nat
    PROVE  LET r == Charger_UpdateConnected(c, connected, e)
           IN  /\ Sound(r) /\ ProbeOk(r) /\ ConnectionKnown(r) /\ SameSource(r, c)
               /\ r.current_limit_detected = c.current_limit_detected
               /\ r.is_connected = IF connected THEN 1 ELSE 0
               /\ TimeoutKept(r, c)
<1>1. PICK r, n : /\ r = Charger_UpdateConnected(c, connected, e)
                  /\ n = IF connected THEN 1 ELSE 0
  OBVIOUS
<1>2. PICK d : d = [c EXCEPT !.is_connected = n]
  OBVIOUS
<1>3. n \in {0, 1, CHARGER_CONNECTION_UNKNOWN} /\ c \in ChargerData
  BY <1>1 DEF Sound
<1>4. /\ d \in ChargerData /\ SameSource(d, c) /\ SameProbe(d, c) /\ d.is_connected = n
      /\ d.re_enable = c.re_enable /\ d.misconfigured = c.misconfigured
      /\ d.is_enabled = c.is_enabled /\ d.disable_reason = c.disable_reason
      /\ d.fast_current = c.fast_current
  BY <1>2, <1>3 DEF ChargerData, SameSource, SameProbe
<1>5. Sound(d)
  BY <1>4 DEF Sound, EnabledMatches
<1>6. ProbeOk(d)
  BY <1>4 DEF ProbeOk, ChainsOk, Chains, Limiting, SameSource, SameProbe
<1>7. CASE c.is_connected = n
  <2>1. r = c
    BY <1>1, <1>2, <1>4, <1>7 DEF Charger_UpdateConnected
  <2> QED  BY <1>1, <1>7, <2>1 DEF SameSource, TimeoutKept
<1>8. CASE c.is_connected # n /\ connected
  <2>1. PICK u : u = Charger_UpdateCurrent(d, e)
    OBVIOUS
  <2>2. PICK x : x = DisableReasonClear(u, "NOT_CONNECTED")
    OBVIOUS
  <2>3. PICK y : y = Charger_HandleChange(x, e)
    OBVIOUS
  <2>4. r = NotifyClients(y, "ATTACHED")
    BY <1>1, <1>2, <1>4, <1>8, <2>1, <2>2, <2>3 DEF Charger_UpdateConnected
  <2>5. /\ Sound(u) /\ ProbeOk(u) /\ SameSource(u, d) /\ SameLink(u, d)
        /\ u.current_limit_detected = d.current_limit_detected /\ SameTimeout(u, d)
    BY <1>5, <1>6, <2>1, UpdateFacts
  <2>6. u \in ChargerData /\ EnabledMatches(u)
    BY <2>5 DEF Sound
  <2>7. /\ x \in ChargerData /\ Alike(x, u) /\ x.fast_current = u.fast_current
        /\ x.disable_reason = u.disable_reason \ {"NOT_CONNECTED"}
    BY <2>2, <2>6, ClearFacts
  <2>8. Sound(x) /\ ProbeOk(x)
    BY <2>2, <2>5, <2>7, ReasonSound, AlikeFacts
  <2>9. x.is_connected = 1
    BY <1>1, <1>4, <1>8, <2>5, <2>7 DEF Alike, SameLink
  <2>10. ConnectionKnown(x)
    BY <2>7, <2>9 DEF ConnectionKnown
  <2>11. y \in ChargerData /\ Kept(y, x)
    BY <2>3, <2>7, HandleChangeFacts
  <2>12. r \in ChargerData /\ Kept(r, y)
    BY <2>4, <2>11, NotifyFacts DEF Notifications
  <2>13. Kept(r, x)
    BY <2>11, <2>12 DEF Kept, SameSource, SameProbe
  <2>14. Sound(r) /\ ProbeOk(r) /\ ConnectionKnown(r)
    BY <2>8, <2>10, <2>12, <2>13, KeptFacts
  <2>15. SameSource(r, c) /\ r.current_limit_detected = c.current_limit_detected
    BY <1>4, <2>5, <2>7, <2>13 DEF Kept, Alike, SameSource, SameProbe
  <2>16. r.is_connected = n
    BY <1>1, <1>8, <2>9, <2>13 DEF Kept
  <2>17. TimeoutKept(r, c)
    <3>1. r.disable_reason = u.disable_reason \ {"NOT_CONNECTED"} /\ r.is_connected = 1
      BY <2>7, <2>9, <2>13 DEF Kept
    <3> QED  BY <1>4, <2>5, <3>1 DEF SameTimeout, TimeoutKept
  <2> QED  BY <1>1, <2>14, <2>15, <2>16, <2>17
<1>9. CASE c.is_connected # n /\ ~connected
  <2>1. PICK u : u = DisableReasonAdd(d, "NOT_CONNECTED")
    OBVIOUS
  <2>2. PICK x : x = DisableReasonClear(u, "TIMEOUT")
    OBVIOUS
  <2>3. PICK y : y = Charger_HandleChange(x, e)
    OBVIOUS
  <2>4. r = NotifyClients(y, "DETACHED")
    BY <1>1, <1>2, <1>4, <1>9, <2>1, <2>2, <2>3 DEF Charger_UpdateConnected
  <2>5. "NOT_CONNECTED" \in DisableReasons /\ EnabledMatches(d)
    BY <1>5 DEF DisableReasons, Sound
  <2>6. /\ u \in ChargerData /\ Alike(u, d) /\ u.fast_current = d.fast_current
        /\ u.disable_reason = d.disable_reason \cup {"NOT_CONNECTED"}
    BY <1>4, <2>1, <2>5, AddFacts
  <2>7. Sound(u) /\ ProbeOk(u)
    BY <1>5, <1>6, <2>1, <2>6, ReasonSound, AlikeFacts
  <2>8. EnabledMatches(u)
    BY <2>7 DEF Sound
  <2>9. /\ x \in ChargerData /\ Alike(x, u) /\ x.fast_current = u.fast_current
        /\ x.disable_reason = u.disable_reason \ {"TIMEOUT"}
    BY <2>2, <2>6, <2>8, ClearFacts
  <2>10. Sound(x) /\ ProbeOk(x)
    BY <2>2, <2>7, <2>9, ReasonSound, AlikeFacts
  <2>11. x.is_connected = 0
    BY <1>1, <1>4, <1>9, <2>6, <2>9 DEF Alike, SameLink
  <2>12. ConnectionKnown(x)
    BY <2>6, <2>9, <2>11 DEF ConnectionKnown
  <2>13. y \in ChargerData /\ Kept(y, x)
    BY <2>3, <2>9, HandleChangeFacts
  <2>14. r \in ChargerData /\ Kept(r, y)
    BY <2>4, <2>13, NotifyFacts DEF Notifications
  <2>15. Kept(r, x)
    BY <2>13, <2>14 DEF Kept, SameSource, SameProbe
  <2>16. Sound(r) /\ ProbeOk(r) /\ ConnectionKnown(r)
    BY <2>10, <2>12, <2>14, <2>15, KeptFacts
  <2>17. SameSource(r, c) /\ r.current_limit_detected = c.current_limit_detected
    BY <1>4, <2>6, <2>9, <2>15 DEF Kept, Alike, SameSource, SameProbe
  <2>18. r.is_connected = n
    BY <1>1, <1>9, <2>11, <2>15 DEF Kept
  <2>19. TimeoutKept(r, c)
    <3>1. "TIMEOUT" \notin r.disable_reason /\ r.is_connected = 0 /\ c.is_connected # 0
      BY <1>1, <1>9, <2>9, <2>11, <2>15 DEF Kept
    <3> QED  BY <3>1 DEF TimeoutKept
  <2> QED  BY <1>1, <2>16, <2>17, <2>18, <2>19
<1> QED  BY <1>7, <1>8, <1>9

\* The charger data between two messages.
Consistent(c, region) ==
    /\ Sound(c) /\ ConnectionKnown(c) /\ Allowed(c, region)
    /\ ProbeOk(c) /\ LimitOk(c) /\ LinkOk(c) /\ LedsOk(c)

(***************************************************************************)
(* Another configuration is applied (charger_detect.c): c has it already.  *)
(* Nothing is asked of the current and of the limit: they are set here.    *)
(***************************************************************************)
LEMMA ResolvedFacts ==
    ASSUME NEW c, NEW connected \in BOOLEAN, NEW e,
           Sound(c), ChainsOk(c), ConnectionKnown(c),
           e.region \in Nat, e.suspended \in BOOLEAN,
           c.charger_config # "none",
           c.charger_config = "detached" <=> ~connected
    PROVE  LET r == ChargerDetect_Resolved(c, connected, e)
           IN  /\ Consistent(r, e.region)
               /\ r.charger_config = c.charger_config
               /\ r.usb_suspend = e.suspended
               /\ r.is_connected = IF connected THEN 1 ELSE 0
               /\ TimeoutKept(r, c)
<1>1. PICK r : r = ChargerDetect_Resolved(c, connected, e)
  OBVIOUS
<1>2. PICK t : t = [c EXCEPT !.current_limit = DCPMinCurrent,
                             !.current_increasing = TRUE,
                             !.current_limit_detected = FALSE]
  OBVIOUS
<1>3. PICK a : a = IF Limiting(c) THEN Charger_VChgMonitorStart(t)
                   ELSE Charger_VChgMonitorStop(c)
  OBVIOUS
<1>4. PICK b : b = [a EXCEPT !.usb_enumerated = FALSE, !.usb_suspend = e.suspended]
  OBVIOUS
<1>5. PICK d : d = Charger_UpdateConnected(b, connected, e)
  OBVIOUS
<1>6. PICK u : u = Charger_UpdateCurrent(d, e)
  OBVIOUS
<1>7. r = Charger_HandleChange(u, e)
  BY <1>1, <1>2, <1>3, <1>4, <1>5, <1>6 DEF ChargerDetect_Resolved, Limiting
<1>8. c \in ChargerData /\ DCPMinCurrent \in Nat /\ c.charger_config \in ConfigNames
  BY ChargerAssumption DEF Sound, ChargerData
<1>9. /\ Sound(a) /\ ChainsOk(a) /\ a.charger_config = c.charger_config
      /\ a.is_connected = c.is_connected /\ a.disable_reason = c.disable_reason
      /\ (a.vchg_monitor_enabled <=> Limiting(c))
      /\ Limiting(c) => /\ a.current_limit = DCPMinCurrent
                        /\ a.current_limit_detected = FALSE
  <2>1. CASE Limiting(c)
    <3>1. /\ t \in ChargerData /\ t.charger_config = c.charger_config /\ SameLink(t, c)
          /\ t.re_enable = c.re_enable /\ t.misconfigured = c.misconfigured
          /\ t.is_enabled = c.is_enabled /\ t.disable_reason = c.disable_reason
          /\ t.fast_current = c.fast_current
          /\ t.current_limit = DCPMinCurrent /\ t.current_limit_detected = FALSE
          /\ t.vchg_monitor_enabled = c.vchg_monitor_enabled
          /\ t.measurement = c.measurement /\ t.read = c.read
      BY <1>2, <1>8 DEF ChargerData, SameLink
    <3>2. Sound(t)
      BY <3>1 DEF Sound, EnabledMatches
    <3>3. ChainsOk(t)
      BY <3>1 DEF ChainsOk, Chains
    <3>4. a = Charger_VChgMonitorStart(t)
      BY <1>3, <2>1
    <3>5. /\ a \in ChargerData /\ Unprobed(a, t) /\ ChainsOk(a)
          /\ a.vchg_monitor_enabled = TRUE
      BY <3>1, <3>3, <3>4, StartFacts
    <3>6. Sound(a)
      BY <3>2, <3>5, UnprobedSound
    <3> QED  BY <2>1, <3>1, <3>5, <3>6 DEF Unprobed, SameSource, SameLink
  <2>2. CASE ~Limiting(c)
    <3>1. a = Charger_VChgMonitorStop(c)
      BY <1>3, <2>2
    <3>2. /\ a \in ChargerData /\ Unprobed(a, c) /\ ChainsOk(a)
          /\ a.vchg_monitor_enabled = FALSE
      BY <1>8, <3>1, StopFacts
    <3>3. Sound(a)
      BY <3>2, UnprobedSound
    <3> QED  BY <2>2, <3>2, <3>3 DEF Unprobed, SameSource, SameLink
  <2> QED  BY <2>1, <2>2
<1>10. a \in ChargerData
  BY <1>9 DEF Sound
<1>11. /\ b \in ChargerData /\ SameProbe(b, a) /\ b.charger_config = a.charger_config
       /\ b.is_connected = a.is_connected /\ b.usb_suspend = e.suspended
       /\ b.re_enable = a.re_enable /\ b.misconfigured = a.misconfigured
       /\ b.is_enabled = a.is_enabled /\ b.disable_reason = a.disable_reason
       /\ b.fast_current = a.fast_current /\ b.current_limit = a.current_limit
  BY <1>4, <1>10 DEF ChargerData, SameProbe
<1>12. Sound(b)
  BY <1>9, <1>11 DEF Sound, EnabledMatches
<1>13. ProbeOk(b)
  <2>1. ChainsOk(b)
    BY <1>9, <1>11 DEF ChainsOk, Chains, SameProbe
  <2>2. Limiting(b) <=> Limiting(c)
    BY <1>9, <1>11 DEF Limiting
  <2> QED  BY <1>9, <1>11, <2>1, <2>2 DEF ProbeOk, SameProbe
<1>14. LimitOk(b)
  <2>1. SUFFICES ASSUME Limiting(b)
                 PROVE  /\ b.current_limit >= DCPMinCurrent
                        /\ b.current_limit <= Configs[b.charger_config].current
                        /\ OnTheGrid(b.current_limit)
    BY DEF LimitOk
  <2>2. Limiting(c) /\ b.charger_config = c.charger_config
    BY <1>9, <1>11, <2>1 DEF Limiting
  <2>3. Configs[b.charger_config].current = 1500
    BY <1>8, <2>2, ConfigFacts DEF Limiting
  <2>4. b.current_limit = DCPMinCurrent + 0 * VchgStep
    BY <1>8, <1>9, <1>11, <2>2, ChargerAssumption
  <2>5. OnTheGrid(b.current_limit)
    BY <2>4 DEF OnTheGrid
  <2>6. b.current_limit = DCPMinCurrent /\ DCPMinCurrent <= 1500
    BY <1>9, <1>11, <2>2, ChargerAssumption
  <2> QED  BY <1>8, <2>3, <2>5, <2>6
<1>15. ConnectionKnown(b)
  BY <1>9, <1>11 DEF ConnectionKnown
<1>16. /\ Sound(d) /\ ProbeOk(d) /\ ConnectionKnown(d) /\ SameSource(d, b)
       /\ d.current_limit_detected = b.current_limit_detected
       /\ d.is_connected = IF connected THEN 1 ELSE 0
       /\ TimeoutKept(d, b)
  BY <1>5, <1>12, <1>13, <1>15, ConnectFacts
<1>17. /\ Sound(u) /\ ProbeOk(u) /\ Allowed(u, e.region) /\ SameSource(u, d)
       /\ SameLink(u, d) /\ u.current_limit_detected = d.current_limit_detected
       /\ "NOT_CONNECTED" \in u.disable_reason <=> "NOT_CONNECTED" \in d.disable_reason
       /\ SameTimeout(u, d)
  BY <1>6, <1>16, UpdateFacts
<1>18. LimitOk(u)
  BY <1>14, <1>16, <1>17 DEF LimitOk, Limiting, SameSource
<1>19. ConnectionKnown(u)
  BY <1>16, <1>17 DEF ConnectionKnown, SameLink
<1>20. /\ u.charger_config = c.charger_config /\ u.usb_suspend = e.suspended
       /\ u.is_connected = IF connected THEN 1 ELSE 0
  BY <1>9, <1>11, <1>16, <1>17 DEF SameSource, SameLink
<1>21. LinkOk(u)
  BY <1>20 DEF LinkOk
<1>22. u \in ChargerData
  BY <1>17 DEF Sound
<1>23. r \in ChargerData /\ Kept(r, u) /\ LedsOk(r)
  BY <1>7, <1>22, HandleChangeFacts
<1>24. /\ Sound(r) /\ ConnectionKnown(r) /\ Allowed(r, e.region) /\ ProbeOk(r)
       /\ LimitOk(r) /\ LinkOk(r)
  BY <1>17, <1>18, <1>19, <1>21, <1>23, KeptFacts
<1>25. /\ r.charger_config = c.charger_config /\ r.usb_suspend = e.suspended
       /\ r.is_connected = IF connected THEN 1 ELSE 0
  BY <1>20, <1>23 DEF Kept, SameSource
<1>26. TimeoutKept(r, c)
  <2>1. r.disable_reason = u.disable_reason /\ r.is_connected = d.is_connected
    BY <1>17, <1>23 DEF Kept, SameLink
  <2>2. b.disable_reason = c.disable_reason /\ b.is_connected = c.is_connected
    BY <1>9, <1>11
  <2> QED  BY <1>16, <1>17, <2>1, <2>2 DEF TimeoutKept, SameTimeout
<1> QED  BY <1>1, <1>23, <1>24, <1>25, <1>26 DEF Consistent

\* A configuration is chosen: nothing happens when it is not known or not new.
LEMMA ChangeFacts ==
    ASSUME NEW c, NEW config \in ConfigNames, NEW connected \in BOOLEAN, NEW e,
           Sound(c), ChainsOk(c), ConnectionKnown(c),
           e.region \in Nat, e.suspended \in BOOLEAN,
           config \notin {"none", c.charger_config},
           config = "detached" <=> ~connected
    PROVE  LET r == ChangeConfig(c, config, connected, e)
           IN  /\ Consistent(r, e.region)
               /\ r.charger_config = config
               /\ r.usb_suspend = e.suspended
               /\ r.is_connected = IF connected THEN 1 ELSE 0
               /\ TimeoutKept(r, c)
<1>1. PICK t : t = [c EXCEPT !.charger_config = config]
  OBVIOUS
<1>2. ChangeConfig(c, config, connected, e) = ChargerDetect_Resolved(t, connected, e)
  BY <1>1 DEF ChangeConfig
<1>3. c \in ChargerData
  BY DEF Sound
<1>4. /\ t \in ChargerData /\ t.charger_config = config /\ SameProbe(t, c)
      /\ t.re_enable = c.re_enable /\ t.misconfigured = c.misconfigured
      /\ t.is_enabled = c.is_enabled /\ t.disable_reason = c.disable_reason
      /\ t.fast_current = c.fast_current /\ t.is_connected = c.is_connected
  BY <1>1, <1>3 DEF ChargerData, SameProbe
<1>5. Sound(t)
  BY <1>4 DEF Sound, EnabledMatches
<1>6. ChainsOk(t) /\ ConnectionKnown(t)
  BY <1>4 DEF ChainsOk, Chains, ConnectionKnown, SameProbe
<1>7. t.charger_config # "none" /\ (t.charger_config = "detached" <=> ~connected)
  BY <1>4
<1>8. PICK r : r = ChargerDetect_Resolved(t, connected, e)
  OBVIOUS
<1>9. /\ Consistent(r, e.region) /\ r.charger_config = t.charger_config
      /\ r.usb_suspend = e.suspended /\ r.is_connected = IF connected THEN 1 ELSE 0
      /\ TimeoutKept(r, t)
  BY <1>5, <1>6, <1>7, <1>8, ResolvedFacts
<1>10. TimeoutKept(r, c)
  BY <1>4, <1>9 DEF TimeoutKept
<1> QED  BY <1>2, <1>4, <1>8, <1>9, <1>10

\* Charger_Init, which runs before the battery region has a current.
LEMMA InitFacts ==
    ASSUME NEW connected \in BOOLEAN, NEW e, e.region \in Nat, e.suspended \in BOOLEAN
    PROVE  LET r == Charger_Init(connected, e)
           IN  /\ Consistent(r, e.region)
               /\ r.charger_config = IF connected THEN "safe" ELSE "detached"
               /\ r.usb_suspend = e.suspended
               /\ r.is_connected = IF connected THEN 1 ELSE 0
               /\ "TIMEOUT" \notin r.disable_reason
<1>1. PICK z : z = ZeroedCharger
  OBVIOUS
<1>2. /\ z \in ChargerData /\ z.disable_reason = {} /\ z.is_enabled = FALSE
      /\ z.charger_config = "none" /\ z.fast_current = 0
      /\ z.is_connected = CHARGER_CONNECTION_UNKNOWN /\ z.vchg_monitor_enabled = FALSE
      /\ z.measurement = 0 /\ z.read = "none"
      /\ z.re_enable = FALSE /\ z.misconfigured = FALSE
  <2>1. "none" \in ConfigNames /\ FastCurrent \in Nat /\ <<>> \in Seq(Notifications)
    BY ChosenFacts, ChargerAssumption
  <2>2. z \in ChargerData
    BY <1>1, <2>1 DEF ZeroedCharger, ChargerData, Statuses
  <2> QED  BY <1>1, <2>2 DEF ZeroedCharger
<1>3. PICK a : a = DisableReasonAdd(z, "NOT_CONNECTED")
  OBVIOUS
<1>4. /\ a \in ChargerData /\ a.disable_reason = {"NOT_CONNECTED"} /\ a.is_enabled = FALSE
      /\ Alike(a, z) /\ a.fast_current = 0
  <2>1. PICK s : s = {"NOT_CONNECTED"}
    OBVIOUS
  <2>2. s \in SUBSET DisableReasons
    BY <2>1 DEF DisableReasons
  <2>3. a = [z EXCEPT !.is_enabled = FALSE, !.disable_reason = s]
    BY <1>2, <1>3, <2>1 DEF DisableReasonAdd, Disable, ChargerData
  <2>4. a \in ChargerData /\ a.disable_reason = s /\ a.is_enabled = FALSE
    <3>1. z \in ChargerData
      BY <1>2
    <3> QED  BY <3>1, <2>2, <2>3 DEF ChargerData
  <2>5. Alike(a, z) /\ a.fast_current = 0
    BY <1>2, <2>3 DEF ChargerData, Alike, SameSource, SameProbe, SameLink
  <2> QED  BY <2>1, <2>4, <2>5
<1>5. EnabledMatches(a)
  BY <1>4 DEF EnabledMatches
<1>6. PICK b : b = SetFastCurrent(a, 0)
  OBVIOUS
<1>7. /\ b \in ChargerData /\ Alike(b, a) /\ EnabledMatches(b) /\ b.fast_current = 0
      /\ b.disable_reason = {"NOT_CONNECTED", "ZERO_CURRENT"}
  <2>1. 0 \in Nat /\ "INTERNAL" \notin a.disable_reason
    BY <1>4
  <2>2. /\ b \in ChargerData /\ Alike(b, a) /\ EnabledMatches(b) /\ b.fast_current = 0
        /\ b.disable_reason = a.disable_reason \cup {"ZERO_CURRENT"}
    BY <1>4, <1>5, <1>6, <2>1, SetFastCurrentFacts
  <2> QED  BY <1>4, <2>2
<1>8. /\ b.charger_config = "none" /\ b.is_connected = CHARGER_CONNECTION_UNKNOWN
      /\ b.vchg_monitor_enabled = FALSE /\ b.measurement = 0 /\ b.read = "none"
      /\ b.re_enable = FALSE /\ b.misconfigured = FALSE
  BY <1>2, <1>4, <1>7 DEF Alike, SameSource, SameProbe, SameLink
<1>9. Sound(b) /\ ConnectionKnown(b)
  BY <1>7, <1>8 DEF Sound, ConnectionKnown, CHARGER_CONNECTION_UNKNOWN
<1>10. ChainsOk(b)
  BY <1>8 DEF ChainsOk, Chains
<1>11. PICK k, g : /\ k = IF connected THEN "safe" ELSE "detached"
                   /\ g = ChangeConfig(b, k, connected, e)
  OBVIOUS
<1>12. /\ k \in ConfigNames /\ k \notin {"none", b.charger_config}
       /\ k = "detached" <=> ~connected
  BY <1>8, <1>11, ChosenFacts
<1>13. /\ Consistent(g, e.region) /\ g.charger_config = k /\ g.usb_suspend = e.suspended
       /\ g.is_connected = IF connected THEN 1 ELSE 0
       /\ TimeoutKept(g, b)
  BY <1>9, <1>10, <1>11, <1>12, ChangeFacts
<1>14. PICK r : r = [g EXCEPT !.notes = <<>>]
  OBVIOUS
<1>15. Charger_Init(connected, e) = r
  BY <1>1, <1>3, <1>6, <1>11, <1>14 DEF Charger_Init, ChargerDetect_Changed
<1>16. g \in ChargerData /\ <<>> \in Seq(Notifications)
  BY <1>13 DEF Consistent, Sound
<1>17. /\ r \in ChargerData /\ Kept(r, g) /\ r.usb_leds_forced_off = g.usb_leds_forced_off
       /\ r.power_source_vbat = g.power_source_vbat
  BY <1>14, <1>16, NotesFacts
<1>18. Consistent(r, e.region)
  <2>1. LedsOk(r)
    BY <1>13, <1>17 DEF Consistent, LedsOk, Kept, SameSource
  <2> QED  BY <1>13, <1>17, <2>1, KeptFacts DEF Consistent
<1>19. "TIMEOUT" \notin r.disable_reason
  BY <1>7, <1>13, <1>17 DEF TimeoutKept, Kept
<1> QED  BY <1>11, <1>13, <1>15, <1>17, <1>18, <1>19 DEF Kept, SameSource

\* Sending the messages to the clients at the end of a handler.
LEMMA HandledFacts ==
    ASSUME NEW c, NEW region, Consistent(c, region)
    PROVE  /\ Consistent(Handled(c), region)
           /\ Handled(c).charger_config = c.charger_config
           /\ Handled(c).usb_suspend = c.usb_suspend
           /\ Handled(c).is_connected = c.is_connected
           /\ Handled(c).disable_reason = c.disable_reason
<1>1. PICK r : r = Handled(c)
  OBVIOUS
<1>2. c \in ChargerData /\ <<>> \in Seq(Notifications)
  BY DEF Consistent, Sound
<1>3. /\ r \in ChargerData /\ Kept(r, c) /\ r.usb_leds_forced_off = c.usb_leds_forced_off
      /\ r.power_source_vbat = c.power_source_vbat
  BY <1>1, <1>2, NotesFacts DEF Handled
<1>4. LedsOk(r)
  BY <1>3 DEF Consistent, LedsOk, Kept, SameSource
<1>5. Consistent(r, region)
  BY <1>3, <1>4, KeptFacts DEF Consistent
<1> QED  BY <1>1, <1>3, <1>5 DEF Kept, SameSource

\* ChargerDetect_UpdateUsbStatus.
LEMMA UsbFacts ==
    ASSUME NEW c, NEW e, NEW id, Consistent(c, e.region), e.region \in Nat
    PROVE  LET r == ChargerDetect_UpdateUsbStatus(c, id, e)
           IN  /\ Consistent(r, e.region)
               /\ r.charger_config = c.charger_config /\ r.is_connected = c.is_connected
               /\ r.usb_suspend
                     <=> (id = "SUSPEND" \/ (id = "ENUMERATED" /\ c.usb_suspend))
<1>1. PICK r : r = ChargerDetect_UpdateUsbStatus(c, id, e)
  OBVIOUS
<1>2. PICK m, s : /\ m = CASE id = "ENUMERATED"   -> TRUE
                           [] id = "DECONFIGURED" -> FALSE
                           [] OTHER               -> c.usb_enumerated
                  /\ s = CASE id = "SUSPEND"    -> TRUE
                           [] id = "ENUMERATED" -> c.usb_suspend
                           [] OTHER             -> FALSE
  OBVIOUS
<1>3. c \in ChargerData
  BY DEF Consistent, Sound
<1>4. m \in BOOLEAN /\ s \in BOOLEAN
  <2>1. c.usb_enumerated \in BOOLEAN /\ c.usb_suspend \in BOOLEAN
    BY <1>3 DEF ChargerData
  <2>2. m \in {TRUE, FALSE, c.usb_enumerated} /\ s \in {TRUE, FALSE, c.usb_suspend}
    BY <1>2
  <2> QED  BY <2>1, <2>2
<1>5. PICK a : a = [c EXCEPT !.usb_enumerated = m, !.usb_suspend = s]
  OBVIOUS
<1>6. PICK b : b = Charger_UpdateCurrent(a, e)
  OBVIOUS
<1>7. r = IF Configs[b.charger_config].usb_events_apply /\ c.usb_suspend # b.usb_suspend
          THEN Charger_HandleChange(b, e) ELSE b
  <2>1. a = [c EXCEPT !.usb_enumerated = CASE id = "ENUMERATED"   -> TRUE
                                           [] id = "DECONFIGURED" -> FALSE
                                           [] OTHER               -> @,
                      !.usb_suspend    = CASE id = "SUSPEND"      -> TRUE
                                           [] id = "ENUMERATED"   -> @
                                           [] OTHER               -> FALSE]
    BY <1>2, <1>3, <1>5 DEF ChargerData
  <2> QED  BY <1>1, <1>6, <2>1 DEF ChargerDetect_UpdateUsbStatus
<1>8. /\ a \in ChargerData /\ SameProbe(a, c) /\ SameLink(a, c)
      /\ a.charger_config = c.charger_config /\ a.usb_suspend = s
      /\ a.re_enable = c.re_enable /\ a.misconfigured = c.misconfigured
      /\ a.is_enabled = c.is_enabled /\ a.disable_reason = c.disable_reason
      /\ a.fast_current = c.fast_current /\ a.current_limit = c.current_limit
  BY <1>3, <1>4, <1>5, ZenonT(30) DEF ChargerData, SameProbe, SameLink
<1>9. Sound(a)
  BY <1>8 DEF Consistent, Sound, EnabledMatches
<1>10. ProbeOk(a)
  BY <1>8 DEF Consistent, ProbeOk, ChainsOk, Chains, Limiting, SameProbe
<1>11. LimitOk(a)
  BY <1>8 DEF Consistent, LimitOk, Limiting, SameProbe
<1>12. LinkOk(a) /\ ConnectionKnown(a)
  BY <1>8 DEF Consistent, LinkOk, ConnectionKnown, SameLink
<1>13. /\ Sound(b) /\ ProbeOk(b) /\ Allowed(b, e.region)
       /\ SameSource(b, a) /\ SameLink(b, a)
       /\ b.current_limit_detected = a.current_limit_detected
       /\ "NOT_CONNECTED" \in b.disable_reason <=> "NOT_CONNECTED" \in a.disable_reason
  BY <1>6, <1>9, <1>10, UpdateFacts
<1>14. LimitOk(b)
  BY <1>11, <1>13 DEF LimitOk, Limiting, SameSource
<1>15. LinkOk(b) /\ ConnectionKnown(b)
  BY <1>12, <1>13 DEF LinkOk, ConnectionKnown, SameSource, SameLink
<1>16. b \in ChargerData
  BY <1>13 DEF Sound
<1>17. /\ b.charger_config = c.charger_config /\ b.is_connected = c.is_connected
       /\ b.usb_suspend = s /\ b.usb_leds_forced_off = c.usb_leds_forced_off
       /\ b.power_source_vbat = c.power_source_vbat
  BY <1>8, <1>13 DEF SameSource, SameLink
<1>18. s <=> (id = "SUSPEND" \/ (id = "ENUMERATED" /\ c.usb_suspend))
  <2>1. CASE id = "SUSPEND"
    BY <1>2, <2>1
  <2>2. CASE id = "ENUMERATED"
    BY <1>2, <2>2
  <2>3. CASE id # "SUSPEND" /\ id # "ENUMERATED"
    BY <1>2, <2>3
  <2> QED  BY <2>1, <2>2, <2>3
<1>19. CASE Configs[b.charger_config].usb_events_apply /\ c.usb_suspend # b.usb_suspend
  <2>1. r = Charger_HandleChange(b, e)
    BY <1>7, <1>19
  <2>2. r \in ChargerData /\ Kept(r, b) /\ LedsOk(r)
    BY <1>16, <2>1, HandleChangeFacts
  <2>3. Consistent(r, e.region)
    BY <1>13, <1>14, <1>15, <2>2, KeptFacts DEF Consistent
  <2> QED  BY <1>1, <1>17, <1>18, <2>2, <2>3 DEF Kept, SameSource
<1>20. CASE ~(Configs[b.charger_config].usb_events_apply /\ c.usb_suspend # b.usb_suspend)
  <2>1. r = b
    BY <1>7, <1>20
  <2>2. b.charger_config = "sdp" => b.usb_suspend = c.usb_suspend
    BY <1>16, <1>20, ConfigFacts DEF ChargerData
  <2>3. LedsOk(b)
    BY <1>17, <2>2 DEF Consistent, LedsOk
  <2>4. Consistent(r, e.region)
    BY <1>13, <1>14, <1>15, <2>1, <2>3 DEF Consistent
  <2> QED  BY <1>1, <1>17, <1>18, <2>1, <2>4
<1> QED  BY <1>19, <1>20

-----------------------------------------------------------------------------
(* Steps that do not change the charger *)

Unmoved(r, c) ==
    /\ r.charger_config = c.charger_config /\ r.usb_suspend = c.usb_suspend
    /\ r.is_connected = c.is_connected

\* A change of the reasons for charging to be off.
LEMMA AlikeConsistent ==
    ASSUME NEW c, NEW r, NEW region, Consistent(c, region),
           Alike(r, c), r.fast_current = c.fast_current, Sound(r),
           "NOT_CONNECTED" \in r.disable_reason <=> "NOT_CONNECTED" \in c.disable_reason
    PROVE  Consistent(r, region) /\ Unmoved(r, c)
<1>1. ConnectionKnown(r)
  BY DEF Consistent, ConnectionKnown, Alike, SameLink
<1>2. Unmoved(r, c)
  BY DEF Unmoved, Alike, SameSource, SameLink
<1> QED  BY <1>1, <1>2, AlikeFacts DEF Consistent

\* The battery region and Charger_ForceDisable disable charging and allow it.
LEMMA OthersFacts ==
    ASSUME NEW c, NEW region, NEW reason \in {"TIMEOUT", "REQUEST"}, Consistent(c, region)
    PROVE  /\ Consistent(DisableReasonAdd(c, reason), region)
           /\ Unmoved(DisableReasonAdd(c, reason), c)
           /\ Consistent(DisableReasonClear(c, reason), region)
           /\ Unmoved(DisableReasonClear(c, reason), c)
<1>1. PICK a, d : a = DisableReasonAdd(c, reason) /\ d = DisableReasonClear(c, reason)
  OBVIOUS
<1>2. c \in ChargerData /\ EnabledMatches(c) /\ reason \in DisableReasons /\ Sound(c)
  BY DEF Consistent, Sound, DisableReasons
<1>3. Sound(a) /\ Sound(d)
  BY <1>1, <1>2, ReasonSound
<1>4. /\ Alike(a, c) /\ a.fast_current = c.fast_current
      /\ a.disable_reason = c.disable_reason \cup {reason}
  BY <1>1, <1>2, AddFacts
<1>5. /\ Alike(d, c) /\ d.fast_current = c.fast_current
      /\ d.disable_reason = c.disable_reason \ {reason}
  BY <1>1, <1>2, ClearFacts
<1>6. Consistent(a, region) /\ Unmoved(a, c)
  BY <1>3, <1>4, AlikeConsistent
<1>7. Consistent(d, region) /\ Unmoved(d, c)
  BY <1>3, <1>5, AlikeConsistent
<1> QED  BY <1>1, <1>6, <1>7

\* Charger_Error: the reason comes with the timer that takes it away.
LEMMA ErrorFacts ==
    ASSUME NEW c, NEW region, Consistent(c, region)
    PROVE  Consistent(Error(c), region) /\ Unmoved(Error(c), c) /\ SameTimeout(Error(c), c)
<1>1. PICK a, r : a = DisableReasonAdd(c, "ERROR") /\ r = Error(c)
  OBVIOUS
<1>2. c \in ChargerData /\ EnabledMatches(c) /\ "ERROR" \in DisableReasons
  BY DEF Consistent, Sound, DisableReasons
<1>3. /\ a \in ChargerData /\ Alike(a, c) /\ EnabledMatches(a)
      /\ a.fast_current = c.fast_current
      /\ a.disable_reason = c.disable_reason \cup {"ERROR"}
  BY <1>1, <1>2, AddFacts
<1>4. r = [a EXCEPT !.re_enable = TRUE]
  BY <1>1 DEF Error
<1>5. /\ r \in ChargerData /\ SameSource(r, a) /\ SameProbe(r, a) /\ SameLink(r, a)
      /\ r.misconfigured = a.misconfigured /\ r.is_enabled = a.is_enabled
      /\ r.disable_reason = a.disable_reason /\ r.fast_current = a.fast_current
      /\ r.re_enable = TRUE
  BY <1>3, <1>4 DEF ChargerData, SameSource, SameProbe, SameLink
<1>6. Sound(r)
  BY <1>3, <1>5 DEF Consistent, Sound, EnabledMatches, Alike
<1>7. Allowed(r, region)
  BY <1>3, <1>5, AllowedSame DEF Consistent, Allowed, Alike
<1>8. ProbeOk(r)
  BY <1>3, <1>5, AlikeFacts
  DEF Consistent, ProbeOk, ChainsOk, Chains, Limiting, SameSource, SameProbe
<1>9. LimitOk(r)
  BY <1>3, <1>5, AlikeFacts DEF Consistent, LimitOk, Limiting, SameSource, SameProbe
<1>10. LinkOk(r) /\ LedsOk(r)
  BY <1>3, <1>5, AlikeFacts DEF Consistent, LinkOk, LedsOk, SameSource, SameLink
<1>11. ConnectionKnown(r)
  BY <1>3, <1>5 DEF Consistent, ConnectionKnown, Alike, SameLink
<1>12. Unmoved(r, c)
  BY <1>3, <1>5 DEF Unmoved, Alike, SameSource, SameLink
<1>13. SameTimeout(r, c)
  BY <1>3, <1>5 DEF SameTimeout
<1> QED
  BY <1>1, <1>6, <1>7, <1>8, <1>9, <1>10, <1>11, <1>12, <1>13 DEF Consistent

\* CHARGER_INTERNAL_RE_ENABLE_TIMEOUT.
LEMMA ReEnableFacts ==
    ASSUME NEW c, NEW region, Consistent(c, region)
    PROVE  LET r == DisableReasonClear([c EXCEPT !.re_enable = FALSE], "ERROR")
           IN  Consistent(r, region) /\ Unmoved(r, c) /\ SameTimeout(r, c)
<1>1. PICK a : a = [c EXCEPT !.re_enable = FALSE]
  OBVIOUS
<1>2. PICK r : r = DisableReasonClear(a, "ERROR")
  OBVIOUS
<1>3. c \in ChargerData
  BY DEF Consistent, Sound
<1>4. /\ a \in ChargerData /\ SameSource(a, c) /\ SameProbe(a, c) /\ SameLink(a, c)
      /\ a.misconfigured = c.misconfigured /\ a.is_enabled = c.is_enabled
      /\ a.disable_reason = c.disable_reason /\ a.fast_current = c.fast_current
      /\ a.re_enable = FALSE
  BY <1>1, <1>3 DEF ChargerData, SameSource, SameProbe, SameLink
<1>5. EnabledMatches(a)
  BY <1>4 DEF Consistent, Sound, EnabledMatches
<1>6. /\ r \in ChargerData /\ Alike(r, a) /\ EnabledMatches(r)
      /\ r.disable_reason = a.disable_reason \ {"ERROR"} /\ r.fast_current = a.fast_current
  BY <1>2, <1>4, <1>5, ClearFacts
<1>7. Sound(r)
  BY <1>4, <1>6 DEF Consistent, Sound, Alike
<1>8. Allowed(r, region)
  <2>1. SameSource(r, c)
    BY <1>4, <1>6 DEF Alike, SameSource
  <2> QED  BY <1>4, <1>6, <2>1, AllowedSame DEF Consistent, Allowed
<1>9. ProbeOk(a) /\ LimitOk(a) /\ LinkOk(a) /\ LedsOk(a)
  <2>1. ProbeOk(a)
    BY <1>4 DEF Consistent, ProbeOk, ChainsOk, Chains, Limiting, SameSource, SameProbe
  <2>2. LimitOk(a)
    BY <1>4 DEF Consistent, LimitOk, Limiting, SameSource, SameProbe
  <2>3. LinkOk(a) /\ LedsOk(a)
    BY <1>4 DEF Consistent, LinkOk, LedsOk, SameSource, SameLink
  <2> QED  BY <2>1, <2>2, <2>3
<1>10. ConnectionKnown(r)
  BY <1>4, <1>6 DEF Consistent, ConnectionKnown, Alike, SameLink
<1>11. Unmoved(r, c)
  BY <1>4, <1>6 DEF Unmoved, Alike, SameSource, SameLink
<1>12. ProbeOk(r) /\ LimitOk(r) /\ LinkOk(r) /\ LedsOk(r)
  BY <1>6, <1>9, AlikeFacts
<1>13. SameTimeout(r, c)
  BY <1>4, <1>6 DEF SameTimeout
<1> QED  BY <1>1, <1>2, <1>7, <1>8, <1>10, <1>11, <1>12, <1>13 DEF Consistent

\* Charger_UpdateCurrent makes good what a change of the limits undid.
LEMMA UpdateConsistent ==
    ASSUME NEW c, NEW e, e.region \in Nat, Sound(c), ConnectionKnown(c),
           ProbeOk(c), LimitOk(c), LinkOk(c), LedsOk(c)
    PROVE  LET r == Charger_UpdateCurrent(c, e)
           IN  Consistent(r, e.region) /\ Unmoved(r, c) /\ SameTimeout(r, c)
<1>1. PICK r : r = Charger_UpdateCurrent(c, e)
  OBVIOUS
<1>2. /\ Sound(r) /\ ProbeOk(r) /\ Allowed(r, e.region)
      /\ SameSource(r, c) /\ SameLink(r, c)
      /\ r.current_limit_detected = c.current_limit_detected
      /\ "NOT_CONNECTED" \in r.disable_reason <=> "NOT_CONNECTED" \in c.disable_reason
      /\ SameTimeout(r, c)
  BY <1>1, UpdateFacts
<1>3. LimitOk(r)
  BY <1>2 DEF LimitOk, Limiting, SameSource
<1>4. LinkOk(r) /\ LedsOk(r) /\ ConnectionKnown(r)
  BY <1>2 DEF LinkOk, LedsOk, ConnectionKnown, SameSource, SameLink
<1>5. Unmoved(r, c)
  BY <1>2 DEF Unmoved, SameSource, SameLink
<1> QED  BY <1>1, <1>2, <1>3, <1>4, <1>5 DEF Consistent

(***************************************************************************)
(* The hardware refuses the current (chargerReduceCurrent): less is        *)
(* supported from now on, and charging is disabled and enabled to try it.  *)
(***************************************************************************)
LEMMA ReduceFacts ==
    ASSUME NEW c, NEW e, e.region \in Nat, Consistent(c, e.region),
           c.fast_current > InternalMaxCurrent
    PROVE  LET r == ReduceCurrent(c, e)
           IN  Consistent(r, e.region) /\ Unmoved(r, c) /\ SameTimeout(r, c)
<1>1. PICK n, r : n = c.fast_current - 50 /\ r = ReduceCurrent(c, e)
  OBVIOUS
<1>2. c \in ChargerData /\ c.fast_current \in Nat
  BY DEF Consistent, Sound, ChargerData
<1>3. n \in Nat
  BY <1>1, <1>2, ChargerAssumption
<1>4. PICK a : a = [c EXCEPT !.max_supported_current = n]
  OBVIOUS
<1>5. PICK u : u = Charger_UpdateCurrent(a, e)
  OBVIOUS
<1>6. PICK i : i = DisableReasonAdd(u, "INTERNAL")
  OBVIOUS
<1>7. r = DisableReasonClear(i, "INTERNAL")
  BY <1>1, <1>4, <1>5, <1>6 DEF ReduceCurrent
<1>8. /\ a \in ChargerData /\ SameProbe(a, c) /\ SameLink(a, c)
      /\ a.charger_config = c.charger_config /\ a.usb_suspend = c.usb_suspend
      /\ a.current_limit = c.current_limit
      /\ a.re_enable = c.re_enable /\ a.misconfigured = c.misconfigured
      /\ a.is_enabled = c.is_enabled /\ a.disable_reason = c.disable_reason
      /\ a.fast_current = c.fast_current
  BY <1>2, <1>3, <1>4 DEF ChargerData, SameProbe, SameLink
<1>9. Sound(a)
  BY <1>8 DEF Consistent, Sound, EnabledMatches
<1>10. ProbeOk(a)
  BY <1>8 DEF Consistent, ProbeOk, ChainsOk, Chains, Limiting, SameProbe
<1>11. LimitOk(a)
  BY <1>8 DEF Consistent, LimitOk, Limiting, SameProbe
<1>12. LinkOk(a) /\ LedsOk(a) /\ ConnectionKnown(a)
  BY <1>8 DEF Consistent, LinkOk, LedsOk, ConnectionKnown, SameLink
<1>13. Consistent(u, e.region) /\ Unmoved(u, a) /\ SameTimeout(u, a)
  BY <1>5, <1>9, <1>10, <1>11, <1>12, UpdateConsistent
<1>14. u \in ChargerData /\ EnabledMatches(u) /\ "INTERNAL" \in DisableReasons
  BY <1>13 DEF Consistent, Sound, DisableReasons
<1>15. /\ i \in ChargerData /\ Alike(i, u) /\ EnabledMatches(i)
       /\ i.disable_reason = u.disable_reason \cup {"INTERNAL"}
       /\ i.fast_current = u.fast_current
  BY <1>6, <1>14, AddFacts
<1>16. /\ r \in ChargerData /\ Alike(r, i) /\ EnabledMatches(r)
       /\ r.disable_reason = i.disable_reason \ {"INTERNAL"}
       /\ r.fast_current = i.fast_current
  BY <1>7, <1>15, ClearFacts
<1>17. Alike(r, u) /\ r.fast_current = u.fast_current
  BY <1>15, <1>16, AlikeTrans
<1>18. r.disable_reason = u.disable_reason
  BY <1>13, <1>15, <1>16 DEF Consistent, Sound
<1>19. Sound(r)
  BY <1>13, <1>16, <1>17, <1>18 DEF Consistent, Sound, Alike
<1>20. Consistent(r, e.region) /\ Unmoved(r, u)
  BY <1>13, <1>17, <1>18, <1>19, AlikeConsistent
<1>21. Unmoved(r, c)
  BY <1>8, <1>13, <1>20 DEF Unmoved, SameLink
<1>22. SameTimeout(r, c)
  BY <1>8, <1>13, <1>18 DEF SameTimeout
<1> QED  BY <1>1, <1>20, <1>21, <1>22

\* MESSAGE_CHARGER_STATUS.
LEMMA StatusFacts ==
    ASSUME NEW c, NEW e, NEW status \in Statuses, e.region \in Nat, Consistent(c, e.region)
    PROVE  LET r == Charger_StatusChanged(c, status, e)
           IN  Consistent(r, e.region) /\ Unmoved(r, c) /\ SameTimeout(r, c)
<1>1. PICK r, a : r = Charger_StatusChanged(c, status, e) /\ a = [c EXCEPT !.status = status]
  OBVIOUS
<1>2. PICK b : b = CASE status \in {"HEADROOM_ERROR", "VBAT_OVERVOLT_ERROR"} -> Error(a)
                     [] status = "CONFIG_FAIL_VALUES_OUT_OF_RANGE" ->
                          IF a.fast_current > InternalMaxCurrent
                          THEN ReduceCurrent(a, e) ELSE Error(a)
                     [] OTHER -> a
  OBVIOUS
<1>3. r = IF c.status # status THEN NotifyClients(b, Charger_StatusMessageId(status)) ELSE b
  BY <1>1, <1>2 DEF Charger_StatusChanged
<1>4. c \in ChargerData
  BY DEF Consistent, Sound
<1>5. /\ a \in ChargerData /\ Kept(a, c) /\ a.usb_leds_forced_off = c.usb_leds_forced_off
      /\ a.power_source_vbat = c.power_source_vbat
  BY <1>1, <1>4 DEF ChargerData, Kept, SameSource, SameProbe
<1>6. Consistent(a, e.region) /\ Unmoved(a, c)
  <2>1. LedsOk(a)
    BY <1>5 DEF Consistent, LedsOk, Kept, SameSource
  <2>2. Unmoved(a, c)
    BY <1>5 DEF Unmoved, Kept, SameSource
  <2> QED  BY <1>5, <2>1, <2>2, KeptFacts DEF Consistent
<1>7. Consistent(b, e.region) /\ Unmoved(b, a) /\ SameTimeout(b, a)
  <2>1. CASE b = Error(a)
    BY <1>6, <2>1, ErrorFacts
  <2>2. CASE b = ReduceCurrent(a, e) /\ a.fast_current > InternalMaxCurrent
    BY <1>6, <2>2, ReduceFacts
  <2>3. CASE b = a
    BY <1>6, <2>3 DEF Unmoved, SameTimeout
  <2>4. \/ b = Error(a)
        \/ b = ReduceCurrent(a, e) /\ a.fast_current > InternalMaxCurrent
        \/ b = a
    BY <1>2
  <2> QED  BY <2>1, <2>2, <2>3, <2>4
<1>8. Unmoved(b, c) /\ SameTimeout(b, c)
  <2>1. a.disable_reason = c.disable_reason
    BY <1>5 DEF Kept
  <2> QED  BY <1>6, <1>7, <2>1 DEF Unmoved, SameTimeout
<1>9. CASE c.status # status
  <2>1. PICK id : id = Charger_StatusMessageId(status)
    OBVIOUS
  <2>2. id \in Notifications
    BY <2>1 DEF Charger_StatusMessageId, Notifications
  <2>3. b \in ChargerData /\ r = NotifyClients(b, id)
    BY <1>3, <1>7, <1>9, <2>1 DEF Consistent, Sound
  <2>4. /\ r \in ChargerData /\ Kept(r, b) /\ r.usb_leds_forced_off = b.usb_leds_forced_off
        /\ r.power_source_vbat = b.power_source_vbat
    BY <2>2, <2>3, NotifyFacts
  <2>5. LedsOk(r)
    BY <1>7, <2>4 DEF Consistent, LedsOk, Kept, SameSource
  <2>6. Consistent(r, e.region)
    BY <1>7, <2>4, <2>5, KeptFacts DEF Consistent
  <2>7. Unmoved(r, c)
    BY <1>8, <2>4 DEF Unmoved, Kept, SameSource
  <2>8. SameTimeout(r, c)
    BY <1>8, <2>4 DEF SameTimeout, Kept
  <2> QED  BY <1>1, <2>6, <2>7, <2>8
<1>10. CASE c.status = status
  BY <1>1, <1>3, <1>7, <1>8, <1>10
<1> QED  BY <1>9, <1>10

-----------------------------------------------------------------------------
(* Measurements and their results *)

\* A step of the measurements that leaves the monitor on or off.
LEMMA ProbedFacts ==
    ASSUME NEW c, NEW r \in ChargerData, NEW region, Consistent(c, region),
           Unprobed(r, c), r.vchg_monitor_enabled = c.vchg_monitor_enabled, ChainsOk(r)
    PROVE  Consistent(r, region) /\ Unmoved(r, c)
<1>1. Sound(r)
  BY UnprobedSound DEF Consistent
<1>2. ProbeOk(r)
  BY DEF Consistent, ProbeOk, Limiting, Unprobed, SameSource
<1>3. LimitOk(r)
  BY DEF Consistent, LimitOk, Limiting, Unprobed, SameSource
<1>4. LinkOk(r) /\ LedsOk(r) /\ ConnectionKnown(r) /\ Unmoved(r, c)
  BY DEF Consistent, LinkOk, LedsOk, ConnectionKnown, Unmoved, Unprobed, SameSource, SameLink
<1>5. Allowed(r, region)
  BY AllowedSame DEF Consistent, Allowed, Unprobed
<1> QED  BY <1>1, <1>2, <1>3, <1>4, <1>5 DEF Consistent

\* CHARGER_INTERNAL_VCHG_MEASUREMENT.
LEMMA PeriodicFacts ==
    ASSUME NEW c, NEW region, NEW accepted \in BOOLEAN, Consistent(c, region),
           c.measurement > 0
    PROVE  LET r == Charger_VchgMonitorPeriodic(c, accepted)
           IN  Consistent(r, region) /\ Unmoved(r, c)
<1>1. PICK r, m : r = Charger_VchgMonitorPeriodic(c, accepted) /\ m = c.measurement - 1
  OBVIOUS
<1>2. /\ c \in ChargerData /\ c.measurement \in Nat /\ ChainsOk(c)
      /\ c.vchg_monitor_enabled \in BOOLEAN
  BY DEF Consistent, Sound, ProbeOk, ChargerData
<1>3. m \in Nat
  BY <1>1, <1>2
<1>4. PICK t : t = [c EXCEPT !.measurement = m]
  OBVIOUS
<1>5. PICK s : s = IF ~c.vref_known THEN "vref"
                   ELSE IF c.chg_mon_reading = CHG_MON_REQUEST_READING THEN "chg_mon"
                   ELSE "vchg"
  OBVIOUS
<1>6. t = [c EXCEPT !.measurement = @ - 1]
  BY <1>1, <1>2, <1>4 DEF ChargerData
<1>7. /\ t \in ChargerData /\ Unprobed(t, c) /\ t.measurement = m /\ t.read = c.read
      /\ t.vchg_monitor_enabled = c.vchg_monitor_enabled
  BY <1>2, <1>3, <1>4 DEF ChargerData, Unprobed, SameSource, SameLink
<1>8. CASE ~c.vchg_monitor_enabled \/ c.read # "none"
  <2>1. r = t
    BY <1>1, <1>6, <1>8 DEF Charger_VchgMonitorPeriodic
  <2>2. ChainsOk(t)
    BY <1>1, <1>2, <1>7, <1>8 DEF ChainsOk, Chains
  <2> QED  BY <1>1, <1>7, <2>1, <2>2, ProbedFacts
<1>9. CASE c.vchg_monitor_enabled /\ c.read = "none" /\ accepted
  <2>1. r = [t EXCEPT !.read = s]
    BY <1>1, <1>5, <1>6, <1>9 DEF Charger_VchgMonitorPeriodic
  <2>2. s \in {"vref", "chg_mon", "vchg"}
    BY <1>5
  <2>3. /\ r \in ChargerData /\ Unprobed(r, t) /\ r.measurement = t.measurement /\ r.read = s
        /\ r.vchg_monitor_enabled = t.vchg_monitor_enabled
    BY <1>7, <2>1, <2>2 DEF ChargerData, Unprobed, SameSource, SameLink
  <2>4. ChainsOk(r)
    <3>1. Chains(r) = m + 1
      BY <1>7, <2>2, <2>3 DEF Chains
    <3>2. Chains(c) = m + 1
      BY <1>1, <1>2, <1>9 DEF Chains
    <3> QED  BY <1>2, <1>3, <1>7, <1>9, <2>3, <3>1, <3>2 DEF ChainsOk
  <2>5. Unprobed(r, c) /\ r.vchg_monitor_enabled = c.vchg_monitor_enabled
    BY <1>7, <2>3 DEF Unprobed, SameSource, SameLink
  <2> QED  BY <1>1, <2>3, <2>4, <2>5, ProbedFacts
<1>10. CASE c.vchg_monitor_enabled /\ c.read = "none" /\ ~accepted
  <2>1. r = c
    BY <1>1, <1>10 DEF Charger_VchgMonitorPeriodic
  <2> QED  BY <1>1, <2>1 DEF Unmoved
<1> QED  BY <1>2, <1>8, <1>9, <1>10

(***************************************************************************)
(* Within the handler of a VCHG reading, between the end of the reading    *)
(* and the next measurement that is scheduled whatever the reading says.   *)
(***************************************************************************)
Reading(c) ==
    /\ Sound(c) /\ ConnectionKnown(c) /\ LimitOk(c) /\ LinkOk(c) /\ LedsOk(c)
    /\ c.read = "none"
    /\ c.measurement <= IF c.vchg_monitor_enabled THEN 1 ELSE 0
    /\ c.vchg_monitor_enabled => Limiting(c) /\ ~c.current_limit_detected
    /\ Limiting(c) /\ ~c.current_limit_detected /\ c.fast_current = c.current_limit
          => c.vchg_monitor_enabled

\* No probing is started while it runs or when it has found the limit.
LEMMA QuietUpdate ==
    ASSUME NEW c, NEW e, e.region \in Nat, Reading(c),
           c.vchg_monitor_enabled \/ c.current_limit_detected
    PROVE  LET r == Charger_UpdateCurrent(c, e)
           IN  Reading(r) /\ Allowed(r, e.region) /\ Unmoved(r, c)
<1>1. PICK r, i : r = Charger_UpdateCurrent(c, e) /\ i = AllowedCurrent(c, e.region)
  OBVIOUS
<1>2. Sound(c) /\ c \in ChargerData /\ i \in Nat
  BY <1>1, AllowedFacts DEF Reading, Sound
<1>3. CASE c.fast_current = i
  <2>1. r = c
    BY <1>1, <1>3 DEF Charger_UpdateCurrent
  <2> QED  BY <1>1, <1>3, <2>1 DEF Allowed, Unmoved
<1>4. CASE c.fast_current # i
  <2>1. PICK s : s = SetFastCurrent(c, i)
    OBVIOUS
  <2>2. /\ s \in ChargerData /\ Alike(s, c) /\ EnabledMatches(s) /\ s.fast_current = i
        /\ s.disable_reason = IF i = 0 THEN c.disable_reason \cup {"ZERO_CURRENT"}
                              ELSE c.disable_reason \ {"ZERO_CURRENT"}
    BY <1>2, <2>1, SetFastCurrentFacts DEF Sound
  <2>3. s.vchg_monitor_enabled \/ s.current_limit_detected
    BY <2>2 DEF Alike, SameProbe
  <2>4. r = s
    BY <1>1, <1>4, <2>1, <2>3 DEF Charger_UpdateCurrent, ChargerDetect_NotifyCurrentChanged
  <2>5. Sound(s)
    BY <1>2, <2>2 DEF Sound, Alike
  <2>6. LimitOk(s)
    BY <2>2 DEF Reading, LimitOk, Limiting, Alike, SameSource, SameProbe
  <2>7. LinkOk(s) /\ LedsOk(s) /\ ConnectionKnown(s) /\ Unmoved(s, c)
    BY <2>2 DEF Reading, LinkOk, LedsOk, ConnectionKnown, Unmoved, Alike, SameSource, SameLink
  <2>8. Allowed(s, e.region)
    BY <1>1, <2>2, AllowedSame DEF Allowed, Alike
  <2>9. Reading(s)
    BY <2>2, <2>3, <2>5, <2>6, <2>7 DEF Reading, Limiting, Alike, SameSource, SameProbe
  <2> QED  BY <1>1, <2>4, <2>7, <2>8, <2>9
<1> QED  BY <1>3, <1>4

\* The limit of the charger has been found, or is what it is taken to be.
LEMMA LimitFoundFacts ==
    ASSUME NEW c, Sound(c), ConnectionKnown(c), LinkOk(c), LedsOk(c), c.read = "none",
           c.vchg_monitor_enabled,
           Limiting(c) => /\ c.current_limit >= DCPMinCurrent
                          /\ c.current_limit <= Configs[c.charger_config].current
    PROVE  LET r == LimitFound(c)
           IN  /\ Reading(r) /\ r.current_limit_detected = TRUE
               /\ SameSource(r, c) /\ SameLink(r, c) /\ r.fast_current = c.fast_current
<1>1. PICK r, t : r = LimitFound(c) /\ t = [c EXCEPT !.current_limit_detected = TRUE]
  OBVIOUS
<1>2. c \in ChargerData
  BY DEF Sound
<1>3. /\ t \in ChargerData /\ t.vchg_monitor_enabled = c.vchg_monitor_enabled
      /\ t.current_limit_detected = TRUE /\ t.read = c.read
      /\ SameSource(t, c) /\ SameLink(t, c) /\ t.fast_current = c.fast_current
      /\ t.re_enable = c.re_enable /\ t.misconfigured = c.misconfigured
      /\ t.is_enabled = c.is_enabled /\ t.disable_reason = c.disable_reason
  BY <1>1, <1>2 DEF ChargerData, SameSource, SameLink
<1>4. r = [t EXCEPT !.vchg_monitor_enabled = FALSE, !.measurement = 0]
  BY <1>1, <1>3 DEF LimitFound, Charger_VChgMonitorStop
<1>5. /\ r \in ChargerData /\ Unprobed(r, t)
      /\ r.vchg_monitor_enabled = FALSE /\ r.measurement = 0 /\ r.read = t.read
  BY <1>3, <1>4 DEF ChargerData, Unprobed, SameSource, SameLink
<1>6. /\ SameSource(r, c) /\ SameLink(r, c) /\ r.fast_current = c.fast_current
      /\ r.current_limit_detected = TRUE /\ r.disable_reason = c.disable_reason
  BY <1>3, <1>5 DEF Unprobed, SameSource, SameLink
<1>7. Sound(r)
  BY <1>3, <1>5 DEF Sound, EnabledMatches, Unprobed
<1>8. LimitOk(r)
  BY <1>6 DEF LimitOk, Limiting, SameSource
<1>9. LinkOk(r) /\ LedsOk(r) /\ ConnectionKnown(r)
  BY <1>6 DEF LinkOk, LedsOk, ConnectionKnown, SameSource, SameLink
<1>10. Reading(r)
  BY <1>3, <1>5, <1>6, <1>7, <1>8, <1>9 DEF Reading
<1> QED  BY <1>1, <1>6, <1>10

\* Another limit on the grid, within what the charger offers, while probing.
LEMMA StepFacts ==
    ASSUME NEW c, NEW e, NEW limit \in Nat, e.region \in Nat, Reading(c),
           c.vchg_monitor_enabled, OnTheGrid(limit), limit >= DCPMinCurrent,
           limit <= Configs[c.charger_config].current
    PROVE  LET r == Charger_UpdateCurrent([c EXCEPT !.current_limit = limit], e)
           IN  Reading(r) /\ Allowed(r, e.region) /\ Unmoved(r, c)
<1>1. PICK t : t = [c EXCEPT !.current_limit = limit]
  OBVIOUS
<1>2. c \in ChargerData
  BY DEF Reading, Sound
<1>3. /\ t \in ChargerData /\ SameProbe(t, c) /\ SameLink(t, c)
      /\ t.charger_config = c.charger_config /\ t.usb_suspend = c.usb_suspend
      /\ t.current_limit = limit /\ t.fast_current = c.fast_current
      /\ t.re_enable = c.re_enable /\ t.misconfigured = c.misconfigured
      /\ t.is_enabled = c.is_enabled /\ t.disable_reason = c.disable_reason
  BY <1>1, <1>2 DEF ChargerData, SameProbe, SameLink
<1>4. Sound(t)
  BY <1>3 DEF Reading, Sound, EnabledMatches
<1>5. LimitOk(t)
  BY <1>3 DEF LimitOk
<1>6. LinkOk(t) /\ LedsOk(t) /\ ConnectionKnown(t)
  BY <1>3 DEF Reading, LinkOk, LedsOk, ConnectionKnown, SameLink
<1>7. Reading(t) /\ t.vchg_monitor_enabled
  BY <1>3, <1>4, <1>5, <1>6 DEF Reading, Limiting, SameProbe
<1>8. PICK r : r = Charger_UpdateCurrent(t, e)
  OBVIOUS
<1>9. Reading(r) /\ Allowed(r, e.region) /\ Unmoved(r, t)
  BY <1>7, <1>8, QuietUpdate
<1>10. Unmoved(r, c)
  BY <1>3, <1>9 DEF Unmoved, SameLink
<1> QED  BY <1>1, <1>8, <1>9, <1>10

\* The charger delivers: a step up, unless probing has to stop.
LEMMA IncreaseFacts ==
    ASSUME NEW c, NEW e, e.region \in Nat, Reading(c), Allowed(c, e.region),
           c.vchg_monitor_enabled
    PROVE  LET r == IncreaseLimit(c, e)
           IN  Reading(r) /\ Allowed(r, e.region) /\ Unmoved(r, c)
<1>1. PICK r, limit : r = IncreaseLimit(c, e) /\ limit = c.current_limit + VchgStep
  OBVIOUS
<1>2. /\ c \in ChargerData /\ c.current_limit \in Nat /\ VchgStep \in Nat
      /\ DCPMinCurrent \in Nat
  BY ChargerAssumption DEF Reading, Sound, ChargerData
<1>3. /\ Limiting(c) /\ c.current_limit >= DCPMinCurrent
      /\ c.current_limit <= Configs[c.charger_config].current
      /\ OnTheGrid(c.current_limit)
  BY DEF Reading, LimitOk
<1>4. CASE c.current_limit > c.fast_current
  <2>1. r = [c EXCEPT !.vchg_monitor_enabled = FALSE, !.measurement = 0]
    BY <1>1, <1>4 DEF IncreaseLimit, Charger_VChgMonitorStop
  <2>2. /\ r \in ChargerData /\ Unprobed(r, c)
        /\ r.vchg_monitor_enabled = FALSE /\ r.measurement = 0 /\ r.read = c.read
    BY <1>2, <2>1 DEF ChargerData, Unprobed, SameSource, SameLink
  <2>3. Sound(r)
    BY <2>2, UnprobedSound DEF Reading
  <2>4. LimitOk(r)
    BY <2>2 DEF Reading, LimitOk, Limiting, Unprobed, SameSource
  <2>5. LinkOk(r) /\ LedsOk(r) /\ ConnectionKnown(r) /\ Unmoved(r, c)
    BY <2>2
    DEF Reading, LinkOk, LedsOk, ConnectionKnown, Unmoved, Unprobed, SameSource, SameLink
  <2>6. r.fast_current = c.fast_current /\ r.current_limit = c.current_limit
    BY <2>2 DEF Unprobed, SameSource
  <2>7. r.fast_current # r.current_limit
    <3>1. c.fast_current \in Nat
      BY <1>2 DEF ChargerData
    <3> QED  BY <1>2, <1>4, <2>6, <3>1
  <2>8. Reading(r)
    BY <2>2, <2>3, <2>4, <2>5, <2>7 DEF Reading
  <2>9. Allowed(r, e.region)
    BY <2>2, AllowedSame DEF Allowed, Unprobed
  <2> QED  BY <1>1, <2>5, <2>8, <2>9
<1>5. CASE ~(c.current_limit > c.fast_current) /\ limit > Configs[c.charger_config].current
  <2>1. r = LimitFound(c)
    BY <1>1, <1>5 DEF IncreaseLimit
  <2>2. /\ Reading(r) /\ SameSource(r, c) /\ SameLink(r, c)
        /\ r.fast_current = c.fast_current
    BY <1>3, <2>1, LimitFoundFacts DEF Reading
  <2>3. Allowed(r, e.region)
    BY <2>2, AllowedSame DEF Allowed
  <2>4. Unmoved(r, c)
    BY <2>2 DEF Unmoved, SameSource, SameLink
  <2> QED  BY <1>1, <2>2, <2>3, <2>4
<1>6. CASE ~(c.current_limit > c.fast_current) /\ ~(limit > Configs[c.charger_config].current)
  <2>1. limit \in Nat /\ limit >= DCPMinCurrent
    BY <1>1, <1>2, <1>3
  <2>2. c.charger_config \in ConfigNames
    BY <1>2 DEF ChargerData
  <2>3. limit <= Configs[c.charger_config].current
    BY <1>6, <2>1, <2>2, ConfigFacts
  <2>4. OnTheGrid(limit)
    <3>1. PICK k \in Nat : c.current_limit = DCPMinCurrent + k * VchgStep
      BY <1>3 DEF OnTheGrid
    <3>2. (k + 1) * VchgStep = k * VchgStep + VchgStep
      BY <1>2, <3>1
    <3>3. k * VchgStep \in Nat
      BY <1>2, <3>1
    <3>4. k + 1 \in Nat /\ limit = DCPMinCurrent + (k + 1) * VchgStep
      BY <1>1, <1>2, <3>1, <3>2, <3>3
    <3> QED  BY <3>4 DEF OnTheGrid
  <2>5. r = Charger_UpdateCurrent([c EXCEPT !.current_limit = limit], e)
    BY <1>1, <1>2, <1>6 DEF IncreaseLimit, ChargerData
  <2> QED  BY <1>1, <2>1, <2>3, <2>4, <2>5, StepFacts
<1> QED  BY <1>4, <1>5, <1>6

\* It does not: a step down, unless the voltage is back or there is none.
LEMMA DecreaseFacts ==
    ASSUME NEW c, NEW e, NEW vchg, e.region \in Nat, Reading(c), Allowed(c, e.region),
           c.vchg_monitor_enabled
    PROVE  LET r == DecreaseLimit(c, vchg, e)
           IN  Reading(r) /\ Allowed(r, e.region) /\ Unmoved(r, c)
<1>1. PICK r, limit : r = DecreaseLimit(c, vchg, e) /\ limit = c.current_limit - VchgStep
  OBVIOUS
<1>2. /\ c \in ChargerData /\ c.current_limit \in Nat /\ VchgStep \in Nat
      /\ DCPMinCurrent \in Nat
  BY ChargerAssumption DEF Reading, Sound, ChargerData
<1>3. /\ Limiting(c) /\ c.current_limit >= DCPMinCurrent
      /\ c.current_limit <= Configs[c.charger_config].current
      /\ OnTheGrid(c.current_limit)
  BY DEF Reading, LimitOk
<1>4. CASE vchg = "good" \/ c.current_limit = DCPMinCurrent
  <2>1. r = LimitFound(c)
    BY <1>1, <1>4 DEF DecreaseLimit
  <2>2. /\ Reading(r) /\ SameSource(r, c) /\ SameLink(r, c)
        /\ r.fast_current = c.fast_current
    BY <1>3, <2>1, LimitFoundFacts DEF Reading
  <2>3. Allowed(r, e.region)
    BY <2>2, AllowedSame DEF Allowed
  <2>4. Unmoved(r, c)
    BY <2>2 DEF Unmoved, SameSource, SameLink
  <2> QED  BY <1>1, <2>2, <2>3, <2>4
<1>5. CASE ~(vchg = "good" \/ c.current_limit = DCPMinCurrent)
  <2>1. PICK k \in Nat : c.current_limit = DCPMinCurrent + k * VchgStep
    BY <1>3 DEF OnTheGrid
  <2>2. k # 0
    <3>1. 0 * VchgStep = 0
      BY <1>2
    <3> QED  BY <1>2, <1>5, <2>1, <3>1
  <2>3. k - 1 \in Nat /\ (k - 1) * VchgStep = k * VchgStep - VchgStep
    BY <1>2, <2>1, <2>2
  <2>4. (k - 1) * VchgStep \in Nat /\ k * VchgStep \in Nat
    BY <1>2, <2>1, <2>3
  <2>5. limit = DCPMinCurrent + (k - 1) * VchgStep
    BY <1>1, <1>2, <2>1, <2>3, <2>4
  <2>6. OnTheGrid(limit)
    BY <2>3, <2>5 DEF OnTheGrid
  <2>7. limit \in Nat /\ limit >= DCPMinCurrent /\ limit <= c.current_limit
    BY <1>1, <1>2, <2>4, <2>5
  <2>8. Configs[c.charger_config].current \in Nat
    BY <1>2, ConfigFacts DEF ChargerData
  <2>9. limit <= Configs[c.charger_config].current
    BY <1>2, <1>3, <2>7, <2>8
  <2>10. r = Charger_UpdateCurrent([c EXCEPT !.current_limit = limit], e)
    BY <1>1, <1>2, <1>5 DEF DecreaseLimit, ChargerData
  <2> QED  BY <1>1, <2>6, <2>7, <2>9, <2>10, StepFacts
<1> QED  BY <1>4, <1>5

(***************************************************************************)
(* ChargerDetect_VchgReading.  A charger that gives less than nine tenths  *)
(* of what was asked for has told its limit, which is below the current in *)
(* force and so within what the charger offers.                            *)
(***************************************************************************)
LEMMA VchgReadingFacts ==
    ASSUME NEW c, NEW e, NEW vchg, NEW current \in Nat, e.region \in Nat,
           Reading(c), Allowed(c, e.region), c.vchg_monitor_enabled
    PROVE  LET r == ChargerDetect_VchgReading(c, vchg, current, e)
           IN  Reading(r) /\ Allowed(r, e.region) /\ Unmoved(r, c)
<1>1. PICK r : r = ChargerDetect_VchgReading(c, vchg, current, e)
  OBVIOUS
<1>2. c \in ChargerData
  BY DEF Reading, Sound
<1>3. /\ c \in ChargerData /\ c.fast_current \in Nat /\ c.charger_config \in ConfigNames
      /\ Limiting(c) /\ DCPMinCurrent \in Nat /\ DCPMinCurrent <= 1500
  BY ChargerAssumption DEF Reading, Sound, ChargerData
<1>4. CASE current < (c.fast_current * 9) \div 10
  <2>1. PICK n : n = Max2(current, DCPMinCurrent)
    OBVIOUS
  <2>2. PICK t : t = [c EXCEPT !.current_limit = n]
    OBVIOUS
  <2>3. PICK s : s = LimitFound(t)
    OBVIOUS
  <2>4. r = Charger_UpdateCurrent(s, e)
    BY <1>1, <1>4, <2>1, <2>2, <2>3 DEF ChargerDetect_VchgReading
  <2>5. n \in Nat /\ n >= DCPMinCurrent /\ n \in {current, DCPMinCurrent}
    BY <1>3, <2>1 DEF Max2
  <2>6. Configs[c.charger_config].current = 1500
    BY <1>3, ConfigFacts DEF Limiting
  <2>7. c.fast_current <= 1500
    BY <1>3, <2>6, AllowedFacts DEF Allowed
  <2>8. current <= c.fast_current
    BY <1>3, <1>4
  <2>9. n <= Configs[c.charger_config].current
    BY <1>3, <2>5, <2>6, <2>7, <2>8
  <2>10. n \in Nat
    BY <2>5
  <2>11. /\ t \in ChargerData /\ SameProbe(t, c) /\ SameLink(t, c)
         /\ t.charger_config = c.charger_config /\ t.usb_suspend = c.usb_suspend
         /\ t.current_limit = n /\ t.fast_current = c.fast_current
         /\ t.re_enable = c.re_enable /\ t.misconfigured = c.misconfigured
         /\ t.is_enabled = c.is_enabled /\ t.disable_reason = c.disable_reason
    BY <1>2, <2>2, <2>10 DEF ChargerData, SameProbe, SameLink
  <2>12. Sound(t)
    BY <2>11 DEF Reading, Sound, EnabledMatches
  <2>13. LinkOk(t) /\ LedsOk(t) /\ ConnectionKnown(t)
    BY <2>11 DEF Reading, LinkOk, LedsOk, ConnectionKnown, SameLink
  <2>14. t.read = "none" /\ t.vchg_monitor_enabled
    BY <2>11 DEF Reading, SameProbe
  <2>15. /\ t.current_limit >= DCPMinCurrent
         /\ t.current_limit <= Configs[t.charger_config].current
    BY <2>5, <2>9, <2>11
  <2>16. /\ Reading(s) /\ s.current_limit_detected = TRUE
         /\ SameSource(s, t) /\ SameLink(s, t)
    BY <2>3, <2>12, <2>13, <2>14, <2>15, LimitFoundFacts
  <2>17. Reading(r) /\ Allowed(r, e.region) /\ Unmoved(r, s)
    BY <2>4, <2>16, QuietUpdate
  <2>18. Unmoved(r, c)
    BY <2>11, <2>16, <2>17 DEF Unmoved, SameSource, SameLink
  <2> QED  BY <1>1, <2>17, <2>18
<1>5. CASE ~(current < (c.fast_current * 9) \div 10) /\ c.current_increasing /\ vchg # "low"
  <2>1. r = IncreaseLimit(c, e)
    BY <1>1, <1>5 DEF ChargerDetect_VchgReading
  <2> QED  BY <1>1, <2>1, IncreaseFacts
<1>6. CASE ~(current < (c.fast_current * 9) \div 10) /\ ~(c.current_increasing /\ vchg # "low")
  <2>1. PICK t : t = [c EXCEPT !.current_increasing = FALSE]
    OBVIOUS
  <2>2. r = DecreaseLimit(t, vchg, e)
    BY <1>1, <1>6, <2>1 DEF ChargerDetect_VchgReading
  <2>3. /\ t \in ChargerData /\ Kept(t, c)
        /\ t.usb_leds_forced_off = c.usb_leds_forced_off
        /\ t.power_source_vbat = c.power_source_vbat
    BY <1>2, <2>1 DEF ChargerData, Kept, SameSource, SameProbe
  <2>4. Reading(t) /\ t.vchg_monitor_enabled /\ Allowed(t, e.region) /\ Unmoved(t, c)
    <3>1. LedsOk(t)
      BY <2>3 DEF Reading, LedsOk, Kept, SameSource
    <3>2. /\ Sound(t) /\ LimitOk(t) /\ LinkOk(t) /\ ConnectionKnown(t)
          /\ Allowed(t, e.region)
      BY <2>3, KeptFacts DEF Reading
    <3>3. Reading(t) /\ t.vchg_monitor_enabled
      BY <2>3, <3>1, <3>2 DEF Reading, Kept, Limiting, SameSource, SameProbe
    <3>4. Unmoved(t, c)
      BY <2>3 DEF Unmoved, Kept, SameSource
    <3> QED  BY <3>2, <3>3, <3>4
  <2>5. Reading(r) /\ Allowed(r, e.region) /\ Unmoved(r, t)
    BY <2>2, <2>4, DecreaseFacts
  <2>6. Unmoved(r, c)
    BY <2>4, <2>5 DEF Unmoved
  <2> QED  BY <1>1, <2>5, <2>6
<1> QED  BY <1>4, <1>5, <1>6

\* MESSAGE_ADC_RESULT.
LEMMA MonitorReadingFacts ==
    ASSUME NEW c, NEW e, NEW vchg, NEW drawn \in Nat, e.region \in Nat,
           Consistent(c, e.region), c.read # "none"
    PROVE  LET r == Charger_VChgMonitorReading(c, drawn, vchg, e)
           IN  Consistent(r, e.region) /\ Unmoved(r, c)
<1>1. PICK r, a, m : /\ r = Charger_VChgMonitorReading(c, drawn, vchg, e)
                     /\ a = [c EXCEPT !.read = "none"]
                     /\ m = c.measurement + 1
  OBVIOUS
<1>2. /\ c \in ChargerData /\ c.measurement \in Nat /\ ChainsOk(c)
      /\ c.vchg_monitor_enabled \in BOOLEAN /\ c.read \in {"vref", "chg_mon", "vchg"}
  BY DEF Consistent, Sound, ProbeOk, ChargerData
<1>3. m \in Nat
  BY <1>1, <1>2
<1>4. /\ a \in ChargerData /\ Unprobed(a, c) /\ a.read = "none"
      /\ a.vchg_monitor_enabled = c.vchg_monitor_enabled /\ a.measurement = c.measurement
      /\ a.chg_mon_reading = c.chg_mon_reading
  BY <1>1, <1>2 DEF ChargerData, Unprobed, SameSource, SameLink
<1>5. CASE c.read \in {"chg_mon", "vchg"} /\ ~c.vchg_monitor_enabled
  <2>1. r = a
    BY <1>1, <1>5 DEF Charger_VChgMonitorReading
  <2>2. ChainsOk(a)
    BY <1>2, <1>4, <1>5 DEF ChainsOk, Chains
  <2> QED  BY <1>1, <1>4, <2>1, <2>2, ProbedFacts
<1>6. CASE c.read = "vref" \/ (c.read = "chg_mon" /\ c.vchg_monitor_enabled)
  <2>1. /\ r \in ChargerData /\ Unprobed(r, a) /\ r.read = "none" /\ r.measurement = m
        /\ r.vchg_monitor_enabled = a.vchg_monitor_enabled
    <3>1. CASE c.read = "vref"
      <4>1. r = [a EXCEPT !.vref_known = TRUE, !.measurement = m]
        BY <1>1, <1>4, <3>1 DEF Charger_VChgMonitorReading, ChargerData
      <4> QED  BY <1>3, <1>4, <4>1 DEF ChargerData, Unprobed, SameSource, SameLink
    <3>2. CASE c.read = "chg_mon" /\ c.vchg_monitor_enabled
      <4>1. r = [a EXCEPT !.chg_mon_reading = drawn, !.measurement = m]
        BY <1>1, <1>4, <3>2 DEF Charger_VChgMonitorReading, ChargerData
      <4> QED  BY <1>3, <1>4, <4>1 DEF ChargerData, Unprobed, SameSource, SameLink
    <3> QED  BY <1>6, <3>1, <3>2
  <2>2. Unprobed(r, c) /\ r.vchg_monitor_enabled = c.vchg_monitor_enabled
    BY <1>4, <2>1 DEF Unprobed, SameSource, SameLink
  <2>3. Chains(r) = m /\ Chains(c) = m
    BY <1>1, <1>2, <1>3, <1>6, <2>1 DEF Chains
  <2>4. ChainsOk(r)
    BY <1>2, <1>3, <2>2, <2>3 DEF ChainsOk
  <2> QED  BY <1>1, <2>1, <2>2, <2>4, ProbedFacts
<1>7. CASE c.read = "vchg" /\ c.vchg_monitor_enabled
  <2>1. PICK s : s = ChargerDetect_VchgReading(a, vchg, a.chg_mon_reading, e)
    OBVIOUS
  <2>2. PICK n, k : n = CHG_MON_REQUEST_READING /\ k = s.measurement + 1
    OBVIOUS
  <2>3. Reading(a)
    <3>1. Sound(a)
      BY <1>4, UnprobedSound DEF Consistent
    <3>2. LimitOk(a)
      BY <1>4 DEF Consistent, LimitOk, Limiting, Unprobed, SameSource
    <3>3. LinkOk(a) /\ LedsOk(a) /\ ConnectionKnown(a)
      BY <1>4 DEF Consistent, LinkOk, LedsOk, ConnectionKnown, Unprobed, SameSource, SameLink
    <3>4. Chains(c) = m /\ Chains(c) <= 2
      BY <1>1, <1>2, <1>7 DEF Chains, ChainsOk
    <3>5. a.measurement <= 1
      BY <1>1, <1>2, <1>4, <3>4
    <3>6. Limiting(a) /\ ~a.current_limit_detected
      BY <1>4, <1>7 DEF Consistent, ProbeOk, Limiting, Unprobed, SameSource
    <3> QED  BY <1>4, <1>7, <3>1, <3>2, <3>3, <3>5, <3>6 DEF Reading
  <2>4. Allowed(a, e.region) /\ a.vchg_monitor_enabled /\ a.chg_mon_reading \in Nat
    BY <1>4, <1>7, AllowedSame DEF Consistent, Allowed, Unprobed, ChargerData
  <2>5. Reading(s) /\ Allowed(s, e.region) /\ Unmoved(s, a)
    BY <2>1, <2>3, <2>4, VchgReadingFacts
  <2>6. s \in ChargerData /\ s.measurement \in Nat /\ k \in Nat /\ n \in Nat
    BY <2>2, <2>5 DEF Reading, Sound, ChargerData, CHG_MON_REQUEST_READING
  <2>7. r = [s EXCEPT !.chg_mon_reading = n, !.measurement = k]
    BY <1>1, <1>7, <2>1, <2>2, <2>6 DEF Charger_VChgMonitorReading, ChargerData
  <2>8. /\ r \in ChargerData /\ Unprobed(r, s) /\ r.read = s.read /\ r.measurement = k
        /\ r.vchg_monitor_enabled = s.vchg_monitor_enabled
    BY <2>6, <2>7 DEF ChargerData, Unprobed, SameSource, SameLink
  <2>9. Sound(r)
    BY <2>5, <2>8, UnprobedSound DEF Reading
  <2>10. ChainsOk(r)
    <3>1. Chains(r) = s.measurement + 1
      BY <2>2, <2>5, <2>6, <2>8 DEF Chains, Reading
    <3>2. s.measurement <= IF s.vchg_monitor_enabled THEN 1 ELSE 0
      BY <2>5 DEF Reading
    <3> QED  BY <2>6, <2>8, <3>1, <3>2 DEF ChainsOk
  <2>11. ProbeOk(r)
    BY <2>5, <2>8, <2>10 DEF Reading, ProbeOk, Limiting, Unprobed, SameSource
  <2>12. LimitOk(r)
    BY <2>5, <2>8 DEF Reading, LimitOk, Limiting, Unprobed, SameSource
  <2>13. LinkOk(r) /\ LedsOk(r) /\ ConnectionKnown(r)
    BY <2>5, <2>8 DEF Reading, LinkOk, LedsOk, ConnectionKnown, Unprobed, SameSource, SameLink
  <2>14. Allowed(r, e.region)
    BY <2>5, <2>8, AllowedSame DEF Allowed, Unprobed
  <2>15. Unmoved(r, c)
    BY <1>4, <2>5, <2>8 DEF Unmoved, Unprobed, SameSource, SameLink
  <2> QED  BY <1>1, <2>9, <2>11, <2>12, <2>13, <2>14, <2>15 DEF Consistent
<1>8. \/ c.read \in {"chg_mon", "vchg"} /\ ~c.vchg_monitor_enabled
      \/ c.read = "vref" \/ (c.read = "chg_mon" /\ c.vchg_monitor_enabled)
      \/ c.read = "vchg" /\ c.vchg_monitor_enabled
  BY <1>2
<1> QED  BY <1>5, <1>6, <1>7, <1>8

-----------------------------------------------------------------------------
(* The messages of the firmware *)

\* What a message says of the connection.
Tells(m) ==
    IF m.id = "CHANGED" THEN m.connected ELSE m.msg.attached_status # "DETACHED"

\* The connection as it is known when the first n messages have been handled.
KnownAfter(n, q, c) == IF n = 0 THEN c.is_connected = 1 ELSE Tells(q[n])

(***************************************************************************)
(* The last message tells the truth about the socket; a detection agrees   *)
(* with what is known before it; and a socket whose charger has not been   *)
(* detected since the last change is about to be, or is, treated as such.  *)
(***************************************************************************)
SocketOk(c, v) ==
    /\ KnownAfter(Len(v.firmware), v.firmware, c) <=> v.plugged
    /\ \A n \in 1 .. Len(v.firmware) :
          v.firmware[n].id = "DETECTED"
             => (Tells(v.firmware[n]) <=> KnownAfter(n - 1, v.firmware, c))
    /\ ~v.detected =>
          IF Len(v.firmware) = 0
          THEN c.charger_config = IF v.plugged THEN "safe" ELSE "detached"
          ELSE v.firmware[Len(v.firmware)].id = "CHANGED"

(***************************************************************************)
(* The last USB message that has to do with suspension tells whether the   *)
(* host is suspended; when none is left, the monitor knows.                *)
(***************************************************************************)
UsbOk(c, v) ==
    /\ (\A n \in 1 .. Len(v.usb) : v.usb[n] = "ENUMERATED")
          => (c.usb_suspend <=> v.suspended)
    /\ \A n \in 1 .. Len(v.usb) :
          /\ v.usb[n] # "ENUMERATED"
          /\ \A m \in n + 1 .. Len(v.usb) : v.usb[m] = "ENUMERATED"
          => (v.usb[n] = "SUSPEND" <=> v.suspended)

\* The environment's fields.
LEMMA EnvironmentFacts ==
    ASSUME NEW v \in Environment
    PROVE  /\ v.plugged \in BOOLEAN /\ v.detected \in BOOLEAN /\ v.suspended \in BOOLEAN
           /\ v.firmware \in Seq(FirmwareMessages) /\ v.usb \in Seq(UsbEvents)
           /\ v.region \in RegionCurrents \cup {0} /\ v.region \in Nat
<1>1. /\ v.plugged \in BOOLEAN /\ v.detected \in BOOLEAN /\ v.suspended \in BOOLEAN
      /\ v.region \in RegionCurrents \cup {0}
  BY DEF Environment
<1>2. v.firmware \in Seq(FirmwareMessages) /\ v.usb \in Seq(UsbEvents)
  BY DEF Environment
<1>3. v.region \in Nat
  <2>1. PICK k : k = v.region
    OBVIOUS
  <2>2. k \in RegionCurrents \cup {0}
    BY <2>1 DEF Environment
  <2>3. RegionCurrents \subseteq Nat
    BY MonitorAssumption
  <2>4. k \in Nat
    BY <2>2, <2>3
  <2> QED  BY <2>1, <2>4
<1> QED  BY <1>1, <1>2, <1>3

\* The two messages of the firmware.
LEMMA MessageFacts ==
    ASSUME NEW m \in FirmwareMessages
    PROVE  /\ m.id \in {"CHANGED", "DETECTED"}
           /\ m.id = "CHANGED" => m.connected \in BOOLEAN
           /\ m.id = "DETECTED" => m.msg \in DetectedMessages
<1>1. Detached \in DetectedMessages
  BY DEF Detached, DetectedMessages, AttachedStatuses, Lines
<1>2. CASE m \in [id : {"CHANGED"}, connected : BOOLEAN]
  BY <1>2
<1>3. CASE m \in [id : {"DETECTED"}, msg : Chargers \cup {Detached}]
  BY <1>1, <1>3, MonitorAssumption
<1> QED  BY <1>2, <1>3 DEF FirmwareMessages

\* What both depend on.
LEMMA UnmovedKeeps ==
    ASSUME NEW c, NEW r, NEW v, Unmoved(r, c), SocketOk(c, v), UsbOk(c, v)
    PROVE  SocketOk(r, v) /\ UsbOk(r, v)
<1>1. SocketOk(r, v)
  BY DEF Unmoved, SocketOk, KnownAfter
<1>2. UsbOk(r, v)
  BY DEF Unmoved, UsbOk
<1> QED  BY <1>1, <1>2

\* A message of the firmware is handled.
LEMMA FirmwareFacts ==
    ASSUME NEW c, NEW e, NEW m \in FirmwareMessages, Consistent(c, e.region),
           e.region \in Nat, e.suspended \in BOOLEAN,
           m.id = "DETECTED" => (Tells(m) <=> c.is_connected = 1)
    PROVE  LET r == IF m.id = "CHANGED" THEN ChargerDetect_Changed(c, m.connected, e)
                    ELSE ChargerDetect_Detected(c, m.msg, e)
           IN  /\ Consistent(r, e.region)
               /\ r.is_connected = 1 <=> Tells(m)
               /\ m.id = "CHANGED" =>
                     r.charger_config = IF Tells(m) THEN "safe" ELSE "detached"
               /\ r.usb_suspend \in {c.usb_suspend, e.suspended}
               /\ TimeoutKept(r, c)
<1>1. PICK k, t : /\ k = IF m.id = "CHANGED" THEN IF m.connected THEN "safe" ELSE "detached"
                         ELSE ChargerDetect_GetConfig(m.msg)
                  /\ t = IF m.id = "CHANGED" THEN m.connected
                         ELSE m.msg.attached_status # "DETACHED"
  OBVIOUS
<1>2. PICK r : r = ChangeConfig(c, k, t, e)
  OBVIOUS
<1>3. t \in BOOLEAN /\ (t <=> Tells(m))
  BY <1>1, MessageFacts DEF Tells
<1>4. /\ k \in ConfigNames
      /\ k # "none" => (k = "detached" <=> ~t)
      /\ m.id = "CHANGED" => k = IF Tells(m) THEN "safe" ELSE "detached"
  <2>1. CASE m.id = "CHANGED"
    BY <1>1, <2>1, ChosenFacts DEF Tells
  <2>2. CASE m.id = "DETECTED"
    <3>1. m.msg \in DetectedMessages
      BY <2>2, MessageFacts
    <3>2. /\ ChargerDetect_GetConfig(m.msg) \in ConfigNames
          /\ ChargerDetect_GetConfig(m.msg) = "detached"
                <=> m.msg.attached_status = "DETACHED"
      BY <3>1, ChosenFacts
    <3> QED  BY <1>1, <2>2, <3>2
  <2> QED  BY <2>1, <2>2, MessageFacts
<1>5. (IF m.id = "CHANGED" THEN ChargerDetect_Changed(c, m.connected, e)
       ELSE ChargerDetect_Detected(c, m.msg, e)) = r
  <2>1. CASE m.id = "CHANGED"
    BY <1>1, <1>2, <2>1 DEF ChargerDetect_Changed
  <2>2. CASE m.id # "CHANGED"
    BY <1>1, <1>2, <2>2 DEF ChargerDetect_Detected
  <2> QED  BY <2>1, <2>2
<1>6. LinkOk(c) /\ Sound(c) /\ ChainsOk(c) /\ ConnectionKnown(c)
  BY DEF Consistent, ProbeOk
<1>7. CASE k \in {"none", c.charger_config}
  <2>1. r = c
    BY <1>2, <1>7 DEF ChangeConfig
  <2>2. c.is_connected = 1 <=> Tells(m)
    <3>1. CASE k = "none"
      <4>1. m.id = "DETECTED"
        BY <1>4, <3>1, MessageFacts
      <4> QED  BY <4>1
    <3>2. CASE k # "none"
      BY <1>3, <1>4, <1>6, <1>7, <3>2 DEF LinkOk
    <3> QED  BY <3>1, <3>2
  <2>3. m.id = "CHANGED" => c.charger_config = IF Tells(m) THEN "safe" ELSE "detached"
    BY <1>4, <1>7
  <2> QED  BY <1>5, <2>1, <2>2, <2>3 DEF TimeoutKept
<1>8. CASE k \notin {"none", c.charger_config}
  <2>1. /\ Consistent(r, e.region) /\ r.charger_config = k /\ r.usb_suspend = e.suspended
        /\ r.is_connected = (IF t THEN 1 ELSE 0) /\ TimeoutKept(r, c)
    BY <1>2, <1>3, <1>4, <1>6, <1>8, ChangeFacts
  <2> QED  BY <1>3, <1>4, <1>5, <2>1
<1> QED  BY <1>7, <1>8

\* The firmware queues a message: a change, or a detection that fits.
LEMMA FirmwareQueued ==
    ASSUME NEW c, NEW v \in Environment, NEW w, NEW m \in FirmwareMessages,
           SocketOk(c, v), w.firmware = Append(v.firmware, m),
           Tells(m) <=> w.plugged,
           m.id = "DETECTED" => (w.plugged <=> v.plugged) /\ w.detected
    PROVE  SocketOk(c, w)
<1>1. PICK q, n : q = v.firmware /\ n = Len(v.firmware)
  OBVIOUS
<1>2. q \in Seq(FirmwareMessages) /\ n \in Nat /\ n = Len(q)
  BY <1>1, EnvironmentFacts
<1>3. PICK p : p = w.firmware
  OBVIOUS
<1>4. /\ Len(p) = n + 1 /\ p[n + 1] = m
      /\ \A i \in 1 .. n : p[i] = q[i]
  BY <1>1, <1>2, <1>3, AppendProperties
<1>5. \A i \in 0 .. n : KnownAfter(i, p, c) <=> KnownAfter(i, q, c)
  BY <1>2, <1>4 DEF KnownAfter
<1>6. KnownAfter(n + 1, p, c) <=> w.plugged
  BY <1>2, <1>4 DEF KnownAfter
<1>7. ASSUME NEW i \in 1 .. n + 1, p[i].id = "DETECTED"
      PROVE  Tells(p[i]) <=> KnownAfter(i - 1, p, c)
  <2>1. CASE i \in 1 .. n
    <3>1. p[i] = q[i] /\ i - 1 \in 0 .. n
      BY <1>2, <1>4, <2>1
    <3>2. Tells(q[i]) <=> KnownAfter(i - 1, q, c)
      BY <1>1, <1>7, <2>1, <3>1 DEF SocketOk
    <3> QED  BY <1>5, <3>1, <3>2
  <2>2. CASE i = n + 1
    <3>1. p[i] = m /\ i - 1 = n /\ n \in 0 .. n
      BY <1>2, <1>4, <2>2
    <3>2. KnownAfter(n, q, c) <=> v.plugged
      BY <1>1 DEF SocketOk
    <3> QED  BY <1>5, <1>7, <3>1, <3>2
  <2> QED  BY <1>2, <2>1, <2>2
<1>8. ~w.detected => p[Len(p)].id = "CHANGED" /\ Len(p) # 0
  BY <1>2, <1>4, MessageFacts
<1> QED  BY <1>3, <1>4, <1>6, <1>7, <1>8 DEF SocketOk

\* A message of the firmware has been handled: the monitor knows what it told.
LEMMA FirmwareTaken ==
    ASSUME NEW c, NEW r, NEW v \in Environment, NEW w,
           SocketOk(c, v), v.firmware # <<>>, w.firmware = Tail(v.firmware),
           w.plugged = v.plugged, w.detected = v.detected,
           r.is_connected = 1 <=> Tells(Head(v.firmware)),
           Head(v.firmware).id = "CHANGED" =>
              r.charger_config = IF Tells(Head(v.firmware)) THEN "safe" ELSE "detached"
    PROVE  SocketOk(r, w)
<1>1. PICK q, p, n : q = v.firmware /\ p = w.firmware /\ n = Len(p)
  OBVIOUS
<1>2. q \in Seq(FirmwareMessages) /\ q # <<>>
  BY <1>1, EnvironmentFacts
<1>3. /\ n \in Nat /\ Len(q) = n + 1 /\ \A i \in 1 .. n : p[i] = q[i + 1]
      /\ Head(q) = q[1]
  <2>1. /\ p \in Seq(FirmwareMessages) /\ Len(p) = Len(q) - 1
        /\ \A i \in 1 .. Len(p) : p[i] = q[i + 1]
    BY <1>1, <1>2, HeadTailProperties
  <2>2. Len(q) \in Nat /\ n \in Nat
    BY <1>1, <1>2, <2>1
  <2>3. Len(q) = n + 1
    BY <1>1, <2>1, <2>2
  <2>4. Head(q) = q[1]
    BY <1>2
  <2> QED  BY <1>1, <2>1, <2>2, <2>3, <2>4
<1>4. \A i \in 0 .. n : KnownAfter(i, p, r) <=> KnownAfter(i + 1, q, c)
  <2>1. KnownAfter(0, p, r) <=> KnownAfter(1, q, c)
    BY <1>1, <1>3 DEF KnownAfter
  <2>2. ASSUME NEW i \in 1 .. n
        PROVE  KnownAfter(i, p, r) <=> KnownAfter(i + 1, q, c)
    BY <1>3 DEF KnownAfter
  <2> QED  BY <1>3, <2>1, <2>2
<1>5. KnownAfter(n, p, r) <=> w.plugged
  <2>1. KnownAfter(n + 1, q, c) <=> v.plugged
    BY <1>1, <1>3 DEF SocketOk
  <2>2. n \in 0 .. n
    BY <1>3
  <2> QED  BY <1>4, <2>1, <2>2
<1>6. ASSUME NEW i \in 1 .. n, p[i].id = "DETECTED"
      PROVE  Tells(p[i]) <=> KnownAfter(i - 1, p, r)
  <2>1. p[i] = q[i + 1] /\ i + 1 \in 1 .. Len(q) /\ i - 1 \in 0 .. n
    BY <1>3
  <2>2. Tells(q[i + 1]) <=> KnownAfter((i + 1) - 1, q, c)
    BY <1>1, <1>6, <2>1 DEF SocketOk
  <2>3. (i + 1) - 1 = (i - 1) + 1
    BY <1>3
  <2>4. KnownAfter(i - 1, p, r) <=> KnownAfter((i - 1) + 1, q, c)
    BY <1>4, <2>1
  <2> QED  BY <2>1, <2>2, <2>3, <2>4
<1>7. ASSUME ~w.detected
      PROVE  IF n = 0 THEN r.charger_config = IF w.plugged THEN "safe" ELSE "detached"
             ELSE p[n].id = "CHANGED"
  <2>1. q[n + 1].id = "CHANGED"
    BY <1>1, <1>3, <1>7 DEF SocketOk
  <2>2. CASE n = 0
    <3>1. Head(q).id = "CHANGED"
      BY <1>3, <2>1, <2>2
    <3>2. Tells(Head(q)) <=> w.plugged
      BY <1>1, <1>5, <2>2 DEF KnownAfter
    <3>3. r.charger_config = IF Tells(Head(q)) THEN "safe" ELSE "detached"
      BY <1>1, <3>1
    <3> QED  BY <2>2, <3>2, <3>3
  <2>3. CASE n # 0
    BY <1>3, <2>1, <2>3
  <2> QED  BY <2>2, <2>3
<1> QED  BY <1>1, <1>5, <1>6, <1>7 DEF SocketOk

-----------------------------------------------------------------------------
(* The messages of the USB device *)

\* The USB host does something.
LEMMA UsbQueued ==
    ASSUME NEW c, NEW v \in Environment, NEW w, NEW id \in UsbEvents,
           UsbOk(c, v), w.usb = Append(v.usb, id),
           w.suspended <=> (id = "SUSPEND" \/ (id = "ENUMERATED" /\ v.suspended))
    PROVE  UsbOk(c, w)
<1>1. PICK q, p, n : q = v.usb /\ p = w.usb /\ n = Len(q)
  OBVIOUS
<1>2. q \in Seq(UsbEvents) /\ n \in Nat
  BY <1>1, EnvironmentFacts
<1>3. /\ Len(p) = n + 1 /\ p[n + 1] = id
      /\ \A i \in 1 .. n : p[i] = q[i]
  BY <1>1, <1>2, AppendProperties
<1>4. ASSUME \A i \in 1 .. n + 1 : p[i] = "ENUMERATED"
      PROVE  c.usb_suspend <=> w.suspended
  <2>1. id = "ENUMERATED" /\ \A i \in 1 .. n : q[i] = "ENUMERATED"
    BY <1>2, <1>3, <1>4
  <2>2. c.usb_suspend <=> v.suspended
    BY <1>1, <2>1 DEF UsbOk
  <2> QED  BY <2>1, <2>2
<1>5. ASSUME NEW i \in 1 .. n + 1, p[i] # "ENUMERATED",
             \A j \in i + 1 .. n + 1 : p[j] = "ENUMERATED"
      PROVE  p[i] = "SUSPEND" <=> w.suspended
  <2>1. CASE i = n + 1
    BY <1>3, <1>5, <2>1
  <2>2. CASE i \in 1 .. n
    <3>1. n + 1 \in i + 1 .. n + 1
      BY <1>2, <2>2
    <3>2. id = "ENUMERATED"
      BY <1>3, <1>5, <3>1
    <3>3. p[i] = q[i]
      BY <1>3, <2>2
    <3>4. \A j \in i + 1 .. n : q[j] = "ENUMERATED"
      <4>1. SUFFICES ASSUME NEW j \in i + 1 .. n PROVE q[j] = "ENUMERATED"
        OBVIOUS
      <4>2. j \in i + 1 .. n + 1 /\ j \in 1 .. n
        BY <1>2, <2>2, <4>1
      <4> QED  BY <1>3, <1>5, <4>2
    <3>5. q[i] = "SUSPEND" <=> v.suspended
      BY <1>1, <1>5, <2>2, <3>3, <3>4 DEF UsbOk
    <3> QED  BY <3>2, <3>3, <3>5
  <2> QED  BY <1>2, <2>1, <2>2
<1> QED  BY <1>1, <1>3, <1>4, <1>5 DEF UsbOk

\* A USB message has been handled.
LEMMA UsbTaken ==
    ASSUME NEW c, NEW r, NEW v \in Environment, NEW w,
           UsbOk(c, v), v.usb # <<>>, w.usb = Tail(v.usb), w.suspended = v.suspended,
           r.usb_suspend <=> (\/ Head(v.usb) = "SUSPEND"
                              \/ (Head(v.usb) = "ENUMERATED" /\ c.usb_suspend))
    PROVE  UsbOk(r, w)
<1>1. PICK q, p, n : q = v.usb /\ p = w.usb /\ n = Len(p)
  OBVIOUS
<1>2. q \in Seq(UsbEvents) /\ q # <<>>
  BY <1>1, EnvironmentFacts
<1>3. /\ n \in Nat /\ Len(q) = n + 1 /\ \A i \in 1 .. n : p[i] = q[i + 1]
      /\ Head(q) = q[1]
  <2>1. /\ p \in Seq(UsbEvents) /\ Len(p) = Len(q) - 1
        /\ \A i \in 1 .. Len(p) : p[i] = q[i + 1]
    BY <1>1, <1>2, HeadTailProperties
  <2>2. Len(q) \in Nat /\ n \in Nat
    BY <1>1, <1>2, <2>1
  <2>3. Len(q) = n + 1
    BY <1>1, <2>1, <2>2
  <2>4. Head(q) = q[1]
    BY <1>2
  <2> QED  BY <1>1, <2>1, <2>2, <2>3, <2>4
<1>4. ASSUME NEW j \in 2 .. n + 1
      PROVE  j - 1 \in 1 .. n /\ q[j] = p[j - 1]
  <2>1. j - 1 \in 1 .. n /\ (j - 1) + 1 = j
    BY <1>3
  <2> QED  BY <1>3, <2>1
<1>5. ASSUME \A i \in 1 .. n : p[i] = "ENUMERATED"
      PROVE  r.usb_suspend <=> w.suspended
  <2>1. \A j \in 2 .. n + 1 : q[j] = "ENUMERATED"
    BY <1>4, <1>5
  <2>2. CASE q[1] = "ENUMERATED"
    <3>1. \A j \in 1 .. n + 1 : q[j] = "ENUMERATED"
      BY <1>3, <2>1, <2>2
    <3>2. c.usb_suspend <=> v.suspended
      BY <1>1, <1>3, <3>1 DEF UsbOk
    <3> QED  BY <1>1, <1>3, <2>2, <3>2
  <2>3. CASE q[1] # "ENUMERATED"
    <3>1. 1 \in 1 .. Len(q) /\ 1 + 1 = 2
      BY <1>3
    <3>2. q[1] = "SUSPEND" <=> v.suspended
      BY <1>1, <1>3, <2>1, <2>3, <3>1 DEF UsbOk
    <3> QED  BY <1>1, <1>3, <2>3, <3>2
  <2> QED  BY <2>2, <2>3
<1>6. ASSUME NEW i \in 1 .. n, p[i] # "ENUMERATED",
             \A j \in i + 1 .. n : p[j] = "ENUMERATED"
      PROVE  p[i] = "SUSPEND" <=> w.suspended
  <2>1. p[i] = q[i + 1] /\ i + 1 \in 1 .. Len(q)
    BY <1>3
  <2>2. \A j \in (i + 1) + 1 .. Len(q) : q[j] = "ENUMERATED"
    <3>1. SUFFICES ASSUME NEW j \in (i + 1) + 1 .. Len(q) PROVE q[j] = "ENUMERATED"
      OBVIOUS
    <3>2. j \in 2 .. n + 1 /\ j - 1 \in i + 1 .. n
      BY <1>3, <3>1
    <3> QED  BY <1>4, <1>6, <3>2
  <2>3. q[i + 1] = "SUSPEND" <=> v.suspended
    BY <1>1, <1>6, <2>1, <2>2 DEF UsbOk
  <2> QED  BY <2>1, <2>3
<1> QED  BY <1>1, <1>5, <1>6 DEF UsbOk

-----------------------------------------------------------------------------
(* The invariant *)

MonitorInv ==
    /\ env \in Environment
    /\ Consistent(ch, env.region)
    /\ SocketOk(ch, env) /\ UsbOk(ch, env)

\* What a handler reads.
LEMMA SeenFacts ==
    ASSUME NEW good
    PROVE  Seen(good).region = env.region /\ Seen(good).suspended = env.suspended
  BY DEF Seen

\* Charger_Init leaves the monitor consistent with the socket.
LEMMA MonitorInitial == Init => MonitorInv /\ "TIMEOUT" \notin ch.disable_reason
<1>1. SUFFICES ASSUME NEW plugged \in BOOLEAN,
                      env = [plugged |-> plugged, detected |-> FALSE, firmware |-> <<>>,
                             usb |-> <<>>, suspended |-> FALSE, region |-> 0],
                      ch = Handled(Charger_Init(plugged, Seen(TRUE)))
               PROVE  MonitorInv /\ "TIMEOUT" \notin ch.disable_reason
  BY DEF Init
<1>2. /\ env.plugged = plugged /\ env.detected = FALSE /\ env.firmware = <<>>
      /\ env.usb = <<>> /\ env.suspended = FALSE /\ env.region = 0
  BY <1>1
<1>3. env \in Environment
  BY <1>1 DEF Environment
<1>4. PICK e, c : e = Seen(TRUE) /\ c = Charger_Init(plugged, e)
  OBVIOUS
<1>5. e.region = 0 /\ e.suspended = FALSE
  BY <1>2, <1>4, SeenFacts
<1>6. e.region \in Nat /\ e.suspended \in BOOLEAN
  <2>1. e.region \in Nat
    BY <1>5
  <2>2. e.suspended \in BOOLEAN
    BY <1>5
  <2> QED  BY <2>1, <2>2
<1>7. /\ Consistent(c, e.region)
      /\ c.charger_config = IF plugged THEN "safe" ELSE "detached"
      /\ c.usb_suspend = e.suspended
      /\ c.is_connected = IF plugged THEN 1 ELSE 0
      /\ "TIMEOUT" \notin c.disable_reason
  BY <1>4, <1>6, InitFacts
<1>8. /\ Consistent(ch, env.region) /\ ch.charger_config = c.charger_config
      /\ ch.usb_suspend = c.usb_suspend /\ ch.is_connected = c.is_connected
      /\ ch.disable_reason = c.disable_reason
  <2>1. ch = Handled(c)
    BY <1>1, <1>4
  <2>2. /\ Consistent(ch, e.region) /\ ch.charger_config = c.charger_config
        /\ ch.usb_suspend = c.usb_suspend /\ ch.is_connected = c.is_connected
        /\ ch.disable_reason = c.disable_reason
    BY <1>7, <2>1, HandledFacts
  <2> QED  BY <1>2, <1>5, <2>2
<1>9. SocketOk(ch, env)
  <2>1. Len(env.firmware) = 0
    BY <1>2
  <2>2. ch.is_connected = 1 <=> env.plugged
    BY <1>2, <1>7, <1>8
  <2>3. ch.charger_config = IF env.plugged THEN "safe" ELSE "detached"
    BY <1>2, <1>7, <1>8
  <2> QED  BY <2>1, <2>2, <2>3 DEF SocketOk, KnownAfter
<1>10. UsbOk(ch, env)
  <2>1. Len(env.usb) = 0 /\ ch.usb_suspend = FALSE /\ env.suspended = FALSE
    BY <1>2, <1>5, <1>7, <1>8
  <2> QED  BY <2>1 DEF UsbOk
<1> QED  BY <1>3, <1>7, <1>8, <1>9, <1>10 DEF MonitorInv

\* The steps of the socket and of the USB host.
LEMMA EnvironmentSteps ==
    ASSUME MonitorInv, PlugChanges \/ ChargerIsDetected \/ UsbHostActs
    PROVE  MonitorInv'
<1>1. /\ env \in Environment /\ Consistent(ch, env.region)
      /\ SocketOk(ch, env) /\ UsbOk(ch, env)
  BY DEF MonitorInv
<1>2. ch' = ch
  BY DEF PlugChanges, ChargerIsDetected, UsbHostActs
<1>3. /\ env.plugged \in BOOLEAN /\ env.detected \in BOOLEAN /\ env.suspended \in BOOLEAN
      /\ env.firmware \in Seq(FirmwareMessages) /\ env.usb \in Seq(UsbEvents)
  BY <1>1, EnvironmentFacts
<1>4. SUFFICES /\ env' \in Environment /\ env'.region = env.region
               /\ SocketOk(ch, env') /\ UsbOk(ch, env')
  BY <1>1, <1>2 DEF MonitorInv
<1>5. CASE PlugChanges
  <2>1. PICK b : b = ~env.plugged
    OBVIOUS
  <2>2. b \in BOOLEAN
    BY <2>1
  <2>3. PICK m : m = [id |-> "CHANGED", connected |-> b]
    OBVIOUS
  <2>4. m \in FirmwareMessages /\ m.id = "CHANGED" /\ (Tells(m) <=> b)
    <3>1. m \in [id : {"CHANGED"}, connected : BOOLEAN]
      BY <2>2, <2>3
    <3> QED  BY <2>2, <2>3, <3>1 DEF FirmwareMessages, Tells
  <2>5. PICK q : q = Append(env.firmware, m)
    OBVIOUS
  <2>6. q \in Seq(FirmwareMessages)
    BY <1>3, <2>4, <2>5, AppendProperties
  <2>7. env' = [env EXCEPT !.plugged = b, !.detected = FALSE, !.firmware = q]
    BY <1>1, <1>5, <2>1, <2>3, <2>5 DEF PlugChanges, Environment
  <2>8. /\ env' \in Environment /\ env'.region = env.region /\ env'.usb = env.usb
        /\ env'.suspended = env.suspended /\ env'.firmware = q /\ env'.plugged = b
    BY <1>1, <2>2, <2>6, <2>7 DEF Environment
  <2>9. SocketOk(ch, env')
    BY <1>1, <2>4, <2>5, <2>8, FirmwareQueued
  <2>10. UsbOk(ch, env')
    BY <1>1, <2>8 DEF UsbOk
  <2> QED  BY <2>8, <2>9, <2>10
<1>6. CASE ChargerIsDetected
  <2>1. PICK msg \in (IF env.plugged THEN Chargers ELSE {Detached}) :
               env' = [env EXCEPT !.detected = TRUE,
                                  !.firmware = Append(@, [id |-> "DETECTED", msg |-> msg])]
    BY <1>6 DEF ChargerIsDetected
  <2>2. msg \in Chargers \cup {Detached} /\ (msg.attached_status # "DETACHED" <=> env.plugged)
    <3>1. CASE env.plugged
      BY <2>1, <3>1, MonitorAssumption
    <3>2. CASE ~env.plugged
      <4>1. msg = Detached
        BY <2>1, <3>2
      <4> QED  BY <3>2, <4>1 DEF Detached
    <3> QED  BY <3>1, <3>2
  <2>3. PICK m : m = [id |-> "DETECTED", msg |-> msg]
    OBVIOUS
  <2>4. m \in FirmwareMessages /\ m.id = "DETECTED" /\ (Tells(m) <=> env.plugged)
    <3>1. m \in [id : {"DETECTED"}, msg : Chargers \cup {Detached}]
      BY <2>2, <2>3
    <3>2. m.id = "DETECTED" /\ m.msg = msg
      BY <2>3
    <3> QED  BY <2>2, <3>1, <3>2 DEF FirmwareMessages, Tells
  <2>5. PICK q : q = Append(env.firmware, m)
    OBVIOUS
  <2>6. q \in Seq(FirmwareMessages)
    BY <1>3, <2>4, <2>5, AppendProperties
  <2>7. env' = [env EXCEPT !.detected = TRUE, !.firmware = q]
    BY <1>1, <2>1, <2>3, <2>5 DEF Environment
  <2>8. /\ env' \in Environment /\ env'.region = env.region /\ env'.usb = env.usb
        /\ env'.suspended = env.suspended /\ env'.firmware = q
        /\ env'.plugged = env.plugged /\ env'.detected = TRUE
    BY <1>1, <2>6, <2>7 DEF Environment
  <2>9. SocketOk(ch, env')
    BY <1>1, <2>4, <2>5, <2>8, FirmwareQueued
  <2>10. UsbOk(ch, env')
    BY <1>1, <2>8 DEF UsbOk
  <2> QED  BY <2>8, <2>9, <2>10
<1>7. CASE UsbHostActs
  <2>1. PICK id \in UsbEvents :
               env' = [env EXCEPT !.usb = Append(@, id),
                                  !.suspended = CASE id = "SUSPEND"    -> TRUE
                                                  [] id = "ENUMERATED" -> @
                                                  [] OTHER             -> FALSE]
    BY <1>7 DEF UsbHostActs
  <2>2. PICK q, s : /\ q = Append(env.usb, id)
                    /\ s = CASE id = "SUSPEND"    -> TRUE
                             [] id = "ENUMERATED" -> env.suspended
                             [] OTHER             -> FALSE
    OBVIOUS
  <2>3. q \in Seq(UsbEvents)
    BY <1>3, <2>2, AppendProperties
  <2>4. s \in BOOLEAN /\ (s <=> (id = "SUSPEND" \/ (id = "ENUMERATED" /\ env.suspended)))
    <3>1. CASE id = "SUSPEND"
      BY <2>2, <3>1
    <3>2. CASE id = "ENUMERATED"
      BY <1>3, <2>2, <3>2
    <3>3. CASE id # "SUSPEND" /\ id # "ENUMERATED"
      BY <2>2, <3>3
    <3> QED  BY <3>1, <3>2, <3>3
  <2>5. env' = [env EXCEPT !.usb = q, !.suspended = s]
    BY <1>1, <2>1, <2>2 DEF Environment
  <2>6. /\ env' \in Environment /\ env'.region = env.region /\ env'.usb = q
        /\ env'.suspended = s /\ env'.firmware = env.firmware
        /\ env'.plugged = env.plugged /\ env'.detected = env.detected
    BY <1>1, <2>3, <2>4, <2>5 DEF Environment
  <2>7. SocketOk(ch, env')
    BY <1>1, <2>6 DEF SocketOk
  <2>8. UsbOk(ch, env')
    BY <1>1, <2>2, <2>4, <2>6, UsbQueued
  <2> QED  BY <2>6, <2>7, <2>8
<1> QED  BY <1>5, <1>6, <1>7

\* The step of the firmware's messages.
LEMMA FirmwareStep ==
    ASSUME MonitorInv, HandleFirmwareMessage
    PROVE  MonitorInv' /\ TimeoutKept(ch', ch)
<1>1. /\ env \in Environment /\ Consistent(ch, env.region)
      /\ SocketOk(ch, env) /\ UsbOk(ch, env)
  BY DEF MonitorInv
<1>2. PICK good \in BOOLEAN :
         ch' = Handled(IF Head(env.firmware).id = "CHANGED"
                       THEN ChargerDetect_Changed(ch, Head(env.firmware).connected, Seen(good))
                       ELSE ChargerDetect_Detected(ch, Head(env.firmware).msg, Seen(good)))
  BY DEF HandleFirmwareMessage
<1>3. PICK m, e, p : m = Head(env.firmware) /\ e = Seen(good) /\ p = Tail(env.firmware)
  OBVIOUS
<1>4. env.firmware \in Seq(FirmwareMessages) /\ env.firmware # <<>>
  BY <1>1, EnvironmentFacts DEF HandleFirmwareMessage
<1>5. m \in FirmwareMessages /\ p \in Seq(FirmwareMessages)
  BY <1>3, <1>4, HeadTailProperties
<1>6. /\ e.region = env.region /\ e.suspended = env.suspended
      /\ e.region \in Nat /\ e.suspended \in BOOLEAN
  BY <1>1, <1>3, SeenFacts, EnvironmentFacts
<1>7. m.id = "DETECTED" => (Tells(m) <=> ch.is_connected = 1)
  <2>1. 1 \in 1 .. Len(env.firmware) /\ m = env.firmware[1] /\ 1 - 1 = 0
    BY <1>3, <1>4
  <2> QED  BY <1>1, <2>1 DEF SocketOk, KnownAfter
<1>8. PICK r : r = IF m.id = "CHANGED" THEN ChargerDetect_Changed(ch, m.connected, e)
                   ELSE ChargerDetect_Detected(ch, m.msg, e)
  OBVIOUS
<1>9. /\ Consistent(r, e.region)
      /\ r.is_connected = 1 <=> Tells(m)
      /\ m.id = "CHANGED" => r.charger_config = IF Tells(m) THEN "safe" ELSE "detached"
      /\ r.usb_suspend \in {ch.usb_suspend, e.suspended} /\ TimeoutKept(r, ch)
  BY <1>1, <1>5, <1>6, <1>7, <1>8, FirmwareFacts
<1>10. ch' = Handled(r)
  BY <1>2, <1>3, <1>8
<1>11. /\ Consistent(ch', e.region) /\ ch'.charger_config = r.charger_config
       /\ ch'.usb_suspend = r.usb_suspend /\ ch'.is_connected = r.is_connected
       /\ ch'.disable_reason = r.disable_reason
  BY <1>9, <1>10, HandledFacts
<1>12. env' = [env EXCEPT !.firmware = p]
  BY <1>1, <1>3 DEF HandleFirmwareMessage, Environment
<1>13. /\ env' \in Environment /\ env'.region = env.region /\ env'.usb = env.usb
       /\ env'.suspended = env.suspended /\ env'.firmware = p
       /\ env'.plugged = env.plugged /\ env'.detected = env.detected
  BY <1>1, <1>5, <1>12 DEF Environment
<1>14. SocketOk(ch', env')
  BY <1>1, <1>3, <1>4, <1>9, <1>11, <1>13, FirmwareTaken
<1>15. UsbOk(ch', env')
  BY <1>1, <1>6, <1>9, <1>11, <1>13 DEF UsbOk
<1>16. TimeoutKept(ch', ch)
  BY <1>9, <1>11 DEF TimeoutKept
<1> QED  BY <1>6, <1>11, <1>13, <1>14, <1>15, <1>16 DEF MonitorInv

\* The step of the USB device's messages.
LEMMA UsbStep ==
    ASSUME MonitorInv, HandleUsbMessage
    PROVE  MonitorInv'
<1>1. /\ env \in Environment /\ Consistent(ch, env.region)
      /\ SocketOk(ch, env) /\ UsbOk(ch, env)
  BY DEF MonitorInv
<1>2. PICK good \in BOOLEAN :
         ch' = Handled(ChargerDetect_UpdateUsbStatus(ch, Head(env.usb), Seen(good)))
  BY DEF HandleUsbMessage
<1>3. PICK id, e, p : id = Head(env.usb) /\ e = Seen(good) /\ p = Tail(env.usb)
  OBVIOUS
<1>4. env.usb \in Seq(UsbEvents) /\ env.usb # <<>>
  BY <1>1, EnvironmentFacts DEF HandleUsbMessage
<1>5. p \in Seq(UsbEvents)
  BY <1>3, <1>4, HeadTailProperties
<1>6. e.region = env.region /\ e.region \in Nat
  BY <1>1, <1>3, SeenFacts, EnvironmentFacts
<1>7. PICK r : r = ChargerDetect_UpdateUsbStatus(ch, id, e)
  OBVIOUS
<1>8. /\ Consistent(r, e.region)
      /\ r.charger_config = ch.charger_config /\ r.is_connected = ch.is_connected
      /\ r.usb_suspend <=> (id = "SUSPEND" \/ (id = "ENUMERATED" /\ ch.usb_suspend))
  BY <1>1, <1>6, <1>7, UsbFacts
<1>9. ch' = Handled(r)
  BY <1>2, <1>3, <1>7
<1>10. /\ Consistent(ch', e.region) /\ ch'.charger_config = r.charger_config
       /\ ch'.usb_suspend = r.usb_suspend /\ ch'.is_connected = r.is_connected
  BY <1>8, <1>9, HandledFacts
<1>11. env' = [env EXCEPT !.usb = p]
  BY <1>1, <1>3 DEF HandleUsbMessage, Environment
<1>12. /\ env' \in Environment /\ env'.region = env.region /\ env'.usb = p
       /\ env'.suspended = env.suspended /\ env'.firmware = env.firmware
       /\ env'.plugged = env.plugged /\ env'.detected = env.detected
  BY <1>1, <1>5, <1>11 DEF Environment
<1>13. SocketOk(ch', env')
  BY <1>1, <1>8, <1>10, <1>12 DEF SocketOk, KnownAfter
<1>14. UsbOk(ch', env')
  <2>1. ch'.usb_suspend <=> (\/ Head(env.usb) = "SUSPEND"
                             \/ (Head(env.usb) = "ENUMERATED" /\ ch.usb_suspend))
    BY <1>3, <1>8, <1>10
  <2> QED  BY <1>1, <1>3, <1>4, <1>12, <2>1, UsbTaken
<1> QED  BY <1>6, <1>10, <1>12, <1>13, <1>14 DEF MonitorInv

\* The battery region takes another row of its table.
LEMMA RegionStep ==
    ASSUME MonitorInv, RegionChanges
    PROVE  MonitorInv'
<1>1. /\ env \in Environment /\ Consistent(ch, env.region)
      /\ SocketOk(ch, env) /\ UsbOk(ch, env)
  BY DEF MonitorInv
<1>2. PICK current \in RegionCurrents :
         /\ env' = [env EXCEPT !.region = current]
         /\ ch' = Charger_UpdateCurrent(ch, [Seen(TRUE) EXCEPT !.region = current])
  BY DEF RegionChanges
<1>3. PICK e : e = [Seen(TRUE) EXCEPT !.region = current]
  OBVIOUS
<1>4. e.region = current /\ current \in Nat
  <2>1. e.region = current
    BY <1>3 DEF Seen
  <2>2. RegionCurrents \subseteq Nat
    BY MonitorAssumption
  <2> QED  BY <2>1, <2>2
<1>5. Consistent(ch', current) /\ Unmoved(ch', ch)
  BY <1>1, <1>2, <1>3, <1>4, UpdateConsistent DEF Consistent
<1>6. /\ env' \in Environment /\ env'.region = current /\ env'.usb = env.usb
      /\ env'.suspended = env.suspended /\ env'.firmware = env.firmware
      /\ env'.plugged = env.plugged /\ env'.detected = env.detected
  BY <1>1, <1>2 DEF Environment
<1>7. SocketOk(ch', env) /\ UsbOk(ch', env)
  BY <1>1, <1>5, UnmovedKeeps
<1>8. SocketOk(ch', env') /\ UsbOk(ch', env')
  BY <1>6, <1>7 DEF SocketOk, UsbOk
<1> QED  BY <1>5, <1>6, <1>8 DEF MonitorInv

\* Every step.
LEMMA MonitorStep == MonitorInv /\ [Next]_vars => MonitorInv'
<1>1. SUFFICES ASSUME MonitorInv, [Next]_vars
               PROVE  MonitorInv'
  OBVIOUS
<1>2. /\ env \in Environment /\ Consistent(ch, env.region)
      /\ SocketOk(ch, env) /\ UsbOk(ch, env) /\ env.region \in Nat
  BY <1>1, EnvironmentFacts DEF MonitorInv
<1>3. ASSUME env' = env, Consistent(ch', env.region), Unmoved(ch', ch)
      PROVE  MonitorInv'
  <2>1. SocketOk(ch', env) /\ UsbOk(ch', env)
    BY <1>2, <1>3, UnmovedKeeps
  <2> QED  BY <1>2, <1>3, <2>1 DEF MonitorInv
<1>4. PICK e : e = Seen(TRUE)
  OBVIOUS
<1>5. e.region = env.region /\ e.region \in Nat /\ Consistent(ch, e.region)
  BY <1>2, <1>4, SeenFacts
<1>6. CASE PlugChanges \/ ChargerIsDetected \/ UsbHostActs
  BY <1>1, <1>6, EnvironmentSteps
<1>7. CASE HandleFirmwareMessage
  BY <1>1, <1>7, FirmwareStep
<1>8. CASE HandleUsbMessage
  BY <1>1, <1>8, UsbStep
<1>9. CASE HandleStatus
  <2>1. PICK status \in StatusReports :
           ch' = Handled(Charger_StatusChanged(ch, status, Seen(TRUE)))
    BY <1>9 DEF HandleStatus
  <2>2. status \in Statuses
    BY <2>1, MonitorAssumption
  <2>3. PICK r : r = Charger_StatusChanged(ch, status, e)
    OBVIOUS
  <2>4. Consistent(r, e.region) /\ Unmoved(r, ch)
    BY <1>5, <2>2, <2>3, StatusFacts
  <2>5. ch' = Handled(r)
    BY <1>4, <2>1, <2>3
  <2>6. Consistent(ch', e.region) /\ Unmoved(ch', r)
    BY <2>4, <2>5, HandledFacts DEF Unmoved
  <2>7. Unmoved(ch', ch) /\ env' = env
    BY <1>9, <2>4, <2>6 DEF Unmoved, HandleStatus
  <2> QED  BY <1>3, <1>5, <2>6, <2>7
<1>10. CASE ReEnableTimeout
  <2>1. ch' = DisableReasonClear([ch EXCEPT !.re_enable = FALSE], "ERROR") /\ env' = env
    BY <1>10 DEF ReEnableTimeout
  <2>2. Consistent(ch', env.region) /\ Unmoved(ch', ch)
    BY <1>2, <2>1, ReEnableFacts
  <2> QED  BY <1>3, <2>1, <2>2
<1>11. CASE RegionChanges
  BY <1>1, <1>11, RegionStep
<1>12. CASE OthersDisable \/ OthersRestore
  <2>1. env' = env
    BY <1>12 DEF OthersDisable, OthersRestore
  <2>2. PICK reason \in OthersReasons : \/ ch' = DisableReasonAdd(ch, reason)
                                        \/ ch' = DisableReasonClear(ch, reason)
    BY <1>12 DEF OthersDisable, OthersRestore
  <2>3. reason \in {"TIMEOUT", "REQUEST"}
    BY <2>2, MonitorAssumption
  <2>4. Consistent(ch', env.region) /\ Unmoved(ch', ch)
    BY <1>2, <2>2, <2>3, OthersFacts
  <2> QED  BY <1>3, <2>1, <2>4
<1>13. CASE HeadsetSwitchesPio
  <2>1. PICK on \in BOOLEAN : ch' = [ch EXCEPT !.external_charging = on] /\ env' = env
    BY <1>13 DEF HeadsetSwitchesPio
  <2>2. ch \in ChargerData
    BY <1>2 DEF Consistent, Sound
  <2>3. /\ ch' \in ChargerData /\ Kept(ch', ch)
        /\ ch'.usb_leds_forced_off = ch.usb_leds_forced_off
        /\ ch'.power_source_vbat = ch.power_source_vbat
    BY <2>1, <2>2 DEF ChargerData, Kept, SameSource, SameProbe
  <2>4. LedsOk(ch')
    BY <1>2, <2>3 DEF Consistent, LedsOk, Kept, SameSource
  <2>5. Consistent(ch', env.region)
    BY <1>2, <2>3, <2>4, KeptFacts DEF Consistent
  <2>6. Unmoved(ch', ch)
    BY <2>3 DEF Unmoved, Kept, SameSource
  <2> QED  BY <1>3, <2>1, <2>5, <2>6
<1>14. CASE MeasurementRefused \/ MeasurementAccepted
  <2>1. /\ ch.measurement > 0 /\ env' = env
        /\ \E accepted \in BOOLEAN : ch' = Charger_VchgMonitorPeriodic(ch, accepted)
    BY <1>14 DEF MeasurementRefused, MeasurementAccepted
  <2>2. Consistent(ch', env.region) /\ Unmoved(ch', ch)
    BY <1>2, <2>1, PeriodicFacts
  <2> QED  BY <1>3, <2>1, <2>2
<1>15. CASE AdcResult
  <2>1. PICK drawn \in {ch.fast_current, (ch.fast_current * 3) \div 4},
             vchg \in {"low", "fair", "good"} :
           ch' = Charger_VChgMonitorReading(ch, drawn, vchg, Seen(TRUE))
    BY <1>15 DEF AdcResult
  <2>2. ch.read # "none" /\ env' = env
    BY <1>15 DEF AdcResult
  <2>3. drawn \in Nat
    <3>1. ch.fast_current \in Nat
      BY <1>2 DEF Consistent, Sound, ChargerData
    <3>2. (ch.fast_current * 3) \div 4 \in Nat
      BY <3>1
    <3> QED  BY <2>1, <3>1, <3>2
  <2>4. Consistent(ch', e.region) /\ Unmoved(ch', ch)
    BY <1>4, <1>5, <2>1, <2>2, <2>3, MonitorReadingFacts
  <2> QED  BY <1>3, <1>5, <2>2, <2>4
<1>16. CASE UNCHANGED vars
  <2>1. ch' = ch /\ env' = env
    BY <1>16 DEF vars
  <2> QED  BY <1>2, <1>3, <2>1 DEF Unmoved
<1> QED
  BY <1>1, <1>6, <1>7, <1>8, <1>9, <1>10, <1>11, <1>12, <1>13, <1>14, <1>15, <1>16
  DEF Next

-----------------------------------------------------------------------------
(* The theorems *)

\* The invariant holds in every reachable state.
THEOREM MonitorInvariant == Spec => []MonitorInv
  BY MonitorInitial, MonitorStep, PTL DEF Spec

(***************************************************************************)
(* The reasons say exactly why charging is off, no error lasts without the *)
(* timer that ends it, and the hardware is never reconfigured while it is  *)
(* enabled (chargerDisableReasonAdd and Clear, chargerSetFastCurrent,      *)
(* Charger_Error), for every charger and every order of the messages.      *)
(***************************************************************************)
THEOREM ChargerReasons == Spec => []ReasonsMatchState
<1>1. MonitorInv => ReasonsMatchState
  <2>1. SUFFICES ASSUME MonitorInv PROVE ReasonsMatchState
    OBVIOUS
  <2>2. env \in Environment /\ Sound(ch) /\ ConnectionKnown(ch)
    BY <2>1 DEF MonitorInv, Consistent
  <2> QED
    BY <2>2 DEF ReasonsMatchState, TypeOK, Sound, EnabledMatches, ConnectionKnown
<1> QED  BY <1>1, MonitorInvariant, PTL

(***************************************************************************)
(* The configured current is the smallest of what charger, battery region  *)
(* and hardware allow, whichever of them changed last                      *)
(* (Charger_UpdateCurrent is called wherever one of them changes).         *)
(***************************************************************************)
THEOREM ChargerCurrent == Spec => []CurrentIsAllowed
<1>1. MonitorInv => CurrentIsAllowed
  BY DEF MonitorInv, Consistent, Allowed, CurrentIsAllowed
<1> QED  BY <1>1, MonitorInvariant, PTL

(***************************************************************************)
(* When the firmware's messages have been handled the monitor knows the    *)
(* socket, and draws no more than the safe current until the charger has   *)
(* been detected (ChargerDetect_Changed, ChargerDetect_Detected), however  *)
(* many messages were waiting.                                             *)
(***************************************************************************)
THEOREM ChargerSocket == Spec => []FollowsSocket
<1>1. MonitorInv => FollowsSocket
  <2>1. SUFFICES ASSUME MonitorInv, env.firmware = <<>>
                 PROVE  /\ ch.is_connected = 1 <=> env.plugged
                        /\ ~env.plugged => ch.charger_config = "detached"
                        /\ env.plugged /\ ~env.detected
                              => ch.fast_current <= Configs["safe"].current
    BY DEF FollowsSocket
  <2>2. /\ env \in Environment /\ SocketOk(ch, env) /\ LinkOk(ch)
        /\ ch \in ChargerData /\ Allowed(ch, env.region)
    BY <2>1 DEF MonitorInv, Consistent, Sound
  <2>3. Len(env.firmware) = 0
    BY <2>1
  <2>4. ch.is_connected = 1 <=> env.plugged
    BY <2>2, <2>3 DEF SocketOk, KnownAfter
  <2>5. ~env.plugged => ch.charger_config = "detached"
    BY <2>2, <2>4 DEF LinkOk
  <2>6. ASSUME env.plugged, ~env.detected
        PROVE  ch.fast_current <= Configs["safe"].current
    <3>1. ch.charger_config = "safe"
      BY <2>2, <2>3, <2>6 DEF SocketOk
    <3>2. env.region \in Nat
      BY <2>2, EnvironmentFacts
    <3> QED  BY <2>2, <3>1, <3>2, AllowedFacts DEF Allowed
  <2> QED  BY <2>4, <2>5, <2>6
<1> QED  BY <1>1, MonitorInvariant, PTL

(***************************************************************************)
(* A suspended USB host is not drawn from and the LEDs have been told,     *)
(* whether the suspension came before or after the host was detected       *)
(* (ChargerDetect_Resolved, ChargerDetect_UpdateUsbStatus).                *)
(***************************************************************************)
THEOREM ChargerSuspend == Spec => []SuspendIsHonoured
<1>1. MonitorInv => SuspendIsHonoured
  <2>1. SUFFICES ASSUME MonitorInv PROVE SuspendIsHonoured
    OBVIOUS
  <2>2. /\ env \in Environment /\ UsbOk(ch, env) /\ LinkOk(ch) /\ LedsOk(ch)
        /\ ch \in ChargerData /\ Allowed(ch, env.region)
    BY <2>1 DEF MonitorInv, Consistent, Sound
  <2>3. env.region \in Nat /\ env.suspended \in BOOLEAN /\ ch.usb_suspend \in BOOLEAN
    BY <2>2, EnvironmentFacts DEF ChargerData
  <2>4. ASSUME env.usb = <<>>
        PROVE  ch.usb_suspend = env.suspended
    <3>1. Len(env.usb) = 0
      BY <2>4
    <3>2. ch.usb_suspend <=> env.suspended
      BY <2>2, <3>1 DEF UsbOk
    <3> QED  BY <2>3, <3>2
  <2>5. ASSUME ch.charger_config = "sdp", ch.usb_suspend
        PROVE  ch.fast_current = 0 /\ ch.usb_leds_forced_off
    <3>1. ch.fast_current = 0
      BY <2>2, <2>3, <2>5, AllowedFacts DEF Allowed
    <3>2. ch.is_connected = 1
      BY <2>2, <2>5 DEF LinkOk
    <3> QED  BY <2>2, <2>5, <3>1, <3>2 DEF LedsOk
  <2>6. ch.is_connected = 1 /\ (ch.usb_leds_forced_off \/ ch.power_source_vbat)
          => ch.charger_config = "sdp" /\ ch.usb_suspend
    BY <2>2 DEF LedsOk
  <2> QED  BY <2>4, <2>5, <2>6 DEF SuspendIsHonoured
<1> QED  BY <1>1, MonitorInvariant, PTL

(***************************************************************************)
(* The VCHG monitor never stalls and never runs more than two chains of    *)
(* measurements, whatever is stopped and started while a reading is under  *)
(* way (Charger_VChgMonitorStart and Stop, Charger_VChgMonitorReading).    *)
(***************************************************************************)
THEOREM ChargerProbe == Spec => []ProbeAlive
<1>1. MonitorInv => ProbeAlive
  <2>1. SUFFICES ASSUME MonitorInv PROVE ProbeAlive
    OBVIOUS
  <2>2. ProbeOk(ch) /\ ch \in ChargerData
    BY <2>1 DEF MonitorInv, Consistent, Sound
  <2>3. ch.measurement \in Nat
    BY <2>2 DEF ChargerData
  <2>4. Chains(ch) <= 2
    BY <2>2, <2>3 DEF ProbeOk, ChainsOk, Chains
  <2> QED  BY <2>2, <2>4 DEF ProbeAlive, ProbeOk, ChainsOk, Chains, Limiting
<1> QED  BY <1>1, MonitorInvariant, PTL

(***************************************************************************)
(* Probing resumes when the current is back at the limit                   *)
(* (ChargerDetect_NotifyCurrentChanged).                                   *)
(***************************************************************************)
THEOREM ChargerResumes == Spec => []ProbingResumes
<1>1. MonitorInv => ProbingResumes
  BY DEF MonitorInv, Consistent, ProbeOk, Limiting, ProbingResumes
<1> QED  BY <1>1, MonitorInvariant, PTL

(***************************************************************************)
(* The limit of a wall charger stays between what all of them deliver and  *)
(* what this one offers, for every step of the probing, also one that does *)
(* not divide the distance (ChargerDetect_VchgReading).                    *)
(***************************************************************************)
THEOREM ChargerLimit == Spec => []LimitInRange
<1>1. MonitorInv => LimitInRange
  BY DEF MonitorInv, Consistent, LimitOk, Limiting, LimitInRange
<1> QED  BY <1>1, MonitorInvariant, PTL

-----------------------------------------------------------------------------
(***************************************************************************)
(* The battery region and the charger monitor together                     *)
(***************************************************************************)

-----------------------------------------------------------------------------
(* The tables *)

\* Every table has rows of the same kind, and only the one for charging
\* desires a current.
LEMMA TableFacts ==
    ASSUME NEW t \in DOMAIN Tables
    PROVE  /\ t \in {"none", "charge", "discharge"}
           /\ Tables[t] \in Seq(Rows)
           /\ t = "none" => Tables[t] = <<>>
           /\ t # "charge" => \A i \in DOMAIN Tables[t] : Tables[t][i].current = 0
<1>1. t \in {"none", "charge", "discharge"}
  BY DEF Tables
<1>2. CASE t = "none"
  BY <1>1, <1>2 DEF Tables
<1>3. CASE t = "charge"
  BY <1>3, RegionAssumption DEF Tables
<1>4. CASE t = "discharge"
  BY <1>4, RegionAssumption DEF Tables
<1> QED  BY <1>1, <1>2, <1>3, <1>4

\* A row of the table in use, or none.
InTable(b) == b \in RegionData /\ b.region <= Len(Tables[b.table])

\* What a row says.
LEMMA RowFacts ==
    ASSUME NEW t \in DOMAIN Tables, NEW i \in DOMAIN Tables[t]
    PROVE  /\ i \in Nat \ {0} /\ i <= Len(Tables[t])
           /\ Tables[t][i] \in Rows
           /\ Tables[t][i].current \in RegionCurrents
           /\ t # "charge" => Tables[t][i].current = 0
<1>1. Tables[t] \in Seq(Rows)
  BY TableFacts
<1>2. i \in 1 .. Len(Tables[t]) /\ Tables[t][i] \in Rows
  BY <1>1
<1>3. Tables[t][i].current \in RegionCurrents
  BY <1>2 DEF Rows
<1>4. t # "charge" => Tables[t][i].current = 0
  BY TableFacts
<1>5. Len(Tables[t]) \in Nat
  BY <1>1
<1> QED  BY <1>2, <1>3, <1>4, <1>5

\* BatteryRegion_GetCurrent returns a current of the tables.
LEMMA CurrentFacts ==
    ASSUME NEW b, InTable(b)
    PROVE  /\ BatteryRegion_GetCurrent(b) \in RegionCurrents
           /\ b.table # "charge" => BatteryRegion_GetCurrent(b) = 0
           /\ b.region = 0 => BatteryRegion_GetCurrent(b) = 0
<1>1. b.table \in DOMAIN Tables /\ b.region \in Nat /\ b.region <= Len(Tables[b.table])
  BY DEF InTable, RegionData
<1>2. CASE b.region = 0 \/ b.state = "unknown"
  <2>1. BatteryRegion_GetCurrent(b) = 0
    BY <1>2 DEF BatteryRegion_GetCurrent, BATTERY_REGION_UNDEFINED
  <2> QED  BY <2>1, RegionAssumption
<1>3. CASE ~(b.region = 0 \/ b.state = "unknown")
  <2>1. BatteryRegion_GetCurrent(b) = Tables[b.table][b.region].current
    BY <1>3 DEF BatteryRegion_GetCurrent, BATTERY_REGION_UNDEFINED
  <2>2. b.region \in DOMAIN Tables[b.table]
    <3>1. Tables[b.table] \in Seq(Rows)
      BY <1>1, TableFacts
    <3> QED  BY <1>1, <1>3, <3>1
  <2> QED  BY <1>1, <1>3, <2>1, <2>2, RowFacts
<1> QED  BY <1>2, <1>3

-----------------------------------------------------------------------------
(* The choice of a row *)

\* The row in use holds the readings if some row does.
RowFits(b) ==
    Matching(b.table, b.voltage, b.temperature) # {} =>
        /\ b.region # BATTERY_REGION_UNDEFINED
        /\ VolTempInRegion(Tables[b.table][b.region], b.voltage, b.temperature, TRUE)

\* A row that holds the readings holds them with hysteresis too.
LEMMA HysteresisFacts ==
    ASSUME NEW row \in Rows, NEW v \in Int, NEW t \in Int,
           VolTempInRegion(row, v, t, FALSE)
    PROVE  VolTempInRegion(row, v, t, TRUE)
<1>1. PICK a, b, c, d, x, y : /\ a = row.voltage_min /\ b = row.voltage_max
                              /\ c = row.temp_min /\ d = row.temp_max
                              /\ x = row.voltage_hysteresis /\ y = row.temp_hysteresis
  OBVIOUS
<1>2. a \in Int /\ b \in Int /\ c \in Int /\ d \in Int /\ x \in Nat /\ y \in Nat
  BY <1>1 DEF Rows
<1>3. v >= a - 0 /\ v <= b + 0 /\ t >= c - 0 /\ t <= d + 0
  BY <1>1 DEF VolTempInRegion
<1>4. v >= a - x /\ v <= b + x /\ t >= c - y /\ t <= d + y
  BY <1>2, <1>3
<1> QED  BY <1>1, <1>4 DEF VolTempInRegion

\* Every non-empty set of natural numbers has a least element.
LEMMA LeastRow ==
    ASSUME NEW S \in SUBSET Nat, S # {}
    PROVE  \E x \in S : \A y \in S : x <= y
<1> DEFINE Less == {p \in Nat \X Nat : p[1] < p[2]}
<1>1. OpToRel(<, Nat) = Less
  BY DEF OpToRel
<1>2. IsWellFoundedOn(Less, Nat)
  BY <1>1, NatLessThanWellFounded, Zenon
<1>3. PICK x \in S : \A y \in S : ~(<<y, x>> \in Less)
  <2> HIDE DEF Less
  <2> QED  BY <1>2, WFMin
<1>4. ASSUME NEW y \in S PROVE x <= y
  <2>1. ~(<<y, x>> \in Less)
    BY <1>3
  <2>2. x \in Nat /\ y \in Nat /\ ~(y < x)
    BY <2>1
  <2> QED  BY <2>2
<1> QED  BY <1>4

\* The table is chosen by the connection; a switch forgets the row.
LEMMA ChooseFacts ==
    ASSUME NEW b, NEW c, InTable(b)
    PROVE  LET a == ChooseTable(b, c)
           IN  /\ InTable(a)
               /\ a.voltage = b.voltage /\ a.temperature = b.temperature
               /\ a.timed_out = b.timed_out /\ a.timer = b.timer /\ a.state = b.state
               /\ a = b \/ a.region = 0
               /\ a # b /\ b.table = "charge" => ~Charger_IsConnected(c)
<1>1. PICK a, m : /\ a = ChooseTable(b, c)
                  /\ m = IF Charger_IsConnected(c) THEN "charge" ELSE "discharge"
  OBVIOUS
<1>2. m \in DOMAIN Tables /\ b \in RegionData /\ b.region <= Len(Tables[b.table])
  BY <1>1 DEF Tables, InTable
<1>3. CASE b.table = m
  <2>1. a = b
    BY <1>1, <1>3 DEF ChooseTable
  <2> QED  BY <1>1, <2>1
<1>4. CASE b.table # m
  <2>1. a = [b EXCEPT !.table = m, !.region = 0]
    BY <1>1, <1>4 DEF ChooseTable, BATTERY_REGION_UNDEFINED
  <2>2. /\ a \in RegionData /\ a.table = m /\ a.region = 0
        /\ a.voltage = b.voltage /\ a.temperature = b.temperature
        /\ a.timed_out = b.timed_out /\ a.timer = b.timer /\ a.state = b.state
    BY <1>2, <2>1 DEF RegionData
  <2>3. Len(Tables[m]) \in Nat
    BY <1>2, TableFacts, LenProperties
  <2>4. InTable(a)
    BY <2>2, <2>3 DEF InTable
  <2>5. b.table = "charge" => ~Charger_IsConnected(c)
    BY <1>1, <1>4
  <2> QED  BY <1>1, <2>2, <2>4, <2>5
<1> QED  BY <1>3, <1>4

\* The first of the rows that hold the readings is entered.
LEMMA EnterFacts ==
    ASSUME NEW a, InTable(a), NEW i \in Matching(a.table, a.voltage, a.temperature)
    PROVE  LET r == EnterRegion(a, i)
           IN  /\ InTable(r) /\ RowFits(r)
               /\ r.voltage = a.voltage /\ r.temperature = a.temperature
               /\ r.timed_out = a.timed_out
<1>1. a \in RegionData /\ a.table \in DOMAIN Tables
  BY DEF InTable, RegionData
<1>2. /\ i \in DOMAIN Tables[a.table]
      /\ VolTempInRegion(Tables[a.table][i], a.voltage, a.temperature, FALSE)
  BY DEF Matching
<1>3. PICK r, row : r = EnterRegion(a, i) /\ row = Tables[a.table][i]
  OBVIOUS
<1>4. i \in Nat \ {0} /\ i <= Len(Tables[a.table]) /\ row \in Rows
  BY <1>1, <1>2, <1>3, RowFacts
<1>5. PICK s, t : /\ s = CASE row.region_type = "CRITICAL" -> "critical"
                           [] row.region_type = "SAFETY"   -> "unsafe"
                           [] OTHER                        -> "ok"
                  /\ t = (row.current # 0 /\ row.charging_timer # 0)
  OBVIOUS
<1>6. s \in {"unknown", "unsafe", "critical", "ok"} /\ t \in BOOLEAN
  BY <1>5
<1>7. r = [a EXCEPT !.region = i, !.state = s, !.timer = t]
  BY <1>3, <1>5 DEF EnterRegion
<1>8. /\ r \in RegionData /\ r.table = a.table /\ r.region = i
      /\ r.voltage = a.voltage /\ r.temperature = a.temperature
      /\ r.timed_out = a.timed_out
  BY <1>1, <1>4, <1>6, <1>7 DEF RegionData
<1>9. InTable(r)
  BY <1>4, <1>8 DEF InTable
<1>10. a.voltage \in Int /\ a.temperature \in Int
  <2>1. (\A x \in Voltages : x \in Int) /\ (\A x \in Temperatures : x \in Int)
    BY RegionAssumption, Zenon
  <2>2. a.voltage \in Voltages \cup {0} /\ a.temperature \in Temperatures \cup {0}
    BY <1>1 DEF RegionData
  <2> QED  BY <2>1, <2>2
<1>11. VolTempInRegion(row, a.voltage, a.temperature, TRUE)
  BY <1>2, <1>3, <1>4, <1>10, HysteresisFacts
<1>12. RowFits(r)
  BY <1>3, <1>4, <1>8, <1>11 DEF RowFits, BATTERY_REGION_UNDEFINED
<1> QED  BY <1>3, <1>8, <1>9, <1>12

\* batteryRegion_UpdateRegion.
LEMMA UpdateRegionFacts ==
    ASSUME NEW b, NEW c, InTable(b)
    PROVE  LET r == UpdateRegion(b, c)
           IN  /\ InTable(r) /\ RowFits(r) /\ r.timed_out = b.timed_out
               /\ ~RowEntered(b, c) => r = ChooseTable(b, c)
<1>1. PICK a : a = ChooseTable(b, c)
  OBVIOUS
<1>2. PICK rows : rows = Matching(a.table, a.voltage, a.temperature)
  OBVIOUS
<1>3. PICK r : r = UpdateRegion(b, c)
  OBVIOUS
<1>4. /\ InTable(a) /\ a.voltage = b.voltage /\ a.temperature = b.temperature
      /\ a.timed_out = b.timed_out
  BY <1>1, ChooseFacts
<1>5. RowEntered(b, c) <=> ~StillInRegion(a) /\ rows # {}
  BY <1>1, <1>2 DEF RowEntered
<1>6. CASE StillInRegion(a) \/ rows = {}
  <2>1. r = a
    BY <1>1, <1>2, <1>3, <1>6 DEF UpdateRegion
  <2>2. RowFits(a)
    BY <1>2, <1>6 DEF RowFits, StillInRegion
  <2> QED  BY <1>1, <1>3, <1>4, <2>1, <2>2
<1>7. CASE ~(StillInRegion(a) \/ rows = {})
  <2>1. PICK i : i = CHOOSE j \in rows : \A k \in rows : j <= k
    OBVIOUS
  <2>2. r = EnterRegion(a, i)
    BY <1>1, <1>2, <1>3, <1>7, <2>1 DEF UpdateRegion
  <2>3. a.table \in DOMAIN Tables
    BY <1>4 DEF InTable, RegionData
  <2>4. rows \in SUBSET Nat
    BY <1>2, <2>3, RowFacts DEF Matching
  <2>5. \E j \in rows : \A k \in rows : j <= k
    BY <1>7, <2>4, LeastRow
  <2>6. i \in rows
    BY <2>1, <2>5
  <2>7. InTable(r) /\ RowFits(r) /\ r.timed_out = a.timed_out
    BY <1>2, <1>4, <2>2, <2>6, EnterFacts
  <2> QED  BY <1>3, <1>4, <1>5, <1>7, <2>7
<1> QED  BY <1>6, <1>7

-----------------------------------------------------------------------------
(* The messages that wait *)

Notes == {"ATTACHED", "DETACHED", "COMPLETED"}

\* Behind the news of a charger that has gone again waits the news that it has.
AttachedIsFollowed(q, c) ==
    \A i \in DOMAIN q :
        q[i] = "ATTACHED" /\ ~Charger_IsConnected(c) =>
            \E j \in DOMAIN q : j > i /\ q[j] = "DETACHED"

Pending(q) == \E i \in DOMAIN q : q[i] = "DETACHED"

\* A message more at the end.
LEMMA PendingAppended ==
    ASSUME NEW q \in Seq(Notes), NEW n \in Notes
    PROVE  LET p == q \o <<n>>
           IN  /\ p \in Seq(Notes)
               /\ Pending(q) => Pending(p)
               /\ n = "DETACHED" => Pending(p)
               /\ \A c : n # "ATTACHED" /\ AttachedIsFollowed(q, c)
                            => AttachedIsFollowed(p, c)
               /\ \A c : n = "DETACHED" => AttachedIsFollowed(p, c)
<1>1. PICK p, l : p = q \o <<n>> /\ l = Len(q)
  OBVIOUS
<1>2. /\ p \in Seq(Notes) /\ l \in Nat /\ DOMAIN q = 1 .. l /\ DOMAIN p = 1 .. l + 1
      /\ p[l + 1] = n
      /\ \A i \in 1 .. l : p[i] = q[i]
  BY <1>1
<1>3. Pending(q) => Pending(p)
  BY <1>2 DEF Pending
<1>4. n = "DETACHED" => Pending(p)
  BY <1>2 DEF Pending
<1>5. ASSUME NEW c, n # "ATTACHED", AttachedIsFollowed(q, c)
      PROVE  AttachedIsFollowed(p, c)
  <2>1. SUFFICES ASSUME NEW i \in DOMAIN p, p[i] = "ATTACHED", ~Charger_IsConnected(c)
                 PROVE  \E j \in DOMAIN p : j > i /\ p[j] = "DETACHED"
    BY DEF AttachedIsFollowed
  <2>2. i \in 1 .. l /\ q[i] = "ATTACHED"
    BY <1>2, <1>5, <2>1
  <2>3. PICK j \in DOMAIN q : j > i /\ q[j] = "DETACHED"
    BY <1>2, <1>5, <2>1, <2>2 DEF AttachedIsFollowed
  <2> QED  BY <1>2, <2>3
<1>6. ASSUME NEW c, n = "DETACHED"
      PROVE  AttachedIsFollowed(p, c)
  <2>1. SUFFICES ASSUME NEW i \in DOMAIN p, p[i] = "ATTACHED", ~Charger_IsConnected(c)
                 PROVE  \E j \in DOMAIN p : j > i /\ p[j] = "DETACHED"
    BY DEF AttachedIsFollowed
  <2>2. i \in 1 .. l /\ l + 1 \in DOMAIN p /\ l + 1 > i /\ p[l + 1] = "DETACHED"
    BY <1>2, <1>6, <2>1
  <2> QED  BY <2>2
<1> QED  BY <1>1, <1>2, <1>3, <1>4, <1>5, <1>6

\* The first message is read.
LEMMA PendingTaken ==
    ASSUME NEW q \in Seq(Notes), q # <<>>
    PROVE  LET p == Tail(q)
           IN  /\ p \in Seq(Notes) /\ Head(q) \in Notes
               /\ Pending(q) /\ Head(q) # "DETACHED" => Pending(p)
               /\ \A c : AttachedIsFollowed(q, c) => AttachedIsFollowed(p, c)
               /\ \A c : (/\ AttachedIsFollowed(q, c) /\ Head(q) = "ATTACHED"
                          /\ ~Charger_IsConnected(c)) => Pending(p)
<1>1. PICK p, l : p = Tail(q) /\ l = Len(q)
  OBVIOUS
<1>2. /\ p \in Seq(Notes) /\ l \in Nat \ {0} /\ DOMAIN q = 1 .. l /\ DOMAIN p = 1 .. l - 1
      /\ Head(q) = q[1] /\ Head(q) \in Notes
      /\ \A i \in 1 .. l - 1 : p[i] = q[i + 1]
  BY <1>1
<1>3. ASSUME NEW j \in DOMAIN q, j > 1, q[j] = "DETACHED"
      PROVE  j - 1 \in DOMAIN p /\ p[j - 1] = "DETACHED"
  <2>1. j - 1 \in 1 .. l - 1 /\ (j - 1) + 1 = j
    BY <1>2, <1>3
  <2> QED  BY <1>2, <1>3, <2>1
<1>4. Pending(q) /\ Head(q) # "DETACHED" => Pending(p)
  <2>1. SUFFICES ASSUME Pending(q), Head(q) # "DETACHED" PROVE Pending(p)
    OBVIOUS
  <2>2. PICK j \in DOMAIN q : q[j] = "DETACHED"
    BY <2>1 DEF Pending
  <2>3. j > 1
    BY <1>2, <2>1, <2>2
  <2> QED  BY <1>3, <2>2, <2>3 DEF Pending
<1>5. ASSUME NEW c, AttachedIsFollowed(q, c)
      PROVE  AttachedIsFollowed(p, c)
  <2>1. SUFFICES ASSUME NEW i \in DOMAIN p, p[i] = "ATTACHED", ~Charger_IsConnected(c)
                 PROVE  \E j \in DOMAIN p : j > i /\ p[j] = "DETACHED"
    BY DEF AttachedIsFollowed
  <2>2. i + 1 \in DOMAIN q /\ q[i + 1] = "ATTACHED" /\ i \in Nat \ {0}
    BY <1>2, <2>1
  <2>3. PICK j \in DOMAIN q : j > i + 1 /\ q[j] = "DETACHED"
    BY <1>5, <2>1, <2>2 DEF AttachedIsFollowed
  <2>4. j > 1 /\ j - 1 > i
    BY <1>2, <2>2, <2>3
  <2>5. j - 1 \in DOMAIN p /\ p[j - 1] = "DETACHED"
    BY <1>3, <2>3, <2>4
  <2> QED  BY <2>4, <2>5
<1>6. ASSUME NEW c, AttachedIsFollowed(q, c), Head(q) = "ATTACHED", ~Charger_IsConnected(c)
      PROVE  Pending(p)
  <2>1. 1 \in DOMAIN q /\ q[1] = "ATTACHED"
    BY <1>2, <1>6
  <2>2. PICK j \in DOMAIN q : j > 1 /\ q[j] = "DETACHED"
    BY <1>6, <2>1 DEF AttachedIsFollowed
  <2> QED  BY <1>3, <2>2 DEF Pending
<1> QED  BY <1>1, <1>2, <1>4, <1>5, <1>6

\* The messages of a handler of the monitor: about the connection if it has
\* changed, then about a full battery.
Extended(q, c, d, full) ==
    q \o (IF d.is_connected # c.is_connected THEN <<ChargerNote(d)>> ELSE <<>>)
      \o (IF full THEN <<"COMPLETED">> ELSE <<>>)

\* What has to be kept in the queue is kept.
LEMMA ExtendedFacts ==
    ASSUME NEW q \in Seq(Notes), NEW c, NEW d, NEW full \in BOOLEAN
    PROVE  LET p == Extended(q, c, d, full)
           IN  /\ p \in Seq(Notes)
               /\ Pending(q) => Pending(p)
               /\ d.is_connected # c.is_connected /\ d.is_connected = 0 => Pending(p)
               /\ AttachedIsFollowed(q, c) => AttachedIsFollowed(p, d)
<1>1. PICK m : m = q \o (IF d.is_connected # c.is_connected THEN <<ChargerNote(d)>> ELSE <<>>)
  OBVIOUS
<1>2. PICK p : p = Extended(q, c, d, full)
  OBVIOUS
<1>3. /\ m \in Seq(Notes) /\ (Pending(q) => Pending(m))
      /\ d.is_connected # c.is_connected /\ d.is_connected = 0 => Pending(m)
      /\ AttachedIsFollowed(q, c) => AttachedIsFollowed(m, d)
  <2>1. CASE d.is_connected = c.is_connected
    <3>1. m = q
      BY <1>1, <2>1
    <3>2. AttachedIsFollowed(q, c) => AttachedIsFollowed(q, d)
      BY <2>1 DEF AttachedIsFollowed, Charger_IsConnected
    <3> QED  BY <2>1, <3>1, <3>2
  <2>2. CASE d.is_connected # c.is_connected /\ d.is_connected = 0
    <3>1. m = q \o <<"DETACHED">>
      BY <1>1, <2>2 DEF ChargerNote, Charger_IsConnected
    <3> QED  BY <2>2, <3>1, PendingAppended DEF Notes
  <2>3. CASE d.is_connected # c.is_connected /\ d.is_connected # 0
    <3>1. m = q \o <<"ATTACHED">>
      BY <1>1, <2>3 DEF ChargerNote, Charger_IsConnected
    <3>2. AttachedIsFollowed(m, d)
      BY <2>3 DEF AttachedIsFollowed, Charger_IsConnected
    <3> QED  BY <2>3, <3>1, <3>2, PendingAppended DEF Notes
  <2> QED  BY <2>1, <2>2, <2>3
<1>4. CASE full
  <2>1. p = m \o <<"COMPLETED">>
    BY <1>1, <1>2, <1>4 DEF Extended
  <2>2. /\ p \in Seq(Notes) /\ (Pending(m) => Pending(p))
        /\ AttachedIsFollowed(m, d) => AttachedIsFollowed(p, d)
    BY <1>3, <2>1, PendingAppended DEF Notes
  <2> QED  BY <1>2, <1>3, <2>2
<1>5. CASE ~full
  <2>1. p = m
    BY <1>1, <1>2, <1>3, <1>5 DEF Extended
  <2> QED  BY <1>2, <1>3, <2>1
<1> QED  BY <1>4, <1>5

-----------------------------------------------------------------------------
(* The invariant *)

(***************************************************************************)
(* What is kept beside the invariant of the monitor: the monitor's idea of *)
(* the region's current is the region's, the row in use fits the readings, *)
(* and the messages on their way undo what still has to be undone.         *)
(***************************************************************************)
RegionPart ==
    /\ InTable(br) /\ RowFits(br)
    /\ env.region = BatteryRegion_GetCurrent(br)
    /\ hs \in CompletionTimers /\ inbox \in [Clients -> Seq(Notes)]
    /\ TimeoutHoldsUntilDetached
    /\ AttachedIsFollowed(inbox["headset_sm"], ch)
    /\ CheckEndsWithCharger

RegionInv == MonitorInv /\ RegionPart

\* The initial state: no row, no timer, one message for each client.
LEMMA RegionInitial == RegionInit => RegionInv
<1>1. SUFFICES ASSUME RegionInit PROVE RegionInv
  OBVIOUS
<1>2. MonitorInv
  BY <1>1, MonitorInitial DEF RegionInit
<1>3. PICK n : n = ChargerNote(ch)
  OBVIOUS
<1>4. /\ n \in Notes /\ <<n>> \in Seq(Notes)
      /\ ~Charger_IsConnected(ch) => n = "DETACHED"
  <2>1. n \in Notes /\ (~Charger_IsConnected(ch) => n = "DETACHED")
    BY <1>3 DEF ChargerNote, Notes
  <2> QED  BY <2>1
<1>5. /\ br = InitialRegion /\ hs = [check |-> FALSE, complete |-> FALSE]
      /\ inbox = [k \in Clients |-> <<n>>]
  BY <1>1, <1>3 DEF RegionInit
<1>6. br \in RegionData /\ br.table = "none" /\ br.region = 0 /\ br.timed_out = FALSE
  BY <1>5 DEF InitialRegion, RegionData, BATTERY_REGION_UNDEFINED, Tables
<1>7. Tables["none"] = <<>>
  BY DEF Tables
<1>8. InTable(br)
  BY <1>6, <1>7 DEF InTable
<1>9. RowFits(br)
  <2>1. Matching("none", br.voltage, br.temperature) = {}
    BY <1>7 DEF Matching
  <2> QED  BY <1>6, <2>1 DEF RowFits
<1>10. env.region = BatteryRegion_GetCurrent(br)
  <2>1. env.region = 0
    BY <1>1 DEF RegionInit, Init
  <2> QED  BY <1>6, <1>8, <2>1, CurrentFacts
<1>11. /\ hs \in CompletionTimers /\ hs.check = FALSE /\ inbox \in [Clients -> Seq(Notes)]
       /\ inbox["headset_sm"] = <<n>>
  BY <1>4, <1>5 DEF CompletionTimers, Clients
<1>12. CheckEndsWithCharger
  BY <1>11 DEF CheckEndsWithCharger
<1>13. AttachedIsFollowed(inbox["headset_sm"], ch)
  <2>1. ~Charger_IsConnected(ch) => <<n>>[1] = "DETACHED"
    BY <1>4
  <2> QED  BY <1>11, <2>1 DEF AttachedIsFollowed
<1>14. TimeoutHoldsUntilDetached
  <2>1. "TIMEOUT" \notin ch.disable_reason
    BY <1>1, MonitorInitial DEF RegionInit
  <2> QED  BY <1>6, <2>1 DEF TimeoutHoldsUntilDetached
<1> QED
  BY <1>2, <1>8, <1>9, <1>10, <1>11, <1>12, <1>13, <1>14 DEF RegionInv, RegionPart

-----------------------------------------------------------------------------
(* The steps *)

\* The parts of the invariant that a step of the monitor has to keep when the
\* battery region and headset_sm do nothing.
LEMMA OnlyMonitor ==
    ASSUME RegionPart, UNCHANGED <<br, hs>>, env'.region = env.region,
           inbox' \in [Clients -> Seq(Notes)],
           TimeoutKept(ch', ch),
           Pending(inbox["battery_region"]) => Pending(inbox'["battery_region"]),
           Pending(inbox["headset_sm"]) => Pending(inbox'["headset_sm"]),
           ch'.is_connected # ch.is_connected /\ ch'.is_connected = 0 =>
               Pending(inbox'["battery_region"]) /\ Pending(inbox'["headset_sm"]),
           AttachedIsFollowed(inbox'["headset_sm"], ch')
    PROVE  RegionPart'
<1>1. br' = br /\ hs' = hs
  OBVIOUS
<1>2. /\ InTable(br') /\ RowFits(br') /\ env'.region = BatteryRegion_GetCurrent(br')
      /\ hs' \in CompletionTimers
  BY <1>1 DEF RegionPart
<1>3. TimeoutHoldsUntilDetached'
  BY <1>1 DEF RegionPart, TimeoutHoldsUntilDetached, TimeoutKept, DetachPending, Pending
<1>4. CheckEndsWithCharger'
  BY <1>1 DEF RegionPart, CheckEndsWithCharger, DetachPending, Pending, Charger_IsConnected
<1> QED  BY <1>2, <1>3, <1>4 DEF RegionPart

\* MESSAGE_CHARGER_STATUS leaves the connection and the timeout alone.
LEMMA StatusKeeps ==
    ASSUME MonitorInv, HandleStatus
    PROVE  Unmoved(ch', ch) /\ SameTimeout(ch', ch)
<1>1. Consistent(ch, env.region) /\ env.region \in Nat
  BY EnvironmentFacts DEF MonitorInv
<1>2. PICK status \in StatusReports :
         ch' = Handled(Charger_StatusChanged(ch, status, Seen(TRUE)))
  BY DEF HandleStatus
<1>3. PICK e : e = Seen(TRUE)
  OBVIOUS
<1>4. PICK r : r = Charger_StatusChanged(ch, status, e)
  OBVIOUS
<1>5. e.region \in Nat /\ Consistent(ch, e.region) /\ status \in Statuses
  BY <1>1, <1>2, <1>3, SeenFacts, MonitorAssumption
<1>6. Consistent(r, e.region) /\ Unmoved(r, ch) /\ SameTimeout(r, ch)
  BY <1>4, <1>5, StatusFacts
<1>7. ch' = Handled(r)
  BY <1>2, <1>3, <1>4
<1>8. /\ ch'.charger_config = r.charger_config /\ ch'.usb_suspend = r.usb_suspend
      /\ ch'.is_connected = r.is_connected /\ ch'.disable_reason = r.disable_reason
  BY <1>6, <1>7, HandledFacts
<1> QED  BY <1>6, <1>8 DEF Unmoved, SameTimeout

\* The monitor's own handlers and their messages to the clients.
LEMMA MonitorHandlesStep ==
    ASSUME RegionInv, MonitorHandles
    PROVE  Next /\ RegionPart'
<1>1. MonitorInv /\ RegionPart
  BY DEF RegionInv
<1>2. HandleFirmwareMessage \/ HandleStatus
  BY DEF MonitorHandles
<1>3. TimeoutKept(ch', ch)
  <2>1. CASE HandleFirmwareMessage
    BY <1>1, <2>1, FirmwareStep
  <2>2. CASE HandleStatus
    <3>1. Unmoved(ch', ch) /\ SameTimeout(ch', ch)
      BY <1>1, <2>2, StatusKeeps
    <3> QED  BY <3>1 DEF Unmoved, SameTimeout, TimeoutKept
  <2> QED  BY <1>2, <2>1, <2>2
<1>4. env'.region = env.region
  <2>1. env \in Environment
    BY <1>1 DEF MonitorInv
  <2> QED  BY <1>2, <2>1 DEF HandleFirmwareMessage, HandleStatus, Environment
<1>5. PICK full : full = (ch.status # "STANDBY" /\ ch'.status = "STANDBY")
  OBVIOUS
<1>6. PICK p, q : p = inbox["battery_region"] /\ q = inbox["headset_sm"]
  OBVIOUS
<1>7. p \in Seq(Notes) /\ q \in Seq(Notes) /\ full \in BOOLEAN
  BY <1>1, <1>5, <1>6 DEF RegionPart, Clients
<1>8. /\ inbox' = [k \in Clients |-> Delivered(k)]
      /\ UNCHANGED <<br, hs>>
  BY DEF MonitorHandles
<1>9. inbox'["battery_region"] = Extended(p, ch, ch', FALSE)
  <2>1. inbox'["battery_region"] = Delivered("battery_region")
    BY <1>8 DEF Clients
  <2> QED  BY <1>6, <2>1 DEF Delivered, Extended
<1>10. inbox'["headset_sm"] = Extended(q, ch, ch', full)
  <2>1. inbox'["headset_sm"] = Delivered("headset_sm")
    BY <1>8 DEF Clients
  <2>2. CASE full
    <3>1. Charger_StatusMessageId(ch'.status) = "COMPLETED"
      BY <1>5, <2>2 DEF Charger_StatusMessageId
    <3> QED  BY <1>5, <1>6, <2>1, <2>2, <3>1 DEF Delivered, Extended
  <2>3. CASE ~full
    BY <1>5, <1>6, <2>1, <2>3 DEF Delivered, Extended
  <2> QED  BY <2>2, <2>3
<1>11. /\ inbox'["battery_region"] \in Seq(Notes)
       /\ Pending(p) => Pending(inbox'["battery_region"])
       /\ ch'.is_connected # ch.is_connected /\ ch'.is_connected = 0
             => Pending(inbox'["battery_region"])
  BY <1>7, <1>9, ExtendedFacts
<1>12. /\ inbox'["headset_sm"] \in Seq(Notes)
       /\ Pending(q) => Pending(inbox'["headset_sm"])
       /\ ch'.is_connected # ch.is_connected /\ ch'.is_connected = 0
             => Pending(inbox'["headset_sm"])
       /\ AttachedIsFollowed(q, ch) => AttachedIsFollowed(inbox'["headset_sm"], ch')
  BY <1>7, <1>10, ExtendedFacts
<1>13. inbox' \in [Clients -> Seq(Notes)]
  BY <1>8, <1>11, <1>12 DEF Clients
<1>14. AttachedIsFollowed(inbox'["headset_sm"], ch')
  BY <1>1, <1>6, <1>12 DEF RegionPart
<1>15. RegionPart'
  BY <1>1, <1>3, <1>4, <1>6, <1>8, <1>11, <1>12, <1>13, <1>14, OnlyMonitor
<1> QED  BY <1>2, <1>15 DEF Next

\* The socket and the timer that ends an error.
LEMMA ElsewhereStep ==
    ASSUME RegionInv, Elsewhere
    PROVE  Next /\ RegionPart'
<1>1. /\ MonitorInv /\ RegionPart /\ UNCHANGED <<br, hs, inbox>>
      /\ PlugChanges \/ ChargerIsDetected \/ ReEnableTimeout
  BY DEF RegionInv, Elsewhere
<1>2. env \in Environment /\ Consistent(ch, env.region)
  BY <1>1 DEF MonitorInv
<1>3. env'.region = env.region
  BY <1>1, <1>2 DEF PlugChanges, ChargerIsDetected, ReEnableTimeout, Environment
<1>4. Unmoved(ch', ch) /\ SameTimeout(ch', ch)
  <2>1. CASE ch' = ch
    BY <2>1 DEF Unmoved, SameTimeout
  <2>2. CASE ReEnableTimeout
    BY <1>2, <2>2, ReEnableFacts DEF ReEnableTimeout
  <2> QED  BY <1>1, <2>1, <2>2 DEF PlugChanges, ChargerIsDetected
<1>5. TimeoutKept(ch', ch)
  BY <1>4 DEF Unmoved, SameTimeout, TimeoutKept
<1>6. /\ AttachedIsFollowed(inbox'["headset_sm"], ch') /\ ch'.is_connected = ch.is_connected
  BY <1>1, <1>4 DEF RegionPart, AttachedIsFollowed, Unmoved, Charger_IsConnected
<1>7. inbox' = inbox /\ inbox' \in [Clients -> Seq(Notes)]
  BY <1>1 DEF RegionPart
<1>8. RegionPart'
  BY <1>1, <1>3, <1>5, <1>6, <1>7, OnlyMonitor
<1> QED  BY <1>1, <1>8 DEF Next

(***************************************************************************)
(* The periodic update.  When the current of the region changes the        *)
(* monitor is told in the same handler; the handler that does not tell it, *)
(* because no row of the table it has switched to holds the readings, runs *)
(* with the charger gone and no current drawn.                             *)
(***************************************************************************)
LEMMA UpdateTriggerStep ==
    ASSUME RegionInv, HandleUpdateTrigger
    PROVE  [Next]_vars /\ RegionPart'
<1>1. /\ env \in Environment /\ Consistent(ch, env.region) /\ RegionPart
      /\ InTable(br) /\ env.region = BatteryRegion_GetCurrent(br)
  BY DEF RegionInv, MonitorInv, RegionPart
<1>2. PICK voltage \in Voltages, temperature \in Temperatures :
         LET b == [br EXCEPT !.voltage = voltage, !.temperature = temperature]
             e == [Seen(TRUE) EXCEPT !.region = BatteryRegion_GetCurrent(br')]
         IN  /\ br' = UpdateRegion(b, ch)
             /\ ch' = IF RowEntered(b, ch) THEN Charger_UpdateCurrent(ch, e) ELSE ch
             /\ env' = [env EXCEPT !.region = BatteryRegion_GetCurrent(br')]
             /\ hs' = [hs EXCEPT !.complete =
                          @ \/ /\ RowEntered(b, ch)
                               /\ Charger_IsConnected(ch)
                               /\ br'.region <= APP_CHARGING_REGION_ID]
             /\ UNCHANGED inbox
  BY DEF HandleUpdateTrigger
<1>3. PICK b : b = [br EXCEPT !.voltage = voltage, !.temperature = temperature]
  OBVIOUS
<1>4. PICK current : current = BatteryRegion_GetCurrent(br')
  OBVIOUS
<1>5. PICK e : e = [Seen(TRUE) EXCEPT !.region = current]
  OBVIOUS
<1>6. /\ br' = UpdateRegion(b, ch)
      /\ ch' = IF RowEntered(b, ch) THEN Charger_UpdateCurrent(ch, e) ELSE ch
      /\ env' = [env EXCEPT !.region = current] /\ inbox' = inbox
  BY <1>2, <1>3, <1>4, <1>5
<1>7. /\ InTable(b) /\ b.table = br.table /\ b.region = br.region /\ b.state = br.state
      /\ b.timed_out = br.timed_out
  <2>1. br \in RegionData /\ br.region <= Len(Tables[br.table])
    BY <1>1 DEF InTable
  <2>2. /\ b \in RegionData /\ b.table = br.table /\ b.region = br.region
        /\ b.state = br.state /\ b.timed_out = br.timed_out
    BY <1>2, <1>3, <2>1 DEF RegionData
  <2> QED  BY <2>1, <2>2 DEF InTable
<1>8. /\ InTable(br') /\ RowFits(br') /\ br'.timed_out = br.timed_out
      /\ ~RowEntered(b, ch) => br' = ChooseTable(b, ch)
  BY <1>6, <1>7, UpdateRegionFacts
<1>9. current \in RegionCurrents /\ current \in Nat /\ e.region = current
  <2>1. current \in RegionCurrents
    BY <1>4, <1>8, CurrentFacts
  <2>2. \A n \in RegionCurrents : n \in Nat
    BY MonitorAssumption, Zenon
  <2>3. e.region = current
    BY <1>5 DEF Seen
  <2> QED  BY <2>1, <2>2, <2>3
<1>10. ASSUME ch.fast_current = AllowedCurrent(ch, current)
       PROVE  Charger_UpdateCurrent(ch, e) = ch
  BY <1>9, <1>10 DEF Charger_UpdateCurrent
<1>11. [Next]_vars
  <2>1. CASE current = env.region
    <3>1. env' = env
      BY <1>1, <1>6, <2>1 DEF Environment
    <3>2. ch.fast_current = AllowedCurrent(ch, current)
      BY <1>1, <2>1 DEF Consistent, Allowed
    <3>3. ch' = ch
      BY <1>6, <1>10, <3>2
    <3> QED  BY <3>1, <3>3 DEF vars
  <2>2. CASE current # env.region
    <3>1. ch' = Charger_UpdateCurrent(ch, e)
      <4>1. CASE RowEntered(b, ch)
        BY <1>6, <4>1
      <4>2. CASE ~RowEntered(b, ch)
        <5>1. PICK a : a = ChooseTable(b, ch)
          OBVIOUS
        <5>2. br' = a
          BY <1>8, <4>2, <5>1
        <5>3. a # b
          <6>1. SUFFICES ASSUME a = b PROVE FALSE
            OBVIOUS
          <6>2. BatteryRegion_GetCurrent(b) = BatteryRegion_GetCurrent(br)
            BY <1>7 DEF BatteryRegion_GetCurrent
          <6> QED  BY <1>1, <1>4, <2>2, <5>2, <6>1, <6>2
        <5>4. /\ InTable(a) /\ a.region = 0
              /\ b.table = "charge" => ~Charger_IsConnected(ch)
          BY <1>7, <5>1, <5>3, ChooseFacts
        <5>5. current = 0
          BY <1>4, <5>2, <5>4, CurrentFacts
        <5>6. br.table = "charge"
          BY <1>1, <2>2, <5>5, CurrentFacts
        <5>7. ch.charger_config = "detached"
          BY <1>1, <1>7, <5>4, <5>6 DEF Consistent, LinkOk, Charger_IsConnected
        <5>8. /\ ch \in ChargerData /\ env.region \in Nat
              /\ Configs[ch.charger_config].current = 0
          <6>1. ch \in ChargerData /\ env.region \in Nat
            BY <1>1, EnvironmentFacts DEF Consistent, Sound
          <6>2. ch.charger_config \in ConfigNames
            BY <6>1 DEF ChargerData
          <6> QED  BY <5>7, <6>1, <6>2, ConfigFacts
        <5>9. /\ AllowedCurrent(ch, env.region) \in Nat
              /\ AllowedCurrent(ch, env.region) <= 0
          BY <5>8, AllowedFacts
        <5>10. AllowedCurrent(ch, current) \in Nat /\ AllowedCurrent(ch, current) <= 0
          BY <1>9, <5>8, AllowedFacts
        <5>11. ch.fast_current = AllowedCurrent(ch, env.region)
          BY <1>1 DEF Consistent, Allowed
        <5>12. ch.fast_current = AllowedCurrent(ch, current)
          BY <5>9, <5>10, <5>11
        <5> QED  BY <1>6, <1>10, <4>2, <5>12
      <4> QED  BY <4>1, <4>2
    <3>2. RegionChanges
      BY <1>5, <1>6, <1>9, <2>2, <3>1 DEF RegionChanges
    <3> QED  BY <3>2 DEF Next
  <2> QED  BY <2>1, <2>2
<1>12. Unmoved(ch', ch) /\ SameTimeout(ch', ch)
  <2>1. CASE RowEntered(b, ch)
    <3>1. ch' = Charger_UpdateCurrent(ch, e)
      BY <1>6, <2>1
    <3> QED  BY <1>1, <1>9, <3>1, UpdateConsistent DEF Consistent
  <2>2. CASE ~RowEntered(b, ch)
    <3>1. ch' = ch
      BY <1>6, <2>2
    <3> QED  BY <3>1 DEF Unmoved, SameTimeout
  <2> QED  BY <2>1, <2>2
<1>13. env'.region = BatteryRegion_GetCurrent(br')
  BY <1>1, <1>4, <1>6 DEF Environment
<1>14. hs' \in CompletionTimers /\ hs'.check = hs.check
  <2>1. PICK full : hs' = [hs EXCEPT !.complete = hs.complete \/ full]
    <3>1. hs \in CompletionTimers
      BY <1>1 DEF RegionPart
    <3>2. hs' = [hs EXCEPT !.complete =
                    hs.complete \/ /\ RowEntered(b, ch)
                                   /\ Charger_IsConnected(ch)
                                   /\ br'.region <= APP_CHARGING_REGION_ID]
      BY <1>2, <1>3, <3>1 DEF CompletionTimers
    <3> QED  BY <3>2
  <2>2. PICK y : y = (hs.complete \/ full)
    OBVIOUS
  <2>3. y \in BOOLEAN /\ hs' = [hs EXCEPT !.complete = y]
    BY <2>1, <2>2
  <2> QED  BY <1>1, <2>3 DEF RegionPart, CompletionTimers
<1>15. TimeoutHoldsUntilDetached'
  BY <1>1, <1>6, <1>8, <1>12
  DEF RegionPart, TimeoutHoldsUntilDetached, SameTimeout, DetachPending
<1>16. AttachedIsFollowed(inbox'["headset_sm"], ch')
  BY <1>1, <1>6, <1>12 DEF RegionPart, AttachedIsFollowed, Unmoved, Charger_IsConnected
<1>17. CheckEndsWithCharger'
  BY <1>1, <1>6, <1>12, <1>14
  DEF RegionPart, CheckEndsWithCharger, Unmoved, Charger_IsConnected, DetachPending
<1>18. inbox' \in [Clients -> Seq(Notes)]
  BY <1>1, <1>6 DEF RegionPart
<1> QED
  BY <1>8, <1>11, <1>13, <1>14, <1>15, <1>16, <1>17, <1>18 DEF RegionPart

\* The parts that a step keeps when the row, the connection and what is
\* pending for headset_sm stay.
LEMMA RowAndLinkKept ==
    ASSUME RegionPart, InTable(br'), RowFits(br'), env' = env,
           BatteryRegion_GetCurrent(br') = BatteryRegion_GetCurrent(br),
           hs' \in CompletionTimers, inbox' \in [Clients -> Seq(Notes)],
           TimeoutHoldsUntilDetached',
           AttachedIsFollowed(inbox'["headset_sm"], ch'), CheckEndsWithCharger'
    PROVE  RegionPart'
  BY DEF RegionPart

\* Only the timer and its flag change.
LEMMA TimerFacts ==
    ASSUME NEW b, InTable(b), RowFits(b), NEW flag \in BOOLEAN
    PROVE  LET r == [b EXCEPT !.timer = FALSE, !.timed_out = flag]
           IN  /\ InTable(r) /\ RowFits(r) /\ r.timed_out = flag
               /\ BatteryRegion_GetCurrent(r) = BatteryRegion_GetCurrent(b)
<1>1. PICK r : r = [b EXCEPT !.timer = FALSE, !.timed_out = flag]
  OBVIOUS
<1>2. b \in RegionData
  BY DEF InTable
<1>3. /\ r \in RegionData /\ r.table = b.table /\ r.region = b.region /\ r.state = b.state
      /\ r.voltage = b.voltage /\ r.temperature = b.temperature /\ r.timed_out = flag
  BY <1>1, <1>2 DEF RegionData
<1>4. InTable(r)
  BY <1>3 DEF InTable
<1>5. RowFits(r)
  BY <1>3 DEF RowFits
<1>6. BatteryRegion_GetCurrent(r) = BatteryRegion_GetCurrent(b)
  BY <1>3 DEF BatteryRegion_GetCurrent
<1> QED  BY <1>1, <1>3, <1>4, <1>5, <1>6

\* The charging timer expires.
LEMMA ChargingTimerStep ==
    ASSUME RegionInv, HandleChargingTimer
    PROVE  Next /\ RegionPart'
<1>1. Consistent(ch, env.region) /\ RegionPart
  BY DEF RegionInv, MonitorInv
<1>2. /\ br' = [br EXCEPT !.timer = FALSE, !.timed_out = TRUE]
      /\ ch' = DisableReasonAdd(ch, "TIMEOUT")
      /\ env' = env /\ hs' = hs /\ inbox' = inbox
  BY DEF HandleChargingTimer
<1>3. Next
  <2>1. OthersDisable
    BY <1>2, RegionAssumption DEF OthersDisable
  <2> QED  BY <2>1 DEF Next
<1>4. "TIMEOUT" \in ch'.disable_reason /\ Unmoved(ch', ch)
  <2>1. ch \in ChargerData /\ EnabledMatches(ch) /\ "TIMEOUT" \in DisableReasons
    BY <1>1 DEF Consistent, Sound, DisableReasons
  <2>2. ch'.disable_reason = ch.disable_reason \cup {"TIMEOUT"}
    BY <1>2, <2>1, AddFacts
  <2> QED  BY <1>1, <1>2, <2>2, OthersFacts
<1>5. /\ InTable(br') /\ RowFits(br') /\ br'.timed_out = TRUE
      /\ BatteryRegion_GetCurrent(br') = BatteryRegion_GetCurrent(br)
  BY <1>1, <1>2, TimerFacts DEF RegionPart
<1>6. TimeoutHoldsUntilDetached'
  BY <1>4, <1>5 DEF TimeoutHoldsUntilDetached
<1>7. AttachedIsFollowed(inbox'["headset_sm"], ch')
  BY <1>1, <1>2, <1>4 DEF RegionPart, AttachedIsFollowed, Unmoved, Charger_IsConnected
<1>8. CheckEndsWithCharger'
  BY <1>1, <1>2, <1>4
  DEF RegionPart, CheckEndsWithCharger, Unmoved, Charger_IsConnected, DetachPending
<1>9. hs' \in CompletionTimers /\ inbox' \in [Clients -> Seq(Notes)]
  BY <1>1, <1>2 DEF RegionPart
<1> QED  BY <1>1, <1>2, <1>3, <1>5, <1>6, <1>7, <1>8, <1>9, RowAndLinkKept

\* The battery region reads a message: detaching ends what the timer began.
LEMMA RegionHandlesStep ==
    ASSUME RegionInv, RegionHandlesCharger
    PROVE  [Next]_vars /\ RegionPart'
<1>1. Consistent(ch, env.region) /\ RegionPart
  BY DEF RegionInv, MonitorInv
<1>2. PICK q : q = inbox["battery_region"]
  OBVIOUS
<1>3. /\ q # <<>> /\ env' = env /\ hs' = hs
      /\ inbox' = [inbox EXCEPT !["battery_region"] = Tail(q)]
      /\ IF Head(q) = "DETACHED"
         THEN /\ br' = [br EXCEPT !.timer = FALSE, !.timed_out = FALSE]
              /\ ch' = DisableReasonClear(ch, "TIMEOUT")
         ELSE UNCHANGED <<br, ch>>
  BY <1>1, <1>2 DEF RegionHandlesCharger, RegionPart, Clients
<1>4. /\ q \in Seq(Notes) /\ inbox \in [Clients -> Seq(Notes)] /\ hs \in CompletionTimers
      /\ InTable(br) /\ RowFits(br)
  BY <1>1, <1>2 DEF RegionPart, Clients
<1>5. /\ Tail(q) \in Seq(Notes)
      /\ Pending(q) /\ Head(q) # "DETACHED" => Pending(Tail(q))
  BY <1>3, <1>4, PendingTaken
<1>6. /\ inbox' \in [Clients -> Seq(Notes)] /\ inbox'["headset_sm"] = inbox["headset_sm"]
      /\ inbox'["battery_region"] = Tail(q)
  BY <1>3, <1>4, <1>5 DEF Clients
<1>7. ASSUME Unmoved(ch', ch), InTable(br'), RowFits(br'), TimeoutHoldsUntilDetached',
             BatteryRegion_GetCurrent(br') = BatteryRegion_GetCurrent(br)
      PROVE  RegionPart'
  <2>1. AttachedIsFollowed(inbox'["headset_sm"], ch')
    BY <1>1, <1>6, <1>7 DEF RegionPart, AttachedIsFollowed, Unmoved, Charger_IsConnected
  <2>2. CheckEndsWithCharger'
    BY <1>1, <1>3, <1>6, <1>7
    DEF RegionPart, CheckEndsWithCharger, Unmoved, Charger_IsConnected, DetachPending
  <2> QED  BY <1>1, <1>3, <1>4, <1>6, <1>7, <2>1, <2>2, RowAndLinkKept
<1>8. CASE Head(q) = "DETACHED"
  <2>1. /\ br' = [br EXCEPT !.timer = FALSE, !.timed_out = FALSE]
        /\ ch' = DisableReasonClear(ch, "TIMEOUT")
    BY <1>3, <1>8
  <2>2. OthersRestore
    BY <1>3, <2>1, RegionAssumption DEF OthersRestore
  <2>3. /\ InTable(br') /\ RowFits(br') /\ br'.timed_out = FALSE
        /\ BatteryRegion_GetCurrent(br') = BatteryRegion_GetCurrent(br)
    BY <1>4, <2>1, TimerFacts
  <2>4. ch \in ChargerData /\ EnabledMatches(ch)
    BY <1>1 DEF Consistent, Sound
  <2>5. ch'.disable_reason = ch.disable_reason \ {"TIMEOUT"}
    BY <2>1, <2>4, ClearFacts
  <2>6. Unmoved(ch', ch)
    BY <1>1, <2>1, OthersFacts
  <2>7. TimeoutHoldsUntilDetached'
    BY <2>3, <2>5 DEF TimeoutHoldsUntilDetached
  <2>8. RegionPart'
    BY <1>7, <2>3, <2>6, <2>7
  <2> QED  BY <2>2, <2>8 DEF Next
<1>9. CASE Head(q) # "DETACHED"
  <2>1. br' = br /\ ch' = ch
    BY <1>3, <1>9
  <2>2. TimeoutHoldsUntilDetached'
    <3>1. Pending(q) => Pending(inbox'["battery_region"])
      BY <1>5, <1>6, <1>9
    <3> QED
      BY <1>1, <1>2, <2>1, <3>1
      DEF RegionPart, TimeoutHoldsUntilDetached, DetachPending, Pending
  <2>3. Unmoved(ch', ch)
    BY <2>1 DEF Unmoved
  <2>4. RegionPart'
    BY <1>4, <1>7, <2>1, <2>2, <2>3
  <2> QED  BY <1>3, <2>1, <2>4 DEF vars
<1> QED  BY <1>8, <1>9

\* The parts that headset_sm has no influence on.
LEMMA HeadsetKeeps ==
    ASSUME RegionPart, UNCHANGED <<env, br>>,
           Unmoved(ch', ch), ch'.disable_reason = ch.disable_reason,
           hs' \in CompletionTimers, inbox' \in [Clients -> Seq(Notes)],
           inbox'["battery_region"] = inbox["battery_region"],
           AttachedIsFollowed(inbox'["headset_sm"], ch'), CheckEndsWithCharger'
    PROVE  RegionPart'
<1>1. TimeoutHoldsUntilDetached'
  BY DEF RegionPart, TimeoutHoldsUntilDetached, DetachPending
<1>2. InTable(br') /\ RowFits(br')
  BY DEF RegionPart
<1> QED  BY <1>1, <1>2, RowAndLinkKept

\* headset_sm reads a message about the charger.
LEMMA HeadsetHandlesStep ==
    ASSUME RegionInv, HeadsetHandlesCharger
    PROVE  [Next]_vars /\ RegionPart'
<1>1. Consistent(ch, env.region) /\ RegionPart
  BY DEF RegionInv, MonitorInv
<1>2. PICK q, n : q = inbox["headset_sm"] /\ n = Head(q)
  OBVIOUS
<1>3. /\ q # <<>> /\ env' = env /\ br' = br
      /\ inbox' = [inbox EXCEPT !["headset_sm"] = Tail(q)]
      /\ HeadsetAfter(n)
  BY <1>1, <1>2 DEF HeadsetHandlesCharger, RegionPart, Clients
<1>4. /\ q \in Seq(Notes) /\ inbox \in [Clients -> Seq(Notes)] /\ hs \in CompletionTimers
      /\ AttachedIsFollowed(q, ch) /\ hs.check \in BOOLEAN /\ hs.complete \in BOOLEAN
  BY <1>1, <1>2 DEF RegionPart, Clients, CompletionTimers
<1>5. /\ Tail(q) \in Seq(Notes) /\ n \in Notes
      /\ Pending(q) /\ n # "DETACHED" => Pending(Tail(q))
      /\ AttachedIsFollowed(Tail(q), ch)
      /\ n = "ATTACHED" /\ ~Charger_IsConnected(ch) => Pending(Tail(q))
  BY <1>2, <1>3, <1>4, PendingTaken
<1>6. /\ inbox' \in [Clients -> Seq(Notes)] /\ inbox'["headset_sm"] = Tail(q)
      /\ inbox'["battery_region"] = inbox["battery_region"]
  BY <1>3, <1>4, <1>5 DEF Clients
<1>7. /\ [Next]_vars
      /\ Unmoved(ch', ch) /\ ch'.disable_reason = ch.disable_reason
  <2>1. CASE n = "COMPLETED"
    <3>1. ch' = ch
      BY <1>3, <2>1 DEF HeadsetAfter
    <3> QED  BY <1>3, <3>1 DEF vars, Unmoved
  <2>2. CASE n # "COMPLETED"
    <3>1. PICK on : on = (n = "ATTACHED")
      OBVIOUS
    <3>2. on \in BOOLEAN /\ ch' = [ch EXCEPT !.external_charging = on]
      BY <1>3, <2>2, <3>1 DEF HeadsetAfter
    <3>3. HeadsetSwitchesPio
      BY <1>3, <3>2 DEF HeadsetSwitchesPio
    <3>4. ch \in ChargerData
      BY <1>1 DEF Consistent, Sound
    <3>5. Unmoved(ch', ch) /\ ch'.disable_reason = ch.disable_reason
      BY <3>2, <3>4 DEF ChargerData, Unmoved
    <3> QED  BY <3>3, <3>5 DEF Next
  <2> QED  BY <2>1, <2>2
<1>8. /\ hs' \in CompletionTimers
      /\ n = "DETACHED" => hs'.check = FALSE
      /\ n = "COMPLETED" => hs'.check = hs.check
  <2>1. CASE n = "ATTACHED"
    <3>1. hs' = [hs EXCEPT !.check = TRUE]
      BY <1>3, <2>1 DEF HeadsetAfter
    <3> QED  BY <1>4, <2>1, <3>1 DEF CompletionTimers
  <2>2. CASE n = "DETACHED"
    <3>1. hs' = [check |-> FALSE, complete |-> FALSE]
      BY <1>3, <2>2 DEF HeadsetAfter
    <3> QED  BY <2>2, <3>1 DEF CompletionTimers
  <2>3. CASE n = "COMPLETED"
    <3>1. PICK y : y = (hs.complete \/ BatteryRegion_GetCurrent(br) = 70)
      OBVIOUS
    <3>2. y \in BOOLEAN
      BY <3>1
    <3>3. hs' = [hs EXCEPT !.complete = y]
      BY <1>3, <1>4, <2>3, <3>1 DEF HeadsetAfter, CompletionTimers
    <3> QED  BY <1>4, <2>3, <3>2, <3>3 DEF CompletionTimers
  <2> QED  BY <1>5, <2>1, <2>2, <2>3 DEF Notes
<1>9. AttachedIsFollowed(inbox'["headset_sm"], ch')
  BY <1>5, <1>6, <1>7 DEF AttachedIsFollowed, Unmoved, Charger_IsConnected
<1>10. CheckEndsWithCharger'
  <2>1. SUFFICES ASSUME hs'.check, ~Charger_IsConnected(ch')
                 PROVE  Pending(inbox'["headset_sm"])
    BY DEF CheckEndsWithCharger, DetachPending, Pending
  <2>2. ~Charger_IsConnected(ch)
    BY <1>7, <2>1 DEF Unmoved, Charger_IsConnected
  <2>3. CASE n = "ATTACHED"
    BY <1>5, <1>6, <2>2, <2>3
  <2>4. CASE n = "DETACHED"
    BY <1>8, <2>1, <2>4
  <2>5. CASE n = "COMPLETED"
    <3>1. hs.check
      BY <1>8, <2>1, <2>5
    <3>2. Pending(q)
      BY <1>1, <1>2, <2>2, <3>1 DEF RegionPart, CheckEndsWithCharger, DetachPending, Pending
    <3> QED  BY <1>5, <1>6, <2>5, <3>2
  <2> QED  BY <1>5, <2>3, <2>4, <2>5 DEF Notes
<1>11. RegionPart'
  BY <1>1, <1>3, <1>6, <1>7, <1>8, <1>9, <1>10, HeadsetKeeps
<1> QED  BY <1>7, <1>11

\* The two timed messages of headset_sm.
LEMMA CompletionSteps ==
    ASSUME RegionInv, HandleCompletedCheck \/ HandleNtcCompleted
    PROVE  [Next]_vars /\ RegionPart'
<1>1. RegionPart /\ hs \in CompletionTimers
  BY DEF RegionInv, RegionPart
<1>2. ch' = ch /\ env' = env /\ br' = br /\ inbox' = inbox
  BY DEF HandleCompletedCheck, HandleNtcCompleted
<1>3. hs' \in CompletionTimers /\ (hs'.check => hs.check)
  <2>1. CASE HandleCompletedCheck
    <3>1. PICK y \in BOOLEAN : hs' = [hs EXCEPT !.check = y]
      BY <2>1 DEF HandleCompletedCheck
    <3>2. hs.check
      BY <2>1 DEF HandleCompletedCheck
    <3> QED  BY <1>1, <3>1, <3>2 DEF CompletionTimers
  <2>2. CASE HandleNtcCompleted
    <3>1. hs' = [hs EXCEPT !.complete = FALSE]
      BY <2>2 DEF HandleNtcCompleted
    <3> QED  BY <1>1, <3>1 DEF CompletionTimers
  <2> QED  BY <2>1, <2>2
<1>4. CheckEndsWithCharger'
  BY <1>1, <1>2, <1>3 DEF RegionPart, CheckEndsWithCharger, DetachPending
<1>5. AttachedIsFollowed(inbox'["headset_sm"], ch') /\ inbox' \in [Clients -> Seq(Notes)]
  BY <1>1, <1>2 DEF RegionPart
<1>6. Unmoved(ch', ch)
  BY <1>2 DEF Unmoved
<1>7. RegionPart'
  BY <1>1, <1>2, <1>3, <1>4, <1>5, <1>6, HeadsetKeeps
<1> QED  BY <1>2, <1>7 DEF vars

\* Every step is a step of the charger monitor, or none of it, and keeps the
\* invariant.
LEMMA RegionNextStep ==
    RegionInv /\ [RegionNext]_regionVars => [Next]_vars /\ RegionInv'
<1>1. SUFFICES ASSUME RegionInv, [RegionNext]_regionVars
               PROVE  [Next]_vars /\ RegionInv'
  OBVIOUS
<1>2. [Next]_vars /\ RegionPart'
  <2>1. CASE MonitorHandles
    BY <1>1, <2>1, MonitorHandlesStep
  <2>2. CASE Elsewhere
    BY <1>1, <2>2, ElsewhereStep
  <2>3. CASE HandleUpdateTrigger
    BY <1>1, <2>3, UpdateTriggerStep
  <2>4. CASE HandleChargingTimer
    BY <1>1, <2>4, ChargingTimerStep
  <2>5. CASE RegionHandlesCharger
    BY <1>1, <2>5, RegionHandlesStep
  <2>6. CASE HeadsetHandlesCharger
    BY <1>1, <2>6, HeadsetHandlesStep
  <2>7. CASE HandleCompletedCheck \/ HandleNtcCompleted
    BY <1>1, <2>7, CompletionSteps
  <2>8. CASE UNCHANGED regionVars
    <3>1. ch' = ch /\ env' = env /\ br' = br /\ hs' = hs /\ inbox' = inbox
      BY <2>8 DEF regionVars
    <3>2. RegionPart'
      BY <1>1, <3>1
      DEF RegionInv, RegionPart, TimeoutHoldsUntilDetached, CheckEndsWithCharger,
          DetachPending
    <3> QED  BY <3>1, <3>2 DEF vars
  <2> QED  BY <1>1, <2>1, <2>2, <2>3, <2>4, <2>5, <2>6, <2>7, <2>8 DEF RegionNext
<1>3. MonitorInv'
  BY <1>1, <1>2, MonitorStep DEF RegionInv
<1> QED  BY <1>2, <1>3 DEF RegionInv

-----------------------------------------------------------------------------
(* The theorems *)

\* The invariant holds in every reachable state of the composition.
THEOREM RegionInvariant == RegionSpec => []RegionInv
  BY RegionInitial, RegionNextStep, PTL DEF RegionSpec

(***************************************************************************)
(* The battery region in the place of the monitor's environment: for every *)
(* pair of tables each step of the composition is a step of ChargerMonitor *)
(* or leaves it alone, since batteryRegion_UpdateRegion calls              *)
(* Charger_UpdateCurrent in the handler that changes the region's current. *)
(* All that is proved of ChargerMonitor holds in the composition.          *)
(***************************************************************************)
THEOREM RegionRefinesMonitor == RegionSpec => ImplementsMonitor
<1>1. RegionInit => Init
  BY DEF RegionInit
<1>2. RegionInv /\ [RegionNext]_regionVars => [Next]_vars
  BY RegionNextStep
<1> QED  BY <1>1, <1>2, RegionInvariant, PTL DEF RegionSpec, ImplementsMonitor, Spec

(***************************************************************************)
(* For every pair of tables the battery is not charged with more than the  *)
(* row for its last readings desires, the row in use holds the readings    *)
(* whenever some row does, and nothing is drawn in discharge mode.         *)
(***************************************************************************)
THEOREM RegionCurrentFits == RegionSpec => []CurrentFitsBattery
<1>1. RegionInv => CurrentFitsBattery
  <2>1. SUFFICES ASSUME RegionInv PROVE CurrentFitsBattery
    OBVIOUS
  <2>2. /\ env \in Environment /\ Consistent(ch, env.region)
        /\ InTable(br) /\ RowFits(br) /\ env.region = BatteryRegion_GetCurrent(br)
        /\ hs \in CompletionTimers /\ inbox \in [Clients -> Seq(Notes)]
    BY <2>1 DEF RegionInv, MonitorInv, RegionPart
  <2>3. ch \in ChargerData /\ env.region \in Nat
    BY <2>2, EnvironmentFacts DEF Consistent, Sound
  <2>4. RegionTypeOK
    BY <2>2, <2>3 DEF RegionTypeOK, TypeOK, InTable, Notes
  <2>5. ch.fast_current \in Nat /\ ch.fast_current <= BatteryRegion_GetCurrent(br)
    BY <2>2, <2>3, AllowedFacts DEF Consistent, Allowed
  <2>6. br.table # "charge" => BatteryRegion_GetCurrent(br) = 0
    BY <2>2, CurrentFacts
  <2>7. br.table # "charge" => ch.fast_current = 0
    BY <2>5, <2>6
  <2> QED  BY <2>2, <2>4, <2>5, <2>7 DEF CurrentFitsBattery, RowFits
<1> QED  BY <1>1, RegionInvariant, PTL

(***************************************************************************)
(* However late the messages about unplugging are read, an expired         *)
(* charging timer keeps charging disabled until the charger goes, and the  *)
(* reason never stays behind without the flag (batteryRegion_HandleMessage *)
(* on the timer and on CHARGER_MESSAGE_DETACHED).                          *)
(***************************************************************************)
THEOREM RegionTimeout == RegionSpec => []TimeoutHoldsUntilDetached
<1>1. RegionInv => TimeoutHoldsUntilDetached
  BY DEF RegionInv, RegionPart
<1> QED  BY <1>1, RegionInvariant, PTL

(***************************************************************************)
(* No check for a full battery is left over from a charger that has gone:  *)
(* the message that ends it is on its way to headset_sm.                   *)
(***************************************************************************)
THEOREM RegionCheckEnds == RegionSpec => []CheckEndsWithCharger
<1>1. RegionInv => CheckEndsWithCharger
  BY DEF RegionInv, RegionPart
<1> QED  BY <1>1, RegionInvariant, PTL

=============================================================================
