------------------------ MODULE HeadsetRegionConfig ------------------------
(***************************************************************************)
(* The battery operating regions of the headset:                           *)
(* headset/src/headset_region_config.c, built with ENABLE_APP_NTC_HANDLE,  *)
(* and the charge_region_t rows that battery_region.h declares.            *)
(***************************************************************************)
EXTENDS Naturals, Integers, Sequences

Region(current, vmin, vmax, vhyst, tmin, tmax, thyst, type, timer) ==
    [current |-> current,
     voltage_min |-> vmin, voltage_max |-> vmax, voltage_hysteresis |-> vhyst,
     temp_min |-> tmin, temp_max |-> tmax, temp_hysteresis |-> thyst,
     region_type |-> type, charging_timer |-> timer]

TRICKLE == 10
PRE     == 20
FAST    == 350
Vpre    == 2100
Vfast   == 3000
Vcrit   == 3300
Vfloat  == 4200
CHARGING_TIMER_TIMEOUT == 509

headset_charge_mode_config_table ==
    <<Region(0,    Vfloat, 4350, 100, -40,  0, 1, "NORMAL", 0),
      Region(0,    Vfloat, 4350, 100,   0, 45, 1, "NORMAL", 0),
      Region(0,    Vfloat, 4350, 100,  45, 85, 1, "NORMAL", 0),

      Region(0,    3600, Vfloat, 10, -40,  0, 0, "NORMAL", 0),
      Region(70,   3600, Vfloat, 10,   1, 14, 0, "NORMAL", CHARGING_TIMER_TIMEOUT),
      Region(FAST, 3600, Vfloat, 10,  15, 45, 0, "NORMAL", CHARGING_TIMER_TIMEOUT),
      Region(0,    3600, Vfloat, 10,  46, 85, 0, "NORMAL", 0),

      Region(0,    Vcrit, 3600, 10, -40,  0, 0, "NORMAL", 0),
      Region(70,   Vcrit, 3600, 10,   1, 14, 0, "NORMAL", CHARGING_TIMER_TIMEOUT),
      Region(FAST, Vcrit, 3600, 10,  15, 45, 0, "NORMAL", CHARGING_TIMER_TIMEOUT),
      Region(0,    Vcrit, 3600, 10,  46, 85, 0, "NORMAL", 0),

      Region(0,    Vfast, Vcrit, 10, -40,  0, 0, "CRITICAL", 0),
      Region(70,   Vfast, Vcrit, 10,   1, 14, 0, "CRITICAL", 0),
      Region(FAST, Vfast, Vcrit, 10,  15, 45, 0, "CRITICAL", 0),
      Region(0,    Vfast, Vcrit, 10,  46, 85, 0, "CRITICAL", 0),

      Region(0,       Vpre, Vfast, 10, -40,  0, 1, "CRITICAL", 0),
      Region(PRE,     Vpre, Vfast, 10,   0, 45, 1, "CRITICAL", 0),
      Region(0,       Vpre, Vfast, 10,  45, 85, 1, "CRITICAL", 0),

      Region(0,       0, Vpre, 10, -40,  0, 1, "CRITICAL", 0),
      Region(TRICKLE, 0, Vpre, 10,   0, 45, 1, "CRITICAL", 0),
      Region(0,       0, Vpre, 10,  45, 85, 1, "CRITICAL", 0)>>

headset_discharge_mode_config_table ==
    <<Region(0, 4200, 4350, 100, -40, -20, 1, "NORMAL", 0),
      Region(0, 4200, 4350, 100, -20,  60, 1, "NORMAL", 0),
      Region(0, 4200, 4350, 100,  60,  85, 1, "NORMAL", 0),
      Region(0, 3300, 4200, 50, -40, -20, 1, "NORMAL", 0),
      Region(0, 3300, 4200, 50, -20,  60, 1, "NORMAL", 0),
      Region(0, 3300, 4200, 50,  60,  85, 1, "NORMAL", 0),
      Region(0, 3000, 3300, 50, -40, -20, 1, "CRITICAL", 0),
      Region(0, 3000, 3300, 50, -20,  60, 1, "CRITICAL", 0),
      Region(0, 3000, 3300, 50,  60,  85, 1, "CRITICAL", 0),
      Region(0,    0, 3000, 50, -40, -20, 1, "SAFETY", 0),
      Region(0,    0, 3000, 50, -20,  60, 1, "SAFETY", 0),
      Region(0,    0, 3000, 50,  60,  85, 1, "SAFETY", 0)>>

=============================================================================
