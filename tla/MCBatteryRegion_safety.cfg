CONSTANTS
    FastCurrent = 350
    InternalMaxCurrent = 200
    UnconfiguredCurrent = 100
    DCPMinCurrent = 500
    VchgStep = 10
    Chargers <- PlainCharger
    StatusReports = {"HEADROOM_ERROR", "STANDBY"}
    UsbEvents = {}
    RegionCurrents = {0, 10, 20, 70, 350}
    OthersReasons = {"TIMEOUT"}
    MaxQueue = 1
    ChargeTable <- headset_charge_mode_config_table
    DischargeTable <- headset_discharge_mode_config_table
    Voltages = {3800, 4300}
    Temperatures = {10, 30, 90}
    MaxInbox = 2
SPECIFICATION RegionSpec
INVARIANTS
    CurrentFitsBattery
    TimeoutHoldsUntilDetached
    CheckEndsWithCharger
PROPERTY ImplementsMonitor
