CONSTANTS
    FastCurrent = 350
    InternalMaxCurrent = 200
    UnconfiguredCurrent = 100
    DCPMinCurrent = 500
    VchgStep = 10
    Chargers <- Host
    StatusReports = {"HEADROOM_ERROR", "CONFIG_FAIL_VALUES_OUT_OF_RANGE"}
    UsbEvents = {"ENUMERATED", "DECONFIGURED", "SUSPEND", "RESUME"}
    RegionCurrents = {0, 250, 350}
    OthersReasons = {"TIMEOUT"}
    MaxQueue = 2
SPECIFICATION Spec
INVARIANTS
    ReasonsMatchState
    CurrentIsAllowed
    FollowsSocket
    SuspendIsHonoured
