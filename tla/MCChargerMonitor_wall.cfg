CONSTANTS
    FastCurrent = 1400
    InternalMaxCurrent = 200
    UnconfiguredCurrent = 100
    DCPMinCurrent = 500
    VchgStep = 500
    Chargers <- Wall
    StatusReports = {"HEADROOM_ERROR"}
    UsbEvents = {}
    RegionCurrents = {0, 500, 1400}
    OthersReasons = {"TIMEOUT"}
    MaxQueue = 2
SPECIFICATION Spec
INVARIANTS
    ProbeAlive
    ProbingResumes
    LimitInRange
