CONSTANTS
    Clients = {c1, c2}
    MaxEvents = 2
SPECIFICATION FairSpec
INVARIANTS
    TypeOK
    HandshakeWaitsForClients
    NoStrandedClient
    PowerOffIsAgreed
    NoMissedPowerOff
PROPERTIES
    HandshakeEnds
    UnsafeBatteryPowersOff
