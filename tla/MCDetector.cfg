SPECIFICATION HSpec
CONSTANTS
    v1 = v1
    v2 = v2
    NoID = NoID
    Vehicle <- MCVehicle
    Report <- MCReport
    RealertAfter = 2
    MaxDuration = 100
    MaxClock = 7
INVARIANT TypeOK
PROPERTIES
    CooldownHonoured
    ArrivalAnnounced
    MemoryBounded
    ImplementsFeed
