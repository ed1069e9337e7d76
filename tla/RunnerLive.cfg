SPECIFICATION FairSpec
CONSTANTS
    v1 = v1
    v2 = v2
    Vehicle <- OneVehicle
    RealertAfter = 2
    PollInterval = 2
    MaxBackoff = 3
    MaxDuration = 100000000
    Persist = TRUE
    Telegram = TRUE
    HTTPTimeout = 1
    NotifyTimeout = 2
    StdoutStalls = FALSE
    Asked = {0}
    MaxFailures = 2
PROPERTIES
    Stops
    Recovers
    StayingIsSeen
