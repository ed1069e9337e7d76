SPECIFICATION Spec
CONSTANTS
    v1 = v1
    v2 = v2
    Vehicle <- OneVehicle
    RealertAfter = 6
    PollInterval = 4
    MaxBackoff = 10
    MaxDuration = 100000000
    Persist = FALSE
    Telegram = TRUE
    HTTPTimeout = 2
    NotifyTimeout = 3
    StdoutStalls = FALSE
    Asked = {0, 1, 30}
    MaxFailures = 4
INVARIANTS
    TypeOK
    NothingDropped
    ReadyWhileHealthy
    PromptRecovery
PROPERTY StayingIsSilent
