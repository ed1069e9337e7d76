SPECIFICATION PaceSpec
CONSTANTS
    PollInterval = 20
    MaxBackoff = 300
    MaxDuration = 1000000000
    Asked = {0, 1, 30, 90, 3600}
    MaxFailures = 24
INVARIANTS
    BackoffBounded
PROPERTY BackoffGrows
