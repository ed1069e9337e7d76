SPECIFICATION PaceSpec
CONSTANTS
    PollInterval = 180
    MaxBackoff = 5
    MaxDuration = 153722867
    Asked = {0}
    MaxFailures = 24
INVARIANT BackoffBounded
