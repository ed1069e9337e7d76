SPECIFICATION Spec
CONSTANTS
    Interval = 2
    Jitter = 2
    Timeout = 2
    ReportTime = 1
    Backoff <- MCBackoff
    Bounds <- MCBounds
    Epoch = 2
    MaxPolls = 2
    MaxTime = 30
    MaxStep = 1
INVARIANTS
    HistogramWhole
    SkewBounded
    ReadyDespiteSteps
    VerdictIsTrue
