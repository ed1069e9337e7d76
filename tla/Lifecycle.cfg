SPECIFICATION FairSpec
CONSTANTS
    MaxSignals = 2
    MaxScrapes = 2
INVARIANTS
    SavesToOpenStore
    LeavesNothingOpen
    StopIsNoFailure
PROPERTY TerminatesOnSignal
