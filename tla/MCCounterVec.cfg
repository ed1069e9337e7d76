SPECIFICATION FairSpec
CONSTANTS
    Caller = {g1, g2}
    Label = {success, error}
    NoCounter = NoCounter
    MaxIncs = 2
INVARIANTS
    NothingLost
    ScrapeIsCurrent
PROPERTY EveryCallReturns
