SPECIFICATION FairSpec
CONSTANTS
    Process = {p1, p2}
    MaxConns = 2
    MaxFence = 2
    MaxSaves = 3
INVARIANTS
    Whole
    Durable
PROPERTY CallsReturn
