SPECIFICATION Spec
CONSTANTS
    Timer = timer
    ByHand = {operator}
    Pod = {p1, p2}
    Malformed <- MCMalformed
    MaxRotations = 2
    MaxAborts = 1
INVARIANTS
    NoStalePod
    OneAlertPerStay
PROPERTY
    SecretArrives
