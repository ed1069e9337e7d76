SPECIFICATION Spec
CONSTANTS
    Env <- NaNEnv
    Response <- Renamed
    Haversine <- MCHaversine
INVARIANT
    RadiusInRange
