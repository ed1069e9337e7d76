SPECIFICATION Spec
CONSTANTS
    Env <- MCEnv
    Response <- MCResponse
    Haversine <- MCHaversine
INVARIANTS
    EveryVehicleFound
    NothingInvented
    EmptyIsSaid
    DriftIsSchema
    AcceptedIsMeant
PROPERTY
    OneCorrection
