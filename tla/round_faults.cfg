SPECIFICATION Spec
CONSTANTS
    Handlers = {h1}
    Users = {u1, u2}
    Durations = {30}
    Limit = 1
    MaxRounds = 2
    Requests <- AllRequests
    Faults <- AllFaults
    MaxFaults = 2
    MaxCrashes = 1
CHECK_DEADLOCK FALSE
INVARIANTS
    HandleHome
    EveryonePlays
