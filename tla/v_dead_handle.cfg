SPECIFICATION Spec
CONSTANTS
    Handlers = {h1, h2}
    Users = {u1}
    Durations = {30}
    Limit = 1
    MaxRounds = 1
    Requests = {"start"}
    Faults <- NoFaults
    MaxFaults = 0
    MaxCrashes = 0
CHECK_DEADLOCK FALSE
PROPERTIES
    TimerEndsRound
