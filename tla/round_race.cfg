SPECIFICATION FairSpec
CONSTANTS
    Handlers = {h1, h2}
    Users = {u1}
    Durations = {30}
    Limit = 1
    MaxRounds = 1
    Requests = {"start", "end"}
    Faults <- AllFaults
    MaxFaults = 2
    MaxCrashes = 1
CHECK_DEADLOCK FALSE
PROPERTIES
    EndsEventually
    RtcEndsEventually
