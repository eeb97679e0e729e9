SPECIFICATION FairSpec
CONSTANTS
    Handlers = {h1}
    Users = {u1}
    Problems = {p1}
    Rounds = {d1}
    Deletable = {d1}
    Verdicts = {"Accepted"}
    Payloads = {"valid", "poison"}
    Score <- MCScore
    MaxId = 2
    Faults <- AllFaults
    MaxFaults = 1
    MaxCrashes = 1
    NoUser = NoUser
    NoMsg = NoMsg
CHECK_DEADLOCK FALSE
INVARIANTS
    DurabilityInv
    NoSubmissionLost
    PaidBounded
    GlobalNeverAhead
PROPERTIES
    EventuallyHandled
