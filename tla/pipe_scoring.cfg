SPECIFICATION Spec
CONSTANTS
    Handlers = {h1, h2}
    Users = {u1}
    Problems = {p1}
    Rounds = {d1, d2}
    Deletable = {}
    Verdicts = {"Accepted", "Submitted"}
    Payloads = {"valid"}
    Score <- MCScore
    MaxId = 2
    Faults <- SingleDeliveryFaults
    MaxFaults = 1
    MaxCrashes = 0
    NoUser = NoUser
    NoMsg = NoMsg
CHECK_DEADLOCK FALSE
PROPERTIES
    RefinesLedger
