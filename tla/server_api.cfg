SPECIFICATION FairSpec
CONSTANTS
    Slots = {s1, s2}
    Clients = {c1}
    Routes <- KindsOfRoutes
    Burst <- SmallBurst
    MaxRequests = 2
    MaxWindow = 1
    MaxTokens = 4
    MaxFaults = 1
CHECK_DEADLOCK FALSE
INVARIANTS
    BurstHeld
    NoLockout
    NoOrphanToken
    LinkSurvives
PROPERTIES
    RequestsAnswered
