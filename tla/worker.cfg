SPECIFICATION FairSpec
CONSTANTS
    Slugs = {a, b}
    RoundKeys <- TwoRounds
    Subs = {1}
    Rooms = {1, 2}
    Sockets = {1, 2}
    MaxInputs = 4
    MaxStops = 1
    MaxFaults = 1
CHECK_DEADLOCK FALSE
INVARIANTS
    TouchesInOrder
    ForwardedOnce
    MemoryFollowsStorage
PROPERTIES
    JoinsActiveRoom
