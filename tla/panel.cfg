SPECIFICATION PanelFairSpec
CONSTANTS
    Rooms <- TwoRooms
    FirstRooms <- NoneOrOne
    Problems <- TwoProblems
    MaxRounds = 2
    MaxRetries = 1
    MaxActs = 4
CHECK_DEADLOCK FALSE
INVARIANTS
    RoundNoticed
    UnreadHidden
PROPERTIES
    NoBounceInOneRound
    PanelComesUp
