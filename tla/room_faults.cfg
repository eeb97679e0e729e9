SPECIFICATION FairSpec
CONSTANTS
    Handlers = {h1}
    Users = {u1, u2}
    Rooms = {r1}
    MaxRounds = 1
    Faults <- AllFaults
    MaxFaults = 1
    MaxCrashes = 1
    NoRoom = NoRoom
    NoUser = NoUser
CHECK_DEADLOCK FALSE
INVARIANTS
    LeaderPresent
    PointersSound
PROPERTIES
    EmptyRoomReclaimed
    TtlHonoured
