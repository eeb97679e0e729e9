SPECIFICATION FairSpec
CONSTANTS
    central = central
    a1 = a1
    b1 = b1
    Conns = {central, a1, b1}
    Central = central
    First = a1
    Background = {b1}
    Owner <- Owners
    Users <- PanelUsers
    MaxHistorySize = 2
    ProfanityFilter = TRUE
    Requests <- KindsOfRequests
    MaxRequests = 3
    MaxRooms = 2
    Losable = {a1}
    MaxDrops = 1
CHECK_DEADLOCK FALSE
INVARIANTS
    NoMessageMissed
    EmptyRoomLeaves
PROPERTIES
    LostConnectionRemoved
    RequestsServed
