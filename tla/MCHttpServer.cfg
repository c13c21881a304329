SPECIFICATION FairHttpSpec
CONSTANTS
    IoCount = 2
    MaxConnections = 2
    Fd = {2, 3, 4}
    MaxClients = 3
    MaxChunks = 1
INVARIANTS
    SlotAccounting
    OneKeeper
PROPERTIES
    PendingIsTaken
    ConnectionsEnd
    StopEnds
CHECK_DEADLOCK FALSE
