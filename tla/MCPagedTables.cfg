SPECIFICATION Spec
CONSTANTS
    Thread = {}
    Txn = {1, 2}
    Table = {users, orders}
    MAX_CLASS = 2
    kMaxPersistedRuns = 1
    MAX_LEAF_ENTRIES = 2
    MAX_INTERNAL_ENTRIES = 3
    SPLIT_BYTES = 3
    DATA_PAGE_PAYLOAD_SIZE = 4
    Wide = {2}
    WIDE_BYTES = 2
    MaxKey = 2
    MaxCalls = 6
    MaxLife = 2
    LastKill = 1
INVARIANTS
    ScanAllComplete
    RoutingAgrees
    NoDoubleOwner
    NoLeak
SYMMETRY MCSymmetry
CHECK_DEADLOCK FALSE
