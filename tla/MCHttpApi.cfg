SPECIFICATION FairSpec
CONSTANTS
    Thread = {h1, h2}
    MaxTxn = 2
    Txn <- MCTxn
    Explicit <- MCTxn
    Table = {users}
    Row = {}
    NoRow = NoRow
    NoCall = NoCall
    kMaxHops = 2
    MaxKey = 1
    MaxRequests = 5
INVARIANTS
    OnlyCommittedVisible
    StampsWithinSeq
    WritesUnderLock
    AutoCommitLeavesNothing
PROPERTIES
    RequestsAnswered
CHECK_DEADLOCK FALSE
