SPECIFICATION FairSpec
CONSTANTS
    w1 = w1
    w2 = w2
    w3 = w3
    users = users
    orders = orders
    Thread = {w1, w2, w3}
    MaxTxn = 5
    MaxCommands <- MCMaxCommands
    Txn <- MCTxn
    Explicit <- MCTxn
    Commands <- MCCommands
    Table = {users, orders}
    Row = {}
    NoRow = NoRow
    NoCall = NoCall
    kMaxHops = 1
    MaxKey = 1
INVARIANTS
    AutoWritesUnderLock
    LeakGuard
PROPERTIES
    PreCheckNeedsSecondRequest
    CommandsAnswered
CHECK_DEADLOCK FALSE
