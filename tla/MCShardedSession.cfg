SPECIFICATION Spec
CONSTANTS
    Thread = {}
    MaxTxn = 3
    Txn <- MCTxn
    Table = {users, posts}
    ShardCount = 2
    MaxKey = 2
    MaxCol = 2
    HashOf <- MCHash
    Policies <- MCPolicies
    Reader = {r1}
    DdlThread = {d1, d2}
    MaxCalls = 2
    MaxDdl = 3
INVARIANTS
    QuietFillsStayCurrent
    NoShardLeftOut
    ShardsAlike
PROPERTIES
    ImplementsTable
CHECK_DEADLOCK FALSE
SYMMETRY MCSymmetry
