SPECIFICATION Spec
CONSTANTS
    Thread = {repl}
    Txn <- MCTxn
    MaxTxn = 2
    Table = {users}
    MaxKey = 2
    MAX_LEAF_ENTRIES = 64
    MAX_INTERNAL_ENTRIES = 8
    MaxLife = 2
    Kills = {1}
    MaxCalls = 3
INVARIANTS
    RestartShowsLastCommit
CHECK_DEADLOCK FALSE
