SPECIFICATION Spec
CONSTANTS
    Thread = {repl}
    Txn <- MCTxn
    MaxTxn = 3
    Table = {users}
    MaxKey = 2
    MAX_LEAF_ENTRIES = 64
    MAX_INTERNAL_ENTRIES = 8
    MaxLife = 2
    Kills = {}
    MaxCalls = 4
INVARIANTS
    CommitMakesVisible
CHECK_DEADLOCK FALSE
