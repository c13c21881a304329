SPECIFICATION Spec
CONSTANTS
    Thread = {repl}
    Txn <- MCTxn
    MaxTxn = 4
    Table = {users, posts}
    MaxKey = 2
    MAX_LEAF_ENTRIES = 3
    MAX_INTERNAL_ENTRIES = 8
    MaxLife = 2
    Kills = {1}
    MaxCalls = 5
INVARIANTS
    FirstLifeView
    CleanRestartKeepsAll
    CrashLosesWholeCommits
CHECK_DEADLOCK FALSE
