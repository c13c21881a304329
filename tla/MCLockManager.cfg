SPECIFICATION FairLockSpec
CONSTANTS
    Thread = {h1, h2, h3}
    Txn = {a, e}
    Explicit = {e}
    Table = {users}
    Row = {r1}
    NoRow = NoRow
    NoCall = NoCall
INVARIANTS
    LockTypeOK
    WaiterAccounting
    NoLostWakeup
PROPERTIES
    ExclusiveUntilReleased
    OnlyUpgradeCrowds
    FreeLockIsGranted
    ImplementsService
