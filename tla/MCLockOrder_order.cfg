SPECIFICATION Spec
CONSTANTS
    t1 = t1
    t2 = t2
    Workspaces = {1, 2}
    Accounts = {1, 2}
    Admins = {1, 2}
    Txs <- Two
    Creator <- Creators
    Operations <- AllOperations
SYMMETRY Symmetry
INVARIANTS
    TypeOK
    OnlySecondLooksDeadlock
CHECK_DEADLOCK FALSE
