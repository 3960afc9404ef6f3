SPECIFICATION Spec
CONSTANTS
    t1 = t1
    t2 = t2
    NoTx = NoTx
    Accounts = {1, 2}
    Txs <- Two
    Root = 1
    Registrants = {2}
    Blocking = {2}
    Changes <- AdminChanges
    MaxFailures = 0
    Operations <- AdminOperations
SYMMETRY Symmetry
INVARIANTS
    AdminRemains
    ActorStands
    NoExportOnlyAdmin
