SPECIFICATION FairSpec
CONSTANTS
    t1 = t1
    t2 = t2
    NoTx = NoTx
    Accounts = {1, 2}
    Txs <- Two
    Root = 1
    Registrants = {}
    Blocking = {2}
    Changes <- StandingChanges
    MaxFailures = 1
    Operations <- PeriodOperations
INVARIANTS
    TypeOK
    EndsOnlyDue
PROPERTIES
    PeriodEnds
