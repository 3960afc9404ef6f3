SPECIFICATION FairSpec
CONSTANTS
    f = f
    b = b
    c = c
    t1 = t1
    t2 = t2
    NoTx = NoTx
    Accounts <- MCPair
    Txs <- MCTxs
    Founder = f
    Registrants = {}
    Newcomers = {}
    Admins <- OneOther
    SeatLimit = 2
    MaxTokens = 1
    Mailed = TRUE
    RetryLimit = 1
    Operations <- PurgeOperations
PROPERTIES
    DeletionEnds
CHECK_DEADLOCK FALSE
