SPECIFICATION Spec
CONSTANTS
    f = f
    b = b
    c = c
    t1 = t1
    t2 = t2
    NoTx = NoTx
    Accounts <- MCAccounts
    Txs <- MCTxs
    Founder = f
    Registrants = {}
    Newcomers <- LastOne
    Admins = {}
    SeatLimit = 2
    MaxTokens = 2
    Mailed = TRUE
    RetryLimit = 1
    Operations <- JoinOperations
SYMMETRY Symmetry
INVARIANTS
    SeatsWithinLimit
    VerdictsStand
PROPERTIES
    ImplementsRoster
