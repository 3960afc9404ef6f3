SPECIFICATION Spec
CONSTANTS
    f = f
    b = b
    c = c
    t1 = t1
    t2 = t2
    NoTx = NoTx
    Accounts <- MCAccounts
    Txs <- MCTxs
    Founder = f
    Registrants = {}
    Newcomers = {}
    Admins <- OneOther
    SeatLimit = 3
    MaxTokens = 0
    Mailed = TRUE
    RetryLimit = 1
    Operations <- MemberOperations
SYMMETRY Symmetry
INVARIANTS
    TypeOK
    OwnerRequired
    VerdictsStand
    MembersHaveAccounts
PROPERTIES
    ImplementsRoster
CHECK_DEADLOCK FALSE
