SPECIFICATION Spec
CONSTANTS
    f = f
    b = b
    c = c
    t1 = t1
    t2 = t2
    NoTx = NoTx
    Accounts <- MCAccounts
    Txs <- MCTxs
    Founder = f
    Registrants <- Unproven
    Newcomers = {}
    Admins <- OneOther
    SeatLimit = 3
    MaxTokens = 1
    Mailed = TRUE
    RetryLimit = 1
    Operations <- VerificationOperations
SYMMETRY Symmetry
INVARIANTS
    OwnerHeld
PROPERTIES
    ImplementsRoster
