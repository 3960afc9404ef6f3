SPECIFICATION Spec
CONSTANTS
    fay = fay
    ben = ben
    t1 = t1
    t2 = t2
    slug1 = slug1
    key1 = key1
    Nobody = Nobody
    NoSlug = NoSlug
    NoKey = NoKey
    NoTx = NoTx
    Accounts <- Two
    Founder = fay
    Slugs = {slug1}
    Keys = {key1}
    Requests <- Asked
    Txs <- TwoTxs
    Ceiling = 1
    MaxIds = 2
    MaxDepartures = 1
SYMMETRY Symmetry
INVARIANTS
    TypeOK
    CountMatches
    SlugsUnique
PROPERTIES
    OncePerKey
    CeilingKept
    OwnersChoice
CHECK_DEADLOCK FALSE
