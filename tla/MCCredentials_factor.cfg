SPECIFICATION Spec
CONSTANTS
    r1 = r1
    r2 = r2
    NoRequest = NoRequest
    Requests <- Two
    Kinds <- FactorKinds
    MaxSessions = 1
    MaxChanges = 0
    MaxSecrets = 2
    MaxStep = 2
    MaxKey = 1
    MaxFailures = 1
SYMMETRY Symmetry
INVARIANTS
    ActivatedIsVerified
    CodeOnce
CHECK_DEADLOCK FALSE
