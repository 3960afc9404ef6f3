SPECIFICATION Spec
CONSTANTS
    r1 = r1
    r2 = r2
    NoRequest = NoRequest
    Requests <- Two
    Kinds <- SessionKinds
    MaxSessions = 3
    MaxChanges = 2
    MaxSecrets = 1
    MaxStep = 2
    MaxKey = 0
    MaxFailures = 2
SYMMETRY Symmetry
INVARIANTS
    TypeOK
    OldSessionsEnd
    LevelFits
    CodeOnce
CHECK_DEADLOCK FALSE
