SPECIFICATION Spec
CONSTANTS
    ann = ann
    bob = bob
    home = home
    work = work
    spare = spare
    job1 = job1
    NoAddress = NoAddress
    Accounts <- Both
    Movers = {ann}
    Addresses <- Three
    Home <- OneHome
    Proven = {FALSE}
    Jobs <- OneJob
    MaxIssued = 2
INVARIANTS
    TypeOK
    NoticeFirst
    ReservationHolds
PROPERTIES
    LinkOutlives
CHECK_DEADLOCK FALSE
