SPECIFICATION FairSpec
CONSTANTS
    Mails = {TRUE, FALSE}
    MaxRenewals = 3
    MaxTickets = 3
    RetryLimit = 1
    MaxFailures = 2
INVARIANTS
    TypeOK
    ProofIsMail
    MailIsProof
PROPERTIES
    LinkLasts
    MailArrives
CHECK_DEADLOCK FALSE
