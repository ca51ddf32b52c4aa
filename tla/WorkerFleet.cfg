CONSTANTS
    w1 = w1
    w2 = w2
    Workers <- PrivateWorker
    Private <- PrivateWorker
    StaleAfter = 2
    MaxAge = 3
    MaxOutages = 2
SPECIFICATION FairSpec
INVARIANTS TypeOK
PROPERTIES OrderlyAuthority LiveNotReaped DeadSuspended
