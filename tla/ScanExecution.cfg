CONSTANTS
    e1 = e1
    e2 = e2
    Executors <- TwoExecutors
    Tokens = {1, 2, 3}
    NumTools = 1
    MaxRetries = 1
    MaxFaults = 1
    MaxAge = 1
    StaleAfter = 0
    OrphanAfter = 0
    RelayAfter = 0
SPECIFICATION Spec
SYMMETRY Symmetry
INVARIANTS TypeOK TokenIffRunning HolderIsClaimant ReportsStayTrue FailureAccounted
PROPERTIES SettledIsFinal OwnershipKept
