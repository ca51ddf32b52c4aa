CONSTANTS
    e1 = e1
    e2 = e2
    Executors <- OneExecutor
    Tokens = {1, 2}
    NumTools = 1
    MaxRetries = 1
    MaxFaults = 2
    MaxAge = 1
    StaleAfter = 0
    OrphanAfter = 0
    RelayAfter = 0
SPECIFICATION FairSpec
PROPERTIES RunningEnds QueuedServed
