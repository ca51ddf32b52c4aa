CONSTANTS
    w1 = w1
    w2 = w2
    Workers <- OneWorker
    MaxExecutions = 2
    NumTools = 1
    MaxFaults = 1
    Grace = 0
    MaxAge = 1
    StaleAfter = 0
    OrphanAfter = 0
    RelayAfter = 0
SPECIFICATION FairSpec
PROPERTIES LeaseEnds RunsSettle
