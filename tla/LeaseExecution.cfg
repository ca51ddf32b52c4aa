CONSTANTS
    w1 = w1
    w2 = w2
    Workers <- TwoWorkers
    MaxExecutions = 2
    NumTools = 1
    MaxFaults = 1
    Grace = 0
    MaxAge = 1
    StaleAfter = 0
    OrphanAfter = 0
    RelayAfter = 0
SPECIFICATION Spec
SYMMETRY Symmetry
INVARIANTS TypeOK CompletedIsStored
PROPERTIES ReportedRunsFinal OwnershipKept
