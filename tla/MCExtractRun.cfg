SPECIFICATION LiveSpec
CONSTANTS
    w1 = w1
    w2 = w2
    NumModules = 3
    Unfetchable <- MCUnfetchable
    Stages <- MCStages
    Workers <- MCWorkers
    MaxRefusals = 2
INVARIANTS
    StoredRunIsHonest
    RefusalIsReported
PROPERTIES
    RowIsNeverUndone
    ExecuteReturns
