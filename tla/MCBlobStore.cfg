CONSTANTS
    g1 = g1
    g2 = g2
    p1 = p1
    p2 = p2
    Goroutines = {g1, g2}
    Procs = {p1, p2}
    Placements <- MCPlacements
    MaxFiles = 4
    MaxHarm = 1
    MaxCalls = 4
CHECK_DEADLOCK FALSE
SPECIFICATION Spec
INVARIANTS
    VerdictsAreTrue
    PutMeansHeld
    TempsAreOwned
