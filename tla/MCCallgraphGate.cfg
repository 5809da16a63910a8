SPECIFICATION ChildSpec
CONSTANTS
    w1 = w1
    w2 = w2
    Workers <- MCWorkers
    Watched <- MCWatched
    Budget = 1
    CPUCap = 2
    Hosts <- MCHosts
    Requests <- MCRequests
    MaxAnalyses = 3
    MaxHeld = 1
INVARIANTS
    TypeOK
    CountsAreExact
    ShortHostRunsOne
    ReserveIsKept
    EndIsTrue
PROPERTIES
    AllAnalysesEnd
