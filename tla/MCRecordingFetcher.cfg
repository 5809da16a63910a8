CONSTANTS
    Callers = {p1, p2, p3}
    Coords = {c1, c2}
    Records = {r1}
    NoRecord = NoRecord
SPECIFICATION FairSpec
CHECK_DEADLOCK FALSE
INVARIANTS
    TypeOK
    SingleFlight
PROPERTIES
    ImplementsFetchOnce
    NobodyStranded
