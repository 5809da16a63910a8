SPECIFICATION Spec
CONSTANTS
    t = t
    d = d
    rep = rep
    Modules = {t, d}
    Replaced = {rep}
    Target = t
    Reaches <- MCReaches
    Shapes <- MCShapes
    Requests <- MCRequests
    Workers = 2
    CallGraphWorkers = 1
    MaxScans = 2
    MaxOtherRecords = 1
    MaxFaults = 1
CHECK_DEADLOCK FALSE
INVARIANTS
    StoredRunIsTrue
    NoFalseAllClear
    ServedAnswerIsCurrent
    UnmeasuredIsNotAnswered
PROPERTIES
    ScanEnds
