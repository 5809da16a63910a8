SPECIFICATION Spec
CONSTANTS
    p1 = p1
    p2 = p2
    t1 = t1
    t2 = t2
    Procs = {p1}
    Requests <- AllRequests
    Findings <- AllFindings
    Inputs = {t1, t2}
    MaxWalks = 3
SYMMETRY Trees
CHECK_DEADLOCK FALSE
INVARIANTS
    ServedWalksFit
    AuditedWalkIsHeld
    IdentityIsKept
