SPECIFICATION Spec
CONSTANTS
    p1 = p1
    p2 = p2
    t1 = t1
    t2 = t2
    Procs = {p1, p2}
    Requests <- PlainRequests
    Findings <- CleanOrPartial
    Inputs = {t1}
    MaxWalks = 3
CHECK_DEADLOCK FALSE
INVARIANTS
    AuditedWalksStand
