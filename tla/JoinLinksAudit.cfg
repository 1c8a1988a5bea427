CONSTANTS
    Links = {l1, l2}
    Requests = {r1, r2}
    None = None
    MaxTtl = 1
    MaxTime = 1
    Cap = 2
SPECIFICATION LinksSpec
INVARIANT
    AuditComplete
CHECK_DEADLOCK FALSE
