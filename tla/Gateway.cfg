CONSTANTS
    Participants = {p1, p2, p3, p4}
    NoOwner = NoOwner
    PendingLimit = 2
    RejoinWindow = 1
    MaxTime = 3
    None = None
    Calls = {c1, c2, c3}
    Keys = {k1, k2}
    NoKey = NoKey
    MaxEvents = 2
    MaxCrashes = 1
    Commands = {d1, d2}
    LockOwners = {o1, o2}
    Nobody = Nobody
    Links = {l1, l2}
    LinkRequests = {r1, r2}
    MaxTtl = 2
    LinkTime = 1
    Cap = 2
    Tickets = {t1, t2}
    Consumers = {u1, u2}
    Nothing = Nothing
    TicketTtl = 2
    LastTime = 4
    Sessions = {s1, s2}
    NoSession = NoSession
    Idle = 1
    SessionTime = 3
    SessionEvents = 1
    SessionRestarts = 1
SPECIFICATION GatewaySpec
SYMMETRY GatewaySymmetry
INVARIANTS
    OneSeat
    QueueInOrder
    AppendedOnce
    CommandsInOrder
    LinksKept
    RedeemedOnce
    SavedNeverAhead
PROPERTIES
    ActiveOwnerKept
    NothingForNoReason
CHECK_DEADLOCK FALSE
