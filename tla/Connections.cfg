CONSTANTS
    Meetings = {m1}
    Reasons = {manual_stop}
    MaxHistory = 4
    MaxTime = 0
    Calls = {c1, c2}
    StartAttempts = 2
    Capacity = 4
    Window = 2
    Hop = 1
    MaxQueue = 3
    MaxOutbox = 1
    MaxSamples = 9
    MaxStarts = 2
    MaxPending = 2
    GpuSockets = 3
    MaxChunks = 3
    MaxPings = 1
    Commands = {d1, d2}
    QueueLimit = 1
    MaxSockets = 3
    MaxBeats = 1
    Starts = {s1, s2}
    None = None
    Nothing = Nothing
    ClientClock = TRUE
    StartedAt = 50
    Latency = 2
    ClipWindow = 2
    Budget = 2
    RingMax = 15
    MaxBuffer = 6
    MinBuffer = 2
    Backoff = 2
    MaxInFlight = 2
    MaxPieces = 2
    ClipTime = 4
    MaxEpoch = 2
    MaxRing = 3
    Pages = {w1, w2, w3}
    Unset = Unset
SPECIFICATION ConnectionsSpec
INVARIANTS
    RecordingKept
    OwnReply
    SomebodyReconnects
    NothingOutlivesItsSession
    QuietAfterInterruption
    ClipsCounted
    RingHoldsUnread
    HeardAndShownInOrder
PROPERTIES
    PictureGoesForward
CHECK_DEADLOCK FALSE
