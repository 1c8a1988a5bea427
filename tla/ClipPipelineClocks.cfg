CONSTANTS
    Nothing = Nothing
    ClientClock = FALSE
    StartedAt = 50
    Latency = 2
    Window = 2
    Budget = 2
    RingMax = 15
    MaxBuffer = 6
    MinBuffer = 2
    Backoff = 2
    MaxInFlight = 2
    MaxPieces = 2
    MaxTime = 5
    MaxEpoch = 2
    MaxRing = 4
SPECIFICATION ClipsSpec
INVARIANTS
    SpeechIsInTheWindow
CHECK_DEADLOCK FALSE
