CONSTANTS
    Meetings = {m1}
    Reasons = {manual_stop}
    MaxHistory = 4
    MaxTime = 1
    QueueLimit = 3
    MaxPassed = 1
    Events = {e1, e2}
    Passes = {i1, i2}
    MaxAttempts = 2
    MaxRestarts = 1
    StatusCodes = {200, 302}
SPECIFICATION RestartsSpec
INVARIANTS
    SavedIsPast
    WebhookNeverAheadOfRecord
    HealthyOneOutcome
    CaughtUp
    DeliveredMeansAccepted
SYMMETRY Alike
CHECK_DEADLOCK FALSE
