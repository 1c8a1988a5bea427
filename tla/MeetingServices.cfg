CONSTANTS
    Meetings = {m1, m2}
    Reasons = {"manual_stop"}
    MaxHistory = 5
    MaxTime = 2
    Starts = {p1, p2}
    NoSession = NoSession
    Control = m1
    Sources = {r1, r2}
    NoSource = NoSource
    MaxIndex = 2
    Events = {e1, e2}
    Passes = {i1, i2}
    MaxAttempts = 2
    MaxRestarts = 0
    StatusCodes = {200, 302, 404, 429, 500}
    Jobs = {j1}
    NoRecord = NoRecord
    Wall = 1
    Stale = 3
    Horizon = 5
SPECIFICATION ServicesSpec
INVARIANTS
    ServicesTypeOK
    EveryTransitionReported
    PostProcessingIffFinished
    NothingOutlivesItsMeeting
    ControlInOrder
    RunningIsOwned
    SnapshotTellsTheSession
    QuestionsCounted
    RetriesKeepTheirPolicy
PROPERTIES
    ImplementsOutcome
    FinalIsFinal
    WatchedMeetingEnds
    EventuallySettled
    WorkEnds
CHECK_DEADLOCK FALSE
