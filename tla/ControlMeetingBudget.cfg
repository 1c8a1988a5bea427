CONSTANTS
    Meetings = {m1}
    Reasons = {"manual_stop"}
    MaxHistory = 5
    MaxTime = 0
    Starts = {p1, p2}
    NoSession = NoSession
    Control = m1
SPECIFICATION FairControlSpec
PROPERTIES
    WallClockBudget
CHECK_DEADLOCK FALSE
