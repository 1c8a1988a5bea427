CONSTANTS
    Meetings = {m1}
    Reasons = {manual_stop}
    MaxHistory = 5
    MaxTime = 1
    QueueLimit = 5
    MaxPassed = 0
SPECIFICATION RecoverySpec
PROPERTY
    SurvivesRestart
CHECK_DEADLOCK FALSE
