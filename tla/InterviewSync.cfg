CONSTANTS
    Interviews = {j1}
    Requests = {q1, q2}
    None = None
    Targets = {"stopped_during_meeting"}
    MaxRestarts = 1
SYMMETRY RequestSymmetry
VIEW RestartView
SPECIFICATION SyncSpec
INVARIANT
    OnlyWhatHappened
PROPERTIES
    TerminalLock
    InviteLinksLive
CHECK_DEADLOCK FALSE
