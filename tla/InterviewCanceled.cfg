CONSTANTS
    Interviews = {j1}
    Requests = {q1}
    None = None
    Targets = {"in_meeting"}
    MaxRestarts = 0
SPECIFICATION SyncSpec
INVARIANT
    NothingSentAfterCanceled
CHECK_DEADLOCK FALSE
