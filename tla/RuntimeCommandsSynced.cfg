CONSTANTS
    Commands = {k1, k2}
    LockOwners = {o1, o2}
    Nobody = Nobody
SPECIFICATION CommandsSpec
INVARIANT
    SyncedMeansTaken
CHECK_DEADLOCK FALSE
