\* Cap of one: every resetting instance can end up force-frozen.
CONSTANTS
    N = 2
    ConcResets = 1
    Freeze = FALSE
    Affinity = FALSE
    GoToLocked = FALSE
    UseMouse = FALSE
    ClickCap = 1
    LogCap = 2
    MaxPending = 1
    QueueCap = 2
SPECIFICATION FairSpec
PROPERTY ResetsComplete
