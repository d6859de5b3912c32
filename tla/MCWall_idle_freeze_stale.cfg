\* Idle freezing without the cap: a stale idle update freezes a reset.
CONSTANTS
    N = 2
    ConcResets = 0
    Freeze = TRUE
    Affinity = FALSE
    GoToLocked = FALSE
    UseMouse = FALSE
    ClickCap = 1
    LogCap = 2
    MaxPending = 1
    QueueCap = 1
SPECIFICATION Spec
INVARIANT IdleFreezeOnlyLoaded
