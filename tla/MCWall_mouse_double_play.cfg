\* With the mouse: a click queued before wallPlay ungrabbed the pointer is
\* handled after it and plays a second idle instance.
CONSTANTS
    N = 2
    ConcResets = 0
    Freeze = FALSE
    Affinity = FALSE
    GoToLocked = FALSE
    UseMouse = TRUE
    ClickCap = 2
    LogCap = 1
    MaxPending = 1
    QueueCap = 1
SPECIFICATION Spec
INVARIANT AtMostOneIngame
