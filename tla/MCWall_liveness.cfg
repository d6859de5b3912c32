\* With the mouse, without the reset cap and idle freezing, with CPU affinity classes and
\* auto-play of locked instances: every reset completes, and a locked
\* instance in the preview keeps the high class.
CONSTANTS
    N = 2
    ConcResets = 0
    Freeze = FALSE
    Affinity = TRUE
    GoToLocked = TRUE
    UseMouse = TRUE
    ClickCap = 1
    LogCap = 1
    MaxPending = 1
    QueueCap = 1
SPECIFICATION FairSpec
INVARIANT LockedPreviewHigh
PROPERTY ResetsComplete
