\* Keyboard only, with a cap of one concurrent reset, idle freezing and
\* auto-play of locked instances.  The loop may really stop (blocked on a
\* full toUnfreeze).
CONSTANTS
    N = 2
    ConcResets = 1
    Freeze = TRUE
    Affinity = FALSE
    GoToLocked = TRUE
    UseMouse = FALSE
    ClickCap = 1
    LogCap = 1
    MaxPending = 1
    QueueCap = 2
SPECIFICATION Spec
INVARIANT AtMostOneIngame
INVARIANT FrozenQueued
PROPERTY NoResetOfLocked
CHECK_DEADLOCK FALSE
