\* The registry under log writes, resets and plays in any order (wall mode),
\* with the active instance never left Idle.
CONSTANTS
    N <- MCN
    EvtCap <- MCEvtCap
    GraceOn = TRUE
SPECIFICATION Spec
INVARIANT TypeOK
INVARIANT ActiveNeverIdle
\* The manager and the controller can deadlock (see MCManager_stall.cfg).
CHECK_DEADLOCK FALSE
