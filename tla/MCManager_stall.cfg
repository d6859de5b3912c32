\* Manager.Run sends on evtch while holding m.mu.
CONSTANTS
    N <- MCN
    EvtCap <- MCEvtCap
    GraceOn = TRUE
SPECIFICATION Spec
INVARIANT NoLockedSendStall
