\* The final flush on every exit.
CONSTANTS
    StartCount <- MCStartCount
    BufCap <- MCBufCap
    MaxResets <- MCMaxResets
SPECIFICATION Spec
INVARIANT FinalCountSaved
CHECK_DEADLOCK FALSE
