\* The counter with its shutdown path: the drained count is written, the ledger is refined,
\* and Controller.Run always returns.
CONSTANTS
    StartCount <- MCStartCount
    BufCap <- MCBufCap
    MaxResets <- MCMaxResets
SPECIFICATION FairSpec
INVARIANT TypeOK
INVARIANT DrainedCountSaved
PROPERTY ShutdownCompletes
PROPERTY LedgerSpec
\* After the process exits nothing is enabled.
CHECK_DEADLOCK FALSE
