\* The run goroutine, Focus and the Start/Stop handshake in any order, with
\* the scheduling fairness of the run goroutine.
SPECIFICATION FairSpec
INVARIANT TypeOK
PROPERTY RunningKeepsIngame
PROPERTY StopReturns
