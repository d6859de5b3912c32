---------------------------- MODULE CounterProofs ----------------------------
(***************************************************************************)
(* Proofs about the reset counter of Counter.tla, for every start count,   *)
(* channel capacity and number of resets.                                  *)
(***************************************************************************)
EXTENDS Counter, TLAPS

USE CounterAssumption DEF CounterAssumption

\* CounterInv holds initially and is preserved by every step of the
\* controller, the counter goroutine and the clock.
LEMMA CounterInvInductive == Spec => []CounterInv
<1>1. Init => CounterInv
  <2> SUFFICES ASSUME Init PROVE CounterInv
    OBVIOUS
  <2>0. late \in BOOLEAN
    BY DEF Init
  <2>1. TypeOK
    BY <2>0 DEF Init, TypeOK
  <2>2. count + inc = StartCount + resets
    BY DEF Init
  <2> QED
    BY <2>1, <2>2 DEF Init, CounterInv
<1>2. CounterInv /\ [Next]_vars => CounterInv'
  <2> SUFFICES ASSUME CounterInv, [Next]_vars PROVE CounterInv'
    OBVIOUS
  <2>0. late' \in BOOLEAN
    BY Zenon DEF CounterInv, TypeOK, Next, ResetInstance, Tick, Spawn, Receive,
                 Cancelled, DrainOne, DrainEnd, Shutdown, Exit, increment,
                 write, vars
  <2> USE <2>0 DEF CounterInv, TypeOK
  <2>1. CASE ResetInstance
    BY <2>1 DEF ResetInstance, Increment
  <2>2. CASE Tick
    BY <2>2 DEF Tick
  <2>3. CASE Spawn
    BY <2>3 DEF Spawn
  <2>4. CASE Receive
    BY <2>4 DEF Receive, increment, write
  <2>5. CASE Cancelled
    BY <2>5 DEF Cancelled
  <2>6. CASE DrainOne
    BY <2>6 DEF DrainOne, increment, write
  <2>7. CASE DrainEnd
    BY <2>7 DEF DrainEnd, write
  <2>8. CASE Shutdown
    BY <2>8 DEF Shutdown
  <2>9. CASE Exit
    BY <2>9 DEF Exit
  <2>10. CASE UNCHANGED vars
    BY <2>10 DEF vars
  <2> QED
    BY <2>1, <2>2, <2>3, <2>4, <2>5, <2>6, <2>7, <2>8, <2>9, <2>10 DEF Next
<1> QED
  BY <1>1, <1>2, PTL DEF Spec

\* The counter's variables keep their types: the channel never holds more
\* than its capacity and the WaitGroup counter never goes negative.
THEOREM CounterTypeCorrect == Spec => []TypeOK
<1>1. CounterInv => TypeOK
  BY DEF CounterInv
<1> QED
  BY <1>1, CounterInvInductive, PTL

\* Whenever the counter goroutine has finished, the count file holds the
\* start count plus every reset the controller counted: the drain after
\* ctx.Done misses no increment sent before c.run returned.
THEOREM DrainedCountCorrect == Spec => []DrainedCountSaved
<1>1. CounterInv => DrainedCountSaved
  BY DEF CounterInv, TypeOK, DrainedCountSaved
<1> QED
  BY <1>1, CounterInvInductive, PTL

\* The counter implements the abstract ledger of ResetLedger.tla under the
\* mapping counted = StartCount + resets, saved = file, phase = ctl:
\* ResetInstance counts, a write of the count file (from increment or the
\* final flush) saves a count not above the counted one, c.run's return
\* stops and Run's return exits; every other step of the counter goroutine
\* and of the clock leaves the ledger as it is.
THEOREM CounterRefinesLedger == Spec => LedgerSpec
<1>1. Init => Ledger!LedgerInit
  BY DEF Init, Ledger!LedgerInit
<1>2. CounterInv /\ [Next]_vars => [Ledger!LedgerNext]_Ledger!ledgerVars
  <2> SUFFICES ASSUME CounterInv, [Next]_vars
               PROVE [Ledger!LedgerNext]_Ledger!ledgerVars
    OBVIOUS
  <2> USE DEF CounterInv, TypeOK
  <2> DEFINE Stutter == UNCHANGED Ledger!ledgerVars
  <2>1. CASE ResetInstance
    BY <2>1 DEF ResetInstance, Increment, Ledger!LedgerNext, Ledger!Count
  <2>2. CASE Tick \/ Spawn \/ Cancelled \/ UNCHANGED vars
    BY <2>2 DEF Tick, Spawn, Cancelled, vars, Ledger!ledgerVars
  <2>3. CASE Receive \/ DrainOne
    <3>1. /\ ctl # "exited" /\ inc > 0
          /\ UNCHANGED <<ctl, resets>>
          /\ IF late THEN write(count + 1) ELSE UNCHANGED <<file, late>>
      BY <2>3 DEF Receive, DrainOne, increment
    <3>2. CASE late
      <4>1. file' = count + 1 /\ count + 1 \in file + 1 .. StartCount + resets
        BY <3>1, <3>2 DEF write
      <4> QED
        BY <3>1, <4>1 DEF Ledger!LedgerNext, Ledger!Save
    <3>3. CASE ~late
      BY <3>1, <3>3 DEF Ledger!ledgerVars
    <3> QED
      BY <3>2, <3>3
  <2>4. CASE DrainEnd
    <3>1. /\ ctl # "exited" /\ file' = count
          /\ UNCHANGED <<ctl, resets>>
      BY <2>4 DEF DrainEnd, write
    <3>2. CASE file = count
      BY <3>1, <3>2 DEF Ledger!ledgerVars
    <3>3. CASE file # count
      <4>1. count \in file + 1 .. StartCount + resets
        BY <3>3
      <4> QED
        BY <3>1, <4>1 DEF Ledger!LedgerNext, Ledger!Save
    <3> QED
      BY <3>2, <3>3
  <2>5. CASE Shutdown
    BY <2>5 DEF Shutdown, Ledger!LedgerNext, Ledger!Stop
  <2>6. CASE Exit
    BY <2>6 DEF Exit, Ledger!LedgerNext, Ledger!Exit
  <2> QED
    BY <2>1, <2>2, <2>3, <2>4, <2>5, <2>6 DEF Next
<1> QED
  BY <1>1, <1>2, CounterInvInductive, PTL DEF Spec, LedgerSpec, Ledger!Spec


=============================================================================
