------------------------------- MODULE Counter -------------------------------
(***************************************************************************)
(* The reset counter of the controller (src/manager/worker.go, counter and *)
(* Controller.Run): ResetInstance sends on the buffered inc channel, the   *)
(* counter goroutine adds each increment to its count and rewrites the     *)
(* count file at most once a second, and on shutdown it drains the channel *)
(* and writes the final count before calling wg.Done.  Controller.Run      *)
(* starts the goroutine with `go`, and on return cancels the context and   *)
(* waits on the WaitGroup; the process exits when Run returns.             *)
(*                                                                         *)
(* Time is abstracted to one flag, late: more than a second has passed     *)
(* since the last write.  The counter is enabled (conf.ResetCount is set). *)
(***************************************************************************)
EXTENDS Naturals

CONSTANTS
    StartCount, \* the count read from the file by newCounter
    BufCap,     \* capacity of the inc channel (64 in the code)
    MaxResets   \* model bound: successful resets during the run

ASSUME CounterAssumption ==
    /\ StartCount \in Nat
    /\ BufCap \in Nat \ {0}
    /\ MaxResets \in Nat

VARIABLES
    inc,     \* increments buffered in c.inc
    count,   \* c.count
    file,    \* the number the count file holds
    late,    \* time.Since(c.lastWrite) > time.Second
    cpc,     \* the counter goroutine: "spawned" (before wg.Add), "loop",
             \* "drain" (ctx is done), "done" (wg.Done called)
    wg,      \* the WaitGroup's counter
    ctl,     \* Controller.Run: "running" (in c.run), "waiting" (in the
             \* deferred wg.Wait), "exited" (Run has returned)
    resets   \* successful ResetInstance calls so far (history)

vars == <<inc, count, file, late, cpc, wg, ctl, resets>>

-----------------------------------------------------------------------------
\* newCounter read StartCount from the file; Controller.Run has started the
\* counter goroutine and entered its loop.
Init ==
    /\ inc = 0
    /\ count = StartCount
    /\ file = StartCount
    /\ late = FALSE
    /\ cpc = "spawned"
    /\ wg = 0
    /\ ctl = "running"
    /\ resets = 0

\* counter.write: rewrite the file with the count and restart the second.
write(n) == file' = n /\ late' = FALSE

\* counter.increment: count one reset, writing if a second has passed.
increment ==
    /\ count' = count + 1
    /\ IF late THEN write(count + 1) ELSE UNCHANGED <<file, late>>

\* counter.Increment: a send on the buffered channel, blocking while full.
Increment ==
    /\ inc < BufCap
    /\ inc' = inc + 1

\* Fault variant of ResetInstance: a reset is still counted after c.run
\* has returned (the frontend outliving the controller's loop).
ResetInstanceAfterShutdown ==
    /\ ctl # "exited"
    /\ resets < MaxResets
    /\ Increment
    /\ resets' = resets + 1
    /\ UNCHANGED <<count, file, late, cpc, wg, ctl>>

\* Controller.ResetInstance: the manager accepted the reset, count it.
ResetInstance ==
    /\ ctl = "running"
    /\ resets < MaxResets
    /\ Increment
    /\ resets' = resets + 1
    /\ UNCHANGED <<count, file, late, cpc, wg, ctl>>

\* A second passes.
Tick ==
    /\ ctl # "exited"
    /\ ~late
    /\ late' = TRUE
    /\ UNCHANGED <<inc, count, file, cpc, wg, ctl, resets>>

\* counter.Run starts: wg.Add(1) inside the goroutine.
Spawn ==
    /\ ctl # "exited"
    /\ cpc = "spawned"
    /\ cpc' = "loop"
    /\ wg' = wg + 1
    /\ UNCHANGED <<inc, count, file, late, ctl, resets>>

\* case <-c.inc in the main select.
Receive ==
    /\ ctl # "exited"
    /\ cpc = "loop"
    /\ inc > 0
    /\ inc' = inc - 1
    /\ increment
    /\ UNCHANGED <<cpc, wg, ctl, resets>>

\* Fault variant of Cancelled: the deferred cancel runs after the deferred
\* wg.Wait (the two defers in the other order), so the context is only
\* cancelled once Run has returned.
CancelledAfterWait ==
    /\ cpc = "loop"
    /\ ctl = "exited"
    /\ cpc' = "drain"
    /\ UNCHANGED <<inc, count, file, late, wg, ctl, resets>>

\* case <-ctx.Done(): sleep, then drain.
Cancelled ==
    /\ ctl # "exited"
    /\ cpc = "loop"
    /\ ctl # "running"
    /\ cpc' = "drain"
    /\ UNCHANGED <<inc, count, file, late, wg, ctl, resets>>

\* case <-c.inc in the draining select.
DrainOne ==
    /\ ctl # "exited"
    /\ cpc = "drain"
    /\ inc > 0
    /\ inc' = inc - 1
    /\ increment
    /\ UNCHANGED <<cpc, wg, ctl, resets>>

\* Fault variant of DrainEnd: return on ctx.Done without draining.
DrainEndEarly ==
    /\ ctl # "exited"
    /\ cpc = "drain"
    /\ write(count)
    /\ wg' = wg - 1
    /\ cpc' = "done"
    /\ UNCHANGED <<inc, count, ctl, resets>>

\* Fault variant of DrainEnd: wg.Done is called twice (once more after the
\* deferred one), which takes the WaitGroup negative and panics in Go.
DrainEndDoubleDone ==
    /\ ctl # "exited"
    /\ cpc = "drain"
    /\ inc = 0
    /\ write(count)
    /\ wg' = wg - 2
    /\ cpc' = "done"
    /\ UNCHANGED <<inc, count, ctl, resets>>

\* default: the channel is empty; return, and the deferred function writes
\* the count and calls wg.Done.
DrainEnd ==
    /\ ctl # "exited"
    /\ cpc = "drain"
    /\ inc = 0
    /\ write(count)
    /\ wg' = wg - 1
    /\ cpc' = "done"
    /\ UNCHANGED <<inc, count, ctl, resets>>

\* c.run returns (a signal, a fatal error): the deferred cancel runs and
\* Run blocks in the deferred wg.Wait.
Shutdown ==
    /\ ctl = "running"
    /\ ctl' = "waiting"
    /\ UNCHANGED <<inc, count, file, late, cpc, wg, resets>>

\* wg.Wait returns, Run returns and the process exits with every goroutine.
Exit ==
    /\ ctl = "waiting"
    /\ wg = 0
    /\ ctl' = "exited"
    /\ UNCHANGED <<inc, count, file, late, cpc, wg, resets>>

Next ==
    \/ ResetInstance \/ Tick \/ Spawn \/ Receive \/ Cancelled
    \/ DrainOne \/ DrainEnd \/ Shutdown \/ Exit

\* The Go scheduler runs every runnable goroutine; wg.Wait returns once the
\* counter is zero.  Resets, seconds and the shutdown are not assumed.
Fairness ==
    /\ WF_vars(Spawn) /\ WF_vars(Receive) /\ WF_vars(Cancelled)
    /\ WF_vars(DrainOne) /\ WF_vars(DrainEnd) /\ WF_vars(Exit)

Spec == Init /\ [][Next]_vars
FairSpec == Spec /\ Fairness

-----------------------------------------------------------------------------
(* Properties *)

TypeOK ==
    /\ inc \in 0..BufCap
    /\ count \in Nat
    /\ file \in Nat
    /\ late \in BOOLEAN
    /\ cpc \in {"spawned", "loop", "drain", "done"}
    /\ wg \in {0, 1}
    /\ ctl \in {"running", "waiting", "exited"}
    /\ resets \in 0..MaxResets

\* When the counter goroutine has finished, the file holds every reset the
\* controller counted: the drain after ctx.Done misses no increment that
\* ResetInstance sent before c.run returned.
DrainedCountSaved ==
    cpc = "done" => file = StartCount + resets

\* Once c.run has returned, Controller.Run eventually returns: the counter
\* drains, writes and calls wg.Done, and wg.Wait does not hang.
ShutdownCompletes ==
    ctl = "waiting" ~> ctl = "exited"

\* When the process exits the count file holds every counted reset: the
\* final shutdown flush always happens.
FinalCountSaved ==
    ctl = "exited" => file = StartCount + resets

\* The inductive strengthening of TypeOK and DrainedCountSaved: every
\* counted reset is either in the channel or in the count, the WaitGroup
\* counts the running counter goroutine, the drain only starts after c.run
\* has returned, and a finished counter has written its whole count.
CounterInv ==
    /\ TypeOK
    /\ count + inc = StartCount + resets
    /\ wg = IF cpc \in {"loop", "drain"} THEN 1 ELSE 0
    /\ cpc \in {"drain", "done"} => ctl # "running"
    /\ cpc = "done" => inc = 0 /\ file = count
    /\ file =< count

\* The abstract ledger the counter implements: the resets counted are the
\* successful ResetInstance calls, the ledger's file is the count file and
\* its phase is Controller.Run's.
Ledger == INSTANCE ResetLedger
              WITH counted <- StartCount + resets, saved <- file, phase <- ctl

\* The counter refines the ledger: resets are counted only while c.run
\* runs, every write of the count file (counter.write from increment or
\* from the final flush) moves it forward to a number of resets that
\* ResetInstance has already counted, and nothing changes the file once
\* the process has exited.
LedgerSpec == Ledger!Spec

=============================================================================
