----------------------------- MODULE ResetLedger -----------------------------
(***************************************************************************)
(* What the reset counter promises, without its channel, goroutine or      *)
(* clock: while the controller runs, resets are counted one at a time; the *)
(* count file only ever moves forward, to a number of resets already       *)
(* counted; once the controller has stopped nothing more is counted, and   *)
(* once the process has exited the file no longer changes.                 *)
(***************************************************************************)
EXTENDS Naturals

CONSTANT StartCount   \* the count the file held when the program started

VARIABLES
    counted,  \* resets counted so far, StartCount included
    saved,    \* the number in the count file
    phase     \* "running", "waiting" (shutting down), "exited"

ledgerVars == <<counted, saved, phase>>

LedgerInit ==
    /\ counted = StartCount
    /\ saved = StartCount
    /\ phase = "running"

\* A reset is counted.
Count ==
    /\ phase = "running"
    /\ counted' = counted + 1
    /\ UNCHANGED <<saved, phase>>

\* The file is rewritten with a larger count, at most the counted one.
Save ==
    /\ phase # "exited"
    /\ \E n \in saved + 1 .. counted : saved' = n
    /\ UNCHANGED <<counted, phase>>

\* The controller stops taking resets.
Stop ==
    /\ phase = "running"
    /\ phase' = "waiting"
    /\ UNCHANGED <<counted, saved>>

\* The process exits.
Exit ==
    /\ phase = "waiting"
    /\ phase' = "exited"
    /\ UNCHANGED <<counted, saved>>

LedgerNext == Count \/ Save \/ Stop \/ Exit

Spec == LedgerInit /\ [][LedgerNext]_ledgerVars

=============================================================================
