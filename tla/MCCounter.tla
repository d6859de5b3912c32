------------------------------ MODULE MCCounter ------------------------------
(***************************************************************************)
(* Model-checking instance of Counter: the count starts at 41 (the value   *)
(* of the spec's example file), the channel holds 2 increments so that a   *)
(* full channel blocks ResetInstance, and 3 resets overflow it.            *)
(***************************************************************************)
EXTENDS Counter

MCStartCount == 41
MCBufCap == 2
MCMaxResets == 3

=============================================================================
