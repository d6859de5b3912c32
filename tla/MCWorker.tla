------------------------------ MODULE MCWorker ------------------------------
(***************************************************************************)
(* Model-checking instance of Worker.  The model has no constants: the     *)
(* markers, states and goroutines are all finite already.                  *)
(***************************************************************************)
EXTENDS Worker

=============================================================================
