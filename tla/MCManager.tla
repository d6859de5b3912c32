------------------------------ MODULE MCManager ------------------------------
(***************************************************************************)
(* Model-checking instance of Manager: two instances, so that one can be   *)
(* superseded by the other, and an evtch of two Updates, small enough for  *)
(* a burst of log writes to fill it.                                       *)
(***************************************************************************)
EXTENDS Manager

MCN == 2
MCEvtCap == 2

=============================================================================
