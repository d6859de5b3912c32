------------------------------- MODULE MCWall -------------------------------
(* Model-checking instance of the wall orchestrator.  Each MCWall_*.cfg     *)
(* gives the constants one configuration of resetti's settings: two        *)
(* instances (the fewest for which resets compete for the cap), one or two *)
(* undelivered log updates per instance (a reset racing an update already  *)
(* in flight), one sleeping timer goroutine per instance and kind, and,    *)
(* with the mouse, one or two queued clicks.                               *)
EXTENDS Wall

=============================================================================
