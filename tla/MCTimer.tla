-------------------------------- MODULE MCTimer --------------------------------
(* Two timers on one worker thread, for TLC. *)
EXTENDS Timer
=============================================================================
