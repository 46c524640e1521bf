----------------------------- MODULE MCThrottler -----------------------------
(* The throttle mechanism for TLC.  The cores share nothing in Throttler   *)
(* (each has its own flag, thread, interrupt work and calls), so one core  *)
(* shows every interleaving that bears on liveness.                        *)
EXTENDS Throttler

MCCores == {"cpu1"}
=============================================================================
