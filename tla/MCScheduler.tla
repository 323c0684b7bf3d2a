---------------------------- MODULE MCScheduler ----------------------------
(* Small instances of Scheduler for TLC. *)
EXTENDS Scheduler

CONSTANTS a, b, c, s, s2

Boot2 == <<s, a, c>>
Boot3 == <<s, a, s2, c>>
Boot4 == <<s, a, b, c>>
Boot5 == <<s, a, b, s2, c>>
=============================================================================
