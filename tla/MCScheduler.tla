---------------------------- MODULE MCScheduler ----------------------------
(***************************************************************************)
(* Two users; a sleep outlasts the intervals and the pause.                *)
(***************************************************************************)
EXTENDS Scheduler

CONSTANTS u1, u2

=============================================================================
