---------------------------- MODULE MCScheduler ----------------------------
(***************************************************************************)
(* For TLC: two threads of the web server.                                 *)
(***************************************************************************)
EXTENDS Scheduler, TLC

CONSTANTS c1, c2
=============================================================================
