----------------------------- MODULE MC_thread -----------------------------
(* Constants of the run of the services thread: p1 is a thread that posts,   *)
(* t1 and t2 are timers.                                                     *)
EXTENDS FskThread

CONSTANTS p1, t1, t2
=============================================================================
