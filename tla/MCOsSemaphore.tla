---------------------------- MODULE MCOsSemaphore ----------------------------
(* OsSemaphore with three tasks.                                           *)
EXTENDS OsSemaphore

CONSTANTS app, t1, t2, t3

MCProc == {app, t1, t2, t3}
=============================================================================
