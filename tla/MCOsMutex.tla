------------------------------ MODULE MCOsMutex ------------------------------
(* OsMutex with three tasks, and the queue that the active list implements. *)
EXTENDS OsMutex, OsCoreRefinement

CONSTANTS app, t1, t2, t3

MCProc == {app, t1, t2, t3}
=============================================================================
