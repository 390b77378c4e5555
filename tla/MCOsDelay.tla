------------------------------ MODULE MCOsDelay ------------------------------
(* OsDelay with two tasks.                                                 *)
EXTENDS OsDelay

CONSTANTS app, t1, t2

MCProc == {app, t1, t2}
=============================================================================
