------------------------------ MODULE MCOsCore ------------------------------
(* OsCore with two tasks and two priority levels.                          *)
EXTENDS OsCore

CONSTANTS app, t1, t2

MCProc == {app, t1, t2}
=============================================================================
