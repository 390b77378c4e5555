---------------------------- MODULE MCOsInterrupt ----------------------------
(* OsInterrupt with one software interrupt and two tasks.                  *)
EXTENDS OsInterrupt

CONSTANTS app, t1, t2, i1

MCProc == {app, t1, t2, i1}
MCInterrupt == {i1}
=============================================================================
