------------------------------ MODULE MCOsTask ------------------------------
(* OsTask with three tasks and a heap of three stacks.                       *)
EXTENDS OsTask

CONSTANTS app, t1, t2, t3, b1, b2, b3

MCProc  == {app, t1, t2, t3}
MCBlock == {b1, b2, b3}
MCWalkers == {t1}
=============================================================================
