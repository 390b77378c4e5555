------------------------- MODULE MCOsInterruptEvent -------------------------
(* OsInterruptEvent with two software interrupts and one task.             *)
EXTENDS OsInterruptEvent

CONSTANTS app, t1, i1, i2

MCProc == {app, t1, i1, i2}
MCInterrupt == {i1, i2}
=============================================================================
