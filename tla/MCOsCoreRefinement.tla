------------------------- MODULE MCOsCoreRefinement -------------------------
(* OsCoreRefinement with three tasks and one priority level.               *)
EXTENDS OsCoreRefinement

CONSTANTS app, t1, t2, t3

MCProc == {app, t1, t2, t3}
=============================================================================
